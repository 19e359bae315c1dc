--------------------------- MODULE FlakybotProofs ---------------------------
(***************************************************************************)
(* flakybot, for any number of tests, workers, builds, commits, issues and *)
(* upsets: the types, that a failure is known once its report is handled,  *)
(* that it is noted once, and that a flaky test keeps an open issue.       *)
(***************************************************************************)
EXTENDS Flakybot, FiniteSetTheorems, SequenceTheorems, WellFoundedInduction, TLAPS

----------------------------------------------------------------------------
(* The invariants                                                           *)

\* A build failed as a whole or in tests.
BuildReport == {b \in Report : b.failures \subseteq TestCase \/ b.failures = {Whole}}

\* Where a worker is with the failure it has come to; at an issue it goes on from there.
Noting  == {"lock", "get", "comments", "comment", "reopen", "reason", "create"}
Holding == {"get", "comments", "comment", "reopen", "reason"}
Closing == {"close", "closeComments", "closeIssue", "markFlaky"}
AtIssue == (Noting \cup Closing) \ {"create", "close"}

\* What a worker keeps is of reports and issues that are there; an issue keeps its title.
IsSound(x) ==
  /\ x.pc # "idle" => x.report \in DOMAIN reports
  /\ \A i \in DOMAIN x.seen : i \in DOMAIN issuesOf /\ issuesOf[i].title = x.seen[i].title
  /\ x.duplicates \subseteq DOMAIN issuesOf
  /\ x.pc \in AtIssue => x.number \in DOMAIN issuesOf
  /\ x.pc \in Noting \ {"create"} => issuesOf[x.number].title = x.title

IssuesTyped == issuesOf \in Seq(Issue) /\ Len(issuesOf) <= MaxIssues
WorkersTyped == worker \in [Worker -> WorkerState] /\ \A w \in Worker : IsSound(worker[w])

FlakyTyped ==
  /\ IssuesTyped /\ WorkersTyped
  /\ lockOf \in [IssueNumber -> Worker \cup {"free"}]
  /\ reports \in Seq(BuildReport) /\ Len(reports) <= MaxReports
  /\ inbox \subseteq DOMAIN reports /\ received \subseteq DOMAIN reports /\ handled \subseteq DOMAIN reports
  /\ upsets \in 0 .. MaxUpsets /\ exclusive \in BOOLEAN /\ serial \in BOOLEAN /\ doubled \in BOOLEAN

\* The failure t of the report b is known ...
Known(b, t) ==
  \E i \in DOMAIN issuesOf :
    /\ issuesOf[i].title \in {t} \cup (IF t = Whole THEN {} ELSE {Grouped})
    /\ reports[b].commit \in issuesOf[i].failures \/ issuesOf[i].labels # {}
\* ... or is with a worker at the issue it will be known by.
Pending(x, t) == x.pc \in Noting /\ (x.title = t \/ (x.title = Grouped /\ t # Whole))

\* A worker loses no failure it has gone by.
LosesNone(x) ==
  /\ x.pc \notin {"idle", "list"} => \A t \in reports[x.report].failures \ x.todo : Known(x.report, t) \/ Pending(x, t)
  /\ x.pc \in Closing => x.todo = {}

KnownInv == FailureIsKnown /\ \A w \in Worker : LosesNone(worker[w])

\* As long as locks are got and last a worker at an issue has its lock, and nobody notes the
\* failure behind its back.
NotesAlone(w) ==
  /\ worker[w].pc \in Holding => lockOf[worker[w].number] = w
  /\ worker[w].pc = "comment" => ~ContainsBuildFailure(w)

NotedInv == exclusive => ~doubled /\ \A w \in Worker : NotesAlone(w)

----------------------------------------------------------------------------
(* Lemmas: choices                                                          *)

\* The library's well-founded order of the numbers.
Below == {ss \in Nat \X Nat : ss[1] < ss[2]}

\* There is a least of some numbers, and Least is it.
LEMMA LeastIsIn ==
  ASSUME NEW S \in SUBSET Nat, S # {}
  PROVE  Least(S) \in S /\ \A n \in S : Least(S) <= n
<1>1. IsWellFoundedOn(Below, Nat)
  BY NatLessThanWellFounded, Zenon DEF OpToRel, Below
<1>2. PICK m \in S : \A n \in S : <<n, m>> \notin Below
  BY <1>1, WFMin
<1>3. ASSUME NEW n \in S PROVE m <= n
  <2>1. n \in Nat /\ m \in Nat /\ <<n, m>> \notin Below
    BY <1>2
  <2>2. <<n, m>> \in Nat \X Nat /\ <<n, m>>[1] = n /\ <<n, m>>[2] = m
    BY <2>1
  <2>3. ~(n < m)
    BY <2>1, <2>2, Zenon DEF Below
  <2>4. QED
    BY <2>1, <2>3
<1>4. \E i \in S : \A j \in S : i <= j
  BY <1>3
<1>5. QED
  BY <1>4 DEF Least

\* Of some numbers there is one of greatest rank, the first of those of one rank: none is
\* missing at the least number up to which it would be.
LEMMA GreatestFirst ==
  ASSUME NEW N \in Nat, NEW S \in SUBSET (1 .. N), S # {}, NEW rank \in [S -> Nat]
  PROVE  \E i \in S : \A j \in S \ {i} : rank[i] > rank[j] \/ (rank[i] = rank[j] /\ i < j)
<1> DEFINE Beats(i, j) == rank[i] > rank[j] \/ (rank[i] = rank[j] /\ i < j)
           UpTo(n) == {i \in S : i <= n}
           Found(n) == \E i \in UpTo(n) : \A j \in UpTo(n) \ {i} : Beats(i, j)
           Missing == {n \in Nat : UpTo(n) # {} /\ ~Found(n)}
<1>1. \A i \in S : i \in Nat /\ i > 0 /\ i <= N /\ rank[i] \in Nat
  OBVIOUS
<1>2. UpTo(N) = S
  BY <1>1
<1>3. SUFFICES ASSUME ~Found(N) PROVE FALSE
  BY <1>2
<1>4. N \in Missing
  BY <1>2, <1>3
<1>5. \E n \in Missing : \A m \in Missing : n <= m
  <2>1. Missing \in SUBSET Nat /\ Missing # {}
    BY <1>4
  <2> HIDE DEF Missing
  <2>2. QED
    BY <2>1, LeastIsIn
<1>6. PICK n \in Nat : n \in Missing /\ \A m \in Missing : n <= m
  BY <1>5
<1>7. UpTo(n) # {} /\ ~Found(n)
  BY <1>6
<1>8. n > 0
  <2>1. PICK i \in UpTo(n) : TRUE
    BY <1>7
  <2>2. i \in S /\ i <= n
    BY <2>1
  <2>3. QED
    BY <1>1, <2>2
<1>9. PICK k \in Nat : n = k + 1
  <2>1. n - 1 \in Nat /\ n = (n - 1) + 1
    BY <1>8
  <2>2. QED
    BY <2>1
<1>10. UpTo(k) = {} \/ Found(k)
  <2>1. k \notin Missing
    <3> HIDE DEF Missing
    <3>1. QED
      BY <1>6, <1>9
  <2>2. QED
    BY <2>1
<1>11. n \in S
  <2>1. SUFFICES ASSUME n \notin S PROVE FALSE
    OBVIOUS
  <2>2. \A i \in S : i <= n <=> i <= k
    BY <1>1, <1>9, <2>1
  <2>3. UpTo(n) = UpTo(k)
    BY <2>2
  <2>4. QED
    BY <1>7, <1>10, <2>3
<1>12. UpTo(n) = UpTo(k) \cup {n}
  <2>1. \A i \in S : i <= n <=> (i <= k \/ i = n)
    BY <1>1, <1>9
  <2>2. QED
    BY <1>11, <2>1
<1>13. CASE UpTo(k) = {}
  BY <1>7, <1>12, <1>13
<1>14. ASSUME UpTo(k) # {} PROVE FALSE
  <2>1. PICK b \in UpTo(k) : \A j \in UpTo(k) \ {b} : Beats(b, j)
    BY <1>10, <1>14
  <2>2. b \in S /\ b <= k /\ b < n /\ b \in UpTo(n) /\ n \in UpTo(n)
    BY <1>1, <1>9, <1>12, <2>1
  <2>3. CASE rank[b] >= rank[n]
    <3>1. Beats(b, n)
      BY <1>1, <1>11, <2>2, <2>3
    <3>2. \A j \in UpTo(n) \ {b} : Beats(b, j)
      BY <1>12, <2>1, <3>1
    <3>3. QED
      BY <1>7, <2>2, <3>2
  <2>4. CASE rank[b] < rank[n]
    <3>1. ASSUME NEW j \in UpTo(k) PROVE Beats(n, j)
      <4>1. j \in S /\ rank[j] \in Nat /\ rank[b] \in Nat /\ rank[n] \in Nat
        BY <1>1, <1>11, <2>2
      <4>2. j = b \/ Beats(b, j)
        BY <2>1
      <4>3. QED
        BY <2>4, <4>1, <4>2
    <3>2. \A j \in UpTo(n) \ {n} : Beats(n, j)
      BY <1>12, <3>1
    <3>3. QED
      BY <1>7, <2>2, <3>2
  <2>5. rank[b] \in Nat /\ rank[n] \in Nat
    BY <1>1, <1>11, <2>2
  <2>6. QED
    BY <2>3, <2>4, <2>5
<1>15. QED
  BY <1>13, <1>14

\* So of some issues of a sequence there is one that was closed last.
LEMMA ClosedLast ==
  ASSUME NEW seen \in Seq(Issue), NEW S \in SUBSET DOMAIN seen, S # {}
  PROVE  \E i \in S : \A j \in S \ {i} :
           seen[i].closedAt > seen[j].closedAt \/ (seen[i].closedAt = seen[j].closedAt /\ i < j)
<1>1. Len(seen) \in Nat /\ DOMAIN seen = 1 .. Len(seen)
  OBVIOUS
<1>2. \A i \in DOMAIN seen : seen[i] \in Issue
  OBVIOUS
<1>3. \A i \in DOMAIN seen : seen[i].closedAt \in Nat
  BY <1>2 DEF Issue
<1>4. PICK rank : rank = [i \in S |-> seen[i].closedAt]
  OBVIOUS
<1>5. rank \in [S -> Nat] /\ \A i \in S : rank[i] = seen[i].closedAt
  BY <1>3, <1>4
<1>6. S \in SUBSET (1 .. Len(seen))
  BY <1>1
<1>7. \E i \in S : \A j \in S \ {i} : rank[i] > rank[j] \/ (rank[i] = rank[j] /\ i < j)
  BY <1>1, <1>5, <1>6, GreatestFirst
<1>8. QED
  BY <1>5, <1>7

\* An existing issue is one of those listed, of the title.
LEMMA FoundIsThere ==
  ASSUME NEW seen \in Seq(Issue), NEW t
  PROVE  FindExistingIssue(seen, t) = 0
         \/ (FindExistingIssue(seen, t) \in DOMAIN seen /\ seen[FindExistingIssue(seen, t)].title = t)
<1>1. Titled(seen, t) \in SUBSET DOMAIN seen /\ OpenOnes(seen, t) \subseteq Titled(seen, t) /\ DOMAIN seen \subseteq Nat
  BY DEF Titled, OpenOnes
<1>2. CASE OpenOnes(seen, t) # {}
  <2>1. Least(OpenOnes(seen, t)) \in OpenOnes(seen, t)
    BY <1>1, <1>2, LeastIsIn
  <2>2. QED
    BY <1>1, <1>2, <2>1 DEF FindExistingIssue, Titled
<1>3. CASE OpenOnes(seen, t) = {} /\ Titled(seen, t) # {} /\ t # Whole
  <2>1. PICK S \in SUBSET DOMAIN seen : S = Titled(seen, t)
    BY <1>1
  <2>2. \E i \in S : \A j \in S \ {i} :
          seen[i].closedAt > seen[j].closedAt \/ (seen[i].closedAt = seen[j].closedAt /\ i < j)
    BY <1>3, <2>1, ClosedLast
  <2>3. FindExistingIssue(seen, t) = CHOOSE i \in S : \A j \in S \ {i} :
          \/ seen[i].closedAt > seen[j].closedAt
          \/ seen[i].closedAt = seen[j].closedAt /\ i < j
    BY <1>3, <2>1 DEF FindExistingIssue
  <2>4. FindExistingIssue(seen, t) \in S
    BY <2>2, <2>3
  <2>5. QED
    BY <2>1, <2>4 DEF Titled
<1>4. CASE OpenOnes(seen, t) = {} /\ ~(Titled(seen, t) # {} /\ t # Whole)
  BY <1>4 DEF FindExistingIssue
<1>5. QED
  BY <1>2, <1>3, <1>4

----------------------------------------------------------------------------
(* Lemmas: issues                                                           *)

\* Issues are never lost; their titles stay, and what makes a failure known does too.
IssuesGrow ==
  /\ DOMAIN issuesOf \subseteq DOMAIN issuesOf'
  /\ \A i \in DOMAIN issuesOf :
       /\ issuesOf'[i].title = issuesOf[i].title /\ issuesOf[i].failures \subseteq issuesOf'[i].failures
       /\ issuesOf[i].labels # {} => issuesOf'[i].labels # {}

\* An issue that changes but keeps its title and what makes a failure known.
LEMMA IssueChanges ==
  ASSUME IssuesTyped, NEW n \in DOMAIN issuesOf, NEW y \in Issue, issuesOf' = [issuesOf EXCEPT ![n] = y],
         y.title = issuesOf[n].title, issuesOf[n].failures \subseteq y.failures, issuesOf[n].labels # {} => y.labels # {}
  PROVE  /\ IssuesTyped' /\ IssuesGrow /\ DOMAIN issuesOf' = DOMAIN issuesOf
         /\ issuesOf'[n] = y /\ \A i \in DOMAIN issuesOf : i # n => issuesOf'[i] = issuesOf[i]
<1>1. issuesOf \in Seq(Issue) /\ Len(issuesOf) <= MaxIssues
  BY DEF IssuesTyped
<1>2. /\ issuesOf' \in Seq(Issue) /\ Len(issuesOf') = Len(issuesOf) /\ DOMAIN issuesOf' = DOMAIN issuesOf
      /\ issuesOf'[n] = y /\ \A i \in DOMAIN issuesOf : i # n => issuesOf'[i] = issuesOf[i]
  BY <1>1, ExceptSeq
<1>3. QED
  BY <1>1, <1>2 DEF IssuesTyped, IssuesGrow

\* The issues are the same.
LEMMA IssuesSame ==
  ASSUME IssuesTyped, UNCHANGED issuesOf
  PROVE  IssuesTyped' /\ IssuesGrow
BY DEF IssuesTyped, IssuesGrow

\* The issues there are, and their numbers.
LEMMA ThereTyped ==
  ASSUME IssuesTyped
  PROVE  /\ \A i \in DOMAIN issuesOf : issuesOf[i] \in Issue /\ i \in IssueNumber /\ i \in Nat
         /\ DOMAIN issuesOf = 1 .. Len(issuesOf) /\ Len(issuesOf) \in Nat
BY FlakybotAssumption DEF IssuesTyped, IssueNumber

\* What closing, and marking as flaky, make of an issue.
LEMMA CloseTyped ==
  ASSUME IssuesTyped, NEW y \in Issue
  PROVE  /\ Close(y) \in Issue /\ Close(y).title = y.title /\ Close(y).failures = y.failures /\ Close(y).labels = y.labels
         /\ ~Close(y).open
<1>1. PICK n \in Nat : n = 1 + Cardinality({i \in DOMAIN issuesOf : issuesOf[i].title = y.title /\ issuesOf[i].closedAt # 0})
  <2>1. PICK S : S = {i \in DOMAIN issuesOf : issuesOf[i].title = y.title /\ issuesOf[i].closedAt # 0}
    OBVIOUS
  <2>2. IsFiniteSet(DOMAIN issuesOf)
    BY ThereTyped, FS_Interval
  <2>3. S \in SUBSET DOMAIN issuesOf
    BY <2>1
  <2>4. IsFiniteSet(S)
    BY <2>2, <2>3, FS_Subset
  <2>5. Cardinality(S) \in Nat
    BY <2>4, FS_CardinalityType
  <2>6. 1 + Cardinality(S) \in Nat
    BY <2>5
  <2>7. QED
    BY <2>1, <2>6, Zenon
<1>2. PICK no \in BOOLEAN : no = FALSE
  OBVIOUS
<1>3. Close(y) = [y EXCEPT !.open = no, !.closedAt = n]
  BY <1>1, <1>2 DEF Close
<1>4. QED
  BY <1>2, <1>3 DEF Issue

\* The issue as flaky.
AsFlaky(y) == [y EXCEPT !.labels = {"flaky"}, !.open = TRUE, !.closedAt = 0, !.old = FALSE]

\* An issue as flaky is an issue, its title and failures are as before.
LEMMA AsFlakyTyped ==
  ASSUME NEW y \in Issue
  PROVE  /\ AsFlaky(y) \in Issue /\ AsFlaky(y).title = y.title /\ AsFlaky(y).failures = y.failures
         /\ AsFlaky(y).labels = {"flaky"} /\ AsFlaky(y).open
<1>1. PICK no, yes \in BOOLEAN : no = FALSE /\ yes = TRUE
  OBVIOUS
<1>2. PICK labels \in SUBSET Label : labels = {"flaky"}
  BY DEF Label
<1>3. PICK n \in Nat : AsFlaky(y) = [y EXCEPT !.labels = labels, !.open = yes, !.closedAt = n, !.old = no]
  BY <1>1, <1>2 DEF AsFlaky
<1>4. /\ AsFlaky(y) \in Issue /\ AsFlaky(y).title = y.title /\ AsFlaky(y).failures = y.failures
      /\ AsFlaky(y).labels = labels
  <2>1. AsFlaky(y) \in Issue
    <3>1. [y EXCEPT !.labels = labels, !.open = yes, !.closedAt = n, !.old = no] \in Issue
      BY DEF Issue
    <3>2. QED
      BY <1>3, <3>1, Zenon
  <2>2. AsFlaky(y).title = y.title
    BY <1>3 DEF Issue
  <2>3. AsFlaky(y).failures = y.failures
    BY <1>3 DEF Issue
  <2>4. AsFlaky(y).labels = labels
    BY <1>3 DEF Issue
  <2>5. QED
    BY <2>1, <2>2, <2>3, <2>4
<1>5. AsFlaky(y).open = yes
  BY <1>3, Zenon DEF Issue
<1>6. QED
  BY <1>1, <1>2, <1>4, <1>5, Zenon

\* What is known stays known, and what a worker keeps stays sound.
LEMMA Grown ==
  ASSUME FlakyTyped, IssuesGrow, DOMAIN reports \subseteq DOMAIN reports',
         \A b \in DOMAIN reports : reports'[b] = reports[b]
  PROVE  /\ \A x : IsSound(x) => IsSound(x)'
         /\ \A b \in DOMAIN reports : \A t : Known(b, t) => Known(b, t)'
         /\ \A x : IsSound(x) /\ LosesNone(x) => LosesNone(x)'
<1>1. ASSUME NEW x, IsSound(x) PROVE IsSound(x)'
  BY <1>1 DEF IsSound, IssuesGrow, AtIssue, Noting, Closing
<1>2. ASSUME NEW b \in DOMAIN reports, NEW t, Known(b, t) PROVE Known(b, t)'
  <2>1. PICK i \in DOMAIN issuesOf :
          /\ issuesOf[i].title \in {t} \cup (IF t = Whole THEN {} ELSE {Grouped})
          /\ reports[b].commit \in issuesOf[i].failures \/ issuesOf[i].labels # {}
    BY <1>2 DEF Known
  <2>2. /\ i \in DOMAIN issuesOf' /\ issuesOf'[i].title = issuesOf[i].title
        /\ reports'[b].commit \in issuesOf'[i].failures \/ issuesOf'[i].labels # {}
    BY <2>1 DEF IssuesGrow
  <2>3. QED
    BY <2>1, <2>2 DEF Known
<1>3. ASSUME NEW x, IsSound(x), LosesNone(x) PROVE LosesNone(x)'
  <2>1. CASE x.pc \in {"idle", "list"}
    BY <2>1 DEF LosesNone, Closing
  <2>2. CASE x.pc \notin {"idle", "list"}
    <3>1. x.report \in DOMAIN reports /\ reports'[x.report] = reports[x.report]
      BY <1>3, <2>2 DEF IsSound
    <3>2. \A t \in reports[x.report].failures \ x.todo : Known(x.report, t)' \/ Pending(x, t)
      BY <1>2, <1>3, <2>2, <3>1 DEF LosesNone
    <3>3. QED
      BY <1>3, <2>2, <3>1, <3>2 DEF LosesNone, Pending
  <2>3. QED
    BY <2>1, <2>2
<1>4. QED
  BY <1>1, <1>2, <1>3

----------------------------------------------------------------------------
(* The steps of a worker                                                    *)

FlakyInv == FlakyTyped /\ KnownInv /\ NotedInv

\* What is known of a worker.
LEMMA WorkerTyped ==
  ASSUME FlakyTyped, NEW w \in Worker
  PROVE  /\ worker[w] \in WorkerState /\ IsSound(worker[w]) /\ worker[w].pc \in WorkerPc
         /\ worker[w].seen \in Seq(Issue) /\ worker[w].number \in Nat
         /\ worker[w].pc # "idle" => worker[w].report \in DOMAIN reports /\ ReportOf(w) \in BuildReport
<1>1. worker[w] \in WorkerState /\ IsSound(worker[w])
  BY DEF FlakyTyped, WorkersTyped
<1>2. worker[w].pc \in WorkerPc /\ worker[w].seen \in Seq(Issue) /\ worker[w].number \in 0 .. MaxIssues
  BY <1>1 DEF WorkerState
<1>3. reports \in Seq(BuildReport)
  BY DEF FlakyTyped
<1>4. QED
  BY <1>1, <1>2, <1>3, FlakybotAssumption DEF IsSound, ReportOf

\* A step of a worker that does what each of them does.
LEMMA WorkerMoves ==
  ASSUME FlakyInv, NEW w \in Worker, NEW x \in WorkerState, Works(w, x),
         IssuesTyped', IssuesGrow, UNCHANGED reports,
         IsSound(x)', LosesNone(x)',
         inbox' \subseteq DOMAIN reports, received' \subseteq DOMAIN reports, upsets' \in 0 .. MaxUpsets,
         exclusive' \in BOOLEAN, serial' \in BOOLEAN, doubled' \in BOOLEAN,
         lockOf' \in [IssueNumber -> Worker \cup {"free"}],
         handled' = handled \/ (handled' = handled \cup {worker[w].report} /\ worker[w].pc \in Closing),
         exclusive' =>
           /\ exclusive /\ (doubled' => doubled)
           /\ \A i \in IssueNumber : lockOf[i] \in Worker \ {w} => lockOf'[i] = lockOf[i]
           /\ x.pc \in Holding => lockOf'[x.number] = w
           /\ x.pc = "comment" => reports[x.report].commit \notin issuesOf'[x.number].failures
           /\ \A n \in DOMAIN issuesOf : issuesOf'[n].failures = issuesOf[n].failures \/ lockOf[n] = w
  PROVE  FlakyInv'
<1>1. FlakyTyped /\ KnownInv /\ NotedInv
  BY DEF FlakyInv
<1>2. worker' \in [Worker -> WorkerState] /\ worker'[w] = x /\ \A v \in Worker \ {w} : worker'[v] = worker[v]
  BY <1>1 DEF FlakyTyped, WorkersTyped, Works
<1>3. DOMAIN reports' = DOMAIN reports /\ \A b \in DOMAIN reports : reports'[b] = reports[b]
  OBVIOUS
<1>4. /\ \A y : IsSound(y) => IsSound(y)'
      /\ \A b \in DOMAIN reports : \A t : Known(b, t) => Known(b, t)'
      /\ \A y : IsSound(y) /\ LosesNone(y) => LosesNone(y)'
  BY <1>1, <1>3, Grown
<1>5. ASSUME NEW v \in Worker PROVE IsSound(worker[v])' /\ LosesNone(worker[v])'
  <2>1. PICK y : y = worker'[v]
    OBVIOUS
  <2>2. IsSound(y)' /\ LosesNone(y)'
    <3>1. CASE v = w
      BY <1>2, <2>1, <3>1
    <3>2. CASE v # w
      <4>1. IsSound(y) /\ LosesNone(y)
        BY <1>1, <1>2, <2>1, <3>2, WorkerTyped DEF KnownInv
      <4>2. QED
        BY <1>4, <4>1
    <3>3. QED
      BY <3>1, <3>2
  <2>3. QED
    BY <2>1, <2>2 DEF IsSound, LosesNone, Known, Pending
<1>6. WorkersTyped'
  BY <1>2, <1>5 DEF WorkersTyped
<1>7. handled' \subseteq DOMAIN reports
  BY <1>1, WorkerTyped DEF FlakyTyped, Closing
<1>8. FlakyTyped'
  BY <1>1, <1>6, <1>7 DEF FlakyTyped
<1>9. FailureIsKnown'
  <2>1. \A b \in handled : b \in DOMAIN reports /\ \A t \in reports[b].failures : Known(b, t)
    BY <1>1 DEF KnownInv, FailureIsKnown, Known, FlakyTyped
  <2>2. ASSUME NEW b \in handled', NEW t \in reports[b].failures PROVE Known(b, t)'
    <3>1. CASE b \in handled
      BY <1>4, <2>1, <3>1
    <3>2. CASE b = worker[w].report /\ worker[w].pc \in Closing
      <4>1. b \in DOMAIN reports /\ worker[w].todo = {}
        BY <1>1, <3>2, WorkerTyped DEF KnownInv, LosesNone, Closing
      <4>2. Known(b, t) \/ Pending(worker[w], t)
        BY <1>1, <3>2, <4>1 DEF KnownInv, LosesNone, Closing
      <4>3. ~Pending(worker[w], t)
        BY <3>2 DEF Pending, Closing, Noting
      <4>4. QED
        BY <1>4, <4>1, <4>2, <4>3
    <3>3. QED
      BY <3>1, <3>2
  <2>3. QED
    BY <2>2 DEF FailureIsKnown, Known
<1>10. KnownInv'
  BY <1>5, <1>9 DEF KnownInv
<1>11. NotedInv'
  <2>1. SUFFICES ASSUME exclusive'
                 PROVE  ~doubled' /\ \A v \in Worker : NotesAlone(v)'
    BY DEF NotedInv
  <2>2. exclusive /\ ~doubled /\ \A v \in Worker : NotesAlone(v)
    BY <1>1, <2>1 DEF NotedInv
  <2>3. ASSUME NEW v \in Worker, v # w PROVE NotesAlone(v)'
    <3>1. worker'[v] = worker[v] /\ NotesAlone(v)
      BY <1>2, <2>2, <2>3
    <3>2. worker[v].pc \in Holding =>
            /\ worker[v].number \in DOMAIN issuesOf /\ worker[v].number \in IssueNumber
            /\ lockOf[worker[v].number] = v
      <4>1. IsSound(worker[v]) /\ IssuesTyped
        BY <1>1, WorkerTyped DEF FlakyTyped
      <4>2. QED
        BY <3>1, <4>1, ThereTyped DEF NotesAlone, IsSound, Holding, AtIssue, Noting
    <3>3. worker[v].pc \in Holding => lockOf'[worker[v].number] = v /\ issuesOf'[worker[v].number].failures = issuesOf[worker[v].number].failures
      BY <2>1, <2>3, <3>2
    <3>4. QED
      BY <3>1, <3>3 DEF NotesAlone, ContainsBuildFailure, ReportOf, Holding
  <2>4. NotesAlone(w)'
    BY <1>2, <2>1 DEF NotesAlone, ContainsBuildFailure, ReportOf
  <2>5. QED
    BY <2>1, <2>2, <2>3, <2>4
<1>12. QED
  BY <1>8, <1>10, <1>11 DEF FlakyInv

\* A step that changes the worker alone.
LEMMA QuietMoves ==
  ASSUME FlakyInv, NEW w \in Worker, NEW x \in WorkerState, Works(w, x),
         UNCHANGED <<issuesOf, doubled, lockOf, exclusive, reports, inbox, upsets, received, handled, serial>>,
         IsSound(x), LosesNone(x),
         exclusive => /\ x.pc \in Holding => lockOf[x.number] = w
                      /\ x.pc = "comment" => reports[x.report].commit \notin issuesOf[x.number].failures
  PROVE  FlakyInv'
<1>1. FlakyTyped
  BY DEF FlakyInv
<1>2. IssuesTyped' /\ IssuesGrow
  BY <1>1, IssuesSame DEF FlakyTyped
<1>3. IsSound(x)' /\ LosesNone(x)'
  BY <1>1, <1>2, Grown
<1>4. QED
  BY <1>1, <1>2, <1>3, WorkerMoves DEF FlakyTyped

\* The place of a worker changes, and nothing else of it.
LEMMA PcTyped ==
  ASSUME NEW y \in WorkerState, NEW pc \in WorkerPc
  PROVE  LET x == [y EXCEPT !.pc = pc]
         IN /\ x \in WorkerState /\ x.pc = pc /\ x.report = y.report /\ x.seen = y.seen /\ x.duplicates = y.duplicates
            /\ x.todo = y.todo /\ x.title = y.title /\ x.number = y.number
BY DEF WorkerState

\* The lock of an issue let go, a worker is done with a failure: its issue makes it known.
LEMMA NextFailureMoves ==
  ASSUME FlakyInv, NEW w \in Worker, worker[w].pc \in Noting, NextFailure(w), Inbox, IssuesTyped', IssuesGrow,
         doubled' \in BOOLEAN, exclusive /\ doubled' => doubled,
         \A n \in DOMAIN issuesOf : issuesOf'[n].failures = issuesOf[n].failures \/ (exclusive => lockOf[n] = w),
         \E i \in DOMAIN issuesOf' :
           /\ issuesOf'[i].title = worker[w].title
           /\ ReportOf(w).commit \in issuesOf'[i].failures \/ issuesOf'[i].labels # {}
  PROVE  FlakyInv'
<1>1. FlakyTyped /\ LosesNone(worker[w])
  BY DEF FlakyInv, KnownInv
<1>2. PICK y \in WorkerState : y = worker[w] /\ IsSound(y) /\ LosesNone(y)
  BY <1>1, WorkerTyped
<1>3. PICK x \in WorkerState : /\ x = [y EXCEPT !.pc = "open"]
                               /\ x.pc = "open" /\ x.report = y.report /\ x.seen = y.seen
                               /\ x.duplicates = y.duplicates /\ x.todo = y.todo
  <2>1. "open" \in WorkerPc
    BY DEF WorkerPc
  <2>2. QED
    BY <2>1, PcTyped
<1>4. Works(w, x)
  BY <1>2, <1>3 DEF NextFailure
<1>5. IsSound(x)
  BY <1>2, <1>3 DEF IsSound, Noting, AtIssue, Closing
<1>6. UNCHANGED <<reports, inbox, upsets, received, handled, serial, exclusive>>
  BY DEF Inbox, NextFailure
<1>7. IsSound(x)' /\ \A b \in DOMAIN reports : \A t : Known(b, t) => Known(b, t)'
  BY <1>1, <1>5, <1>6, Grown
<1>8. LosesNone(x)'
  <2>1. x.report \in DOMAIN reports
    BY <1>3, <1>5 DEF IsSound
  <2>2. ASSUME NEW t \in reports[x.report].failures \ x.todo PROVE Known(x.report, t)'
    <3>1. Known(x.report, t) \/ Pending(y, t)
      BY <1>2, <1>3, <2>2 DEF LosesNone, Noting
    <3>2. CASE Known(x.report, t)
      BY <1>7, <2>1, <3>2
    <3>3. CASE Pending(y, t)
      <4>1. PICK i \in DOMAIN issuesOf' :
              /\ issuesOf'[i].title = y.title
              /\ reports[x.report].commit \in issuesOf'[i].failures \/ issuesOf'[i].labels # {}
        BY <1>2, <1>3 DEF ReportOf
      <4>2. y.title \in {t} \cup (IF t = Whole THEN {} ELSE {Grouped})
        BY <3>3 DEF Pending
      <4>3. QED
        BY <1>6, <4>1, <4>2 DEF Known
    <3>4. QED
      BY <3>1, <3>2, <3>3
  <2>3. QED
    BY <1>3, <1>6, <2>2 DEF LosesNone, Closing
<1>9. lockOf \in [IssueNumber -> Worker \cup {"free"}]
  BY <1>1 DEF FlakyTyped
<1>10. /\ lockOf' \in [IssueNumber -> Worker \cup {"free"}]
       /\ \A i \in IssueNumber : lockOf[i] \in Worker \ {w} => lockOf'[i] = lockOf[i]
  BY <1>9 DEF NextFailure, Release
<1>11. x.pc \notin Holding /\ x.pc # "comment"
  BY <1>3 DEF Holding
<1>12. QED
  BY <1>1, <1>4, <1>6, <1>7, <1>8, <1>10, <1>11, WorkerMoves DEF FlakyTyped

\* A worker takes a report, of a build there was.
LEMMA StartReportKeeps ==
  ASSUME FlakyInv, NEW w \in Worker, StartReport(w)
  PROVE  FlakyInv'
<1>1. FlakyTyped
  BY DEF FlakyInv
<1>2. PICK b \in inbox : /\ Works(w, [Unoccupied EXCEPT !.pc = "list", !.report = b])
                         /\ inbox' = inbox \ {b} /\ received' = received \cup {b}
  BY DEF StartReport
<1>3. b \in DOMAIN reports /\ b \in 0 .. MaxReports
  <2>1. DOMAIN reports = 1 .. Len(reports) /\ Len(reports) \in Nat /\ Len(reports) <= MaxReports /\ inbox \subseteq DOMAIN reports
    BY <1>1 DEF FlakyTyped
  <2>2. QED
    BY <2>1, FlakybotAssumption
<1>4. PICK x : x = [Unoccupied EXCEPT !.pc = "list", !.report = b]
  OBVIOUS
<1>5. /\ x \in WorkerState /\ x.pc = "list" /\ x.report = b /\ x.seen = <<>> /\ x.duplicates = {}
  <2>1. PICK no \in BOOLEAN : no = FALSE
    OBVIOUS
  <2>2. x = [pc |-> "list", report |-> b, seen |-> <<>>, duplicates |-> {}, modified |-> no, todo |-> {},
             title |-> Grouped, number |-> 0, labels |-> {}]
    BY <1>4, <2>1 DEF Unoccupied
  <2>3. "list" \in WorkerPc /\ <<>> \in Seq(Issue) /\ Grouped \in Title /\ 0 \in 0 .. MaxIssues
    BY FlakybotAssumption DEF WorkerPc, Title
  <2>4. QED
    BY <1>3, <2>2, <2>3 DEF WorkerState
<1>6. IsSound(x) /\ LosesNone(x)
  BY <1>3, <1>5 DEF IsSound, LosesNone, AtIssue, Noting, Closing
<1>7. UNCHANGED <<issuesOf, reports, upsets, handled, doubled, lockOf, exclusive>> /\ serial' \in BOOLEAN
  BY <1>1 DEF StartReport, Unlocked, FlakyTyped
<1>8. IssuesTyped' /\ IssuesGrow
  BY <1>1, <1>7, IssuesSame DEF FlakyTyped
<1>9. IsSound(x)' /\ LosesNone(x)'
  BY <1>1, <1>6, <1>7, <1>8, Grown
<1>10. x.pc \notin Holding
  BY <1>5 DEF Holding
<1>11. inbox' \subseteq DOMAIN reports /\ received' \subseteq DOMAIN reports
  BY <1>1, <1>2, <1>3 DEF FlakyTyped
<1>12. QED
  BY <1>1, <1>2, <1>4, <1>5, <1>7, <1>8, <1>9, <1>10, <1>11, WorkerMoves DEF FlakyTyped

\* The issues are listed, and all failures of the report are to do.
LEMMA ListIssuesKeeps ==
  ASSUME FlakyInv, NEW w \in Worker, ListIssues(w)
  PROVE  FlakyInv'
<1>1. FlakyTyped /\ worker[w].pc = "list" /\ IssuesTyped
  BY DEF FlakyInv, ListIssues, FlakyTyped
<1>2. PICK y \in WorkerState : y = worker[w] /\ IsSound(y) /\ y.pc = "list"
  BY <1>1, WorkerTyped
<1>3. PICK D : D = Duplicates(ReportOf(w))
  OBVIOUS
<1>4. D \subseteq DOMAIN issuesOf /\ D \in SUBSET IssueNumber
  BY <1>1, <1>3, ThereTyped DEF Duplicates
<1>5. PICK m \in BOOLEAN : m = (D # {})
  OBVIOUS
<1>6. PICK todo \in SUBSET Title : todo = ReportOf(w).failures
  BY <1>1, WorkerTyped DEF BuildReport, Report
<1>7. PICK there \in Seq(Issue) : there = issuesOf
  BY <1>1 DEF IssuesTyped
<1>8. PICK x : x = [y EXCEPT !.pc = "duplicates", !.seen = there, !.duplicates = D, !.modified = m, !.todo = todo]
  OBVIOUS
<1>9. x \in WorkerState /\ x.pc = "duplicates" /\ x.report = y.report /\ x.seen = there /\ x.duplicates = D /\ x.todo = todo
  <2>1. "duplicates" \in WorkerPc
    BY DEF WorkerPc
  <2>2. QED
    BY <1>2, <1>4, <1>8, <2>1 DEF WorkerState
<1>10. Works(w, x)
  BY <1>2, <1>3, <1>5, <1>6, <1>7, <1>8 DEF ListIssues
<1>11. IsSound(x)
  BY <1>2, <1>4, <1>7, <1>9 DEF IsSound, AtIssue, Noting, Closing
<1>12. LosesNone(x)
  BY <1>2, <1>6, <1>9 DEF LosesNone, ReportOf, Closing
<1>13. x.pc \notin Holding
  BY <1>9 DEF Holding
<1>14. QED
  BY <1>9, <1>10, <1>11, <1>12, <1>13, QuietMoves DEF ListIssues, Unlocked, Inbox, Holding

\* A worker that goes on with the issue it is at, or with none, loses nothing.
LEMMA GoesOn ==
  ASSUME NEW y, NEW x, IsSound(y), LosesNone(y), y.pc \notin {"idle", "list"}, x.pc \notin {"idle", "list"},
         x.report = y.report, x.seen = y.seen, x.duplicates \subseteq y.duplicates,
         x.todo = y.todo, x.title = y.title, x.number = y.number,
         y.pc \in Noting => x.pc \in Noting, x.pc \in Closing => y.pc \in Closing,
         x.pc \in AtIssue => y.pc \in AtIssue, x.pc \in Noting \ {"create"} => y.pc \in Noting \ {"create"}
  PROVE  IsSound(x) /\ LosesNone(x)
<1>1. IsSound(x)
  BY DEF IsSound
<1>2. LosesNone(x)
  BY DEF LosesNone, Pending
<1>3. QED
  BY <1>1, <1>2

\* deduplicateIssues() closes issues.
LEMMA DeduplicateIssuesKeeps ==
  ASSUME FlakyInv, NEW w \in Worker, DeduplicateIssues(w)
  PROVE  FlakyInv'
<1>1. FlakyTyped /\ worker[w].pc = "duplicates" /\ IssuesTyped
  BY DEF FlakyInv, DeduplicateIssues, FlakyTyped
<1>2. PICK y \in WorkerState : y = worker[w] /\ IsSound(y) /\ y.pc = "duplicates" /\ LosesNone(y)
  BY <1>1, WorkerTyped DEF FlakyInv, KnownInv
<1>3. UNCHANGED <<doubled, lockOf, exclusive, reports, inbox, upsets, received, handled, serial>>
  BY DEF DeduplicateIssues, Unlocked, Inbox
<1>4. CASE y.duplicates = {}
  <2>1. PICK pc \in {"relist", "open"} : Works(w, [y EXCEPT !.pc = pc])
    BY <1>2, <1>4 DEF DeduplicateIssues
  <2>2. PICK x \in WorkerState :
          /\ x = [y EXCEPT !.pc = pc] /\ x.pc = pc /\ x.report = y.report /\ x.seen = y.seen
          /\ x.duplicates = y.duplicates /\ x.todo = y.todo /\ x.title = y.title /\ x.number = y.number
    <3>1. pc \in WorkerPc
      BY <2>1 DEF WorkerPc
    <3>2. QED
      BY <3>1, PcTyped
  <2>3. IsSound(x) /\ LosesNone(x)
    BY <1>2, <2>1, <2>2, GoesOn DEF Noting, Closing, AtIssue
  <2>4. UNCHANGED issuesOf
    BY <1>2, <1>4 DEF DeduplicateIssues
  <2>5. QED
    BY <1>3, <2>1, <2>2, <2>3, <2>4, QuietMoves DEF Holding
<1>5. CASE y.duplicates # {}
  <2>1. y.duplicates \in SUBSET Nat
    BY <1>1, <1>2, ThereTyped DEF IsSound
  <2>2. PICK i : i = Least(y.duplicates) /\ i \in y.duplicates /\ i \in DOMAIN issuesOf
    BY <1>2, <1>5, <2>1, LeastIsIn DEF IsSound
  <2>3. /\ issuesOf' = [issuesOf EXCEPT ![i] = IF issuesOf[i].open THEN Close(issuesOf[i]) ELSE issuesOf[i]]
        /\ Works(w, [y EXCEPT !.duplicates = y.duplicates \ {i}])
    BY <1>2, <1>5, <2>2 DEF DeduplicateIssues, Least
  <2>4. PICK z \in Issue : /\ z = IF issuesOf[i].open THEN Close(issuesOf[i]) ELSE issuesOf[i]
                           /\ z.title = issuesOf[i].title /\ z.failures = issuesOf[i].failures
                           /\ z.labels = issuesOf[i].labels
    BY <1>1, <2>2, ThereTyped, CloseTyped
  <2>5. /\ IssuesTyped' /\ IssuesGrow
        /\ \A n \in DOMAIN issuesOf : issuesOf'[n].failures = issuesOf[n].failures
    BY <1>1, <2>2, <2>3, <2>4, IssueChanges
  <2>6. PICK D \in SUBSET IssueNumber : D = y.duplicates \ {i}
    BY <1>2 DEF WorkerState
  <2>7. PICK x \in WorkerState : x = [y EXCEPT !.duplicates = D]
       /\ x.pc = y.pc /\ x.report = y.report /\ x.seen = y.seen /\ x.duplicates = D /\ x.todo = y.todo /\ x.title = y.title /\ x.number = y.number
    <3>1. PICK u : u = [y EXCEPT !.duplicates = D]
      OBVIOUS
    <3>2. u \in WorkerState
      BY <3>1, <1>2 DEF WorkerState
    <3>3. u.pc = y.pc /\ u.report = y.report /\ u.seen = y.seen /\ u.duplicates = D /\ u.todo = y.todo /\ u.title = y.title /\ u.number = y.number
      BY <3>1 DEF WorkerState
    <3>4. QED
      BY <3>1, <3>2, <3>3
  <2>8. IsSound(x) /\ LosesNone(x)
    <3>1. /\ x.pc = "duplicates" /\ y.pc = "duplicates" /\ x.duplicates \subseteq y.duplicates
          /\ x.report = y.report /\ x.seen = y.seen /\ x.todo = y.todo /\ x.title = y.title /\ x.number = y.number
      BY <1>2, <2>6, <2>7
    <3>2. QED
      BY <1>2, <3>1, GoesOn DEF Noting, Closing, AtIssue
  <2>9. IsSound(x)' /\ LosesNone(x)'
    BY <1>1, <1>3, <2>5, <2>8, Grown
  <2>10. Works(w, x) /\ x.pc \notin Holding /\ x.pc # "comment"
    BY <1>2, <2>3, <2>6, <2>7 DEF Holding
  <2>11. QED
    BY <1>1, <1>3, <2>5, <2>9, <2>10, WorkerMoves DEF FlakyTyped
<1>6. QED
  BY <1>4, <1>5

\* The issues are listed again.
LEMMA ListAgainKeeps ==
  ASSUME FlakyInv, NEW w \in Worker, ListAgain(w)
  PROVE  FlakyInv'
<1>1. FlakyTyped /\ worker[w].pc = "relist" /\ IssuesTyped
  BY DEF FlakyInv, ListAgain, FlakyTyped
<1>2. PICK y \in WorkerState : y = worker[w] /\ IsSound(y) /\ y.pc = "relist" /\ LosesNone(y)
  BY <1>1, WorkerTyped DEF FlakyInv, KnownInv
<1>3. PICK there \in Seq(Issue) : there = issuesOf
  BY <1>1 DEF IssuesTyped
<1>4. PICK x \in WorkerState : x = [y EXCEPT !.pc = "open", !.seen = there]
     /\ x.pc = "open" /\ x.report = y.report /\ x.seen = there /\ x.duplicates = y.duplicates /\ x.todo = y.todo
  <2>1. PICK z : z = [y EXCEPT !.pc = "open", !.seen = there]
    OBVIOUS
  <2>2. z \in WorkerState
    BY <2>1, <1>2 DEF WorkerState, WorkerPc
  <2>3. z.pc = "open" /\ z.report = y.report /\ z.seen = there /\ z.duplicates = y.duplicates /\ z.todo = y.todo
    BY <2>1 DEF WorkerState
  <2>4. QED
    BY <2>1, <2>2, <2>3
<1>5. IsSound(x)
  BY <1>2, <1>3, <1>4 DEF IsSound, AtIssue, Noting, Closing
<1>6. LosesNone(x)
  BY <1>2, <1>4 DEF LosesNone, Pending, Noting, Closing
<1>7. Works(w, x) /\ x.pc \notin Holding /\ x.pc # "comment"
  BY <1>2, <1>3, <1>4 DEF ListAgain, Holding
<1>8. QED
  BY <1>4, <1>5, <1>6, <1>7, QuietMoves DEF ListAgain, Unlocked, Inbox

\* openIssues() comes to the next failure, or is done with them.
LEMMA OpenIssuesKeeps ==
  ASSUME FlakyInv, NEW w \in Worker, OpenIssues(w)
  PROVE  FlakyInv'
<1>1. FlakyTyped /\ worker[w].pc = "open" /\ IssuesTyped
  BY DEF FlakyInv, OpenIssues, FlakyTyped
<1>2. PICK y \in WorkerState : y = worker[w] /\ IsSound(y) /\ y.pc = "open" /\ LosesNone(y) /\ y.report \in DOMAIN reports
  BY <1>1, WorkerTyped DEF FlakyInv, KnownInv
<1>3. y.seen \in Seq(Issue) /\ y.todo \in SUBSET Title /\ reports[y.report] \in BuildReport
  BY <1>1, <1>2 DEF WorkerState, FlakyTyped
<1>4. \A t \in reports[y.report].failures \ y.todo : Known(y.report, t)
  BY <1>2 DEF LosesNone, Pending, Noting
<1>5. \A i \in DOMAIN y.seen : i \in DOMAIN issuesOf /\ issuesOf[i].title = y.seen[i].title /\ i \in 0 .. MaxIssues /\ i \in Nat
  BY <1>1, <1>2, ThereTyped, FlakybotAssumption DEF IsSound, IssueNumber
<1>6. UNCHANGED <<issuesOf, doubled, lockOf, exclusive, reports, inbox, upsets, received, handled, serial>>
  BY DEF OpenIssues, Unlocked, Inbox
<1> DEFINE t == CHOOSE u \in y.todo : TRUE
           grouped == OpenOnes(y.seen, Grouped)
           existing == FindExistingIssue(y.seen, t)
           new == CASE y.todo = {} -> [y EXCEPT !.pc = "close", !.number = 0]
                    [] y.todo \ {Whole} # {} /\ grouped # {} ->
                         [y EXCEPT !.pc = "lock", !.todo = y.todo \ TestCase, !.title = Grouped, !.number = Least(grouped)]
                    [] Cardinality(y.todo) >= Threshold /\ y.todo = reports[y.report].failures /\ grouped = {} ->
                         [y EXCEPT !.pc = "create", !.todo = {}, !.title = Grouped]
                    [] OTHER -> [[y EXCEPT !.todo = y.todo \ {t}, !.title = t, !.number = existing]
                                   EXCEPT !.pc = IF existing = 0 THEN "create" ELSE "lock"]
           New(x) == /\ x \in WorkerState /\ IsSound(x) /\ LosesNone(x) /\ x.pc \in {"close", "lock", "create"}
<1>7. Works(w, new)
  BY <1>2 DEF OpenIssues, ReportOf
<1>8. Grouped \in Title /\ 0 \in 0 .. MaxIssues /\ Grouped # Whole /\ Whole \notin TestCase
  BY FlakybotAssumption DEF Title, Grouped, Whole
<1>9. {"close", "lock", "create"} \subseteq WorkerPc
  BY DEF WorkerPc
<1>10. ASSUME y.todo = {} PROVE New([y EXCEPT !.pc = "close", !.number = 0])
  <2>1. PICK n \in 0 .. MaxIssues : n = 0
    BY <1>8
  <2>2. PICK x \in WorkerState : x = [y EXCEPT !.pc = "close", !.number = n]
       /\ x.pc = "close" /\ x.report = y.report /\ x.seen = y.seen /\ x.duplicates = y.duplicates /\ x.todo = y.todo
    <3>1. PICK z : z = [y EXCEPT !.pc = "close", !.number = n]
      OBVIOUS
    <3>2. z \in WorkerState
      BY <3>1, <1>9 DEF WorkerState
    <3>3. z.pc = "close" /\ z.report = y.report /\ z.seen = y.seen /\ z.duplicates = y.duplicates /\ z.todo = y.todo
      BY <3>1 DEF WorkerState
    <3>4. QED
      BY <3>1, <3>2, <3>3
  <2>3. IsSound(x)
    BY <1>2, <2>2 DEF IsSound, AtIssue, Noting, Closing
  <2>4. LosesNone(x)
    BY <1>4, <1>10, <2>2 DEF LosesNone
  <2>5. QED
    BY <2>1, <2>2, <2>3, <2>4
<1>11. ASSUME grouped # {}
       PROVE  New([y EXCEPT !.pc = "lock", !.todo = y.todo \ TestCase, !.title = Grouped, !.number = Least(grouped)])
  <2>1. Least(grouped) \in grouped
    BY <1>5, <1>11, LeastIsIn DEF OpenOnes, Titled
  <2>2. PICK n \in 0 .. MaxIssues : n = Least(grouped) /\ n \in DOMAIN issuesOf /\ issuesOf[n].title = Grouped
    BY <1>5, <2>1 DEF OpenOnes, Titled
  <2>3. PICK rest \in SUBSET Title : rest = y.todo \ TestCase
    BY <1>3
  <2>4. PICK g \in Title : g = Grouped
    BY <1>8
  <2>5. PICK x \in WorkerState : x = [y EXCEPT !.pc = "lock", !.todo = rest, !.title = g, !.number = n]
       /\ x.pc = "lock" /\ x.report = y.report /\ x.seen = y.seen /\ x.duplicates = y.duplicates /\ x.todo = rest /\ x.title = g /\ x.number = n
    <3>1. PICK z : z = [y EXCEPT !.pc = "lock", !.todo = rest, !.title = g, !.number = n]
      OBVIOUS
    <3>2. z \in WorkerState
      BY <3>1, <1>9 DEF WorkerState
    <3>3. z.pc = "lock" /\ z.report = y.report /\ z.seen = y.seen /\ z.duplicates = y.duplicates /\ z.todo = rest /\ z.title = g /\ z.number = n
      BY <3>1 DEF WorkerState
    <3>4. QED
      BY <3>1, <3>2, <3>3
  <2>6. IsSound(x)
    BY <1>2, <2>2, <2>4, <2>5 DEF IsSound
  <2>7. LosesNone(x)
    <3>1. \A u \in reports[y.report].failures \ rest : Known(y.report, u) \/ Pending(x, u)
      BY <1>4, <1>8, <2>3, <2>4, <2>5 DEF Pending, Noting
    <3>2. QED
      BY <2>5, <3>1 DEF LosesNone, Closing
  <2>8. QED
    BY <2>2, <2>3, <2>4, <2>5, <2>6, <2>7
<1>12. ASSUME Cardinality(y.todo) >= Threshold, y.todo = reports[y.report].failures
       PROVE  New([y EXCEPT !.pc = "create", !.todo = {}, !.title = Grouped])
  <2>1. y.todo # {Whole}
    <3>1. Cardinality({Whole}) = 1
      BY FS_Singleton
    <3>2. Threshold \in Nat /\ Threshold > 1
      BY FlakybotAssumption
    <3>3. QED
      BY <1>12, <3>1, <3>2
  <2>2. Whole \notin reports[y.report].failures
    BY <1>3, <1>8, <1>12, <2>1 DEF BuildReport
  <2>3. PICK none \in SUBSET Title : none = {}
    OBVIOUS
  <2>4. PICK g \in Title : g = Grouped
    BY <1>8
  <2>5. PICK x \in WorkerState : x = [y EXCEPT !.pc = "create", !.todo = none, !.title = g]
       /\ x.pc = "create" /\ x.report = y.report /\ x.seen = y.seen /\ x.duplicates = y.duplicates /\ x.todo = none /\ x.title = g
    <3>1. PICK z : z = [y EXCEPT !.pc = "create", !.todo = none, !.title = g]
      OBVIOUS
    <3>2. z \in WorkerState
      BY <3>1, <1>9 DEF WorkerState
    <3>3. z.pc = "create" /\ z.report = y.report /\ z.seen = y.seen /\ z.duplicates = y.duplicates /\ z.todo = none /\ z.title = g
      BY <3>1 DEF WorkerState
    <3>4. QED
      BY <3>1, <3>2, <3>3
  <2>6. IsSound(x)
    BY <1>2, <2>5 DEF IsSound, AtIssue
  <2>7. LosesNone(x)
    <3>1. \A u \in reports[y.report].failures : Pending(x, u)
      BY <2>2, <2>4, <2>5 DEF Pending, Noting
    <3>2. QED
      BY <2>5, <3>1 DEF LosesNone, Closing
  <2>8. QED
    BY <2>3, <2>4, <2>5, <2>6, <2>7
<1>13. ASSUME y.todo # {}
       PROVE  New([[y EXCEPT !.todo = y.todo \ {t}, !.title = t, !.number = existing]
                      EXCEPT !.pc = IF existing = 0 THEN "create" ELSE "lock"])
  <2>1. PICK u \in Title : u = t /\ u \in y.todo
    BY <1>3, <1>13
  <2>2. PICK n \in 0 .. MaxIssues : /\ n = existing
                                    /\ n # 0 => n \in DOMAIN issuesOf /\ issuesOf[n].title = u
    <3>1. existing = 0 \/ (existing \in DOMAIN y.seen /\ y.seen[existing].title = t)
      BY <1>3, FoundIsThere
    <3>2. QED
      BY <1>5, <1>8, <2>1, <3>1
  <2>3. PICK rest \in SUBSET Title : rest = y.todo \ {t}
    BY <1>3
  <2>4. PICK pc \in {"create", "lock"} : pc = IF n = 0 THEN "create" ELSE "lock"
    OBVIOUS
  <2>5. PICK x \in WorkerState : x = [[y EXCEPT !.todo = rest, !.title = u, !.number = n] EXCEPT !.pc = pc]
       /\ x.pc = pc /\ x.report = y.report /\ x.seen = y.seen /\ x.duplicates = y.duplicates /\ x.todo = rest /\ x.title = u /\ x.number = n
    <3>1. PICK z : z = [[y EXCEPT !.todo = rest, !.title = u, !.number = n] EXCEPT !.pc = pc]
      OBVIOUS
    <3>2. z \in WorkerState
      BY <3>1, <1>9, <2>4 DEF WorkerState
    <3>3. z.pc = pc /\ z.report = y.report /\ z.seen = y.seen /\ z.duplicates = y.duplicates /\ z.todo = rest /\ z.title = u /\ z.number = n
      BY <3>1 DEF WorkerState
    <3>4. QED
      BY <3>1, <3>2, <3>3
  <2>6. IsSound(x)
    BY <1>2, <2>2, <2>4, <2>5 DEF IsSound, AtIssue
  <2>7. LosesNone(x)
    <3>1. \A v \in reports[y.report].failures \ rest : Known(y.report, v) \/ Pending(x, v)
      BY <1>4, <2>1, <2>3, <2>4, <2>5 DEF Pending, Noting
    <3>2. QED
      BY <2>4, <2>5, <3>1 DEF LosesNone, Closing
  <2>8. QED
    BY <2>1, <2>2, <2>3, <2>4, <2>5, <2>6, <2>7
<1>14. New(new)
  <2> HIDE DEF New, grouped, existing, t
  <2>1. QED
    BY <1>10, <1>11, <1>12, <1>13
<1>15. QED
  <2>1. PICK x \in WorkerState : x = new /\ IsSound(x) /\ LosesNone(x) /\ x.pc \in {"close", "lock", "create"}
    BY <1>14
  <2>2. Works(w, x)
    BY <1>7, <2>1
  <2>3. x.pc \notin Holding /\ x.pc # "comment"
    BY <2>1 DEF Holding
  <2>4. QED
    BY <1>6, <2>1, <2>2, <2>3, QuietMoves

\* An upset is counted, and no worker is alone from then on.
LEMMA UpsetCounts ==
  ASSUME FlakyTyped, Upset
  PROVE  upsets' \in 0 .. MaxUpsets /\ serial' \in BOOLEAN
<1>1. upsets' \in 0 .. MaxUpsets
  BY FlakybotAssumption DEF FlakyTyped, Upset
<1>2. serial' \in BOOLEAN
  BY Zenon DEF Upset
<1>3. QED
  BY <1>1, <1>2

\* The lock of an issue is got, or gone without.
LEMMA LockKeeps ==
  ASSUME FlakyInv, NEW w \in Worker, Lock(w)
  PROVE  FlakyInv'
<1>1. FlakyTyped /\ worker[w].pc = "lock" /\ IssuesTyped
  BY DEF FlakyInv, Lock, FlakyTyped
<1>2. PICK y \in WorkerState : y = worker[w] /\ IsSound(y) /\ y.pc = "lock" /\ LosesNone(y)
  BY <1>1, WorkerTyped DEF FlakyInv, KnownInv
<1>3. PICK x \in WorkerState :
        /\ x = [y EXCEPT !.pc = "get"] /\ x.pc = "get" /\ x.report = y.report /\ x.seen = y.seen
        /\ x.duplicates = y.duplicates /\ x.todo = y.todo /\ x.title = y.title /\ x.number = y.number
  <2>1. "get" \in WorkerPc
    BY DEF WorkerPc
  <2>2. QED
    BY <2>1, PcTyped
<1>4. IsSound(x) /\ LosesNone(x)
  BY <1>2, <1>3, GoesOn DEF Noting, Closing, AtIssue
<1>5. UNCHANGED <<issuesOf, reports, inbox, received, handled, doubled>> /\ Works(w, x)
  BY <1>2, <1>3 DEF Lock
<1>6. IssuesTyped' /\ IssuesGrow
  BY <1>1, <1>5, IssuesSame
<1>7. IsSound(x)' /\ LosesNone(x)'
  BY <1>1, <1>4, <1>5, <1>6, Grown
<1>8. x.number \in IssueNumber
  BY <1>1, <1>2, <1>3, ThereTyped DEF IsSound, AtIssue, Noting
<1>9. lockOf \in [IssueNumber -> Worker \cup {"free"}] /\ upsets \in 0 .. MaxUpsets /\ exclusive \in BOOLEAN /\ serial \in BOOLEAN
  BY <1>1 DEF FlakyTyped
<1>10. CASE lockOf[x.number] = "free"
  <2>1. lockOf' = [lockOf EXCEPT ![x.number] = w] /\ UNCHANGED <<exclusive, upsets, serial>>
    BY <1>2, <1>3, <1>10 DEF Lock
  <2>2. /\ lockOf' \in [IssueNumber -> Worker \cup {"free"}] /\ lockOf'[x.number] = w
        /\ \A i \in IssueNumber : lockOf[i] \in Worker \ {w} => lockOf'[i] = lockOf[i]
    BY <1>8, <1>9, <1>10, <2>1, FlakybotAssumption
  <2>3. QED
    BY <1>1, <1>3, <1>5, <1>6, <1>7, <1>9, <2>1, <2>2, WorkerMoves DEF FlakyTyped
<1>11. CASE lockOf[x.number] # "free"
  <2>1. Upset /\ exclusive' = FALSE /\ UNCHANGED lockOf
    <3>1. lockOf[worker[w].number] # "free"
      BY <1>2, <1>3, <1>11
    <3>2. QED
      BY <3>1, Zenon DEF Lock
  <2>2. upsets' \in 0 .. MaxUpsets /\ serial' \in BOOLEAN /\ ~exclusive' /\ exclusive' \in BOOLEAN
    BY <1>1, <2>1, UpsetCounts, Zenon
  <2>3. QED
    BY <1>1, <1>3, <1>5, <1>6, <1>7, <1>9, <2>1, <2>2, WorkerMoves DEF FlakyTyped
<1>12. QED
  BY <1>10, <1>11

\* A worker at an issue, and the issue it is at.
LEMMA AtIssueTyped ==
  ASSUME FlakyInv, NEW w \in Worker, worker[w].pc \in AtIssue
  PROVE  /\ worker[w].number \in DOMAIN issuesOf /\ worker[w].number \in IssueNumber
         /\ issuesOf[worker[w].number] \in Issue
         /\ worker[w].pc \in Noting => issuesOf[worker[w].number].title = worker[w].title
         /\ worker[w].pc \in Holding => (exclusive => lockOf[worker[w].number] = w)
         /\ ReportOf(w) \in Report /\ ReportOf(w).commit \in Revision
         /\ worker[w].report \in DOMAIN reports
<1>1. FlakyTyped /\ IssuesTyped /\ IsSound(worker[w])
  BY WorkerTyped DEF FlakyInv, FlakyTyped
<1>2. worker[w].number \in DOMAIN issuesOf /\ (worker[w].pc \in Noting => issuesOf[worker[w].number].title = worker[w].title)
  BY <1>1 DEF IsSound, AtIssue
<1>3. worker[w].pc # "idle"
  BY DEF AtIssue, Noting, Closing
<1>4. worker[w].report \in DOMAIN reports /\ ReportOf(w) \in BuildReport
  BY <1>1, <1>3, WorkerTyped
<1>5. ReportOf(w) \in Report /\ ReportOf(w).commit \in Revision
  BY <1>4 DEF BuildReport, Report
<1>6. worker[w].pc \in Holding => (exclusive => lockOf[worker[w].number] = w)
  BY DEF FlakyInv, NotedInv, NotesAlone
<1>7. QED
  BY <1>1, <1>2, <1>4, <1>5, <1>6, ThereTyped

\* An issue is fetched.
LEMMA GetKeeps ==
  ASSUME FlakyInv, NEW w \in Worker, Get(w)
  PROVE  FlakyInv'
<1>1. FlakyTyped /\ worker[w].pc = "get" /\ IssuesTyped
  BY DEF FlakyInv, Get, FlakyTyped
<1>2. PICK y \in WorkerState : y = worker[w] /\ IsSound(y) /\ y.pc = "get" /\ LosesNone(y)
  BY <1>1, WorkerTyped DEF FlakyInv, KnownInv
<1>3. worker[w].pc \in Noting /\ worker[w].pc \in Holding /\ worker[w].pc \in AtIssue
  BY <1>1 DEF Noting, Holding, AtIssue
<1>4. PICK issue \in Issue : issue = issuesOf[y.number] /\ issue.title = y.title /\ y.number \in DOMAIN issuesOf
  BY <1>2, <1>3, AtIssueTyped
<1>5. UNCHANGED <<issuesOf, doubled>> /\ Inbox
  BY DEF Get
<1>6. CASE NextFailure(w) /\ issue.labels # {}
  <2>1. IssuesTyped' /\ IssuesGrow
    BY <1>1, <1>5, IssuesSame
  <2>2. \E i \in DOMAIN issuesOf' : issuesOf'[i].title = worker[w].title /\ issuesOf'[i].labels # {}
    BY <1>2, <1>4, <1>5, <1>6
  <2>3. doubled' \in BOOLEAN
    BY <1>1, <1>5 DEF FlakyTyped
  <2>4. QED
    BY <1>3, <1>5, <1>6, <2>1, <2>2, <2>3, NextFailureMoves
<1>7. ASSUME NEW labels \in SUBSET Label, NEW pc \in {"create", "reopen", "comments"}, Unlocked,
             Works(w, [y EXCEPT !.pc = pc, !.labels = labels]) \/ Works(w, [y EXCEPT !.pc = pc])
      PROVE  FlakyInv'
  <2>1. pc \in WorkerPc
    BY DEF WorkerPc
  <2>2. PICK x : (x = [y EXCEPT !.pc = pc, !.labels = labels] \/ x = [y EXCEPT !.pc = pc]) /\ Works(w, x)
    BY <1>7
  <2>3. /\ x \in WorkerState /\ x.pc = pc /\ x.report = y.report /\ x.seen = y.seen
        /\ x.duplicates = y.duplicates /\ x.todo = y.todo /\ x.title = y.title /\ x.number = y.number
    BY <2>1, <2>2 DEF WorkerState
  <2>4. IsSound(x) /\ LosesNone(x)
    BY <1>2, <2>3, GoesOn DEF Noting, Closing, AtIssue
  <2>5. exclusive => lockOf[x.number] = w
    BY <1>2, <1>3, <2>3, AtIssueTyped
  <2>6. QED
    BY <1>5, <1>7, <2>2, <2>3, <2>4, <2>5, QuietMoves DEF Unlocked, Inbox
<1>8. issue.labels \in SUBSET Label
  BY <1>4 DEF Issue
<1>9. CASE y.title # Grouped /\ ~issue.open
  <2>1. PICK pc \in {"create", "reopen"} : Works(w, [y EXCEPT !.pc = pc, !.labels = issue.labels]) /\ Unlocked
    BY <1>2, <1>4, <1>9 DEF Get
  <2>2. QED
    BY <1>7, <1>8, <2>1
<1>10. CASE ~(y.title # Grouped /\ ~issue.open) /\ issue.labels # {}
  BY <1>2, <1>4, <1>6, <1>10 DEF Get
<1>11. CASE ~(y.title # Grouped /\ ~issue.open) /\ issue.labels = {}
  <2>1. Works(w, [y EXCEPT !.pc = "comments"]) /\ Unlocked
    BY <1>2, <1>4, <1>11 DEF Get
  <2>2. QED
    BY <1>7, <1>8, <2>1
<1>12. QED
  BY <1>9, <1>10, <1>11

\* The comments are read for the failure.
LEMMA ReadCommentsKeeps ==
  ASSUME FlakyInv, NEW w \in Worker, ReadComments(w)
  PROVE  FlakyInv'
<1>1. FlakyTyped /\ worker[w].pc = "comments" /\ IssuesTyped
  BY DEF FlakyInv, ReadComments, FlakyTyped
<1>2. PICK y \in WorkerState : y = worker[w] /\ IsSound(y) /\ y.pc = "comments" /\ LosesNone(y)
  BY <1>1, WorkerTyped DEF FlakyInv, KnownInv
<1>3. worker[w].pc \in Noting /\ worker[w].pc \in Holding /\ worker[w].pc \in AtIssue
  BY <1>1 DEF Noting, Holding, AtIssue
<1>4. UNCHANGED <<issuesOf, doubled>> /\ Inbox
  BY DEF ReadComments
<1>5. CASE ContainsBuildFailure(w)
  <2>1. IssuesTyped' /\ IssuesGrow
    BY <1>1, <1>4, IssuesSame
  <2>2. \E i \in DOMAIN issuesOf' : issuesOf'[i].title = worker[w].title /\ ReportOf(w).commit \in issuesOf'[i].failures
    BY <1>3, <1>4, <1>5, AtIssueTyped DEF ContainsBuildFailure
  <2>3. doubled' \in BOOLEAN
    BY <1>1, <1>4 DEF FlakyTyped
  <2>4. NextFailure(w)
    BY <1>5 DEF ReadComments
  <2>5. QED
    BY <1>3, <1>4, <2>1, <2>2, <2>3, <2>4, NextFailureMoves
<1>6. CASE ~ContainsBuildFailure(w)
  <2>1. Works(w, [y EXCEPT !.pc = "comment"]) /\ Unlocked
    BY <1>2, <1>6 DEF ReadComments
  <2>2. PICK x \in WorkerState :
          /\ x = [y EXCEPT !.pc = "comment"] /\ x.pc = "comment" /\ x.report = y.report /\ x.seen = y.seen
          /\ x.duplicates = y.duplicates /\ x.todo = y.todo /\ x.title = y.title /\ x.number = y.number
    <3>1. "comment" \in WorkerPc
      BY DEF WorkerPc
    <3>2. QED
      BY <3>1, PcTyped
  <2>3. IsSound(x) /\ LosesNone(x)
    BY <1>2, <2>2, GoesOn DEF Noting, Closing, AtIssue
  <2>4. exclusive => lockOf[x.number] = w
    BY <1>2, <1>3, <2>2, AtIssueTyped
  <2>5. reports[x.report].commit \notin issuesOf[x.number].failures
    BY <1>2, <1>6, <2>2 DEF ContainsBuildFailure, ReportOf
  <2>6. QED
    BY <1>4, <2>1, <2>2, <2>3, <2>4, <2>5, QuietMoves DEF Unlocked, Inbox
<1>7. QED
  BY <1>5, <1>6

\* The issue a worker is at becomes a flaky one.
LEMMA FlakyIsMarked ==
  ASSUME FlakyInv, NEW w \in Worker, worker[w].pc \in AtIssue, MarkIssueFlaky(w)
  PROVE  /\ IssuesTyped' /\ IssuesGrow
         /\ \A n \in DOMAIN issuesOf :
              /\ issuesOf'[n].failures = issuesOf[n].failures
              /\ n # worker[w].number => issuesOf'[n] = issuesOf[n]
         /\ DOMAIN issuesOf' = DOMAIN issuesOf
         /\ issuesOf'[worker[w].number].open /\ issuesOf'[worker[w].number].labels = {"flaky"}
<1>1. PICK n \in DOMAIN issuesOf : n = worker[w].number /\ issuesOf[n] \in Issue
  BY AtIssueTyped
<1>2. PICK z \in Issue : /\ z = AsFlaky(issuesOf[n]) /\ z.title = issuesOf[n].title
                         /\ z.failures = issuesOf[n].failures /\ z.labels = {"flaky"} /\ z.open
  BY <1>1, AsFlakyTyped
<1>3. issuesOf' = [issuesOf EXCEPT ![n] = z]
  BY <1>1, <1>2 DEF MarkIssueFlaky, AsFlaky
<1>4. IssuesTyped
  BY DEF FlakyInv, FlakyTyped
<1>5. /\ IssuesTyped' /\ IssuesGrow /\ DOMAIN issuesOf' = DOMAIN issuesOf
      /\ issuesOf'[n] = z /\ \A i \in DOMAIN issuesOf : i # n => issuesOf'[i] = issuesOf[i]
  BY <1>2, <1>3, <1>4, IssueChanges
<1>6. QED
  BY <1>1, <1>2, <1>5

\* A failure is noted on the issue a worker is at.
LEMMA FailureIsNoted ==
  ASSUME FlakyInv, NEW w \in Worker, worker[w].pc \in Noting \cap AtIssue, NoteFailure(w)
  PROVE  /\ IssuesTyped' /\ IssuesGrow /\ DOMAIN issuesOf' = DOMAIN issuesOf
         /\ \A n \in DOMAIN issuesOf :
              /\ issuesOf'[n].failures = issuesOf[n].failures \/ n = worker[w].number
              /\ issuesOf'[n].labels = issuesOf[n].labels /\ issuesOf'[n].open = issuesOf[n].open
         /\ \E i \in DOMAIN issuesOf' :
              /\ i = worker[w].number /\ issuesOf'[i].title = worker[w].title
              /\ ReportOf(w).commit \in issuesOf'[i].failures
<1>1. PICK n \in DOMAIN issuesOf : n = worker[w].number /\ issuesOf[n] \in Issue /\ issuesOf[n].title = worker[w].title
  BY AtIssueTyped
<1>2. PICK c \in Revision : c = ReportOf(w).commit
  BY AtIssueTyped
<1>3. PICK issue \in Issue : issue = issuesOf[n]
  BY <1>1
<1>4. PICK noted \in SUBSET Revision : noted = issue.failures \cup {c}
  BY DEF Issue
<1>5. PICK y : y = [issue EXCEPT !.failures = noted]
  OBVIOUS
<1>6. y \in Issue /\ y.title = issue.title /\ y.failures = noted /\ y.labels = issue.labels /\ y.open = issue.open
  BY <1>5 DEF Issue
<1>7. issuesOf' = [issuesOf EXCEPT ![n] = y]
  BY <1>1, <1>2, <1>3, <1>4, <1>5 DEF NoteFailure
<1>8. IssuesTyped
  BY DEF FlakyInv, FlakyTyped
<1>9. /\ IssuesTyped' /\ IssuesGrow /\ DOMAIN issuesOf' = DOMAIN issuesOf
      /\ issuesOf'[n] = y /\ \A i \in DOMAIN issuesOf : i # n => issuesOf'[i] = issuesOf[i]
  <2>1. y.title = issuesOf[n].title /\ issuesOf[n].failures \subseteq y.failures /\ (issuesOf[n].labels # {} => y.labels # {})
    BY <1>3, <1>4, <1>6
  <2>2. QED
    BY <1>6, <1>7, <1>8, <2>1, IssueChanges
<1>10. issuesOf'[n].title = worker[w].title /\ ReportOf(w).commit \in issuesOf'[n].failures
  BY <1>1, <1>2, <1>3, <1>4, <1>6, <1>9
<1>11. \A i \in DOMAIN issuesOf : issuesOf'[i].labels = issuesOf[i].labels /\ issuesOf'[i].open = issuesOf[i].open
  BY <1>3, <1>6, <1>9
<1>12. QED
  BY <1>1, <1>9, <1>10, <1>11

\* The failure is noted in a comment.
LEMMA CreateCommentKeeps ==
  ASSUME FlakyInv, NEW w \in Worker, CreateComment(w)
  PROVE  FlakyInv'
<1>1. worker[w].pc = "comment" /\ NoteFailure(w) /\ NextFailure(w) /\ Inbox
  BY DEF CreateComment
<1>2. worker[w].pc \in Noting /\ worker[w].pc \in Holding /\ worker[w].pc \in AtIssue
  BY <1>1 DEF Noting, Holding, AtIssue
<1>3. /\ IssuesTyped' /\ IssuesGrow
      /\ \A n \in DOMAIN issuesOf : issuesOf'[n].failures = issuesOf[n].failures \/ n = worker[w].number
      /\ \E i \in DOMAIN issuesOf' :
           issuesOf'[i].title = worker[w].title /\ ReportOf(w).commit \in issuesOf'[i].failures
  BY <1>1, <1>2, FailureIsNoted
<1>4. exclusive => lockOf[worker[w].number] = w
  BY <1>2, AtIssueTyped
<1>5. exclusive => ~ContainsBuildFailure(w)
  BY <1>1 DEF FlakyInv, NotedInv, NotesAlone
<1>6. doubled' \in BOOLEAN /\ (doubled' => doubled \/ ContainsBuildFailure(w))
  BY Zenon DEF CreateComment
<1>7. \A n \in DOMAIN issuesOf : issuesOf'[n].failures = issuesOf[n].failures \/ (exclusive => lockOf[n] = w)
  BY <1>3, <1>4
<1>8. exclusive /\ doubled' => doubled
  BY <1>5, <1>6
<1>9. QED
  BY <1>1, <1>2, <1>3, <1>6, <1>7, <1>8, NextFailureMoves

\* The failure is noted with the reason for reopening.
LEMMA CommentReasonKeeps ==
  ASSUME FlakyInv, NEW w \in Worker, CommentReason(w)
  PROVE  FlakyInv'
<1>1. worker[w].pc = "reason" /\ NoteFailure(w) /\ NextFailure(w) /\ Inbox /\ UNCHANGED doubled
  BY DEF CommentReason
<1>2. worker[w].pc \in Noting /\ worker[w].pc \in Holding /\ worker[w].pc \in AtIssue
  BY <1>1 DEF Noting, Holding, AtIssue
<1>3. /\ IssuesTyped' /\ IssuesGrow
      /\ \A n \in DOMAIN issuesOf : issuesOf'[n].failures = issuesOf[n].failures \/ n = worker[w].number
      /\ \E i \in DOMAIN issuesOf' :
           issuesOf'[i].title = worker[w].title /\ ReportOf(w).commit \in issuesOf'[i].failures
  BY <1>1, <1>2, FailureIsNoted
<1>4. exclusive => lockOf[worker[w].number] = w
  BY <1>2, AtIssueTyped
<1>5. doubled' \in BOOLEAN
  BY <1>1 DEF FlakyInv, FlakyTyped
<1>6. \A n \in DOMAIN issuesOf : issuesOf'[n].failures = issuesOf[n].failures \/ (exclusive => lockOf[n] = w)
  BY <1>3, <1>4
<1>7. QED
  BY <1>1, <1>2, <1>3, <1>5, <1>6, NextFailureMoves

\* An issue is opened for the failure.
LEMMA OpenNewIssueKeeps ==
  ASSUME FlakyInv, NEW w \in Worker, OpenNewIssue(w)
  PROVE  FlakyInv'
<1>1. worker[w].pc = "create" /\ NextFailure(w) /\ Inbox /\ UNCHANGED doubled /\ Len(issuesOf) < MaxIssues
  BY DEF OpenNewIssue
<1>2. IssuesTyped /\ worker[w] \in WorkerState /\ ReportOf(w) \in BuildReport
  BY <1>1, WorkerTyped DEF FlakyInv, FlakyTyped
<1>3. PICK title \in Title : title = worker[w].title
  BY <1>2 DEF WorkerState
<1>4. PICK c \in Revision : c = ReportOf(w).commit
  BY <1>2 DEF BuildReport, Report
<1>5. PICK yes, no \in BOOLEAN : yes = TRUE /\ no = FALSE
  OBVIOUS
<1>6. PICK new : new = [title |-> title, open |-> yes, labels |-> {}, locked |-> no,
                        old |-> no, closedAt |-> 0, failures |-> {c}]
  OBVIOUS
<1>7. new \in Issue /\ new.title = title /\ c \in new.failures
  BY <1>6 DEF Issue
<1>8. issuesOf' = Append(issuesOf, new)
  BY <1>3, <1>4, <1>5, <1>6 DEF OpenNewIssue
<1>9. issuesOf \in Seq(Issue) /\ Len(issuesOf) \in Nat /\ MaxIssues \in Nat
  BY <1>2, FlakybotAssumption DEF IssuesTyped
<1>10. /\ issuesOf' \in Seq(Issue) /\ Len(issuesOf') = Len(issuesOf) + 1 /\ DOMAIN issuesOf' = 1 .. Len(issuesOf')
       /\ issuesOf'[Len(issuesOf) + 1] = new /\ DOMAIN issuesOf = 1 .. Len(issuesOf)
       /\ \A i \in 1 .. Len(issuesOf) : issuesOf'[i] = issuesOf[i]
  BY <1>7, <1>8, <1>9, AppendProperties
<1>11. IssuesTyped' /\ DOMAIN issuesOf \subseteq DOMAIN issuesOf' /\ Len(issuesOf) + 1 \in DOMAIN issuesOf'
  BY <1>1, <1>9, <1>10 DEF IssuesTyped
<1>12. IssuesGrow
  BY <1>10, <1>11 DEF IssuesGrow
<1>13. \E i \in DOMAIN issuesOf' : issuesOf'[i].title = worker[w].title /\ ReportOf(w).commit \in issuesOf'[i].failures
  BY <1>3, <1>4, <1>7, <1>10, <1>11
<1>14. worker[w].pc \in Noting /\ doubled' \in BOOLEAN
  BY <1>1 DEF Noting, FlakyInv, FlakyTyped
<1>15. \A n \in DOMAIN issuesOf : issuesOf'[n].failures = issuesOf[n].failures
  BY <1>10
<1>16. QED
  BY <1>1, <1>11, <1>12, <1>13, <1>14, <1>15, NextFailureMoves

\* What a worker is that has no report.
LEMMA IsUnoccupied ==
  /\ Unoccupied \in WorkerState /\ Unoccupied.pc = "idle" /\ Unoccupied.seen = <<>> /\ Unoccupied.duplicates = {}
  /\ IsSound(Unoccupied)' /\ LosesNone(Unoccupied)'
<1>1. PICK no \in BOOLEAN : no = FALSE
  OBVIOUS
<1>2. PICK x : x = Unoccupied
  OBVIOUS
<1>3. x = [pc |-> "idle", report |-> 0, seen |-> <<>>, duplicates |-> {}, modified |-> no, todo |-> {},
           title |-> Grouped, number |-> 0, labels |-> {}]
  BY <1>1, <1>2 DEF Unoccupied
<1>4. "idle" \in WorkerPc /\ <<>> \in Seq(Issue) /\ Grouped \in Title /\ 0 \in 0 .. MaxIssues /\ 0 \in 0 .. MaxReports
  BY FlakybotAssumption DEF WorkerPc, Title
<1>5. x \in WorkerState
  BY <1>3, <1>4 DEF WorkerState
<1>6. x.pc = "idle" /\ x.seen = <<>> /\ x.duplicates = {}
  BY <1>3
<1>7. IsSound(x)'
  BY <1>6 DEF IsSound, AtIssue, Noting, Closing
<1>8. LosesNone(x)'
  BY <1>6 DEF LosesNone, Closing
<1>9. QED
  BY <1>2, <1>5, <1>6, <1>7, <1>8, Zenon

\* A closed issue is reopened, as flaky.
LEMMA ReopenKeeps ==
  ASSUME FlakyInv, NEW w \in Worker, Reopen(w)
  PROVE  FlakyInv'
<1>1. FlakyTyped /\ worker[w].pc = "reopen" /\ IssuesTyped /\ MarkIssueFlaky(w)
  BY DEF FlakyInv, Reopen, FlakyTyped
<1>2. PICK y \in WorkerState : y = worker[w] /\ IsSound(y) /\ y.pc = "reopen" /\ LosesNone(y)
  BY <1>1, WorkerTyped DEF FlakyInv, KnownInv
<1>3. worker[w].pc \in Holding /\ worker[w].pc \in AtIssue
  BY <1>1 DEF Noting, Holding, AtIssue
<1>4. UNCHANGED <<lockOf, exclusive, reports, inbox, upsets, received, handled, serial, doubled>>
  BY DEF Reopen, Unlocked, Inbox
<1>5. /\ IssuesTyped' /\ IssuesGrow
      /\ \A n \in DOMAIN issuesOf : issuesOf'[n].failures = issuesOf[n].failures
  BY <1>1, <1>3, FlakyIsMarked
<1>6. PICK x \in WorkerState :
        /\ x = [y EXCEPT !.pc = "reason"] /\ x.pc = "reason" /\ x.report = y.report /\ x.seen = y.seen
        /\ x.duplicates = y.duplicates /\ x.todo = y.todo /\ x.title = y.title /\ x.number = y.number
  <2>1. "reason" \in WorkerPc
    BY DEF WorkerPc
  <2>2. QED
    BY <2>1, PcTyped
<1>7. IsSound(x) /\ LosesNone(x)
  BY <1>2, <1>6, GoesOn DEF Noting, Closing, AtIssue
<1>8. IsSound(x)' /\ LosesNone(x)'
  BY <1>1, <1>4, <1>5, <1>7, Grown
<1>9. exclusive => lockOf[x.number] = w
  BY <1>2, <1>3, <1>6, AtIssueTyped
<1>10. Works(w, x)
  BY <1>2, <1>6 DEF Reopen
<1>11. QED
  BY <1>1, <1>4, <1>5, <1>6, <1>8, <1>9, <1>10, WorkerMoves DEF FlakyTyped

\* closeIssues() comes to the next issue, or is done with them and with the report.
LEMMA CloseIssuesKeeps ==
  ASSUME FlakyInv, NEW w \in Worker, CloseIssues(w)
  PROVE  FlakyInv'
<1>1. FlakyTyped /\ worker[w].pc = "close" /\ IssuesTyped
  BY DEF FlakyInv, CloseIssues, FlakyTyped
<1>2. PICK y \in WorkerState : y = worker[w] /\ IsSound(y) /\ y.pc = "close" /\ LosesNone(y)
  BY <1>1, WorkerTyped DEF FlakyInv, KnownInv
<1>3. UNCHANGED <<issuesOf, reports, inbox, upsets, received, serial, doubled, lockOf, exclusive>>
  BY DEF CloseIssues, Unlocked
<1>4. IssuesTyped' /\ IssuesGrow
  BY <1>1, <1>3, IssuesSame
<1>5. CASE ToClose(w) = {}
  <2>1. PICK x \in WorkerState : x = Unoccupied /\ x.pc = "idle" /\ IsSound(x)' /\ LosesNone(x)'
    BY IsUnoccupied
  <2>2. Works(w, x) /\ handled' = handled \cup {worker[w].report}
    BY <1>5, <2>1 DEF CloseIssues
  <2>3. worker[w].pc \in Closing /\ x.pc \notin Holding /\ x.pc # "comment"
    BY <1>1, <2>1 DEF Closing, Holding
  <2>4. QED
    BY <1>1, <1>3, <1>4, <2>1, <2>2, <2>3, WorkerMoves DEF FlakyTyped
<1>6. CASE ToClose(w) # {}
  <2>1. /\ ToClose(w) \in SUBSET Nat
        /\ \A i \in ToClose(w) : i \in DOMAIN issuesOf /\ i \in 0 .. MaxIssues
    BY <1>1, <1>2, ThereTyped, FlakybotAssumption DEF ToClose, IsSound, IssueNumber
  <2>2. PICK n \in 0 .. MaxIssues : n = Least(ToClose(w)) /\ n \in DOMAIN issuesOf
    BY <1>6, <2>1, LeastIsIn
  <2>3. PICK x : x = [y EXCEPT !.pc = "closeComments", !.number = n]
    OBVIOUS
  <2>4. /\ x \in WorkerState /\ x.pc = "closeComments" /\ x.report = y.report /\ x.seen = y.seen
        /\ x.duplicates = y.duplicates /\ x.todo = y.todo /\ x.number = n
    <3>1. "closeComments" \in WorkerPc
      BY DEF WorkerPc
    <3>2. QED
      BY <2>3, <3>1 DEF WorkerState
  <2>5. IsSound(x)
    BY <1>2, <2>2, <2>4 DEF IsSound, Noting
  <2>6. LosesNone(x)
    BY <1>2, <2>4 DEF LosesNone, Pending, Noting, Closing
  <2>7. Works(w, x) /\ UNCHANGED handled
    BY <1>2, <1>6, <2>2, <2>3 DEF CloseIssues
  <2>8. x.pc \notin Holding /\ x.pc # "comment"
    BY <2>4 DEF Holding
  <2>9. QED
    BY <1>3, <2>4, <2>5, <2>6, <2>7, <2>8, QuietMoves
<1>7. QED
  BY <1>5, <1>6

\* The comments of an issue to close are read.
LEMMA ReadCommentsToCloseKeeps ==
  ASSUME FlakyInv, NEW w \in Worker, ReadCommentsToClose(w)
  PROVE  FlakyInv'
<1>1. FlakyTyped /\ worker[w].pc = "closeComments"
  BY DEF FlakyInv, ReadCommentsToClose
<1>2. PICK y \in WorkerState : y = worker[w] /\ IsSound(y) /\ y.pc = "closeComments" /\ LosesNone(y)
  BY <1>1, WorkerTyped DEF FlakyInv, KnownInv
<1>3. UNCHANGED <<issuesOf, doubled, lockOf, exclusive, reports, inbox, upsets, received, handled, serial>>
  BY DEF ReadCommentsToClose, Unlocked, Inbox
<1>4. PICK pc \in {"markFlaky", "closeIssue"} : Works(w, [y EXCEPT !.pc = pc])
  BY <1>2 DEF ReadCommentsToClose
<1>5. PICK x \in WorkerState :
        /\ x = [y EXCEPT !.pc = pc] /\ x.pc = pc /\ x.report = y.report /\ x.seen = y.seen
        /\ x.duplicates = y.duplicates /\ x.todo = y.todo /\ x.title = y.title /\ x.number = y.number
  <2>1. pc \in WorkerPc
    BY <1>4 DEF WorkerPc
  <2>2. QED
    BY <2>1, PcTyped
<1>6. IsSound(x) /\ LosesNone(x)
  BY <1>2, <1>4, <1>5, GoesOn DEF Noting, Closing, AtIssue
<1>7. QED
  BY <1>3, <1>4, <1>5, <1>6, QuietMoves DEF Holding

\* An issue is closed.
LEMMA CloseIssueKeeps ==
  ASSUME FlakyInv, NEW w \in Worker, CloseIssue(w)
  PROVE  FlakyInv'
<1>1. FlakyTyped /\ worker[w].pc = "closeIssue" /\ IssuesTyped
  BY DEF FlakyInv, CloseIssue, FlakyTyped
<1>2. PICK y \in WorkerState : y = worker[w] /\ IsSound(y) /\ y.pc = "closeIssue" /\ LosesNone(y)
  BY <1>1, WorkerTyped DEF FlakyInv, KnownInv
<1>3. UNCHANGED <<doubled, lockOf, exclusive, reports, inbox, upsets, received, handled, serial>>
  BY DEF CloseIssue, Unlocked, Inbox
<1>4. PICK n \in DOMAIN issuesOf : n = worker[w].number /\ issuesOf[n] \in Issue
  <2>1. worker[w].pc \in AtIssue
    BY <1>1 DEF AtIssue, Closing
  <2>2. QED
    BY <2>1, AtIssueTyped
<1>5. issuesOf' = [issuesOf EXCEPT ![n] = IF issuesOf[n].open THEN Close(issuesOf[n]) ELSE issuesOf[n]]
  BY <1>4 DEF CloseIssue
<1>6. PICK z \in Issue : /\ z = IF issuesOf[n].open THEN Close(issuesOf[n]) ELSE issuesOf[n]
                         /\ z.title = issuesOf[n].title /\ z.failures = issuesOf[n].failures
                         /\ z.labels = issuesOf[n].labels
  BY <1>1, <1>4, CloseTyped
<1>7. /\ IssuesTyped' /\ IssuesGrow
      /\ \A i \in DOMAIN issuesOf : issuesOf'[i].failures = issuesOf[i].failures
  BY <1>1, <1>5, <1>6, IssueChanges
<1>8. PICK x \in WorkerState :
        /\ x = [y EXCEPT !.pc = "close"] /\ x.pc = "close" /\ x.report = y.report /\ x.seen = y.seen
        /\ x.duplicates = y.duplicates /\ x.todo = y.todo /\ x.title = y.title /\ x.number = y.number
  <2>1. "close" \in WorkerPc
    BY DEF WorkerPc
  <2>2. QED
    BY <2>1, PcTyped
<1>9. IsSound(x) /\ LosesNone(x)
  BY <1>2, <1>8, GoesOn DEF Noting, Closing, AtIssue
<1>10. IsSound(x)' /\ LosesNone(x)'
  BY <1>1, <1>3, <1>7, <1>9, Grown
<1>11. Works(w, x) /\ x.pc \notin Holding /\ x.pc # "comment"
  BY <1>2, <1>8 DEF CloseIssue, Holding
<1>12. QED
  BY <1>1, <1>3, <1>7, <1>10, <1>11, WorkerMoves DEF FlakyTyped

\* An issue is marked as flaky instead, and the report is done with.
LEMMA MarkFlakyKeeps ==
  ASSUME FlakyInv, NEW w \in Worker, MarkFlaky(w)
  PROVE  FlakyInv'
<1>1. FlakyTyped /\ worker[w].pc = "markFlaky" /\ MarkIssueFlaky(w)
  BY DEF FlakyInv, MarkFlaky
<1>2. UNCHANGED <<reports, inbox, upsets, received, serial, doubled, lockOf, exclusive>>
  BY DEF MarkFlaky, Unlocked
<1>3. worker[w].pc \in AtIssue /\ worker[w].pc \in Closing
  BY <1>1 DEF AtIssue, Closing
<1>4. /\ IssuesTyped' /\ IssuesGrow
      /\ \A n \in DOMAIN issuesOf : issuesOf'[n].failures = issuesOf[n].failures
  BY <1>1, <1>3, FlakyIsMarked
<1>5. PICK x \in WorkerState : x = Unoccupied /\ x.pc = "idle" /\ IsSound(x)' /\ LosesNone(x)'
  BY IsUnoccupied
<1>6. Works(w, x) /\ handled' = handled \cup {worker[w].report}
  BY <1>5 DEF MarkFlaky
<1>7. x.pc \notin Holding /\ x.pc # "comment"
  BY <1>5 DEF Holding
<1>8. QED
  BY <1>1, <1>2, <1>3, <1>4, <1>5, <1>6, <1>7, WorkerMoves DEF FlakyTyped

\* A handler fails or dies.
LEMMA WorkerFailsKeeps ==
  ASSUME FlakyInv, NEW w \in Worker, WorkerFails(w)
  PROVE  FlakyInv'
<1>1. FlakyTyped /\ worker[w].pc # "idle" /\ IssuesTyped /\ Upset
  BY DEF FlakyInv, WorkerFails, FlakyTyped
<1>2. /\ UNCHANGED <<issuesOf, reports, received, handled, exclusive, doubled>>
      /\ inbox' = inbox \cup {worker[w].report} /\ (Release(w) \/ UNCHANGED lockOf)
  BY DEF WorkerFails
<1>3. IssuesTyped' /\ IssuesGrow
  BY <1>1, <1>2, IssuesSame
<1>4. PICK x \in WorkerState : x = Unoccupied /\ x.pc = "idle" /\ IsSound(x)' /\ LosesNone(x)'
  BY IsUnoccupied
<1>5. Works(w, x) /\ x.pc \notin Holding /\ x.pc # "comment"
  BY <1>4 DEF WorkerFails, Holding
<1>6. inbox' \subseteq DOMAIN reports /\ upsets' \in 0 .. MaxUpsets /\ serial' \in BOOLEAN
  BY <1>1, <1>2, WorkerTyped, UpsetCounts DEF FlakyTyped
<1>7. /\ lockOf' \in [IssueNumber -> Worker \cup {"free"}]
      /\ \A i \in IssueNumber : lockOf[i] \in Worker \ {w} => lockOf'[i] = lockOf[i]
  BY <1>1, <1>2 DEF Release, FlakyTyped
<1>8. QED
  BY <1>1, <1>2, <1>3, <1>4, <1>5, <1>6, <1>7, WorkerMoves DEF FlakyTyped

----------------------------------------------------------------------------
(* The steps of builds, people and time                                     *)

\* A step that moves no worker.
LEMMA OthersMove ==
  ASSUME FlakyInv, UNCHANGED <<worker, received, handled, doubled>>,
         IssuesTyped', IssuesGrow, reports' \in Seq(BuildReport), Len(reports') <= MaxReports,
         DOMAIN reports \subseteq DOMAIN reports', \A b \in DOMAIN reports : reports'[b] = reports[b],
         inbox' \subseteq DOMAIN reports', upsets' \in 0 .. MaxUpsets, exclusive' \in BOOLEAN, serial' \in BOOLEAN,
         lockOf' \in [IssueNumber -> Worker \cup {"free"}],
         exclusive' => /\ exclusive /\ UNCHANGED lockOf
                       /\ \A n \in DOMAIN issuesOf : issuesOf'[n].failures = issuesOf[n].failures
  PROVE  FlakyInv'
<1>1. FlakyTyped /\ KnownInv /\ NotedInv
  BY DEF FlakyInv
<1>2. /\ \A y : IsSound(y) => IsSound(y)'
      /\ \A b \in DOMAIN reports : \A t : Known(b, t) => Known(b, t)'
      /\ \A y : IsSound(y) /\ LosesNone(y) => LosesNone(y)'
  BY <1>1, Grown
<1>3. ASSUME NEW v \in Worker PROVE IsSound(worker[v])' /\ LosesNone(worker[v])'
  <2>1. PICK y : y = worker[v] /\ IsSound(y) /\ LosesNone(y)
    BY <1>1, WorkerTyped DEF KnownInv
  <2>2. IsSound(y)' /\ LosesNone(y)' /\ worker'[v] = y
    BY <1>2, <2>1
  <2>3. QED
    BY <2>2 DEF IsSound, LosesNone, Known, Pending
<1>4. FlakyTyped'
  BY <1>1, <1>3 DEF FlakyTyped, WorkersTyped
<1>5. FailureIsKnown'
  <2>1. \A b \in handled : b \in DOMAIN reports /\ \A t \in reports[b].failures : Known(b, t)
    BY <1>1 DEF KnownInv, FailureIsKnown, Known, FlakyTyped
  <2>2. \A b \in handled : reports'[b] = reports[b] /\ \A t \in reports[b].failures : Known(b, t)'
    BY <1>2, <2>1
  <2>3. QED
    BY <2>2 DEF FailureIsKnown, Known
<1>6. NotedInv'
  <2>1. SUFFICES ASSUME exclusive'
                 PROVE  ~doubled' /\ \A v \in Worker : NotesAlone(v)'
    BY DEF NotedInv
  <2>2. ~doubled /\ \A v \in Worker : NotesAlone(v)
    BY <1>1, <2>1 DEF NotedInv
  <2>3. ASSUME NEW v \in Worker PROVE NotesAlone(v)'
    <3>1. worker[v].pc \in Holding => worker[v].number \in DOMAIN issuesOf /\ worker[v].report \in DOMAIN reports
      BY AtIssueTyped DEF Holding, AtIssue, Noting
    <3>2. NotesAlone(v)
      BY <2>2
    <3>3. QED
      BY <2>1, <3>1, <3>2 DEF NotesAlone, ContainsBuildFailure, ReportOf, Holding
  <2>4. QED
    BY <2>2, <2>3
<1>7. QED
  BY <1>3, <1>4, <1>5, <1>6 DEF FlakyInv, KnownInv

\* A build reports.
LEMMA BuildReportsKeeps ==
  ASSUME FlakyInv, BuildReports
  PROVE  FlakyInv'
<1>1. FlakyTyped /\ IssuesTyped
  BY DEF FlakyInv, FlakyTyped
<1>2. PICK c \in Revision, passes \in SUBSET TestCase, failures \in (SUBSET TestCase) \cup {{Whole}} :
        reports' = Append(reports, [commit |-> c, passes |-> passes, failures |-> failures])
  BY DEF BuildReports
<1>3. PICK b : b = [commit |-> c, passes |-> passes, failures |-> failures]
  OBVIOUS
<1>4. b \in BuildReport
  BY <1>3 DEF BuildReport, Report, Title
<1>5. reports \in Seq(BuildReport) /\ Len(reports) \in Nat /\ Len(reports) < MaxReports /\ MaxReports \in Nat
  BY <1>1, FlakybotAssumption DEF FlakyTyped, BuildReports
<1>6. /\ reports' \in Seq(BuildReport) /\ Len(reports') = Len(reports) + 1 /\ DOMAIN reports = 1 .. Len(reports)
      /\ DOMAIN reports' = 1 .. Len(reports') /\ \A i \in 1 .. Len(reports) : reports'[i] = reports[i]
  BY <1>2, <1>3, <1>4, <1>5, AppendProperties
<1>7. /\ Len(reports') <= MaxReports /\ DOMAIN reports \subseteq DOMAIN reports' /\ Len(reports') \in DOMAIN reports'
  BY <1>5, <1>6
<1>8. UNCHANGED <<issuesOf, lockOf, worker, upsets, received, handled, exclusive, serial, doubled>>
  BY DEF BuildReports
<1>9. IssuesTyped' /\ IssuesGrow
  BY <1>1, <1>8, IssuesSame
<1>10. inbox' \subseteq DOMAIN reports'
  BY <1>1, <1>7 DEF FlakyTyped, BuildReports
<1>11. QED
  BY <1>1, <1>6, <1>7, <1>8, <1>9, <1>10, OthersMove DEF FlakyTyped

\* Someone closes an issue, asks for quiet or locks it, or it gets old.
LEMMA PeopleEditKeeps ==
  ASSUME FlakyInv, NEW i \in DOMAIN issuesOf, PeopleEdit(i)
  PROVE  FlakyInv'
<1>1. FlakyTyped /\ IssuesTyped /\ Upset
  BY DEF FlakyInv, FlakyTyped, PeopleEdit
<1>2. UNCHANGED <<lockOf, reports, inbox, worker, received, handled, exclusive, doubled>>
  BY DEF PeopleEdit
<1>3. PICK issue \in Issue : issue = issuesOf[i]
  BY <1>1, ThereTyped
<1>4. PICK yes \in BOOLEAN : yes = TRUE
  OBVIOUS
<1>5. PICK labels \in SUBSET Label : labels = issue.labels \cup {"quiet"}
  BY DEF Issue, Label
<1>6. PICK z : /\ z \in {[issue EXCEPT !.labels = labels], [issue EXCEPT !.locked = yes], Close(issue), [issue EXCEPT !.old = yes]}
               /\ issuesOf' = [issuesOf EXCEPT ![i] = z]
  <2>1. PICK x \in {[issuesOf[i] EXCEPT !.labels = @ \cup {"quiet"}], [issuesOf[i] EXCEPT !.locked = TRUE]}
                   \cup (IF issuesOf[i].open THEN {Close(issuesOf[i])} ELSE {[issuesOf[i] EXCEPT !.old = TRUE]}) :
          issuesOf' = [issuesOf EXCEPT ![i] = x]
    BY DEF PeopleEdit
  <2>2. x \in {[issue EXCEPT !.labels = labels], [issue EXCEPT !.locked = yes], Close(issue), [issue EXCEPT !.old = yes]}
    BY <1>3, <1>4, <1>5, <2>1
  <2>3. QED
    BY <2>1, <2>2
<1>7. z \in Issue /\ z.title = issue.title /\ z.failures = issue.failures /\ issue.labels \subseteq z.labels
  <2>1. CASE z = [issue EXCEPT !.labels = labels]
    BY <1>5, <2>1 DEF Issue
  <2>2. CASE z = [issue EXCEPT !.locked = yes] \/ z = [issue EXCEPT !.old = yes]
    BY <2>2 DEF Issue
  <2>3. CASE z = Close(issue)
    BY <1>1, <2>3, CloseTyped
  <2>4. QED
    BY <1>6, <2>1, <2>2, <2>3
<1>8. /\ IssuesTyped' /\ IssuesGrow
      /\ \A n \in DOMAIN issuesOf : issuesOf'[n].failures = issuesOf[n].failures
  BY <1>1, <1>3, <1>6, <1>7, IssueChanges
<1>9. upsets' \in 0 .. MaxUpsets /\ serial' \in BOOLEAN
  BY <1>1, UpsetCounts
<1>10. QED
  BY <1>1, <1>2, <1>8, <1>9, OthersMove DEF FlakyTyped

\* The lease of a lock is over.
LEMMA LockLapsesKeeps ==
  ASSUME FlakyInv, NEW i \in DOMAIN issuesOf, LockLapses(i)
  PROVE  FlakyInv'
<1>1. FlakyTyped /\ IssuesTyped /\ Upset
  BY DEF FlakyInv, FlakyTyped, LockLapses
<1>2. UNCHANGED <<issuesOf, reports, inbox, worker, received, handled, doubled>>
  BY DEF LockLapses
<1>3. IssuesTyped' /\ IssuesGrow
  BY <1>1, <1>2, IssuesSame
<1>4. ~exclusive' /\ exclusive' \in BOOLEAN
  BY Zenon DEF LockLapses
<1>5. lockOf' \in [IssueNumber -> Worker \cup {"free"}]
  BY <1>1, ThereTyped DEF FlakyTyped, LockLapses
<1>6. upsets' \in 0 .. MaxUpsets /\ serial' \in BOOLEAN
  BY <1>1, UpsetCounts
<1>7. QED
  BY <1>1, <1>2, <1>3, <1>4, <1>5, <1>6, OthersMove DEF FlakyTyped

----------------------------------------------------------------------------
(* The theorems                                                             *)

\* The invariant holds of a repository with any issues.
LEMMA FlakyInitKeeps ==
  ASSUME NEW there \in Seq(Issue), Len(there) <= MaxIssues, FlakybotStarts(there)
  PROVE  FlakyInv
<1>1. PICK x : /\ x = Unoccupied /\ x \in WorkerState /\ x.pc = "idle" /\ x.seen = <<>> /\ x.duplicates = {}
  BY IsUnoccupied
<1>2. /\ issuesOf = there /\ lockOf = [i \in IssueNumber |-> "free"]
      /\ reports = <<>> /\ inbox = {} /\ worker = [w \in Worker |-> x]
      /\ upsets = 0 /\ received = {} /\ handled = {}
  BY <1>1 DEF FlakybotStarts
<1>3. exclusive \in BOOLEAN /\ serial \in BOOLEAN /\ doubled \in BOOLEAN /\ ~doubled
  BY Zenon DEF FlakybotStarts
<1>4. IsSound(x) /\ LosesNone(x)
  BY <1>1 DEF IsSound, LosesNone, AtIssue, Noting, Closing
<1>5. WorkersTyped
  BY <1>1, <1>2, <1>4 DEF WorkersTyped
<1>6. reports \in Seq(BuildReport) /\ Len(reports) = 0
  BY <1>2
<1>7. upsets \in 0 .. MaxUpsets /\ Len(reports) <= MaxReports
  BY <1>2, <1>6, FlakybotAssumption
<1>8. FlakyTyped
  <2>1. IssuesTyped
    BY <1>2 DEF IssuesTyped
  <2>2. lockOf \in [IssueNumber -> Worker \cup {"free"}]
    BY <1>2
  <2>3. inbox \subseteq DOMAIN reports /\ received \subseteq DOMAIN reports /\ handled \subseteq DOMAIN reports
    BY <1>2
  <2>4. QED
    BY <1>3, <1>5, <1>6, <1>7, <2>1, <2>2, <2>3 DEF FlakyTyped
<1>9. KnownInv
  BY <1>2, <1>4 DEF KnownInv, FailureIsKnown
<1>10. \A w \in Worker : NotesAlone(w)
  BY <1>1, <1>2 DEF NotesAlone, Holding
<1>11. QED
  BY <1>3, <1>8, <1>9, <1>10 DEF FlakyInv, NotedInv

\* Every step keeps it.
LEMMA FlakyNextKeeps ==
  ASSUME FlakyInv, [FlakybotNext]_flakyVars
  PROVE  FlakyInv'
<1>1. CASE BuildReports
  BY <1>1, BuildReportsKeeps
<1>2. ASSUME NEW w \in Worker, WorkerStep(w) PROVE FlakyInv'
  BY <1>2, StartReportKeeps, ListIssuesKeeps, DeduplicateIssuesKeeps, ListAgainKeeps, OpenIssuesKeeps, LockKeeps,
     GetKeeps, ReadCommentsKeeps, CreateCommentKeeps, ReopenKeeps, CommentReasonKeeps, OpenNewIssueKeeps,
     CloseIssuesKeeps, ReadCommentsToCloseKeeps, CloseIssueKeeps, MarkFlakyKeeps DEF WorkerStep
<1>3. ASSUME NEW w \in Worker, WorkerFails(w) PROVE FlakyInv'
  BY <1>3, WorkerFailsKeeps
<1>4. ASSUME NEW i \in DOMAIN issuesOf, PeopleEdit(i) \/ LockLapses(i) PROVE FlakyInv'
  BY <1>4, PeopleEditKeeps, LockLapsesKeeps
<1>5. CASE UNCHANGED flakyVars
  <2>1. UNCHANGED <<issuesOf, lockOf, reports, inbox, worker, upsets, received, handled, exclusive, serial, doubled>>
    BY <1>5 DEF flakyVars
  <2>2. FlakyTyped /\ IssuesTyped
    BY DEF FlakyInv, FlakyTyped
  <2>3. IssuesTyped' /\ IssuesGrow
    BY <2>1, <2>2, IssuesSame
  <2>4. QED
    BY <2>1, <2>2, <2>3, OthersMove DEF FlakyTyped
<1>6. QED
  BY <1>1, <1>2, <1>3, <1>4, <1>5 DEF FlakybotNext

\* The invariant, of every behaviour.
LEMMA FlakyInvHolds ==
  ASSUME NEW CONSTANT starts \in SUBSET {there \in Seq(Issue) : Len(there) <= MaxIssues}
  PROVE  FlakybotSpec(starts) => []FlakyInv
<1>1. (\E there \in starts : FlakybotStarts(there)) => FlakyInv
  BY FlakyInitKeeps
<1>2. FlakyInv /\ [FlakybotNext]_flakyVars => FlakyInv'
  BY FlakyNextKeeps
<1>3. QED
  BY <1>1, <1>2, PTL DEF FlakybotSpec

\* A repository's issues, the locks, the reports and the workers keep their types: what a
\* handler listed stays in line with issues opened, closed and relabelled behind its back.
THEOREM FlakybotTypeCorrect ==
  ASSUME NEW CONSTANT starts \in SUBSET {there \in Seq(Issue) : Len(there) <= MaxIssues}
  PROVE  FlakybotSpec(starts) => []FlakybotTypeOK
<1>1. FlakyInv => FlakybotTypeOK
  <2>1. SUFFICES ASSUME FlakyInv PROVE FlakybotTypeOK
    OBVIOUS
  <2>2. FlakyTyped
    BY <2>1 DEF FlakyInv
  <2>3. reports \in Seq(Report)
    <3>1. Len(reports) \in Nat /\ DOMAIN reports = 1 .. Len(reports) /\ reports \in [1 .. Len(reports) -> BuildReport]
      BY <2>2 DEF FlakyTyped
    <3>2. reports \in [1 .. Len(reports) -> Report]
      BY <3>1 DEF BuildReport
    <3>3. QED
      BY <3>1, <3>2
  <2>4. DOMAIN reports \subseteq 1 .. MaxReports
    BY <2>2, FlakybotAssumption DEF FlakyTyped
  <2>5. QED
    BY <2>2, <2>3, <2>4 DEF FlakyTyped, IssuesTyped, WorkersTyped, FlakybotTypeOK
<1>2. QED
  BY <1>1, FlakyInvHolds, PTL

\* A failing test whose report is handled to the end is known by an issue of its own or the
\* grouped one, whatever other handlers, people and lapsed locks did meanwhile.
THEOREM FailuresAreKnown ==
  ASSUME NEW CONSTANT starts \in SUBSET {there \in Seq(Issue) : Len(there) <= MaxIssues}
  PROVE  FlakybotSpec(starts) => []FailureIsKnown
<1>1. FlakyInv => FailureIsKnown
  BY DEF FlakyInv, KnownInv
<1>2. QED
  BY <1>1, FlakyInvHolds, PTL

\* As long as locks are got and last, no failure of a commit is noted twice on an issue by
\* a comment, however many builds of the commit are handled at once.
THEOREM FailuresAreNotedOnce ==
  ASSUME NEW CONSTANT starts \in SUBSET {there \in Seq(Issue) : Len(there) <= MaxIssues}
  PROVE  FlakybotSpec(starts) => []NotedOnce
<1>1. FlakyInv => NotedOnce
  BY DEF FlakyInv, NotedInv, NotedOnce
<1>2. QED
  BY <1>1, FlakyInvHolds, PTL

----------------------------------------------------------------------------
(* A flaky test keeps an open issue                                         *)

\* An issue that is open and will be found to be of a flaky test: it has a failure of the
\* commit c, or is flaky already.
Firm(i, c) == issuesOf[i].open /\ (c \in issuesOf[i].failures \/ Flaky(issuesOf[i]))
OpenFor(c, t) == \E i \in DOMAIN issuesOf : issuesOf[i].title \in {t, Grouped} /\ Firm(i, c)
AtMostOne(t) == \A i, j \in OpenOnes(issuesOf, t) : i = j

Tests(b) == TitlesOf(reports[b]) \cap TestCase
Failing(b) == reports[b].failures \cap TestCase

\* Of the duplicates to be closed another issue stays open, and of each test at most one.
ClosesSpares(x) ==
  x.pc = "duplicates" =>
    /\ \A i \in x.duplicates :
         /\ issuesOf[i].open /\ issuesOf[i].title \in TitlesOf(reports[x.report])
         /\ \E j \in OpenOnes(issuesOf, issuesOf[i].title) : j \notin x.duplicates
    /\ \A t \in Tests(x.report) : \A i, j \in OpenOnes(issuesOf, t) \ x.duplicates : i = j
    /\ ~x.modified => x.duplicates = {} /\ x.seen = issuesOf

\* What a worker listed is still so, as far as it will act on it.
Opening == Noting \cup {"open"}
ListStands(x) ==
  /\ x.pc \notin {"idle", "list", "duplicates"} => \A t \in Tests(x.report) : AtMostOne(t)
  /\ x.pc \in {"duplicates", "relist"} => x.todo = reports[x.report].failures
  /\ x.pc \in Opening =>
       /\ x.todo \subseteq reports[x.report].failures
       /\ \A i \in DOMAIN x.seen : x.seen[i].open => issuesOf[i].open
       /\ \A t \in x.todo \cap TestCase : OpenOnes(issuesOf, t) \subseteq OpenOnes(x.seen, t)
  /\ x.pc \notin {"idle", "list"} =>
       \A i \in DOMAIN x.seen : Flaky(issuesOf[i]) => Flaky(x.seen[i]) \/ x.seen[i].title \in reports[x.report].failures

\* The issue of a failing test: where it is closed no other one of the test is open.
AtOpenIssue(x) ==
  /\ x.pc \in Noting => (x.title = Grouped \/ x.title \in reports[x.report].failures) /\ x.title \notin x.todo
  /\ x.pc \in {"lock", "get"} =>
       issuesOf[x.number].open \/ (x.title # Grouped /\ (x.title \in TestCase => OpenOnes(issuesOf, x.title) = {}))
  /\ x.pc \in {"reopen", "create"} => (x.title \in TestCase => OpenOnes(issuesOf, x.title) = {})
  /\ x.pc = "reopen" => x.title # Grouped
  /\ x.pc \in {"comments", "comment", "reason"} => issuesOf[x.number].open

\* An issue about to be closed is of a test that passed, and neither flaky nor failing.
AtPassedIssue(x) ==
  /\ x.pc \in Closing =>
       \A i \in DOMAIN x.seen :
         x.seen[i].open /\ (i > x.number \/ (i = x.number /\ x.pc # "close")) => issuesOf[i].open
  /\ x.pc \in {"closeComments", "closeIssue", "markFlaky"} =>
       /\ x.number \in DOMAIN x.seen /\ x.seen[x.number].open /\ ~Flaky(x.seen[x.number])
       /\ Passed(reports[x.report], x.seen[x.number].title)
  /\ x.pc = "closeIssue" => reports[x.report].commit \notin issuesOf[x.number].failures

\* A test that failed has an open issue once the worker is past it.
LeavesOpen(x) ==
  x.pc \notin {"idle", "list"} =>
    \A t \in Failing(x.report) : t \in x.todo \/ Pending(x, t) \/ OpenFor(reports[x.report].commit, t)

InLine(x) == ClosesSpares(x) /\ ListStands(x) /\ AtOpenIssue(x) /\ AtPassedIssue(x) /\ LeavesOpen(x)

OneCommit == \A a, b \in received : reports[a].commit = reports[b].commit
NobodyIsQuiet == \A i \in DOMAIN issuesOf : "quiet" \notin issuesOf[i].labels

\* One worker at a time, to whom nothing odd happens, leaves the tests that failed open; and
\* if builds are of one commit no later one closes them.
StaysInv ==
  serial =>
    /\ NobodyIsQuiet
    /\ \A v, w \in Worker : worker[v].pc # "idle" /\ worker[w].pc # "idle" => v = w
    /\ handled \subseteq received
    /\ \A w \in Worker : worker[w].pc # "idle" => worker[w].report \in received /\ InLine(worker[w])
    /\ OneCommit => \A b \in handled : \A t \in Failing(b) : OpenFor(reports[b].commit, t) /\ AtMostOne(t)

\* What a step spares: the only open issue of a test, if it will be found to be flaky.
Spares(c) == \A t \in TestCase : AtMostOne(t) /\ OpenFor(c, t) => AtMostOne(t)' /\ OpenFor(c, t)'

\* The tests of a report.
LEMMA ReportTyped ==
  ASSUME FlakyTyped, NEW b \in DOMAIN reports
  PROVE  /\ reports[b] \in BuildReport /\ reports[b].passes \subseteq TestCase
         /\ reports[b].failures \subseteq TestCase \cup {Whole}
         /\ Grouped \notin TestCase /\ Whole \notin TestCase /\ Whole # Grouped
<1>1. reports[b] \in BuildReport
  BY DEF FlakyTyped
<1>2. reports[b].passes \subseteq TestCase /\ reports[b].failures \subseteq TestCase \cup {Whole}
  BY <1>1 DEF BuildReport, Report
<1>3. Grouped \notin TestCase /\ Whole \notin TestCase /\ Whole # Grouped
  BY FlakybotAssumption DEF Grouped, Whole
<1>4. QED
  BY <1>1, <1>2, <1>3

\* The worker at work, that nothing odd happened to.
LEMMA InHand ==
  ASSUME FlakyInv, StaysInv, serial, NEW w \in Worker, worker[w].pc # "idle"
  PROVE  /\ FlakyTyped /\ IssuesTyped /\ NobodyIsQuiet
         /\ worker[w] \in WorkerState /\ IsSound(worker[w]) /\ LosesNone(worker[w]) /\ InLine(worker[w])
         /\ worker[w].report \in received /\ worker[w].report \in DOMAIN reports
         /\ \A v \in Worker \ {w} : worker[v].pc = "idle"
<1>1. FlakyTyped /\ IssuesTyped /\ LosesNone(worker[w])
  BY DEF FlakyInv, FlakyTyped, KnownInv
<1>2. QED
  BY <1>1, WorkerTyped DEF StaysInv

\* A step of the worker at work.
LEMMA StepStays ==
  ASSUME FlakyInv, StaysInv, serial, NEW w \in Worker, worker[w].pc # "idle",
         NEW z, Works(w, z), UNCHANGED <<reports, received>>, NobodyIsQuiet',
         \/ z.pc # "idle" /\ z.report = worker[w].report /\ InLine(z)' /\ UNCHANGED handled
         \/ z.pc = "idle" /\ worker[w].pc \in Closing /\ handled' = handled \cup {worker[w].report},
         NEW c, c = reports[worker[w].report].commit, Spares(c)
  PROVE  StaysInv'
<1>1. PICK x : x = worker[w] /\ InLine(x) /\ LosesNone(x) /\ x.report \in received
  BY InHand
<1>2. /\ handled \subseteq received /\ \A v \in Worker \ {w} : worker[v].pc = "idle"
      /\ OneCommit => \A b \in handled : \A t \in Failing(b) : OpenFor(reports[b].commit, t) /\ AtMostOne(t)
  BY InHand DEF StaysInv
<1>3. worker'[w] = z /\ \A v \in Worker \ {w} : worker'[v] = worker[v]
  BY InHand DEF Works, FlakyTyped, WorkersTyped
<1>4. \A v, u \in Worker : worker'[v].pc # "idle" /\ worker'[u].pc # "idle" => v = u
  BY <1>2, <1>3
<1>5. ASSUME NEW v \in Worker, worker'[v].pc # "idle" PROVE worker'[v].report \in received /\ InLine(worker[v])'
  <2>1. v = w /\ worker'[v] = z /\ z.pc # "idle"
    BY <1>2, <1>3, <1>5
  <2>2. InLine(z)' /\ z.report \in received
    BY <1>1, <2>1
  <2>3. QED
    BY <2>1, <2>2 DEF InLine, ClosesSpares, ListStands, AtOpenIssue, AtPassedIssue, LeavesOpen, Pending, Tests, Failing,
       AtMostOne, OpenFor, Firm
<1>6. ASSUME OneCommit', NEW b \in handled', NEW t \in Failing(b)' PROVE (OpenFor(reports[b].commit, t) /\ AtMostOne(t))'
  <2>1. OneCommit /\ t \in Failing(b) /\ t \in TestCase
    BY <1>6 DEF OneCommit, Failing
  <2>2. b \in handled \/ (b = x.report /\ x.pc \in Closing)
    BY <1>1, <1>6
  <2>3. reports[b].commit = reports[x.report].commit
    BY <1>1, <1>2, <2>1, <2>2 DEF OneCommit
  <2>4. OpenFor(reports[b].commit, t) /\ AtMostOne(t)
    <3>1. CASE b \in handled
      BY <1>2, <2>1, <3>1
    <3>2. CASE b = x.report /\ x.pc \in Closing
      <4>1. x.todo = {} /\ ~Pending(x, t) /\ x.pc \notin {"idle", "list", "duplicates"}
        BY <1>1, <3>2 DEF LosesNone, Pending, Closing, Noting
      <4>2. OpenFor(reports[b].commit, t)
        BY <1>1, <2>1, <3>2, <4>1 DEF InLine, LeavesOpen
      <4>3. AtMostOne(t)
        BY <1>1, <2>1, <3>2, <4>1 DEF InLine, ListStands, Tests, TitlesOf, Failing
      <4>4. QED
        BY <4>2, <4>3
    <3>3. QED
      BY <2>2, <3>1, <3>2
  <2>5. AtMostOne(t)' /\ OpenFor(c, t)'
    <3>1. reports[b].commit = c
      BY <1>1, <2>3
    <3>2. OpenFor(c, t)
      BY <2>4, <3>1
    <3>3. QED
      BY <2>1, <2>4, <3>2 DEF Spares
  <2>6. reports'[b].commit = c
    BY <1>1, <2>3
  <2>7. QED
    BY <2>5, <2>6 DEF OpenFor, Firm
<1>7. handled' \subseteq received'
  BY <1>1, <1>2
<1>8. QED
  BY <1>3, <1>4, <1>5, <1>6, <1>7 DEF StaysInv

\* A step that changes no issue.
LEMMA QuietStays ==
  ASSUME FlakyInv, StaysInv, serial, NEW w \in Worker, worker[w].pc # "idle", NEW z, Works(w, z),
         UNCHANGED <<issuesOf, reports, received, handled>>,
         z.pc # "idle", z.report = worker[w].report, InLine(z)
  PROVE  StaysInv'
<1>1. NobodyIsQuiet'
  BY InHand DEF NobodyIsQuiet
<1>2. InLine(z)'
  BY DEF InLine, ClosesSpares, ListStands, AtOpenIssue, AtPassedIssue, LeavesOpen, Pending, Tests, Failing,
     AtMostOne, OpenFor, Firm
<1>3. PICK c : c = reports[worker[w].report].commit
  OBVIOUS
<1>4. Spares(c)
  BY DEF Spares, AtMostOne, OpenFor, Firm
<1>5. QED
  BY <1>1, <1>2, <1>3, <1>4, StepStays

\* Issues that stay open and get no less known.
OpensMore ==
  /\ IssuesGrow
  /\ \A i \in DOMAIN issuesOf :
       (issuesOf[i].open => issuesOf'[i].open) /\ (Flaky(issuesOf[i]) => Flaky(issuesOf'[i]))

\* What is open for a test stays so.
LEMMA OpensStay ==
  ASSUME OpensMore, NEW c, NEW t, OpenFor(c, t)
  PROVE  OpenFor(c, t)'
<1>1. PICK i \in DOMAIN issuesOf : issuesOf[i].title \in {t, Grouped} /\ Firm(i, c)
  BY DEF OpenFor
<1>2. i \in DOMAIN issuesOf' /\ issuesOf'[i].title \in {t, Grouped} /\ Firm(i, c)'
  BY <1>1 DEF OpensMore, IssuesGrow, Firm
<1>3. QED
  BY <1>2 DEF OpenFor

\* A step at the issue of a failing test: it opens no more than that of a test without one.
LEMMA NotingStays ==
  ASSUME FlakyInv, StaysInv, serial, NEW w \in Worker, worker[w].pc \in Noting,
         NEW z \in WorkerState, Works(w, z), UNCHANGED <<reports, received, handled>>,
         z.pc \in Opening, z.report = worker[w].report, z.seen = worker[w].seen, z.todo = worker[w].todo,
         z.title = worker[w].title, NobodyIsQuiet', OpensMore,
         NEW n, \A i \in DOMAIN issuesOf' :
           issuesOf'[i].open => \/ i \in DOMAIN issuesOf /\ issuesOf[i].open
                                \/ /\ i = n /\ issuesOf'[n].title = z.title
                                   /\ z.title \in TestCase => OpenOnes(issuesOf, z.title) = {},
         \A i \in DOMAIN issuesOf :
           Flaky(issuesOf'[i]) => Flaky(issuesOf[i]) \/ issuesOf[i].title \in reports[z.report].failures,
         AtOpenIssue(z)',
         NEW c, c = reports[z.report].commit,
         z.pc = "open" => \E i \in DOMAIN issuesOf' : issuesOf'[i].title = z.title /\ Firm(i, c)'
  PROVE  StaysInv'
<1>1. PICK x \in WorkerState : x = worker[w] /\ IsSound(x) /\ InLine(x) /\ x.report \in DOMAIN reports /\ x.pc \in Noting
  <2>1. worker[w].pc # "idle"
    BY DEF Noting
  <2>2. QED
    BY <2>1, InHand
<1>2. /\ z.report = x.report /\ z.seen = x.seen /\ z.todo = x.todo /\ z.title = x.title
      /\ \A i \in DOMAIN x.seen : i \in DOMAIN issuesOf /\ issuesOf[i].title = x.seen[i].title
  BY <1>1 DEF IsSound
<1>3. x.pc \in Opening /\ x.pc \notin {"idle", "list", "duplicates", "relist"}
      /\ z.pc \notin {"idle", "list", "duplicates", "relist"} /\ z.pc \notin Closing
  BY <1>1 DEF Opening, Noting, Closing
<1>4. FlakyTyped
  BY DEF FlakyInv
<1>5. x.title \notin x.todo /\ (x.title = Grouped \/ x.title \in reports[x.report].failures)
  BY <1>1 DEF InLine, AtOpenIssue
<1>6. ASSUME NEW t \in TestCase, AtMostOne(t) PROVE AtMostOne(t)'
  <2>1. ASSUME NEW i \in OpenOnes(issuesOf', t), NEW j \in OpenOnes(issuesOf', t) PROVE i = j
    <3>1. /\ i \in DOMAIN issuesOf' /\ issuesOf'[i].open /\ issuesOf'[i].title = t
          /\ j \in DOMAIN issuesOf' /\ issuesOf'[j].open /\ issuesOf'[j].title = t
      BY <2>1 DEF OpenOnes, Titled
    <3>2. i \in OpenOnes(issuesOf, t) \/ (i = n /\ OpenOnes(issuesOf, t) = {})
      BY <3>1 DEF OpenOnes, Titled, OpensMore, IssuesGrow
    <3>3. j \in OpenOnes(issuesOf, t) \/ (j = n /\ OpenOnes(issuesOf, t) = {})
      BY <3>1 DEF OpenOnes, Titled, OpensMore, IssuesGrow
    <3>4. QED
      BY <1>6, <3>2, <3>3 DEF AtMostOne
  <2>2. QED
    BY <2>1 DEF AtMostOne
<1>7. Spares(c)
  BY <1>6, OpensStay DEF Spares
<1>8. ListStands(z)'
  <2>1. ListStands(x)
    BY <1>1 DEF InLine
  <2>2. \A t \in Tests(x.report) : AtMostOne(t)'
    BY <1>3, <1>6, <2>1 DEF ListStands, Tests
  <2>3. \A i \in DOMAIN x.seen : x.seen[i].open => issuesOf'[i].open
    BY <1>2, <1>3, <2>1 DEF ListStands, OpensMore
  <2>4. ASSUME NEW t \in x.todo \cap TestCase, NEW i \in OpenOnes(issuesOf', t) PROVE i \in OpenOnes(x.seen, t)
    <3>1. i \in DOMAIN issuesOf' /\ issuesOf'[i].open /\ issuesOf'[i].title = t /\ t # x.title
      BY <1>5, <2>4 DEF OpenOnes, Titled
    <3>2. i \in OpenOnes(issuesOf, t)
      BY <1>2, <3>1 DEF OpenOnes, Titled, OpensMore, IssuesGrow
    <3>3. QED
      BY <1>3, <2>1, <2>4, <3>2 DEF ListStands
  <2>5. ASSUME NEW i \in DOMAIN x.seen, Flaky(issuesOf'[i])
        PROVE  Flaky(x.seen[i]) \/ x.seen[i].title \in reports[x.report].failures
    BY <1>2, <1>3, <2>1, <2>5 DEF ListStands
  <2>6. x.todo \subseteq reports[x.report].failures
    BY <1>3, <2>1 DEF ListStands
  <2>7. QED
    BY <1>2, <1>3, <2>2, <2>3, <2>4, <2>5, <2>6 DEF ListStands, Tests, AtMostOne
<1>9. LeavesOpen(z)'
  <2>1. ASSUME NEW t \in Failing(x.report) PROVE t \in z.todo \/ Pending(z, t) \/ OpenFor(c, t)'
    <3>1. t \in x.todo \/ Pending(x, t) \/ OpenFor(c, t)
      BY <1>1, <1>2, <1>3 DEF InLine, LeavesOpen
    <3>2. CASE OpenFor(c, t)
      BY <3>2, OpensStay
    <3>3. CASE Pending(x, t) /\ z.pc \in Noting
      BY <1>2, <3>3 DEF Pending
    <3>4. CASE Pending(x, t) /\ z.pc = "open"
      <4>1. PICK i \in DOMAIN issuesOf' : issuesOf'[i].title = z.title /\ Firm(i, c)'
        BY <3>4
      <4>2. issuesOf'[i].title \in {t, Grouped}
        BY <1>2, <3>4, <4>1 DEF Pending
      <4>3. QED
        BY <4>1, <4>2 DEF OpenFor
    <3>5. QED
      BY <1>2, <3>1, <3>2, <3>3, <3>4 DEF Opening
  <2>2. c = reports'[z.report].commit /\ Failing(z.report)' = Failing(x.report)
    BY <1>2 DEF Failing
  <2>3. QED
    BY <2>1, <2>2 DEF LeavesOpen, Pending, OpenFor, Firm
<1>10. ClosesSpares(z)' /\ AtPassedIssue(z)'
  BY <1>3 DEF ClosesSpares, AtPassedIssue, Closing
<1>11. InLine(z)' /\ z.pc # "idle"
  BY <1>3, <1>8, <1>9, <1>10 DEF InLine
<1>12. QED
  BY <1>1, <1>2, <1>3, <1>7, <1>11, StepStays

\* A step at the issue of a failing test that writes nothing.
LEMMA ReadingStays ==
  ASSUME FlakyInv, StaysInv, serial, NEW w \in Worker, worker[w].pc \in Noting,
         NEW z \in WorkerState, Works(w, z), UNCHANGED <<issuesOf, reports, received, handled>>,
         z.pc \in Opening, z.report = worker[w].report, z.seen = worker[w].seen, z.todo = worker[w].todo,
         z.title = worker[w].title, AtOpenIssue(z),
         z.pc = "open" => \E i \in DOMAIN issuesOf : issuesOf[i].title = z.title /\ Firm(i, reports[z.report].commit)
  PROVE  StaysInv'
<1>1. NobodyIsQuiet /\ IssuesTyped
  BY InHand DEF Noting
<1>2. NobodyIsQuiet' /\ OpensMore
  BY <1>1, IssuesSame DEF NobodyIsQuiet, OpensMore
<1>3. AtOpenIssue(z)'
  BY DEF AtOpenIssue
<1>4. PICK c : c = reports[z.report].commit
  OBVIOUS
<1>5. z.pc = "open" => \E i \in DOMAIN issuesOf' : issuesOf'[i].title = z.title /\ Firm(i, c)'
  BY <1>4 DEF Firm
<1>6. PICK n : n = 0
  OBVIOUS
<1>7. /\ \A i \in DOMAIN issuesOf' : issuesOf'[i].open => i \in DOMAIN issuesOf /\ issuesOf[i].open
      /\ \A i \in DOMAIN issuesOf : Flaky(issuesOf'[i]) => Flaky(issuesOf[i])
  OBVIOUS
<1>8. QED
  BY <1>2, <1>3, <1>4, <1>5, <1>7, NotingStays

\* A worker at the issue of a failing test.
LEMMA AtFailing ==
  ASSUME FlakyInv, StaysInv, serial, NEW w \in Worker, worker[w].pc \in Noting
  PROVE  \E x \in WorkerState :
           /\ x = worker[w] /\ AtOpenIssue(x) /\ NobodyIsQuiet /\ x.report \in DOMAIN reports
           /\ x.title = Grouped \/ x.title \in reports[x.report].failures
           /\ x.pc # "create" => /\ x.number \in DOMAIN issuesOf /\ issuesOf[x.number] \in Issue
                                 /\ issuesOf[x.number].title = x.title
<1>1. worker[w].pc # "idle"
  BY DEF Noting
<1>2. PICK x \in WorkerState : x = worker[w] /\ IsSound(x) /\ InLine(x) /\ x.report \in DOMAIN reports /\ NobodyIsQuiet /\ IssuesTyped
  BY <1>1, InHand
<1>3. AtOpenIssue(x) /\ (x.title = Grouped \/ x.title \in reports[x.report].failures)
  BY <1>2 DEF InLine, AtOpenIssue
<1>4. x.pc # "create" => x.number \in DOMAIN issuesOf /\ issuesOf[x.number].title = x.title
  BY <1>2 DEF IsSound, AtIssue, Noting
<1>5. QED
  BY <1>2, <1>3, <1>4, ThereTyped

\* The lock of the issue is got.
LEMMA LockStays ==
  ASSUME FlakyInv, StaysInv, NEW w \in Worker, Lock(w)
  PROVE  StaysInv'
<1>1. SUFFICES ASSUME serial' PROVE StaysInv'
  BY DEF StaysInv
<1>2. serial /\ worker[w].pc = "lock" /\ worker[w].pc \in Noting
  BY <1>1, Zenon DEF Lock, Upset, Noting
<1>3. PICK x \in WorkerState : x = worker[w] /\ AtOpenIssue(x) /\ x.pc = "lock"
  BY <1>2, AtFailing
<1>4. PICK z \in WorkerState :
        /\ z = [x EXCEPT !.pc = "get"] /\ z.pc = "get" /\ z.report = x.report /\ z.seen = x.seen
        /\ z.duplicates = x.duplicates /\ z.todo = x.todo /\ z.title = x.title /\ z.number = x.number
  <2>1. "get" \in WorkerPc
    BY DEF WorkerPc
  <2>2. QED
    BY <2>1, PcTyped
<1>5. Works(w, z) /\ UNCHANGED <<issuesOf, reports, received, handled>>
  BY <1>3, <1>4 DEF Lock
<1>6. AtOpenIssue(z) /\ z.pc \in Opening
  BY <1>3, <1>4 DEF AtOpenIssue, Noting, Opening
<1>7. QED
  BY <1>2, <1>3, <1>4, <1>5, <1>6, ReadingStays

\* An issue is fetched: of those that stay as they are the grouped one is open, and flaky.
LEMMA GetStays ==
  ASSUME FlakyInv, StaysInv, NEW w \in Worker, Get(w)
  PROVE  StaysInv'
<1>1. SUFFICES ASSUME serial' PROVE StaysInv'
  BY DEF StaysInv
<1>2. /\ serial /\ worker[w].pc = "get" /\ worker[w].pc \in Noting
      /\ UNCHANGED <<issuesOf, reports, received, handled>>
  BY <1>1 DEF Get, Inbox, Noting
<1>3. PICK x \in WorkerState :
        /\ x = worker[w] /\ AtOpenIssue(x) /\ x.pc = "get" /\ NobodyIsQuiet
        /\ x.number \in DOMAIN issuesOf /\ issuesOf[x.number] \in Issue /\ issuesOf[x.number].title = x.title
  BY <1>2, AtFailing
<1>4. PICK issue \in Issue : issue = issuesOf[x.number]
  BY <1>3
<1>5. /\ issue.title = x.title /\ issue.labels \in SUBSET Label
      /\ issue.open \/ (x.title # Grouped /\ (x.title \in TestCase => OpenOnes(issuesOf, x.title) = {}))
  BY <1>3, <1>4 DEF AtOpenIssue, Issue
<1>6. ASSUME NEW labels \in SUBSET Label, NEW pc \in {"create", "reopen", "comments", "open"},
             Works(w, [x EXCEPT !.pc = pc, !.labels = labels]) \/ Works(w, [x EXCEPT !.pc = pc]),
             pc = "open" => \E i \in DOMAIN issuesOf : issuesOf[i].title = x.title /\ Firm(i, reports[x.report].commit),
             pc \in {"create", "reopen"} => ~issue.open /\ x.title # Grouped,
             pc = "comments" => issue.open
      PROVE  StaysInv'
  <2>1. pc \in WorkerPc
    BY DEF WorkerPc
  <2>2. PICK z : (z = [x EXCEPT !.pc = pc, !.labels = labels] \/ z = [x EXCEPT !.pc = pc]) /\ Works(w, z)
    BY <1>6
  <2>3. /\ z \in WorkerState /\ z.pc = pc /\ z.report = x.report /\ z.seen = x.seen
        /\ z.todo = x.todo /\ z.title = x.title /\ z.number = x.number
    BY <2>1, <2>2 DEF WorkerState
  <2>4. AtOpenIssue(z) /\ z.pc \in Opening
    BY <1>3, <1>4, <1>5, <1>6, <2>3 DEF AtOpenIssue, Noting, Opening
  <2>5. QED
    BY <1>2, <1>3, <1>6, <2>2, <2>3, <2>4, ReadingStays
<1>7. CASE x.title # Grouped /\ ~issue.open
  <2>1. PICK pc \in {"create", "reopen"} : Works(w, [x EXCEPT !.pc = pc, !.labels = issue.labels])
    BY <1>3, <1>4, <1>7 DEF Get
  <2>2. QED
    BY <1>5, <1>6, <1>7, <2>1
<1>8. CASE ~(x.title # Grouped /\ ~issue.open) /\ issue.labels # {}
  <2>1. Works(w, [x EXCEPT !.pc = "open"])
    BY <1>3, <1>4, <1>8 DEF Get, NextFailure
  <2>2. issue.open
    BY <1>5, <1>8
  <2>3. "quiet" \notin issue.labels
    BY <1>3, <1>4 DEF NobodyIsQuiet
  <2>4. Flaky(issue)
    BY <1>5, <1>8, <2>3 DEF Label, Flaky
  <2>5. \E i \in DOMAIN issuesOf : issuesOf[i].title = x.title /\ Firm(i, reports[x.report].commit)
    BY <1>3, <1>4, <2>2, <2>4 DEF Firm
  <2>6. QED
    BY <1>5, <1>6, <2>1, <2>5
<1>9. CASE ~(x.title # Grouped /\ ~issue.open) /\ issue.labels = {}
  <2>1. Works(w, [x EXCEPT !.pc = "comments"])
    BY <1>3, <1>4, <1>9 DEF Get
  <2>2. issue.open
    BY <1>5, <1>9
  <2>3. QED
    BY <1>5, <1>6, <2>1, <2>2
<1>10. QED
  BY <1>7, <1>8, <1>9

\* The comments are read: a failure that is noted already keeps the issue firm.
LEMMA ReadCommentsStays ==
  ASSUME FlakyInv, StaysInv, NEW w \in Worker, ReadComments(w)
  PROVE  StaysInv'
<1>1. SUFFICES ASSUME serial' PROVE StaysInv'
  BY DEF StaysInv
<1>2. /\ serial /\ worker[w].pc = "comments" /\ worker[w].pc \in Noting
      /\ UNCHANGED <<issuesOf, reports, received, handled>>
  BY <1>1 DEF ReadComments, Inbox, Noting
<1>3. PICK x \in WorkerState :
        /\ x = worker[w] /\ AtOpenIssue(x) /\ x.pc = "comments"
        /\ x.number \in DOMAIN issuesOf /\ issuesOf[x.number].title = x.title
  BY <1>2, AtFailing
<1>4. issuesOf[x.number].open
  BY <1>3 DEF AtOpenIssue
<1>5. PICK pc \in {"open", "comment"} :
        Works(w, [x EXCEPT !.pc = pc]) /\ (pc = "open" => ContainsBuildFailure(w))
  BY <1>3 DEF ReadComments, NextFailure
<1>6. PICK z \in WorkerState :
        /\ z = [x EXCEPT !.pc = pc] /\ z.pc = pc /\ z.report = x.report /\ z.seen = x.seen
        /\ z.duplicates = x.duplicates /\ z.todo = x.todo /\ z.title = x.title /\ z.number = x.number
  <2>1. pc \in WorkerPc
    BY <1>5 DEF WorkerPc
  <2>2. QED
    BY <2>1, PcTyped
<1>7. AtOpenIssue(z) /\ z.pc \in Opening
  BY <1>3, <1>4, <1>5, <1>6 DEF AtOpenIssue, Noting, Opening
<1>8. z.pc = "open" => \E i \in DOMAIN issuesOf : issuesOf[i].title = z.title /\ Firm(i, reports[z.report].commit)
  BY <1>3, <1>4, <1>5, <1>6 DEF ContainsBuildFailure, ReportOf, Firm
<1>9. QED
  BY <1>2, <1>3, <1>5, <1>6, <1>7, <1>8, ReadingStays

\* A failure that is noted, and the worker goes on to the next: its open issue is firm.
LEMMA NotedStays ==
  ASSUME FlakyInv, StaysInv, serial, NEW w \in Worker, worker[w].pc \in {"comment", "reason"},
         NoteFailure(w), NextFailure(w), Inbox
  PROVE  StaysInv'
<1>1. worker[w].pc \in Noting /\ worker[w].pc \in AtIssue
  BY DEF Noting, AtIssue
<1>2. PICK x \in WorkerState :
        /\ x = worker[w] /\ AtOpenIssue(x) /\ x.pc \in {"comment", "reason"} /\ NobodyIsQuiet
        /\ x.number \in DOMAIN issuesOf /\ issuesOf[x.number].title = x.title
  BY <1>1, AtFailing
<1>3. issuesOf[x.number].open
  BY <1>2 DEF AtOpenIssue
<1>4. /\ IssuesGrow /\ DOMAIN issuesOf' = DOMAIN issuesOf
      /\ \A n \in DOMAIN issuesOf : issuesOf'[n].labels = issuesOf[n].labels /\ issuesOf'[n].open = issuesOf[n].open
      /\ issuesOf'[x.number].title = x.title
      /\ reports[x.report].commit \in issuesOf'[x.number].failures
  BY <1>1, <1>2, FailureIsNoted DEF ReportOf
<1>5. PICK z \in WorkerState :
        /\ z = [x EXCEPT !.pc = "open"] /\ z.pc = "open" /\ z.report = x.report /\ z.seen = x.seen
        /\ z.duplicates = x.duplicates /\ z.todo = x.todo /\ z.title = x.title /\ z.number = x.number
  <2>1. "open" \in WorkerPc
    BY DEF WorkerPc
  <2>2. QED
    BY <2>1, PcTyped
<1>6. Works(w, z) /\ UNCHANGED <<reports, received, handled>>
  BY <1>2, <1>5 DEF NextFailure, Inbox
<1>7. NobodyIsQuiet' /\ OpensMore
  BY <1>2, <1>4 DEF NobodyIsQuiet, OpensMore, Flaky
<1>8. AtOpenIssue(z)' /\ z.pc \in Opening
  BY <1>5 DEF AtOpenIssue, Noting, Opening
<1>9. PICK c : c = reports[x.report].commit
  OBVIOUS
<1>10. \E i \in DOMAIN issuesOf' : issuesOf'[i].title = z.title /\ Firm(i, c)'
  BY <1>2, <1>3, <1>4, <1>5, <1>9 DEF Firm
<1>11. PICK n : n = 0
  OBVIOUS
<1>12. /\ \A i \in DOMAIN issuesOf' : issuesOf'[i].open => i \in DOMAIN issuesOf /\ issuesOf[i].open
       /\ \A i \in DOMAIN issuesOf : Flaky(issuesOf'[i]) => Flaky(issuesOf[i])
  BY <1>4 DEF Flaky
<1>13. c = reports[z.report].commit /\ z.report = worker[w].report /\ z.seen = worker[w].seen
       /\ z.todo = worker[w].todo /\ z.title = worker[w].title
  BY <1>2, <1>5, <1>9
<1>14. QED
  BY <1>1, <1>6, <1>7, <1>8, <1>10, <1>12, <1>13, NotingStays

\* A closed issue of a test that has no open one is reopened, as flaky.
LEMMA ReopenStays ==
  ASSUME FlakyInv, StaysInv, NEW w \in Worker, Reopen(w)
  PROVE  StaysInv'
<1>1. SUFFICES ASSUME serial' PROVE StaysInv'
  BY DEF StaysInv
<1>2. /\ serial /\ worker[w].pc = "reopen" /\ worker[w].pc \in Noting /\ worker[w].pc \in AtIssue
      /\ UNCHANGED <<reports, received, handled>> /\ MarkIssueFlaky(w)
  BY <1>1 DEF Reopen, Inbox, Noting, AtIssue
<1>3. PICK x \in WorkerState :
        /\ x = worker[w] /\ AtOpenIssue(x) /\ x.pc = "reopen" /\ NobodyIsQuiet
        /\ x.title = Grouped \/ x.title \in reports[x.report].failures
        /\ x.number \in DOMAIN issuesOf /\ issuesOf[x.number].title = x.title
  BY <1>2, AtFailing
<1>4. x.title \in reports[x.report].failures /\ (x.title \in TestCase => OpenOnes(issuesOf, x.title) = {})
  BY <1>3 DEF AtOpenIssue
<1>5. /\ IssuesGrow /\ DOMAIN issuesOf' = DOMAIN issuesOf
      /\ \A n \in DOMAIN issuesOf : n # x.number => issuesOf'[n] = issuesOf[n]
      /\ issuesOf'[x.number].open /\ issuesOf'[x.number].labels = {"flaky"}
  BY <1>2, <1>3, FlakyIsMarked
<1>6. PICK z \in WorkerState :
        /\ z = [x EXCEPT !.pc = "reason"] /\ z.pc = "reason" /\ z.report = x.report /\ z.seen = x.seen
        /\ z.duplicates = x.duplicates /\ z.todo = x.todo /\ z.title = x.title /\ z.number = x.number
  <2>1. "reason" \in WorkerPc
    BY DEF WorkerPc
  <2>2. QED
    BY <2>1, PcTyped
<1>7. Works(w, z)
  BY <1>3, <1>6 DEF Reopen
<1>8. NobodyIsQuiet' /\ OpensMore
  BY <1>3, <1>5 DEF NobodyIsQuiet, OpensMore, Flaky
<1>9. AtOpenIssue(z)' /\ z.pc \in Opening
  BY <1>2, <1>3, <1>5, <1>6 DEF AtOpenIssue, Noting, Opening
<1>10. PICK c : c = reports[z.report].commit
  OBVIOUS
<1>11. PICK n : n = x.number
  OBVIOUS
<1>12. \A i \in DOMAIN issuesOf' :
         issuesOf'[i].open => \/ i \in DOMAIN issuesOf /\ issuesOf[i].open
                              \/ /\ i = n /\ issuesOf'[n].title = z.title
                                 /\ z.title \in TestCase => OpenOnes(issuesOf, z.title) = {}
  BY <1>3, <1>4, <1>5, <1>6, <1>11 DEF IssuesGrow
<1>13. \A i \in DOMAIN issuesOf :
         Flaky(issuesOf'[i]) => Flaky(issuesOf[i]) \/ issuesOf[i].title \in reports[z.report].failures
  BY <1>3, <1>4, <1>5, <1>6
<1>14. z.report = worker[w].report /\ z.seen = worker[w].seen /\ z.todo = worker[w].todo /\ z.title = worker[w].title
       /\ z.pc # "open"
  BY <1>3, <1>6
<1>15. QED
  BY <1>2, <1>7, <1>8, <1>9, <1>10, <1>12, <1>13, <1>14, NotingStays

\* An issue is opened for the failure of a test that has no open one, or the grouped one.
LEMMA OpenNewIssueStays ==
  ASSUME FlakyInv, StaysInv, NEW w \in Worker, OpenNewIssue(w)
  PROVE  StaysInv'
<1>1. SUFFICES ASSUME serial' PROVE StaysInv'
  BY DEF StaysInv
<1>2. /\ serial /\ worker[w].pc = "create" /\ worker[w].pc \in Noting
      /\ UNCHANGED <<reports, received, handled>> /\ Len(issuesOf) < MaxIssues
  BY <1>1 DEF OpenNewIssue, Inbox, Noting
<1>3. PICK x \in WorkerState : x = worker[w] /\ AtOpenIssue(x) /\ x.pc = "create" /\ NobodyIsQuiet /\ x.report \in DOMAIN reports
  BY <1>2, AtFailing
<1>4. x.title \in TestCase => OpenOnes(issuesOf, x.title) = {}
  BY <1>3 DEF AtOpenIssue
<1>5. IssuesTyped /\ x.title \in Title /\ reports[x.report] \in BuildReport
  BY <1>3, ReportTyped DEF FlakyInv, FlakyTyped, WorkerState
<1>6. PICK c \in Revision : c = reports[x.report].commit
  BY <1>5 DEF BuildReport, Report
<1>7. PICK yes, no \in BOOLEAN : yes = TRUE /\ no = FALSE
  OBVIOUS
<1>8. PICK new : new = [title |-> x.title, open |-> yes, labels |-> {}, locked |-> no,
                        old |-> no, closedAt |-> 0, failures |-> {c}]
  OBVIOUS
<1>9. new \in Issue /\ new.title = x.title /\ new.failures = {c} /\ new.labels = {}
  BY <1>5, <1>8 DEF Issue
<1>10. new.open
  BY <1>7, <1>8
<1>11. issuesOf' = Append(issuesOf, new)
  BY <1>3, <1>6, <1>7, <1>8 DEF OpenNewIssue, ReportOf
<1>12. issuesOf \in Seq(Issue) /\ Len(issuesOf) \in Nat
  BY <1>5 DEF IssuesTyped
<1>13. PICK n \in Nat : n = Len(issuesOf) + 1
  BY <1>12
<1>14. /\ issuesOf'[n] = new /\ DOMAIN issuesOf' = DOMAIN issuesOf \cup {n}
       /\ \A i \in DOMAIN issuesOf : issuesOf'[i] = issuesOf[i]
  <2>1. /\ Len(issuesOf') = Len(issuesOf) + 1 /\ DOMAIN issuesOf' = 1 .. Len(issuesOf')
        /\ issuesOf'[Len(issuesOf) + 1] = new /\ DOMAIN issuesOf = 1 .. Len(issuesOf)
        /\ \A i \in 1 .. Len(issuesOf) : issuesOf'[i] = issuesOf[i]
    BY <1>9, <1>11, <1>12, AppendProperties
  <2>2. 1 .. Len(issuesOf) + 1 = 1 .. Len(issuesOf) \cup {Len(issuesOf) + 1}
    BY <1>12
  <2>3. QED
    BY <1>13, <2>1, <2>2
<1>15. PICK z \in WorkerState :
        /\ z = [x EXCEPT !.pc = "open"] /\ z.pc = "open" /\ z.report = x.report /\ z.seen = x.seen
        /\ z.duplicates = x.duplicates /\ z.todo = x.todo /\ z.title = x.title /\ z.number = x.number
  <2>1. "open" \in WorkerPc
    BY DEF WorkerPc
  <2>2. QED
    BY <2>1, PcTyped
<1>16. Works(w, z)
  BY <1>3, <1>15 DEF OpenNewIssue, NextFailure
<1>17. NobodyIsQuiet' /\ OpensMore
  BY <1>3, <1>9, <1>14 DEF NobodyIsQuiet, OpensMore, IssuesGrow, Flaky
<1>18. AtOpenIssue(z)' /\ z.pc \in Opening
  BY <1>15 DEF AtOpenIssue, Noting, Opening
<1>19. \A i \in DOMAIN issuesOf' :
         issuesOf'[i].open => \/ i \in DOMAIN issuesOf /\ issuesOf[i].open
                              \/ /\ i = n /\ issuesOf'[n].title = z.title
                                 /\ z.title \in TestCase => OpenOnes(issuesOf, z.title) = {}
  BY <1>4, <1>9, <1>14, <1>15
<1>20. \A i \in DOMAIN issuesOf : Flaky(issuesOf'[i]) => Flaky(issuesOf[i])
  BY <1>14
<1>21. \E i \in DOMAIN issuesOf' : issuesOf'[i].title = z.title /\ Firm(i, c)'
  BY <1>9, <1>10, <1>14, <1>15 DEF Firm
<1>22. c = reports[z.report].commit /\ z.report = worker[w].report /\ z.seen = worker[w].seen
       /\ z.todo = worker[w].todo /\ z.title = worker[w].title
  BY <1>3, <1>6, <1>15
<1>23. QED
  BY <1>2, <1>16, <1>17, <1>18, <1>19, <1>20, <1>21, <1>22, NotingStays

\* A worker takes a report while all are at rest.
LEMMA StartReportStays ==
  ASSUME FlakyInv, StaysInv, NEW w \in Worker, StartReport(w)
  PROVE  StaysInv'
<1>1. SUFFICES ASSUME serial' PROVE StaysInv'
  BY DEF StaysInv
<1>2. serial /\ \A v \in Worker : worker[v].pc = "idle"
  BY <1>1, Zenon DEF StartReport
<1>3. PICK b \in inbox : Works(w, [Unoccupied EXCEPT !.pc = "list", !.report = b]) /\ received' = received \cup {b}
  BY DEF StartReport
<1>4. UNCHANGED <<issuesOf, reports, handled>>
  BY DEF StartReport
<1>5. PICK z : z = [Unoccupied EXCEPT !.pc = "list", !.report = b]
  OBVIOUS
<1>6. z.pc = "list" /\ z.report = b
  BY <1>5 DEF Unoccupied
<1>7. worker'[w] = z /\ \A v \in Worker \ {w} : worker'[v] = worker[v]
  BY <1>3, <1>5 DEF FlakyInv, FlakyTyped, WorkersTyped, Works
<1>8. InLine(z)'
  BY <1>6 DEF InLine, ClosesSpares, ListStands, AtOpenIssue, AtPassedIssue, LeavesOpen, Noting, Opening, Closing
<1>9. \A v \in Worker : worker'[v].pc # "idle" => v = w
  BY <1>2, <1>7
<1>10. worker'[w].report \in received' /\ InLine(worker[w])'
  BY <1>3, <1>6, <1>7, <1>8 DEF InLine, ClosesSpares, ListStands, AtOpenIssue, AtPassedIssue, LeavesOpen, Noting, Opening, Closing
<1>11. NobodyIsQuiet' /\ handled' \subseteq received'
  BY <1>2, <1>3, <1>4 DEF StaysInv, NobodyIsQuiet
<1>12. ASSUME OneCommit', NEW b1 \in handled', NEW t \in Failing(b1)'
       PROVE  (OpenFor(reports[b1].commit, t) /\ AtMostOne(t))'
  <2>1. OneCommit /\ b1 \in handled /\ t \in Failing(b1)
    BY <1>3, <1>4, <1>12 DEF OneCommit, Failing
  <2>2. OpenFor(reports[b1].commit, t) /\ AtMostOne(t)
    BY <1>2, <2>1 DEF StaysInv
  <2>3. QED
    BY <1>4, <2>2 DEF OpenFor, Firm, AtMostOne
<1>13. QED
  BY <1>9, <1>10, <1>11, <1>12 DEF StaysInv

\* Of several issues one is kept.
LEMMA KeptIsIn ==
  ASSUME NEW S \in SUBSET Nat, S # {}
  PROVE  Kept(S) \in S
<1>1. PICK best \in SUBSET Nat :
        best = IF \E i \in S : Flaky(issuesOf[i]) THEN {i \in S : Flaky(issuesOf[i])} ELSE S
  OBVIOUS
<1>2. best # {} /\ best \subseteq S
  BY <1>1
<1>3. Kept(S) = Least(best)
  BY <1>1 DEF Kept, Least
<1>4. QED
  BY <1>2, <1>3, LeastIsIn

\* The issues are listed: of each title with duplicates one issue is not among them.
LEMMA ListIssuesStays ==
  ASSUME FlakyInv, StaysInv, NEW w \in Worker, ListIssues(w)
  PROVE  StaysInv'
<1>1. SUFFICES ASSUME serial' PROVE StaysInv'
  BY DEF StaysInv
<1>2. serial /\ worker[w].pc = "list" /\ UNCHANGED <<issuesOf, reports, received, handled>>
  BY <1>1 DEF ListIssues, Inbox
<1>3. PICK x \in WorkerState : x = worker[w] /\ x.report \in DOMAIN reports /\ IssuesTyped /\ FlakyTyped
  BY <1>2, InHand
<1>4. PICK D : D = Duplicates(ReportOf(w))
  OBVIOUS
<1>5. PICK m \in BOOLEAN : m = (D # {})
  OBVIOUS
<1>6. PICK todo : todo = reports[x.report].failures
  OBVIOUS
<1>7. PICK there : there = issuesOf
  OBVIOUS
<1>8. PICK z : z = [x EXCEPT !.pc = "duplicates", !.seen = there, !.duplicates = D, !.modified = m, !.todo = todo]
  OBVIOUS
<1>9. z.pc = "duplicates" /\ z.report = x.report /\ z.seen = there /\ z.duplicates = D /\ z.todo = todo
  BY <1>8 DEF WorkerState
<1>10. z.modified = m
  BY <1>8, Zenon DEF WorkerState
<1>11. Works(w, z)
  BY <1>3, <1>4, <1>5, <1>6, <1>7, <1>8 DEF ListIssues, ReportOf
<1>12. \A t : OpenOnes(issuesOf, t) \in SUBSET Nat /\ \A i \in OpenOnes(issuesOf, t) : i \in DOMAIN issuesOf
  BY <1>3, ThereTyped DEF OpenOnes, Titled
<1>13. ASSUME NEW i \in D
       PROVE  /\ issuesOf[i].open /\ issuesOf[i].title \in TitlesOf(reports[x.report])
              /\ \E j \in OpenOnes(issuesOf, issuesOf[i].title) : j \notin D
  <2>1. PICK t : t = issuesOf[i].title
    OBVIOUS
  <2>2. i \in DOMAIN issuesOf /\ issuesOf[i].open /\ t \in TitlesOf(reports[x.report])
    BY <1>3, <1>4, <2>1 DEF Duplicates, ReportOf
  <2>3. PICK S \in SUBSET Nat : S = OpenOnes(issuesOf, t) /\ S # {}
    BY <1>12, <2>1, <2>2 DEF OpenOnes, Titled
  <2>4. Kept(S) \in S
    BY <2>3, KeptIsIn
  <2>5. PICK k \in S : k = Kept(S)
    BY <2>4
  <2>6. k \in DOMAIN issuesOf /\ issuesOf[k].title = t /\ S = {j \in DOMAIN issuesOf : issuesOf[j].open /\ issuesOf[j].title = t}
    BY <2>3, <2>5 DEF OpenOnes, Titled
  <2>7. k \notin D
    BY <1>4, <2>5, <2>6 DEF Duplicates
  <2>8. QED
    BY <2>1, <2>2, <2>3, <2>5, <2>7
<1>14. ASSUME NEW t \in Tests(x.report), NEW i \in OpenOnes(issuesOf, t) \ D, NEW j \in OpenOnes(issuesOf, t) \ D
       PROVE  i = j
  <2>1. PICK S : S = {k \in DOMAIN issuesOf : issuesOf[k].open /\ issuesOf[k].title = t}
    OBVIOUS
  <2>2. \A k \in OpenOnes(issuesOf, t) \ D : k = Kept(S)
    BY <1>3, <1>4, <2>1 DEF Duplicates, OpenOnes, Titled, Tests, ReportOf
  <2>3. QED
    BY <2>2
<1>15. ~m => D = {}
  BY <1>5
<1>16. ClosesSpares(z)
  BY <1>7, <1>9, <1>10, <1>13, <1>14, <1>15 DEF ClosesSpares
<1>17. ListStands(z) /\ AtOpenIssue(z) /\ AtPassedIssue(z)
  BY <1>6, <1>7, <1>9 DEF ListStands, AtOpenIssue, AtPassedIssue, Opening, Noting, Closing
<1>18. LeavesOpen(z)
  BY <1>6, <1>9 DEF LeavesOpen, Failing
<1>19. InLine(z) /\ z.pc # "idle"
  BY <1>9, <1>16, <1>17, <1>18 DEF InLine
<1>20. QED
  BY <1>2, <1>3, <1>9, <1>11, <1>19, QuietStays

\* The issues are listed again.
LEMMA ListAgainStays ==
  ASSUME FlakyInv, StaysInv, NEW w \in Worker, ListAgain(w)
  PROVE  StaysInv'
<1>1. SUFFICES ASSUME serial' PROVE StaysInv'
  BY DEF StaysInv
<1>2. serial /\ worker[w].pc = "relist" /\ UNCHANGED <<issuesOf, reports, received, handled>>
  BY <1>1 DEF ListAgain, Inbox
<1>3. PICK x \in WorkerState : x = worker[w] /\ InLine(x) /\ x.pc = "relist"
  BY <1>2, InHand
<1>4. PICK there : there = issuesOf
  OBVIOUS
<1>5. PICK z : z = [x EXCEPT !.pc = "open", !.seen = there]
  OBVIOUS
<1>6. z.pc = "open" /\ z.report = x.report /\ z.seen = there /\ z.todo = x.todo
  BY <1>5 DEF WorkerState
<1>7. Works(w, z)
  BY <1>3, <1>4, <1>5 DEF ListAgain
<1>8. InLine(z)
  <2>1. ClosesSpares(z) /\ AtOpenIssue(z) /\ AtPassedIssue(z)
    BY <1>6 DEF ClosesSpares, AtOpenIssue, AtPassedIssue, Noting, Closing
  <2>2. ListStands(z)
    BY <1>3, <1>4, <1>6 DEF InLine, ListStands
  <2>3. LeavesOpen(z)
    BY <1>3, <1>6 DEF InLine, LeavesOpen, ListStands, Failing
  <2>4. QED
    BY <2>1, <2>2, <2>3 DEF InLine
<1>9. QED
  BY <1>2, <1>3, <1>6, <1>7, <1>8, QuietStays

\* An issue is closed that is not the only firm one of a test.
LEMMA ClosedSpares ==
  ASSUME NEW n \in DOMAIN issuesOf, DOMAIN issuesOf' = DOMAIN issuesOf, ~issuesOf'[n].open,
         \A i \in DOMAIN issuesOf : i # n => issuesOf'[i] = issuesOf[i],
         NEW c, \A t \in TestCase : AtMostOne(t) => ~(issuesOf[n].title \in {t, Grouped} /\ Firm(n, c))
  PROVE  Spares(c) /\ \A t : OpenOnes(issuesOf', t) = OpenOnes(issuesOf, t) \ {n}
<1>1. \A t : OpenOnes(issuesOf', t) = OpenOnes(issuesOf, t) \ {n}
  BY DEF OpenOnes, Titled
<1>2. ASSUME NEW t \in TestCase, AtMostOne(t), OpenFor(c, t) PROVE AtMostOne(t)' /\ OpenFor(c, t)'
  <2>1. AtMostOne(t)'
    BY <1>1, <1>2 DEF AtMostOne
  <2>2. PICK i \in DOMAIN issuesOf : issuesOf[i].title \in {t, Grouped} /\ Firm(i, c)
    BY <1>2 DEF OpenFor
  <2>3. i # n
    BY <1>2, <2>2
  <2>4. QED
    BY <2>1, <2>2, <2>3 DEF OpenFor, Firm
<1>3. QED
  BY <1>1, <1>2 DEF Spares

\* deduplicateIssues() closes an issue, or is done: then tests have at most one open issue.
LEMMA DeduplicateIssuesStays ==
  ASSUME FlakyInv, StaysInv, NEW w \in Worker, DeduplicateIssues(w)
  PROVE  StaysInv'
<1>1. SUFFICES ASSUME serial' PROVE StaysInv'
  BY DEF StaysInv
<1>2. serial /\ worker[w].pc = "duplicates" /\ UNCHANGED <<reports, received, handled>>
  BY <1>1 DEF DeduplicateIssues, Inbox
<1>3. PICK x \in WorkerState :
        /\ x = worker[w] /\ InLine(x) /\ x.pc = "duplicates" /\ IsSound(x) /\ x.report \in DOMAIN reports
        /\ FlakyTyped /\ IssuesTyped /\ NobodyIsQuiet
  BY <1>2, InHand
<1>4. /\ \A i \in x.duplicates :
           /\ issuesOf[i].open /\ issuesOf[i].title \in TitlesOf(reports[x.report])
           /\ \E j \in OpenOnes(issuesOf, issuesOf[i].title) : j \notin x.duplicates
      /\ \A t \in Tests(x.report) : \A i, j \in OpenOnes(issuesOf, t) \ x.duplicates : i = j
      /\ ~x.modified => x.duplicates = {} /\ x.seen = issuesOf
  BY <1>3 DEF InLine, ClosesSpares
<1>5. /\ x.todo = reports[x.report].failures
      /\ \A i \in DOMAIN x.seen : Flaky(issuesOf[i]) => Flaky(x.seen[i]) \/ x.seen[i].title \in reports[x.report].failures
  BY <1>3 DEF InLine, ListStands
<1>6. CASE x.duplicates = {}
  <2>1. PICK pc \in {"relist", "open"} : Works(w, [x EXCEPT !.pc = pc]) /\ (pc = "open" => ~x.modified)
    BY <1>3, <1>6 DEF DeduplicateIssues
  <2>2. PICK z \in WorkerState :
          /\ z = [x EXCEPT !.pc = pc] /\ z.pc = pc /\ z.report = x.report /\ z.seen = x.seen
          /\ z.duplicates = x.duplicates /\ z.todo = x.todo /\ z.title = x.title /\ z.number = x.number
    <3>1. pc \in WorkerPc
      BY <2>1 DEF WorkerPc
    <3>2. QED
      BY <3>1, PcTyped
  <2>3. \A t \in Tests(z.report) : AtMostOne(t)
    BY <1>4, <1>6, <2>2 DEF AtMostOne
  <2>4. z.pc = "open" => z.seen = issuesOf
    BY <1>4, <2>1, <2>2
  <2>5. ListStands(z)
    BY <1>5, <2>1, <2>2, <2>3, <2>4 DEF ListStands, Opening, Noting
  <2>6. ClosesSpares(z) /\ AtOpenIssue(z) /\ AtPassedIssue(z)
    BY <2>1, <2>2 DEF ClosesSpares, AtOpenIssue, AtPassedIssue, Noting, Closing
  <2>7. LeavesOpen(z)
    BY <1>5, <2>2 DEF LeavesOpen, Failing
  <2>8. InLine(z) /\ UNCHANGED issuesOf /\ z.pc # "idle"
    BY <1>3, <1>6, <2>1, <2>2, <2>5, <2>6, <2>7 DEF InLine, DeduplicateIssues
  <2>9. QED
    BY <1>2, <1>3, <2>1, <2>2, <2>8, QuietStays
<1>7. CASE x.duplicates # {}
  <2>1. x.duplicates \in SUBSET Nat
    BY <1>3, ThereTyped DEF IsSound
  <2>2. PICK i : i = Least(x.duplicates) /\ i \in x.duplicates /\ i \in DOMAIN issuesOf
    BY <1>3, <1>7, <2>1, LeastIsIn DEF IsSound
  <2>3. /\ issuesOf' = [issuesOf EXCEPT ![i] = IF issuesOf[i].open THEN Close(issuesOf[i]) ELSE issuesOf[i]]
        /\ Works(w, [x EXCEPT !.duplicates = x.duplicates \ {i}])
    BY <1>3, <1>7, <2>2 DEF DeduplicateIssues, Least
  <2>4. PICK y \in Issue : /\ y = IF issuesOf[i].open THEN Close(issuesOf[i]) ELSE issuesOf[i]
                           /\ y.title = issuesOf[i].title /\ y.failures = issuesOf[i].failures
                           /\ y.labels = issuesOf[i].labels /\ ~y.open
    BY <1>3, <2>2, ThereTyped, CloseTyped
  <2>5. /\ DOMAIN issuesOf' = DOMAIN issuesOf /\ issuesOf'[i] = y
        /\ \A n \in DOMAIN issuesOf : n # i => issuesOf'[n] = issuesOf[n]
    BY <1>3, <2>2, <2>3, <2>4, IssueChanges
  <2>6. PICK D : D = x.duplicates \ {i}
    OBVIOUS
  <2>7. PICK z : z = [x EXCEPT !.duplicates = D]
    OBVIOUS
  <2>8. z.pc = "duplicates" /\ z.report = x.report /\ z.seen = x.seen /\ z.todo = x.todo /\ z.duplicates = D
    BY <1>3, <2>7 DEF WorkerState
  <2>9. z.modified = x.modified
    BY <1>3, <2>7, Zenon DEF WorkerState
  <2>10. Works(w, z)
    BY <2>3, <2>6, <2>7
  <2>11. PICK k \in OpenOnes(issuesOf, issuesOf[i].title) : k \notin x.duplicates /\ k # i
    BY <1>4, <2>2
  <2>12. PICK c : c = reports[x.report].commit
    OBVIOUS
  <2>13. ASSUME NEW t \in TestCase, AtMostOne(t) PROVE issuesOf[i].title \notin {t, Grouped}
    <3>1. issuesOf[i].title # Grouped
      BY <1>3, <1>4, <2>2, ReportTyped DEF TitlesOf
    <3>2. i \in OpenOnes(issuesOf, issuesOf[i].title)
      BY <1>4, <2>2 DEF OpenOnes, Titled
    <3>3. QED
      BY <2>11, <2>13, <3>1, <3>2 DEF AtMostOne
  <2>14. Spares(c) /\ \A t : OpenOnes(issuesOf', t) = OpenOnes(issuesOf, t) \ {i}
    BY <2>2, <2>4, <2>5, <2>13, ClosedSpares
  <2>15. ClosesSpares(z)'
    <3>1. ASSUME NEW n \in D
          PROVE  /\ issuesOf'[n].open /\ issuesOf'[n].title \in TitlesOf(reports[x.report])
                 /\ \E j \in OpenOnes(issuesOf', issuesOf'[n].title) : j \notin D
      <4>1. n \in x.duplicates /\ n # i /\ issuesOf'[n] = issuesOf[n]
        BY <1>3, <2>5, <2>6, <3>1 DEF IsSound
      <4>2. PICK j \in OpenOnes(issuesOf, issuesOf[n].title) : j \notin x.duplicates
        BY <1>4, <4>1
      <4>3. j \in OpenOnes(issuesOf', issuesOf'[n].title) /\ j \notin D
        BY <2>2, <2>6, <2>14, <4>1, <4>2
      <4>4. QED
        BY <1>4, <4>1, <4>3
    <3>2. \A t \in Tests(x.report) : \A n, j \in OpenOnes(issuesOf', t) \ D : n = j
      BY <1>4, <2>2, <2>6, <2>14
    <3>3. z.modified
      BY <1>4, <1>7, <2>9
    <3>4. QED
      BY <1>2, <2>8, <3>1, <3>2, <3>3 DEF ClosesSpares, Tests
  <2>16. ListStands(z)'
    <3>1. \A n \in DOMAIN x.seen : Flaky(issuesOf'[n]) => Flaky(issuesOf[n])
      BY <1>3, <2>4, <2>5 DEF Flaky, IsSound
    <3>2. QED
      BY <1>2, <1>5, <2>8, <3>1 DEF ListStands, Opening, Noting
  <2>17. AtOpenIssue(z)' /\ AtPassedIssue(z)' /\ LeavesOpen(z)'
    BY <1>2, <1>5, <2>8 DEF AtOpenIssue, AtPassedIssue, LeavesOpen, Noting, Closing, Failing
  <2>18. InLine(z)' /\ z.pc # "idle"
    BY <2>8, <2>15, <2>16, <2>17 DEF InLine
  <2>19. NobodyIsQuiet'
    BY <1>3, <2>4, <2>5 DEF NobodyIsQuiet
  <2>20. QED
    BY <1>2, <1>3, <2>8, <2>10, <2>12, <2>14, <2>18, <2>19, StepStays
<1>8. QED
  BY <1>6, <1>7

\* A title with an open issue among those listed has one found that is open.
LEMMA FoundIsOpen ==
  ASSUME NEW seen \in Seq(Issue), NEW t, OpenOnes(seen, t) # {}
  PROVE  FindExistingIssue(seen, t) \in OpenOnes(seen, t)
<1>1. OpenOnes(seen, t) \in SUBSET Nat
  BY DEF OpenOnes, Titled
<1>2. FindExistingIssue(seen, t) = Least(OpenOnes(seen, t))
  BY DEF FindExistingIssue
<1>3. QED
  BY <1>1, <1>2, LeastIsIn

\* openIssues() comes to the next failure, or is done with them.
LEMMA OpenIssuesStays ==
  ASSUME FlakyInv, StaysInv, NEW w \in Worker, OpenIssues(w)
  PROVE  StaysInv'
<1>1. SUFFICES ASSUME serial' PROVE StaysInv'
  BY DEF StaysInv
<1>2. serial /\ worker[w].pc = "open" /\ UNCHANGED <<issuesOf, reports, received, handled>>
  BY <1>1 DEF OpenIssues, Inbox
<1>3. PICK x \in WorkerState :
        /\ x = worker[w] /\ InLine(x) /\ x.pc = "open" /\ IsSound(x) /\ x.report \in DOMAIN reports
        /\ FlakyTyped /\ IssuesTyped
  BY <1>2, InHand
<1>4. x.seen \in Seq(Issue) /\ x.todo \in SUBSET Title
  BY <1>3 DEF WorkerState
<1>5. /\ reports[x.report].failures \subseteq TestCase \cup {Whole}
      /\ Grouped \notin TestCase /\ Whole \notin TestCase /\ Whole # Grouped
  BY <1>3, ReportTyped
<1>6. /\ \A t \in Tests(x.report) : AtMostOne(t)
      /\ x.todo \subseteq reports[x.report].failures
      /\ \A i \in DOMAIN x.seen : x.seen[i].open => issuesOf[i].open
      /\ \A t \in x.todo \cap TestCase : OpenOnes(issuesOf, t) \subseteq OpenOnes(x.seen, t)
      /\ \A i \in DOMAIN x.seen : Flaky(issuesOf[i]) => Flaky(x.seen[i]) \/ x.seen[i].title \in reports[x.report].failures
  BY <1>3 DEF InLine, ListStands, Opening
<1>7. \A t \in Failing(x.report) : t \in x.todo \/ OpenFor(reports[x.report].commit, t)
  BY <1>3 DEF InLine, LeavesOpen, Pending, Noting
<1>8. ASSUME NEW z, z.pc \in {"close", "lock", "create"}, z.report = x.report, z.seen = x.seen, z.todo \subseteq x.todo,
             z.pc # "close" => AtOpenIssue(z), z.pc = "close" => z.number = 0,
             \A t \in x.todo \cap TestCase : t \in z.todo \/ Pending(z, t)
      PROVE  InLine(z)
  <2>1. ListStands(z)
    BY <1>6, <1>8 DEF ListStands
  <2>2. LeavesOpen(z)
    BY <1>7, <1>8 DEF LeavesOpen, Failing
  <2>3. AtOpenIssue(z)
    BY <1>8 DEF AtOpenIssue, Noting
  <2>4. AtPassedIssue(z)
    BY <1>6, <1>8 DEF AtPassedIssue, Closing
  <2>5. ClosesSpares(z)
    BY <1>8 DEF ClosesSpares
  <2>6. QED
    BY <2>1, <2>2, <2>3, <2>4, <2>5 DEF InLine
<1> DEFINE t == CHOOSE u \in x.todo : TRUE
           grouped == OpenOnes(x.seen, Grouped)
           existing == FindExistingIssue(x.seen, t)
           new == CASE x.todo = {} -> [x EXCEPT !.pc = "close", !.number = 0]
                    [] x.todo \ {Whole} # {} /\ grouped # {} ->
                         [x EXCEPT !.pc = "lock", !.todo = x.todo \ TestCase, !.title = Grouped, !.number = Least(grouped)]
                    [] Cardinality(x.todo) >= Threshold /\ x.todo = reports[x.report].failures /\ grouped = {} ->
                         [x EXCEPT !.pc = "create", !.todo = {}, !.title = Grouped]
                    [] OTHER -> [[x EXCEPT !.todo = x.todo \ {t}, !.title = t, !.number = existing]
                                   EXCEPT !.pc = IF existing = 0 THEN "create" ELSE "lock"]
           Stands(z) == z.pc # "idle" /\ z.report = x.report /\ InLine(z)
<1>9. Works(w, new)
  BY <1>3 DEF OpenIssues, ReportOf
<1>10. ASSUME x.todo = {} PROVE Stands([x EXCEPT !.pc = "close", !.number = 0])
  <2>1. PICK z : z = [x EXCEPT !.pc = "close", !.number = 0]
    OBVIOUS
  <2>2. z.pc = "close" /\ z.report = x.report /\ z.seen = x.seen /\ z.todo = x.todo /\ z.number = 0
    BY <2>1 DEF WorkerState
  <2>3. InLine(z)
    BY <1>8, <1>10, <2>2
  <2>4. QED
    BY <2>1, <2>2, <2>3
<1>11. ASSUME grouped # {}
       PROVE  Stands([x EXCEPT !.pc = "lock", !.todo = x.todo \ TestCase, !.title = Grouped, !.number = Least(grouped)])
  <2>1. PICK z : z = [x EXCEPT !.pc = "lock", !.todo = x.todo \ TestCase, !.title = Grouped, !.number = Least(grouped)]
    OBVIOUS
  <2>2. /\ z.pc = "lock" /\ z.report = x.report /\ z.seen = x.seen /\ z.todo = x.todo \ TestCase /\ z.title = Grouped
        /\ z.number = Least(grouped)
    BY <2>1 DEF WorkerState
  <2>3. grouped \in SUBSET Nat
    BY <1>4 DEF OpenOnes, Titled
  <2>4. Least(grouped) \in grouped
    BY <1>11, <2>3, LeastIsIn
  <2>5. issuesOf[z.number].open
    BY <1>6, <2>2, <2>4 DEF OpenOnes, Titled
  <2>6. Grouped \notin x.todo
    BY <1>5, <1>6
  <2>7. AtOpenIssue(z)
    BY <2>2, <2>5, <2>6 DEF AtOpenIssue
  <2>8. \A u \in TestCase : Pending(z, u)
    BY <1>5, <2>2 DEF Pending, Noting
  <2>9. InLine(z)
    BY <1>8, <2>2, <2>7, <2>8
  <2>10. QED
    BY <2>1, <2>2, <2>9
<1>12. Stands([x EXCEPT !.pc = "create", !.todo = {}, !.title = Grouped])
  <2>1. PICK z : z = [x EXCEPT !.pc = "create", !.todo = {}, !.title = Grouped]
    OBVIOUS
  <2>2. z.pc = "create" /\ z.report = x.report /\ z.seen = x.seen /\ z.todo = {} /\ z.title = Grouped
    BY <2>1 DEF WorkerState
  <2>3. AtOpenIssue(z)
    BY <1>5, <2>2 DEF AtOpenIssue
  <2>4. \A u \in TestCase : Pending(z, u)
    BY <1>5, <2>2 DEF Pending, Noting
  <2>5. InLine(z)
    BY <1>8, <2>2, <2>3, <2>4
  <2>6. QED
    BY <2>1, <2>2, <2>5
<1>13. ASSUME x.todo # {}
       PROVE  Stands([[x EXCEPT !.todo = x.todo \ {t}, !.title = t, !.number = existing]
                        EXCEPT !.pc = IF existing = 0 THEN "create" ELSE "lock"])
  <2>1. PICK u \in x.todo : u = t
    BY <1>13
  <2>2. PICK n : n = existing
    OBVIOUS
  <2>3. PICK z : z = [[x EXCEPT !.todo = x.todo \ {t}, !.title = t, !.number = existing]
                        EXCEPT !.pc = IF existing = 0 THEN "create" ELSE "lock"]
    OBVIOUS
  <2>4. /\ z.report = x.report /\ z.seen = x.seen /\ z.todo = x.todo \ {u} /\ z.title = u /\ z.number = n
        /\ z.pc = IF n = 0 THEN "create" ELSE "lock"
    <3> HIDE DEF t, existing
    <3>1. QED
      BY <2>1, <2>2, <2>3 DEF WorkerState
  <2>5. u \in TestCase => OpenOnes(issuesOf, u) \subseteq OpenOnes(x.seen, u)
    BY <1>6, <2>1
  <2>6. u # Grouped /\ u \in reports[x.report].failures
    BY <1>5, <1>6, <2>1
  <2>7. ASSUME OpenOnes(x.seen, u) # {} PROVE InLine(z)
    <3>1. n \in OpenOnes(x.seen, u)
      BY <1>4, <2>1, <2>2, <2>7, FoundIsOpen
    <3>2. n \in DOMAIN x.seen /\ x.seen[n].open
      BY <3>1 DEF OpenOnes, Titled
    <3>3. n # 0 /\ issuesOf[n].open
      BY <1>4, <1>6, <3>2
    <3>4. AtOpenIssue(z)
      BY <2>4, <2>6, <3>3 DEF AtOpenIssue
    <3>5. \A v \in x.todo \cap TestCase : v \in z.todo \/ Pending(z, v)
      BY <2>4, <3>3 DEF Pending, Noting
    <3>6. QED
      BY <1>8, <2>4, <3>3, <3>4, <3>5
  <2>8. ASSUME OpenOnes(x.seen, u) = {} PROVE InLine(z)
    <3>1. u \in TestCase => OpenOnes(issuesOf, u) = {}
      BY <2>5, <2>8
    <3>2. AtOpenIssue(z)
      BY <2>4, <2>6, <3>1 DEF AtOpenIssue
    <3>3. \A v \in x.todo \cap TestCase : v \in z.todo \/ Pending(z, v)
      BY <2>4 DEF Pending, Noting
    <3>4. QED
      BY <1>8, <2>4, <3>2, <3>3
  <2>9. z.pc # "idle" /\ z.report = x.report /\ InLine(z)
    BY <2>4, <2>7, <2>8
  <2>10. QED
    BY <2>3, <2>9
<1>14. Stands(new)
  <2> HIDE DEF Stands, grouped, existing, t
  <2>1. QED
    BY <1>10, <1>11, <1>12, <1>13
<1>15. QED
  <2>1. PICK z : z = new /\ z.pc # "idle" /\ z.report = x.report /\ InLine(z)
    BY <1>14
  <2>2. Works(w, z)
    BY <1>9, <2>1
  <2>3. QED
    BY <1>2, <1>3, <2>1, <2>2, QuietStays

\* closeIssues() comes to the next issue of a passed test, or is done with the report.
LEMMA CloseIssuesStays ==
  ASSUME FlakyInv, StaysInv, NEW w \in Worker, CloseIssues(w)
  PROVE  StaysInv'
<1>1. SUFFICES ASSUME serial' PROVE StaysInv'
  BY DEF StaysInv
<1>2. serial /\ worker[w].pc = "close" /\ worker[w].pc \in Closing /\ UNCHANGED <<issuesOf, reports, received>>
  BY <1>1 DEF CloseIssues, Closing
<1>3. PICK x \in WorkerState :
        /\ x = worker[w] /\ InLine(x) /\ x.pc = "close" /\ IsSound(x) /\ NobodyIsQuiet /\ FlakyTyped /\ IssuesTyped
  BY <1>2, InHand
<1>4. CASE ToClose(w) = {}
  <2>1. PICK z : z = Unoccupied /\ z.pc = "idle"
    BY IsUnoccupied
  <2>2. Works(w, z) /\ handled' = handled \cup {worker[w].report}
    BY <1>4, <2>1 DEF CloseIssues
  <2>3. PICK c : c = reports[worker[w].report].commit
    OBVIOUS
  <2>4. Spares(c) /\ NobodyIsQuiet'
    BY <1>2, <1>3 DEF Spares, AtMostOne, OpenFor, Firm, NobodyIsQuiet
  <2>5. QED
    BY <1>2, <2>1, <2>2, <2>3, <2>4, StepStays
<1>5. CASE ToClose(w) # {}
  <2>1. ToClose(w) \in SUBSET Nat
    BY <1>3, ThereTyped DEF ToClose, IsSound
  <2>2. PICK n \in Nat : n = Least(ToClose(w)) /\ n \in ToClose(w)
    BY <1>5, <2>1, LeastIsIn
  <2>3. /\ n \in DOMAIN x.seen /\ n > x.number /\ x.seen[n].open /\ ~Flaky(x.seen[n])
        /\ Passed(reports[x.report], x.seen[n].title)
    BY <1>3, <2>2 DEF ToClose, ReportOf
  <2>4. PICK z : z = [x EXCEPT !.pc = "closeComments", !.number = n]
    OBVIOUS
  <2>5. /\ z.pc = "closeComments" /\ z.report = x.report /\ z.seen = x.seen /\ z.todo = x.todo /\ z.number = n
    BY <2>4 DEF WorkerState
  <2>6. Works(w, z) /\ UNCHANGED handled
    BY <1>3, <1>5, <2>2, <2>4 DEF CloseIssues
  <2>7. AtPassedIssue(z)
    <3>1. \A i \in DOMAIN x.seen : x.seen[i].open /\ i > x.number => issuesOf[i].open
      BY <1>3 DEF InLine, AtPassedIssue, Closing
    <3>2. x.number \in Nat /\ \A i \in DOMAIN x.seen : i \in Nat
      BY <1>2, <1>3, WorkerTyped DEF WorkerState
    <3>3. \A i \in DOMAIN x.seen : (i > n \/ i = n) => i > x.number
      BY <2>3, <3>2
    <3>4. QED
      BY <2>3, <2>5, <3>1, <3>3 DEF AtPassedIssue
  <2>8. ClosesSpares(z) /\ AtOpenIssue(z)
    BY <2>5 DEF ClosesSpares, AtOpenIssue, Noting
  <2>9. ListStands(z)
    BY <1>3, <2>5 DEF InLine, ListStands, Opening, Noting
  <2>10. LeavesOpen(z)
    BY <1>3, <2>5 DEF InLine, LeavesOpen, Pending, Noting
  <2>11. InLine(z) /\ z.pc # "idle"
    BY <2>5, <2>7, <2>8, <2>9, <2>10 DEF InLine
  <2>12. QED
    BY <1>2, <1>3, <2>5, <2>6, <2>11, QuietStays
<1>6. QED
  BY <1>4, <1>5

\* The comments of an issue to close are read: what has the failure is not closed.
LEMMA ReadCommentsToCloseStays ==
  ASSUME FlakyInv, StaysInv, NEW w \in Worker, ReadCommentsToClose(w)
  PROVE  StaysInv'
<1>1. SUFFICES ASSUME serial' PROVE StaysInv'
  BY DEF StaysInv
<1>2. serial /\ worker[w].pc = "closeComments" /\ UNCHANGED <<issuesOf, reports, received, handled>>
  BY <1>1 DEF ReadCommentsToClose, Inbox
<1>3. PICK x \in WorkerState : x = worker[w] /\ InLine(x) /\ x.pc = "closeComments"
  BY <1>2, InHand
<1>4. PICK pc \in {"markFlaky", "closeIssue"} :
        Works(w, [x EXCEPT !.pc = pc]) /\ (pc = "closeIssue" => ~ContainsBuildFailure(w))
  BY <1>3 DEF ReadCommentsToClose
<1>5. PICK z \in WorkerState :
        /\ z = [x EXCEPT !.pc = pc] /\ z.pc = pc /\ z.report = x.report /\ z.seen = x.seen
        /\ z.duplicates = x.duplicates /\ z.todo = x.todo /\ z.title = x.title /\ z.number = x.number
  <2>1. pc \in WorkerPc
    BY <1>4 DEF WorkerPc
  <2>2. QED
    BY <2>1, PcTyped
<1>6. AtPassedIssue(z)
  BY <1>3, <1>4, <1>5 DEF InLine, AtPassedIssue, Closing, ContainsBuildFailure, ReportOf
<1>7. ClosesSpares(z) /\ AtOpenIssue(z)
  BY <1>4, <1>5 DEF ClosesSpares, AtOpenIssue, Noting
<1>8. ListStands(z)
  BY <1>3, <1>4, <1>5 DEF InLine, ListStands, Opening, Noting
<1>9. LeavesOpen(z)
  BY <1>3, <1>4, <1>5 DEF InLine, LeavesOpen, Pending, Noting
<1>10. InLine(z) /\ z.pc # "idle"
  BY <1>4, <1>5, <1>6, <1>7, <1>8, <1>9 DEF InLine
<1>11. QED
  BY <1>2, <1>3, <1>4, <1>5, <1>10, QuietStays

\* The issue of a passed test is closed: it is not one that is known to be of a flaky test.
LEMMA CloseIssueStays ==
  ASSUME FlakyInv, StaysInv, NEW w \in Worker, CloseIssue(w)
  PROVE  StaysInv'
<1>1. SUFFICES ASSUME serial' PROVE StaysInv'
  BY DEF StaysInv
<1>2. serial /\ worker[w].pc = "closeIssue" /\ UNCHANGED <<reports, received, handled>>
  BY <1>1 DEF CloseIssue, Inbox
<1>3. PICK x \in WorkerState :
        /\ x = worker[w] /\ InLine(x) /\ x.pc = "closeIssue" /\ IsSound(x) /\ x.report \in DOMAIN reports
        /\ NobodyIsQuiet /\ FlakyTyped /\ IssuesTyped
  BY <1>2, InHand
<1>4. PICK n \in DOMAIN issuesOf : n = x.number /\ issuesOf[n] \in Issue
  BY <1>3, ThereTyped DEF IsSound, AtIssue, Closing
<1>5. issuesOf' = [issuesOf EXCEPT ![n] = IF issuesOf[n].open THEN Close(issuesOf[n]) ELSE issuesOf[n]]
  BY <1>3, <1>4 DEF CloseIssue
<1>6. PICK y \in Issue : /\ y = IF issuesOf[n].open THEN Close(issuesOf[n]) ELSE issuesOf[n]
                         /\ y.title = issuesOf[n].title /\ y.failures = issuesOf[n].failures
                         /\ y.labels = issuesOf[n].labels /\ ~y.open
  BY <1>3, <1>4, CloseTyped
<1>7. /\ DOMAIN issuesOf' = DOMAIN issuesOf /\ issuesOf'[n] = y
      /\ \A i \in DOMAIN issuesOf : i # n => issuesOf'[i] = issuesOf[i]
  BY <1>3, <1>5, <1>6, IssueChanges
<1>8. PICK c : c = reports[x.report].commit
  OBVIOUS
<1>9. ~Firm(n, c)
  <2>1. c \notin issuesOf[n].failures
    BY <1>3, <1>4, <1>8 DEF InLine, AtPassedIssue
  <2>2. n \in DOMAIN x.seen /\ ~Flaky(x.seen[n]) /\ Passed(reports[x.report], x.seen[n].title)
    BY <1>3, <1>4 DEF InLine, AtPassedIssue
  <2>3. x.seen[n].title \notin reports[x.report].failures
    BY <1>3, <2>2, ReportTyped DEF Passed
  <2>4. ~Flaky(issuesOf[n])
    BY <1>3, <2>2, <2>3 DEF InLine, ListStands
  <2>5. QED
    BY <2>1, <2>4 DEF Firm
<1>10. Spares(c) /\ \A t : OpenOnes(issuesOf', t) = OpenOnes(issuesOf, t) \ {n}
  BY <1>6, <1>7, <1>9, ClosedSpares
<1>11. PICK z \in WorkerState :
        /\ z = [x EXCEPT !.pc = "close"] /\ z.pc = "close" /\ z.report = x.report /\ z.seen = x.seen
        /\ z.duplicates = x.duplicates /\ z.todo = x.todo /\ z.title = x.title /\ z.number = x.number
  <2>1. "close" \in WorkerPc
    BY DEF WorkerPc
  <2>2. QED
    BY <2>1, PcTyped
<1>12. Works(w, z)
  BY <1>3, <1>11 DEF CloseIssue
<1>13. \A i \in DOMAIN x.seen : i \in DOMAIN issuesOf
  BY <1>3 DEF IsSound
<1>14. AtPassedIssue(z)'
  <2>1. \A i \in DOMAIN x.seen : x.seen[i].open /\ i > n => issuesOf[i].open /\ i # n
    <3>1. n \in Nat /\ \A i \in DOMAIN x.seen : i \in Nat
      BY <1>3, <1>4, <1>13, ThereTyped
    <3>2. \A i \in DOMAIN x.seen : x.seen[i].open /\ i > n => issuesOf[i].open
      BY <1>3, <1>4 DEF InLine, AtPassedIssue, Closing
    <3>3. QED
      BY <3>1, <3>2
  <2>2. \A i \in DOMAIN x.seen : x.seen[i].open /\ i > n => issuesOf'[i].open
    BY <1>7, <1>13, <2>1
  <2>3. QED
    BY <1>4, <1>11, <2>2 DEF AtPassedIssue
<1>15. \A t \in Tests(x.report) : AtMostOne(t) /\ AtMostOne(t)'
  BY <1>3, <1>10 DEF InLine, ListStands, AtMostOne
<1>16. ListStands(z)'
  <2>1. \A i \in DOMAIN x.seen : Flaky(issuesOf'[i]) => Flaky(issuesOf[i])
    BY <1>6, <1>7, <1>13 DEF Flaky
  <2>2. \A i \in DOMAIN x.seen : Flaky(issuesOf'[i]) => Flaky(x.seen[i]) \/ x.seen[i].title \in reports[x.report].failures
    BY <1>3, <2>1 DEF InLine, ListStands
  <2>3. QED
    BY <1>2, <1>11, <1>15, <2>2 DEF ListStands, Opening, Noting, Tests, AtMostOne
<1>17. LeavesOpen(z)'
  <2>1. ASSUME NEW t \in Failing(x.report) PROVE t \in x.todo \/ OpenFor(c, t)'
    <3>1. t \in x.todo \/ OpenFor(c, t)
      BY <1>3, <1>8 DEF InLine, LeavesOpen, Pending, Noting
    <3>2. t \in TestCase /\ AtMostOne(t)
      BY <1>15 DEF Failing, Tests, TitlesOf
    <3>3. QED
      BY <1>10, <3>1, <3>2 DEF Spares
  <2>2. c = reports'[z.report].commit /\ Failing(z.report)' = Failing(x.report)
    BY <1>2, <1>8, <1>11 DEF Failing
  <2>3. QED
    BY <1>11, <2>1, <2>2 DEF LeavesOpen, OpenFor, Firm
<1>18. InLine(z)' /\ z.pc # "idle"
  BY <1>11, <1>14, <1>16, <1>17 DEF InLine, ClosesSpares, AtOpenIssue, Noting
<1>19. NobodyIsQuiet'
  BY <1>3, <1>6, <1>7 DEF NobodyIsQuiet
<1>20. QED
  BY <1>2, <1>3, <1>8, <1>10, <1>11, <1>12, <1>18, <1>19, StepStays

\* The open issue of a test that passed and failed is marked as flaky; the report is done with.
LEMMA MarkFlakyStays ==
  ASSUME FlakyInv, StaysInv, NEW w \in Worker, MarkFlaky(w)
  PROVE  StaysInv'
<1>1. SUFFICES ASSUME serial' PROVE StaysInv'
  BY DEF StaysInv
<1>2. /\ serial /\ worker[w].pc = "markFlaky" /\ worker[w].pc \in Closing /\ worker[w].pc \in AtIssue
      /\ UNCHANGED <<reports, received>> /\ MarkIssueFlaky(w)
  BY <1>1 DEF MarkFlaky, Closing, AtIssue
<1>3. PICK x \in WorkerState :
        /\ x = worker[w] /\ InLine(x) /\ x.pc = "markFlaky" /\ NobodyIsQuiet
  BY <1>2, InHand
<1>4. issuesOf[x.number].open
  BY <1>3 DEF InLine, AtPassedIssue, Closing
<1>5. /\ IssuesGrow /\ DOMAIN issuesOf' = DOMAIN issuesOf
      /\ \A n \in DOMAIN issuesOf : n # x.number => issuesOf'[n] = issuesOf[n]
      /\ issuesOf'[x.number].open /\ issuesOf'[x.number].labels = {"flaky"}
  BY <1>2, <1>3, FlakyIsMarked
<1>6. NobodyIsQuiet' /\ OpensMore
  BY <1>3, <1>5 DEF NobodyIsQuiet, OpensMore, Flaky
<1>7. \A t : OpenOnes(issuesOf', t) = OpenOnes(issuesOf, t)
  BY <1>4, <1>5 DEF OpenOnes, Titled, IssuesGrow
<1>8. PICK c : c = reports[worker[w].report].commit
  OBVIOUS
<1>9. Spares(c)
  <2>1. \A t : AtMostOne(t) => AtMostOne(t)'
    BY <1>7 DEF AtMostOne
  <2>2. QED
    BY <1>6, <2>1, OpensStay DEF Spares
<1>10. PICK z : z = Unoccupied /\ z.pc = "idle"
  BY IsUnoccupied
<1>11. Works(w, z) /\ handled' = handled \cup {worker[w].report}
  BY <1>10 DEF MarkFlaky
<1>12. QED
  BY <1>2, <1>6, <1>8, <1>9, <1>10, <1>11, StepStays

\* A build reports, or nothing happens.
LEMMA BuildReportsStays ==
  ASSUME FlakyInv, StaysInv, UNCHANGED <<issuesOf, worker, received, handled, serial>>,
         \A b \in DOMAIN reports : reports'[b] = reports[b]
  PROVE  StaysInv'
<1>1. SUFFICES ASSUME serial' PROVE StaysInv'
  BY DEF StaysInv
<1>2. serial /\ received \subseteq DOMAIN reports /\ handled \subseteq received
  BY <1>1 DEF StaysInv, FlakyInv, FlakyTyped
<1>3. ASSUME NEW w \in Worker, worker[w].pc # "idle" PROVE worker[w].report \in received /\ InLine(worker[w])'
  <2>1. PICK x : x = worker[w] /\ x.report \in received /\ InLine(x)
    BY <1>2, <1>3 DEF StaysInv
  <2>2. reports'[x.report] = reports[x.report]
    BY <1>2, <2>1
  <2>3. InLine(x)'
    BY <2>1, <2>2 DEF InLine, ClosesSpares, ListStands, AtOpenIssue, AtPassedIssue, LeavesOpen, Pending, Tests, Failing,
       AtMostOne, OpenFor, Firm
  <2>4. QED
    BY <2>1, <2>3 DEF InLine, ClosesSpares, ListStands, AtOpenIssue, AtPassedIssue, LeavesOpen, Pending, Tests, Failing,
       AtMostOne, OpenFor, Firm
<1>4. ASSUME OneCommit', NEW b \in handled, NEW t \in Failing(b)'
      PROVE  (OpenFor(reports[b].commit, t) /\ AtMostOne(t))'
  <2>1. OneCommit /\ t \in Failing(b) /\ reports'[b] = reports[b]
    BY <1>2, <1>4 DEF OneCommit, Failing
  <2>2. OpenFor(reports[b].commit, t) /\ AtMostOne(t)
    BY <1>2, <2>1 DEF StaysInv
  <2>3. QED
    BY <2>1, <2>2 DEF OpenFor, Firm, AtMostOne
<1>5. NobodyIsQuiet' /\ \A v, w \in Worker : worker[v].pc # "idle" /\ worker[w].pc # "idle" => v = w
  BY <1>2 DEF StaysInv, NobodyIsQuiet
<1>6. QED
  BY <1>2, <1>3, <1>4, <1>5 DEF StaysInv

\* Every step keeps it: after an upset nothing is claimed.
LEMMA StaysNext ==
  ASSUME FlakyInv, StaysInv, [FlakybotNext]_flakyVars
  PROVE  StaysInv'
<1>1. CASE BuildReports
  <2>1. UNCHANGED <<issuesOf, worker, received, handled, serial>>
    BY <1>1 DEF BuildReports
  <2>2. PICK b : reports' = Append(reports, b)
    BY <1>1 DEF BuildReports
  <2>3. reports \in Seq(BuildReport)
    BY DEF FlakyInv, FlakyTyped
  <2>4. \A i \in DOMAIN reports : reports'[i] = reports[i]
    BY <2>2, <2>3
  <2>5. QED
    BY <2>1, <2>4, BuildReportsStays
<1>2. ASSUME NEW w \in Worker, WorkerStep(w) PROVE StaysInv'
  <2>1. CASE CreateComment(w)
    <3>1. serial' = serial /\ worker[w].pc = "comment" /\ NoteFailure(w) /\ NextFailure(w) /\ Inbox
      BY <2>1 DEF CreateComment, Inbox
    <3>2. QED
      BY <3>1, NotedStays DEF StaysInv
  <2>2. CASE CommentReason(w)
    <3>1. serial' = serial /\ worker[w].pc = "reason" /\ NoteFailure(w) /\ NextFailure(w) /\ Inbox
      BY <2>2 DEF CommentReason, Inbox
    <3>2. QED
      BY <3>1, NotedStays DEF StaysInv
  <2>3. QED
    BY <1>2, <2>1, <2>2, StartReportStays, ListIssuesStays, DeduplicateIssuesStays, ListAgainStays, OpenIssuesStays,
       LockStays, GetStays, ReadCommentsStays, ReopenStays, OpenNewIssueStays, CloseIssuesStays,
       ReadCommentsToCloseStays, CloseIssueStays, MarkFlakyStays DEF WorkerStep
<1>3. ASSUME NEW w \in Worker, WorkerFails(w) PROVE StaysInv'
  BY <1>3, Zenon DEF WorkerFails, Upset, StaysInv
<1>4. ASSUME NEW i \in DOMAIN issuesOf, PeopleEdit(i) \/ LockLapses(i) PROVE StaysInv'
  BY <1>4, Zenon DEF PeopleEdit, LockLapses, Upset, StaysInv
<1>5. CASE UNCHANGED flakyVars
  BY <1>5, BuildReportsStays DEF flakyVars
<1>6. QED
  BY <1>1, <1>2, <1>3, <1>4, <1>5 DEF FlakybotNext

\* A test that passed in one build of a commit and failed in another has an open issue once
\* both are handled, in either order, if handlers do not overlap and nobody interferes: in a
\* repository whose issues, at the start, nobody asked for quiet.
THEOREM FlakyTestsStayOpen ==
  ASSUME NEW CONSTANT starts \in SUBSET {there \in Seq(Issue) :
           Len(there) <= MaxIssues /\ \A i \in DOMAIN there : "quiet" \notin there[i].labels}
  PROVE  FlakybotSpec(starts) => []FlakyStaysOpen
<1>1. starts \in SUBSET {there \in Seq(Issue) : Len(there) <= MaxIssues}
  OBVIOUS
<1>2. (\E there \in starts : FlakybotStarts(there)) => FlakyInv
  BY FlakyInitKeeps
<1>3. (\E there \in starts : FlakybotStarts(there)) => StaysInv
  <2>1. SUFFICES ASSUME NEW there \in starts, FlakybotStarts(there) PROVE StaysInv
    OBVIOUS
  <2>2. issuesOf = there /\ handled = {} /\ received = {} /\ worker = [w \in Worker |-> Unoccupied]
    BY <2>1 DEF FlakybotStarts
  <2>3. PICK x : x = Unoccupied /\ x.pc = "idle"
    BY IsUnoccupied
  <2>4. \A w \in Worker : worker[w].pc = "idle"
    BY <2>2, <2>3
  <2>5. NobodyIsQuiet
    BY <2>2 DEF NobodyIsQuiet
  <2>6. QED
    BY <2>2, <2>4, <2>5 DEF StaysInv
<1>4. FlakyInv /\ [FlakybotNext]_flakyVars => FlakyInv'
  BY FlakyNextKeeps
<1>5. FlakyInv /\ StaysInv /\ [FlakybotNext]_flakyVars => StaysInv'
  BY StaysNext
<1>6. FlakyInv /\ StaysInv => FlakyStaysOpen
  <2>1. SUFFICES ASSUME FlakyInv, StaysInv, serial, NEW a \in handled, NEW b \in handled,
                        \A r \in received : reports[r].commit = reports[a].commit,
                        NEW t \in reports[a].passes \cap reports[b].failures
                 PROVE  \E i \in DOMAIN issuesOf : issuesOf[i].open /\ issuesOf[i].title \in {t, Grouped}
    BY DEF FlakyStaysOpen
  <2>2. OneCommit
    BY <2>1 DEF OneCommit
  <2>3. a \in DOMAIN reports /\ FlakyTyped
    BY <2>1 DEF FlakyInv, FlakyTyped
  <2>4. t \in Failing(b)
    BY <2>1, <2>3, ReportTyped DEF Failing
  <2>5. OpenFor(reports[b].commit, t)
    BY <2>1, <2>2, <2>4 DEF StaysInv
  <2>6. QED
    BY <2>5 DEF OpenFor, Firm
<1>7. QED
  BY <1>2, <1>3, <1>4, <1>5, <1>6, PTL DEF FlakybotSpec

=============================================================================
