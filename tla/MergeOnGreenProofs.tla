------------------------- MODULE MergeOnGreenProofs -------------------------
(***************************************************************************)
(* merge-on-green for any number of jobs at a time, commits and label      *)
(* edits: the types; that a pull request labelled "do not merge" from the  *)
(* beginning of a pass to its merge is not merged if no call fails; and    *)
(* that the jobs leave the merge labels which users want kept.             *)
(***************************************************************************)
EXTENDS MergeOnGreen, TLAPS

USE BoundsAssumption

\* A worker without a job.
LEMMA IdleIsJob == Idle \in Job
BY DEF Idle, Sha, Job, Record, Writes, Looked, Pc, Mog

\* What the bounds leave room for.
LEMMA Bounds ==
  /\ Commit \subseteq Sha /\ 0 \in Sha /\ 1 \in Commit
  /\ \A c \in Commit : c < MaxCommits => c + 1 \in Commit
  /\ \A n \in 0 .. MaxEdits : n < MaxEdits => n + 1 \in 0 .. MaxEdits
  /\ 0 \in 0 .. MaxEdits /\ 0 \in 0 .. MaxFaults
BY DEF Commit, Sha

\* Without faults to be had there are none.
LEMMA NoFaults ==
  ASSUME MaxFaults = 0, faults \in 0 .. MaxFaults, NEW w \in Worker
  PROVE  ~Fault(w)
BY DEF Fault

\* Membership is a truth value.
LEMMA InIsBoolean == ASSUME NEW x, NEW S PROVE (x \in S) \in BOOLEAN
OBVIOUS

\* Jobs with some of their fields replaced are jobs.
LEMMA JobsTyped ==
  /\ \A l \in Mog, s \in BOOLEAN, b \in BOOLEAN :
       [Idle EXCEPT !.pc = "sha", !.label = l, !.stop = s, !.blocked = b] \in Job
  /\ \A j \in Job, l \in Mog : [j EXCEPT !.pc = "remove", !.label = l] \in Job
  /\ \A j \in Job, b \in BOOLEAN : [j EXCEPT !.pc = "labels", !.flag = b] \in Job
  /\ \A j \in Job : [j EXCEPT !.pc = "labels"] \in Job
  /\ \A j \in Job, c \in Commit : [j EXCEPT !.pc = "statuses", !.sha = c] \in Job
  /\ \A j \in Job, b \in BOOLEAN : [j EXCEPT !.pc = "merge", !.flag = b] \in Job
<1> USE IdleIsJob, Bounds DEF Job, Record, Writes, Looked, Pc
<1>1. \A l \in Mog, s \in BOOLEAN, b \in BOOLEAN :
        [Idle EXCEPT !.pc = "sha", !.label = l, !.stop = s, !.blocked = b] \in Job
  OBVIOUS
<1>2. \A j \in Job, l \in Mog : [j EXCEPT !.pc = "remove", !.label = l] \in Job
  OBVIOUS
<1>3. \A j \in Job, b \in BOOLEAN : [j EXCEPT !.pc = "labels", !.flag = b] \in Job
  OBVIOUS
<1>4. \A j \in Job : [j EXCEPT !.pc = "labels"] \in Job
  OBVIOUS
<1>5. \A j \in Job, c \in Commit : [j EXCEPT !.pc = "statuses", !.sha = c] \in Job
  OBVIOUS
<1>6. \A j \in Job, b \in BOOLEAN : [j EXCEPT !.pc = "merge", !.flag = b] \in Job
  OBVIOUS
<1>7. QED
  BY <1>1, <1>2, <1>3, <1>4, <1>5, <1>6

\* A job goes on at another place.
LEMMA GoToTyped ==
  ASSUME NEW w \in Worker, NEW pc \in Pc, job \in [Worker -> Job], GoTo(w, pc),
         pc \in Writes => job[w].label \in Mog, pc \in Looked => job[w].sha \in Commit
  PROVE  job' \in [Worker -> Job]
<1>1. [job[w] EXCEPT !.pc = pc] \in Job
  BY DEF Job, Record
<1>2. QED
  BY <1>1 DEF GoTo

\* A job becomes another.
LEMMA BecomeTyped ==
  ASSUME NEW w \in Worker, NEW j \in Job, job \in [Worker -> Job], Become(w, j)
  PROVE  job' \in [Worker -> Job]
BY DEF Become

\* A job ends.
LEMMA FinishTyped ==
  ASSUME NEW w \in Worker, job \in [Worker -> Job], Finish(w)
  PROVE  job' \in [Worker -> Job]
BY IdleIsJob, BecomeTyped DEF Finish

\* A pass over a pull request returns.
LEMMA ReturnsTyped ==
  ASSUME NEW w \in Worker, NEW remove, job \in [Worker -> Job], Returns(w, remove)
  PROVE  job' \in [Worker -> Job]
<1>1. "remove" \in Pc \ (Writes \cup Looked)
  BY DEF Pc, Writes, Looked
<1>2. QED
  BY <1>1, GoToTyped, FinishTyped DEF Returns

\* A fault is counted.
LEMMA FaultTyped ==
  ASSUME NEW w \in Worker, faults \in 0 .. MaxFaults, Fault(w)
  PROVE  faults' \in 0 .. MaxFaults
BY DEF Fault

\* A webhook is sent.
LEMMA SendTyped ==
  ASSUME hooks \in SUBSET Hook, NEW kind \in {"labeled", "unlabeled", "closed"},
         NEW ls \in SUBSET Labels, Send(kind, ls)
  PROVE  hooks' \in SUBSET Hook
BY DEF Send, Hook

\* People, GitHub and the scheduler keep every type.
LEMMA EnvironmentTyped ==
  ASSUME TypeOK, Environment
  PROVE  TypeOK'
<1> USE DEF TypeOK, github, user
<1>1. ASSUME NEW l \in Labels, AddLabel(l)
      PROVE  TypeOK'
  <2>1. labels' \in SUBSET Labels /\ wanted' \in SUBSET Mog
    BY <1>1 DEF AddLabel
  <2>2. hooks' \in SUBSET Hook
    BY <1>1, <2>1, SendTyped DEF AddLabel
  <2>3. edits' \in 0 .. MaxEdits
    BY <1>1, Bounds DEF AddLabel
  <2>4. QED
    BY <1>1, <2>1, <2>2, <2>3 DEF AddLabel
<1>2. ASSUME NEW l \in Labels, RemoveLabel(l)
      PROVE  TypeOK'
  <2>1. labels' \in SUBSET Labels /\ wanted' \in SUBSET Mog
    BY <1>2 DEF RemoveLabel
  <2>2. hooks' \in SUBSET Hook
    BY <1>2, <2>1, SendTyped DEF RemoveLabel
  <2>3. \A w \in Worker :
          [job[w] EXCEPT !.blocked = @ /\ "do not merge" \in labels'] \in Job
    BY DEF Job, Record
  <2>4. job' \in [Worker -> Job]
    BY <1>2, <2>3 DEF RemoveLabel, StillBlocked
  <2>5. edits' \in 0 .. MaxEdits
    BY <1>2, Bounds DEF RemoveLabel
  <2>6. QED
    BY <1>2, <2>1, <2>2, <2>4, <2>5 DEF RemoveLabel
<1>3. CASE Push
  <2>1. head' \in Commit
    BY <1>3, Bounds DEF Push
  <2>2. QED
    BY <1>3, <2>1 DEF Push
<1>4. CASE Approve
  BY <1>4, Bounds DEF Approve
<1>5. CASE BaseMoves
  BY <1>5 DEF BaseMoves
<1>6. CASE Close
  BY <1>6, SendTyped DEF Close
<1>7. CASE RowAges
  BY <1>7 DEF RowAges, Row, NoRow
<1>8. ASSUME NEW c \in Commit, ChecksPass(c)
      PROVE  TypeOK'
  BY <1>8 DEF ChecksPass
<1>9. ASSUME NEW h \in hooks, LoseHook(h)
      PROVE  TypeOK'
  BY <1>9 DEF LoseHook
<1>10. QED
  BY <1>1, <1>2, <1>3, <1>4, <1>5, <1>6, <1>7, <1>8, <1>9 DEF Environment

\* The steps that begin a job keep every type.
LEMMA StartsTyped ==
  ASSUME TypeOK, NEW w \in Worker, Starts(w)
  PROVE  TypeOK'
<1> USE DEF TypeOK, github, user
<1>1. ASSUME NEW h \in hooks, Labeled(w, h)
      PROVE  TypeOK'
  <2>1. \A l \in Mog : [Idle EXCEPT !.pc = "addPR", !.hook = TRUE, !.label = l] \in Job
    BY IdleIsJob DEF Job, Record, Writes, Looked, Pc
  <2>2. job' \in [Worker -> Job]
    BY <1>1, <2>1, BecomeTyped DEF Labeled, Hook
  <2>3. QED
    BY <1>1, <2>2 DEF Labeled
<1>2. ASSUME NEW h \in hooks, UnlabeledOrClosed(w, h)
      PROVE  TypeOK'
  <2>1. [Idle EXCEPT !.pc = "getPR", !.hook = TRUE] \in Job
    BY IdleIsJob DEF Job, Record, Writes, Looked, Pc
  <2>2. job' \in [Worker -> Job]
    BY <1>2, <2>1, BecomeTyped DEF UnlabeledOrClosed
  <2>3. QED
    BY <1>2, <2>2 DEF UnlabeledOrClosed
<1>3. CASE FindHanging(w)
  <2>1. \A l \in Mog : [Idle EXCEPT !.pc = "find", !.label = l] \in Job
    BY IdleIsJob DEF Job, Record, Writes, Looked, Pc
  <2>2. job' \in [Worker -> Job]
    BY <1>3, <2>1, BecomeTyped DEF FindHanging
  <2>3. QED
    BY <1>3, <2>2 DEF FindHanging
<1>4. CASE CleanTable(w)
  <2>1. [Idle EXCEPT !.pc = "pulls", !.label = row.label] \in Job
    BY <1>4, IdleIsJob DEF CleanTable, Job, Record, Writes, Looked, Pc, Row
  <2>2. job' \in [Worker -> Job]
    BY <1>4, <2>1, BecomeTyped DEF CleanTable
  <2>3. QED
    BY <1>4, <2>2 DEF CleanTable
<1>5. CASE ListPRs(w)
  <2>1. row \in Row
    BY <1>5 DEF ListPRs
  <2>2. [Idle EXCEPT !.pc = "sha", !.label = row.label, !.stop = row.old,
                     !.blocked = "do not merge" \in labels] \in Job
    <3>1. row.label \in Mog /\ row.old \in BOOLEAN
      BY <2>1 DEF Row
    <3>2. ("do not merge" \in labels) \in BOOLEAN
      BY InIsBoolean
    <3>3. QED
      BY <3>1, <3>2, JobsTyped, Zenon
  <2>3. job' \in [Worker -> Job]
    BY <1>5, <2>2, BecomeTyped DEF ListPRs
  <2>4. QED
    BY <1>5, <2>3 DEF ListPRs
<1>6. QED
  BY <1>1, <1>2, <1>3, <1>4, <1>5 DEF Starts

\* The steps that read GitHub keep every type.
LEMMA ContinuesTyped ==
  ASSUME TypeOK, NEW w \in Worker, Continues(w)
  PROVE  TypeOK'
<1> USE DEF TypeOK, github, user
<1>0. \A pc \in {"remove", "cleanUp", "merge", "update", "labels"} :
        pc \in Pc \ (Writes \cup Looked)
  BY DEF Pc, Writes, Looked
<1>00. /\ {"addPR", "save", "info"} \subseteq Pc /\ "info" \in Looked \ Writes
       /\ {"addPR", "save"} \cap Looked = {}
       /\ job[w].pc \in Writes => job[w].label \in Mog
       /\ job[w].pc \in Looked => job[w].sha \in Commit
  BY DEF Pc, Job, Writes, Looked
<1>1. CASE FindRow(w)
  BY <1>00, <1>1, GoToTyped, FinishTyped DEF FindRow, At, Writes
<1>2. CASE CheckForBranchProtection(w)
  BY <1>00, <1>2, GoToTyped, FinishTyped, FaultTyped DEF CheckForBranchProtection, At, Writes
<1>3. CASE AddPR(w)
  <2>1. row' \in Row
    BY <1>00, <1>3 DEF AddPR, At, Writes, Row
  <2>2. QED
    BY <1>3, <2>1, FinishTyped DEF AddPR
<1>4. CASE GetRow(w)
  <2>1. row # NoRow => [job[w] EXCEPT !.pc = "remove", !.label = row.label] \in Job
    BY JobsTyped, Bounds DEF Row
  <2>2. job' \in [Worker -> Job]
    BY <1>4, <2>1, BecomeTyped, FinishTyped DEF GetRow
  <2>3. QED
    BY <1>4, <2>2 DEF GetRow
<1>5. CASE RemovePR(w)
  BY <1>0, <1>5, GoToTyped DEF RemovePR
<1>6. CASE CleanUpPullRequest(w)
  <2>1. labels' \in SUBSET Labels
    BY <1>6 DEF CleanUpPullRequest
  <2>2. hooks' \in SUBSET Hook
    BY <1>6, <2>1, SendTyped DEF CleanUpPullRequest
  <2>3. QED
    BY <1>6, <2>1, <2>2, FinishTyped DEF CleanUpPullRequest
<1>7. CASE PullsGet(w)
  <2>1. \A b \in BOOLEAN : [job[w] EXCEPT !.pc = "labels", !.flag = b] \in Job
    BY JobsTyped, Bounds
  <2>2. [job[w] EXCEPT !.pc = "labels"] \in Job
    BY JobsTyped, Bounds
  <2>3. job' \in [Worker -> Job]
    BY <1>7, <2>1, <2>2, BecomeTyped DEF PullsGet
  <2>4. QED
    BY <1>7, <2>3, FaultTyped DEF PullsGet
<1>8. CASE ListLabels(w)
  BY <1>0, <1>8, GoToTyped, FinishTyped, FaultTyped DEF ListLabels
<1>9. CASE GetLatestCommit(w)
  <2>1. [job[w] EXCEPT !.pc = "statuses", !.sha = head] \in Job
    BY JobsTyped
  <2>2. job' \in [Worker -> Job]
    BY <1>9, <2>1, BecomeTyped, ReturnsTyped DEF GetLatestCommit
  <2>3. QED
    BY <1>9, <2>2 DEF GetLatestCommit
<1>10. CASE StatusesForRef(w)
  BY <1>00, <1>10, GoToTyped, ReturnsTyped DEF StatusesForRef, At, Looked
<1>11. CASE GetInfo(w)
  <2>1. [job[w] EXCEPT !.pc = "merge", !.flag = behind] \in Job
    BY JobsTyped, Bounds
  <2>2. job' \in [Worker -> Job]
    BY <1>0, <1>11, <2>1, BecomeTyped, GoToTyped, ReturnsTyped DEF GetInfo
  <2>3. dismissals' \in SUBSET Commit
    BY <1>00, <1>11 DEF GetInfo, At, Looked
  <2>4. QED
    BY <1>11, <2>2, <2>3, FaultTyped DEF GetInfo
<1>12. CASE Merge(w)
  <2>1. hooks' \in SUBSET Hook
    BY <1>12, SendTyped DEF Merge
  <2>2. job' \in [Worker -> Job]
    BY <1>0, <1>12, GoToTyped, ReturnsTyped DEF Merge
  <2>3. merged' \in SUBSET {"do not merge", "stale review"}
    BY <1>12 DEF Merge, Ignored
  <2>4. faults' \in 0 .. MaxFaults
    BY <1>12, FaultTyped DEF Merge
  <2>5. QED
    BY <1>12, <2>1, <2>2, <2>3, <2>4 DEF Merge
<1>13. CASE UpdateBranch(w)
  <2>1. head' \in Commit /\ behind' \in BOOLEAN
    BY <1>13, Bounds DEF UpdateBranch
  <2>2. QED
    BY <1>13, <2>1, ReturnsTyped DEF UpdateBranch
<1>14. QED
  BY <1>1, <1>2, <1>3, <1>4, <1>5, <1>6, <1>7, <1>8, <1>9, <1>10, <1>11, <1>12, <1>13
     DEF Continues

\* The steps that fail keep every type.
LEMMA ThrowsTyped ==
  ASSUME TypeOK, NEW w \in Worker, Throws(w)
  PROVE  TypeOK'
<1>1. "addPR" \in Pc \ Looked /\ "getPR" \in Pc \ (Writes \cup Looked)
  BY DEF Pc, Writes, Looked
<1>2. At(w, "save") => job[w].label \in Mog
  BY DEF TypeOK, Job, At, Writes
<1>3. job' \in [Worker -> Job]
  BY <1>1, <1>2, GoToTyped, FinishTyped DEF Throws, TypeOK
<1>4. QED
  BY <1>3, FaultTyped DEF Throws, TypeOK, github, user

\* Every variable keeps its type.
THEOREM TypeCorrect == Spec => []TypeOK
<1>1. Init => TypeOK
  BY IdleIsJob, Bounds DEF Init, TypeOK
<1>2. TypeOK /\ [Next]_vars => TypeOK'
  <2> SUFFICES ASSUME TypeOK, [Next]_vars
               PROVE  TypeOK'
    OBVIOUS
  <2>1. ASSUME NEW c \in Commit, DismissReviews(c)
        PROVE  TypeOK'
    <3>1. review' \in Sha /\ dismissals' \in SUBSET Commit
      BY <2>1, Bounds DEF TypeOK, DismissReviews
    <3>2. QED
      BY <2>1, <3>1 DEF TypeOK, DismissReviews, user
  <2>2. CASE UNCHANGED vars
    BY <2>2 DEF vars, TypeOK, github, user
  <2>3. QED
    BY <2>1, <2>2, EnvironmentTyped, StartsTyped, ContinuesTyped, ThrowsTyped DEF Next
<1>3. QED
  BY <1>1, <1>2, PTL DEF Spec


\* A job that moves on, but neither to the merge nor with a new mark.
Plain(w) ==
  /\ job'[w].pc # "merge"
  /\ job'[w].blocked => job[w].blocked
  /\ \A v \in Worker \ {w} : job'[v] = job[v]

\* Steps that go on with a job, or end one, merge nothing.
LEMMA PlainSteps ==
  ASSUME TypeOK, NEW w \in Worker
  PROVE  /\ \A pc \in Pc \ {"merge"} : GoTo(w, pc) => Plain(w)
         /\ Finish(w) => Plain(w)
         /\ \A b \in BOOLEAN : Returns(w, b) => Plain(w)
<1> USE DEF Plain, Become
<1>0. job \in [Worker -> Job]
  BY DEF TypeOK
<1>1. ASSUME NEW pc \in Pc \ {"merge"}, GoTo(w, pc)
      PROVE  Plain(w)
  <2> DEFINE j == [job[w] EXCEPT !.pc = pc]
  <2>1. job' = [job EXCEPT ![w] = j]
    BY <1>1 DEF GoTo
  <2>2. j.pc = pc /\ j.blocked = job[w].blocked
    BY <1>0 DEF Job, Record
  <2>3. QED
    BY <1>0, <2>1, <2>2
<1>2. Finish(w) => Plain(w)
  <2>1. Idle.pc = "idle" /\ ~Idle.blocked
    BY DEF Idle
  <2>2. QED
    BY <1>0, <2>1 DEF Finish
<1>3. \A b \in BOOLEAN : Returns(w, b) => Plain(w)
  BY <1>1, <1>2 DEF Returns, Pc
<1>4. QED
  BY <1>1, <1>2, <1>3

\* A step that merges nothing keeps the invariant.
LEMMA PlainKeepsInv ==
  ASSUME TypeOK, BlockedInv, NEW w \in Worker, Plain(w), UNCHANGED <<labels, merged>>
  PROVE  BlockedInv'
BY DEF Plain, BlockedInv, DoNotMergeHeld

\* "do not merge" is noted when a pass begins and forgotten when the label goes; only
\* GetInfo leads to the merge, and only without the label.
LEMMA BlockedByLabel ==
  ASSUME TypeOK, BlockedInv, MaxFaults = 0, [Next]_vars
  PROVE  BlockedInv'
<1> USE DEF BlockedInv, DoNotMergeHeld
<1>1. \A w \in Worker : ~Fault(w)
  <2>1. faults \in 0 .. MaxFaults
    BY DEF TypeOK
  <2>2. QED
    BY <2>1, NoFaults
<1>2. \A w \in Worker : ~Throws(w)
  BY <1>1 DEF Throws
<1>3. CASE Environment
  <2>1. ASSUME NEW l \in Labels, AddLabel(l)
        PROVE  BlockedInv'
    BY <2>1 DEF AddLabel
  <2>2. ASSUME NEW l \in Labels, RemoveLabel(l)
        PROVE  BlockedInv'
    BY <2>2 DEF TypeOK, RemoveLabel, StillBlocked, Job, Record
  <2>3. CASE UNCHANGED <<labels, job, merged>>
    BY <2>3
  <2>4. CASE Push \/ Approve \/ BaseMoves \/ Close \/ RowAges
    <3>1. UNCHANGED <<labels, job, merged>>
      BY <2>4 DEF Push, Approve, BaseMoves, Close, RowAges, github
    <3>2. QED
      BY <2>3, <3>1
  <2>5. ASSUME NEW c \in Commit, ChecksPass(c)
        PROVE  BlockedInv'
    BY <2>3, <2>5 DEF ChecksPass
  <2>6. ASSUME NEW h \in hooks, LoseHook(h)
        PROVE  BlockedInv'
    BY <2>3, <2>6 DEF LoseHook, github
  <2>7. QED
    BY <1>3, <2>1, <2>2, <2>4, <2>5, <2>6 DEF Environment
<1>4. ASSUME NEW c \in Commit, DismissReviews(c)
      PROVE  BlockedInv'
  BY <1>4 DEF DismissReviews
<1>5. ASSUME NEW w \in Worker, Starts(w)
      PROVE  BlockedInv'
  <2>1. ASSUME NEW h \in hooks, Labeled(w, h) \/ UnlabeledOrClosed(w, h)
        PROVE  BlockedInv'
    <3>1. UNCHANGED job \/ Plain(w)
      BY <2>1 DEF Labeled, UnlabeledOrClosed, Plain, Become, Idle, TypeOK
    <3>2. UNCHANGED <<labels, merged>>
      BY <2>1 DEF Labeled, UnlabeledOrClosed, github
    <3>3. QED
      BY <3>1, <3>2, PlainKeepsInv
  <2>2. CASE FindHanging(w) \/ CleanTable(w)
    <3>1. Plain(w) /\ UNCHANGED <<labels, merged>>
      BY <2>2 DEF FindHanging, CleanTable, Plain, Become, Idle, TypeOK, github
    <3>2. QED
      BY <3>1, PlainKeepsInv
  <2>3. CASE ListPRs(w)
    <3>1. UNCHANGED <<labels, merged>>
      BY <2>3 DEF ListPRs, github
    <3>2. job'[w].blocked = ("do not merge" \in labels) /\ job'[w].pc = "sha"
      BY <2>3 DEF ListPRs, Become, Idle, TypeOK
    <3>3. \A v \in Worker \ {w} : job'[v] = job[v]
      BY <2>3 DEF ListPRs, Become, TypeOK
    <3>4. QED
      BY <3>1, <3>2, <3>3
  <2>4. QED
    BY <1>5, <2>1, <2>2, <2>3 DEF Starts
<1>6. ASSUME NEW w \in Worker, Continues(w)
      PROVE  BlockedInv'
  <2>1. CASE GetInfo(w)
    <3>1. UNCHANGED <<labels, merged>>
      BY <2>1 DEF GetInfo, github
    <3>2. CASE "do not merge" \in labels
      <4>1. Returns(w, FALSE)
        BY <1>1, <2>1, <3>2 DEF GetInfo
      <4>2. QED
        BY <3>1, <4>1, PlainSteps, PlainKeepsInv
    <3>3. CASE "do not merge" \notin labels
      <4>1. Become(w, [job[w] EXCEPT !.pc = "merge", !.flag = behind])
        BY <1>1, <2>1, <3>3 DEF GetInfo
      <4>2. \A v \in Worker : job'[v].blocked = job[v].blocked
        BY <4>1 DEF Become, TypeOK, Job, Record
      <4>3. QED
        BY <3>1, <3>3, <4>2
    <3>4. QED
      BY <3>2, <3>3
  <2>2. CASE Merge(w)
    <3>1. ~job[w].blocked /\ labels' = labels
      BY <2>2 DEF Merge, At
    <3>2. "do not merge" \notin merged'
      BY <2>2, <3>1 DEF Merge, Ignored
    <3>3. "update" \in Pc \ {"merge"}
      BY DEF Pc
    <3>4. Plain(w)
      BY <1>1, <2>2, <3>3, PlainSteps DEF Merge
    <3>5. QED
      BY <3>1, <3>2, <3>4 DEF Plain
  <2>3. CASE CleanUpPullRequest(w)
    <3>1. job[w].label # "do not merge"
      BY DEF TypeOK, Job, Record, Mog
    <3>2. "do not merge" \in labels => "do not merge" \in labels'
      BY <2>3, <3>1 DEF CleanUpPullRequest
    <3>3. QED
      BY <2>3, <3>2 DEF CleanUpPullRequest, Become, Finish, Idle, TypeOK
  <2>4. CASE ~GetInfo(w) /\ ~Merge(w) /\ ~CleanUpPullRequest(w)
    <3>1. UNCHANGED <<labels, merged>>
      BY <1>6, <2>4
         DEF Continues, FindRow, CheckForBranchProtection, AddPR, GetRow, RemovePR, PullsGet,
             ListLabels, GetLatestCommit, StatusesForRef, UpdateBranch, github
    <3>2. {"addPR", "save", "remove", "cleanUp", "info"} \subseteq Pc \ {"merge"}
      BY DEF Pc
    <3>3. CASE FindRow(w) \/ CheckForBranchProtection(w) \/ AddPR(w) \/ RemovePR(w)
      BY <3>1, <3>2, <3>3, PlainSteps, PlainKeepsInv
         DEF FindRow, CheckForBranchProtection, AddPR, RemovePR
    <3>4. CASE ListLabels(w) \/ StatusesForRef(w) \/ UpdateBranch(w)
      <4>1. job[w].stop \in BOOLEAN
        BY DEF TypeOK, Job, Record
      <4>2. QED
        BY <3>1, <3>2, <3>4, <4>1, PlainSteps, PlainKeepsInv
           DEF ListLabels, StatusesForRef, UpdateBranch
    <3>5. CASE GetRow(w) \/ PullsGet(w) \/ GetLatestCommit(w)
      <4>1. job \in [Worker -> Job]
        BY DEF TypeOK
      <4>2. /\ \A l : [job[w] EXCEPT !.pc = "remove", !.label = l].pc = "remove"
            /\ \A l : [job[w] EXCEPT !.pc = "remove", !.label = l].blocked = job[w].blocked
            /\ \A b : [job[w] EXCEPT !.pc = "labels", !.flag = b].pc = "labels"
            /\ \A b : [job[w] EXCEPT !.pc = "labels", !.flag = b].blocked = job[w].blocked
            /\ [job[w] EXCEPT !.pc = "labels"].pc = "labels"
            /\ [job[w] EXCEPT !.pc = "labels"].blocked = job[w].blocked
            /\ \A c : [job[w] EXCEPT !.pc = "statuses", !.sha = c].pc = "statuses"
            /\ \A c : [job[w] EXCEPT !.pc = "statuses", !.sha = c].blocked = job[w].blocked
        BY <4>1 DEF Job, Record
      <4>3. ASSUME NEW j, Become(w, j), j.pc # "merge", j.blocked = job[w].blocked
            PROVE  Plain(w)
        BY <4>1, <4>3 DEF Become, Plain
      <4>4. GetRow(w) => Plain(w)
        BY <4>2, <4>3, PlainSteps DEF GetRow
      <4>5. PullsGet(w) => Plain(w)
        BY <4>2, <4>3 DEF PullsGet
      <4>6. GetLatestCommit(w) => Plain(w)
        BY <4>2, <4>3, PlainSteps DEF GetLatestCommit
      <4>7. QED
        BY <3>1, <3>5, <4>4, <4>5, <4>6, PlainKeepsInv
    <3>6. QED
      BY <1>6, <2>4, <3>3, <3>4, <3>5 DEF Continues
  <2>5. QED
    BY <2>1, <2>2, <2>3, <2>4
<1>7. CASE UNCHANGED vars
  BY <1>7 DEF vars, github
<1>8. QED
  BY <1>2, <1>3, <1>4, <1>5, <1>6, <1>7 DEF Next

\* A pull request that is labelled "do not merge" from the moment a pass reads the
\* table to its merge is not merged, if no call fails (merge-logic.ts:592).
THEOREM BlockedNotMerged == MaxFaults = 0 => (Spec => []DoNotMergeHeld)
<1> SUFFICES ASSUME MaxFaults = 0
             PROVE  Spec => []DoNotMergeHeld
  OBVIOUS
<1>1. Init => BlockedInv
  BY DEF Init, BlockedInv, DoNotMergeHeld, Idle
<1>2. TypeOK /\ BlockedInv /\ [Next]_vars => BlockedInv'
  BY BlockedByLabel
<1>3. BlockedInv => DoNotMergeHeld
  BY DEF BlockedInv
<1>4. QED
  BY <1>1, <1>2, <1>3, TypeCorrect, PTL DEF Spec

----------------------------------------------------------------------------
(* A merge label is kept. *)

\* A pull request that is still undisturbed was so before the step, and no call failed.
LEMMA WasUndisturbed ==
  ASSUME TypeOK, [Next]_vars, Undisturbed'
  PROVE  Undisturbed /\ \A w \in Worker : ~Fault(w)
<1> USE DEF Undisturbed
<1>1. faults \in Nat
  <2>1. faults \in 0 .. MaxFaults
    BY DEF TypeOK
  <2>2. QED
    BY <2>1
<1>2. \A w \in Worker : ~Fault(w)
  BY <1>1 DEF Fault
<1>3. pr' = "open" => pr = "open"
  <2>1. CASE Environment
    BY <2>1 DEF Environment, AddLabel, RemoveLabel, Push, Approve, BaseMoves, Close, RowAges,
                ChecksPass, LoseHook, github
  <2>2. ASSUME NEW w \in Worker, Starts(w)
        PROVE  UNCHANGED pr
    BY <2>2 DEF Starts, Labeled, UnlabeledOrClosed, FindHanging, CleanTable, ListPRs, github
  <2>3. ASSUME NEW w \in Worker, Continues(w)
        PROVE  pr' = pr \/ pr' = "merged"
    BY <2>3 DEF Continues, FindRow, CheckForBranchProtection, AddPR, GetRow, RemovePR, PullsGet,
                CleanUpPullRequest, ListLabels, GetLatestCommit, StatusesForRef, GetInfo, Merge,
                UpdateBranch, github
  <2>4. CASE \E w \in Worker : Throws(w)
    BY <2>4 DEF Throws, github
  <2>5. CASE \E c \in Commit : DismissReviews(c)
    BY <2>5 DEF DismissReviews
  <2>6. CASE UNCHANGED vars
    BY <2>6 DEF vars, github
  <2>7. QED
    BY <2>1, <2>2, <2>3, <2>4, <2>5, <2>6 DEF Next
<1>4. faults = 0
  <2>1. CASE Environment
    BY <2>1 DEF Environment, AddLabel, RemoveLabel, Push, Approve, BaseMoves, Close, RowAges,
                ChecksPass, LoseHook
  <2>2. ASSUME NEW w \in Worker, Starts(w)
        PROVE  UNCHANGED faults
    BY <2>2 DEF Starts, Labeled, UnlabeledOrClosed, FindHanging, CleanTable, ListPRs
  <2>3. ASSUME NEW w \in Worker, Continues(w)
        PROVE  UNCHANGED faults
    BY <1>2, <2>3
       DEF Continues, FindRow, CheckForBranchProtection, AddPR, GetRow, RemovePR, PullsGet,
           CleanUpPullRequest, ListLabels, GetLatestCommit, StatusesForRef, GetInfo, Merge,
           UpdateBranch
  <2>4. \A w \in Worker : ~Throws(w)
    BY <1>2 DEF Throws
  <2>5. CASE \E c \in Commit : DismissReviews(c)
    BY <2>5 DEF DismissReviews
  <2>6. CASE UNCHANGED vars
    BY <2>6 DEF vars
  <2>7. QED
    BY <2>1, <2>2, <2>3, <2>4, <2>5, <2>6 DEF Next
<1>5. QED
  BY <1>2, <1>3, <1>4

\* What a job may become: it takes a row away only while a removal is dealt with or no
\* merge label is there.
Harmless(j) ==
  /\ j.pc \in Cleans => CleaningUp \/ labels \cap Mog = {}
  /\ j.stop = FALSE
  /\ j.pc \in {"pulls", "labels"} => j.flag = FALSE

\* A step of a job that leaves the labels alone and sends no webhook.
LEMMA HarmlessKeeps ==
  ASSUME TypeOK, Kept, NEW w \in Worker, NEW j \in Job, Become(w, j), Harmless(j),
         UNCHANGED <<labels, wanted>>, hooks' \subseteq hooks, row'.old = FALSE
  PROVE  Kept'
<1> USE DEF TypeOK, Kept
<1>1. job' = [job EXCEPT ![w] = j]
  BY DEF Become
<1>2. job'[w] = j /\ \A v \in Worker \ {w} : job'[v] = job[v]
  BY <1>1
<1>3. CleaningUp' => CleaningUp \/ labels \cap Mog = {}
  BY <1>2 DEF CleaningUp, Harmless
<1>4. CleaningUp' => wanted' = {}
  BY <1>3
<1>5. ASSUME NEW v \in Worker
      PROVE  /\ job'[v].stop = FALSE
             /\ job'[v].pc \in {"pulls", "labels"} => job'[v].flag = FALSE
  BY <1>2 DEF Harmless
<1>6. QED
  BY <1>4, <1>5

\* The jobs that any step may lead to.
LEMMA HarmlessJobs ==
  ASSUME TypeOK, Kept, NEW w \in Worker
  PROVE  /\ Harmless(Idle)
         /\ \A pc \in Pc \ Cleans : Harmless([job[w] EXCEPT !.pc = pc])
                                      \/ pc \in {"pulls", "labels"}
         /\ \A pc \in Cleans : CleaningUp \/ labels \cap Mog = {}
                                 => Harmless([job[w] EXCEPT !.pc = pc])
<1>1. job[w] \in Record
  BY DEF TypeOK, Job
<1>2. job[w].stop = FALSE
  BY DEF Kept
<1>3. "idle" \notin Cleans /\ Cleans \cap {"pulls", "labels"} = {}
  BY DEF Cleans
<1>4. Harmless(Idle)
  BY <1>3 DEF Harmless, Idle
<1>5. \A pc : [job[w] EXCEPT !.pc = pc].pc = pc /\ [job[w] EXCEPT !.pc = pc].stop = FALSE
  BY <1>1, <1>2 DEF Record
<1>6. QED
  BY <1>3, <1>4, <1>5 DEF Harmless

\* A job that goes on at another place, where it is harmless.
LEMMA GoesOn ==
  ASSUME TypeOK, Kept, NEW w \in Worker, NEW pc \in Pc, GoTo(w, pc),
         pc \notin {"pulls", "labels"},
         pc \in Cleans => CleaningUp \/ labels \cap Mog = {},
         pc \in Writes => job[w].label \in Mog, pc \in Looked => job[w].sha \in Commit,
         UNCHANGED <<labels, wanted>>, hooks' \subseteq hooks, row'.old = FALSE
  PROVE  Kept'
<1> PICK j : j = [job[w] EXCEPT !.pc = pc]
  OBVIOUS
<1>1. j \in Job
  BY DEF TypeOK, Job, Record
<1>2. Become(w, j)
  BY DEF GoTo, Become
<1>3. Harmless(j)
  BY HarmlessJobs
<1>4. QED
  BY <1>1, <1>2, <1>3, HarmlessKeeps

\* A job that ends.
LEMMA Ends ==
  ASSUME TypeOK, Kept, NEW w \in Worker, Finish(w),
         UNCHANGED <<labels, wanted>>, hooks' \subseteq hooks, row'.old = FALSE
  PROVE  Kept'
BY IdleIsJob, HarmlessJobs, HarmlessKeeps DEF Finish

\* A pass that returns and has merged nothing.
LEMMA ComesBack ==
  ASSUME TypeOK, Kept, NEW w \in Worker, Returns(w, FALSE),
         UNCHANGED <<labels, wanted>>, hooks' \subseteq hooks, row'.old = FALSE
  PROVE  Kept'
<1>1. job[w].stop = FALSE
  BY DEF Kept
<1>2. Finish(w)
  BY <1>1 DEF Returns
<1>3. QED
  BY <1>2, Ends

\* People, GitHub and the scheduler.
LEMMA EnvironmentKeeps ==
  ASSUME TypeOK, Kept, Undisturbed, Undisturbed', Environment
  PROVE  Kept'
<1> USE DEF TypeOK, Kept, Undisturbed
<1>1. ASSUME UNCHANGED <<labels, wanted, row, job>>, hooks' \subseteq hooks
      PROVE  Kept'
  BY <1>1 DEF CleaningUp
<1>2. ASSUME NEW l \in Labels, AddLabel(l)
      PROVE  Kept'
  <2> PICK s : s = [kind |-> "labeled", labels |-> labels' \cap Mog]
    OBVIOUS
  <2>0. s.kind = "labeled" /\ s.labels = labels' \cap Mog
    OBVIOUS
  <2>1. hooks' = hooks \cup {s}
    BY <1>2 DEF AddLabel, Send
  <2>2. CleaningUp' => CleaningUp
    BY <1>2, <2>0, <2>1 DEF AddLabel, CleaningUp
  <2>3. CleaningUp => wanted' = wanted
    BY <1>2 DEF AddLabel
  <2>4. wanted' \subseteq labels'
    BY <1>2 DEF AddLabel
  <2>5. QED
    BY <1>2, <2>0, <2>1, <2>2, <2>3, <2>4 DEF AddLabel
<1>3. ASSUME NEW l \in Labels, RemoveLabel(l)
      PROVE  Kept'
  <2> PICK s : s = [kind |-> "unlabeled", labels |-> labels' \cap Mog]
    OBVIOUS
  <2>0. s.kind = "unlabeled" /\ s.labels = labels' \cap Mog
    OBVIOUS
  <2>1. hooks' = hooks \cup {s}
    BY <1>3 DEF RemoveLabel, Send
  <2>2. ASSUME NEW w \in Worker
        PROVE  /\ job'[w].pc = job[w].pc /\ job'[w].stop = job[w].stop
               /\ job'[w].flag = job[w].flag
    BY <1>3 DEF RemoveLabel, StillBlocked, Job, Record
  <2>3. CleaningUp' => CleaningUp \/ labels' \cap Mog = {}
    BY <2>0, <2>1, <2>2 DEF CleaningUp
  <2>4. wanted' \subseteq labels' \cap Mog
    BY <1>3 DEF RemoveLabel
  <2>5. CleaningUp' => wanted' = {}
    BY <1>3, <2>3, <2>4 DEF RemoveLabel
  <2>6. \A h \in hooks' : h.kind # "closed"
    BY <2>0, <2>1
  <2>7. row' = row
    BY <1>3 DEF RemoveLabel
  <2>8. QED
    BY <2>2, <2>4, <2>5, <2>6, <2>7
<1>4. CASE Push \/ Approve \/ BaseMoves
  BY <1>1, <1>4 DEF Push, Approve, BaseMoves, user
<1>5. CASE Close \/ RowAges
  BY <1>5 DEF Close, RowAges
<1>6. ASSUME NEW c \in Commit, ChecksPass(c)
      PROVE  Kept'
  BY <1>1, <1>6 DEF ChecksPass, user
<1>7. ASSUME NEW h \in hooks, LoseHook(h)
      PROVE  Kept'
  BY <1>1, <1>7 DEF LoseHook, github, user
<1>8. QED
  BY <1>2, <1>3, <1>4, <1>5, <1>6, <1>7 DEF Environment

\* A job that begins.
LEMMA StartsKeep ==
  ASSUME TypeOK, Kept, Undisturbed, NEW w \in Worker, Starts(w)
  PROVE  Kept'
<1>1. row.old = FALSE
  BY DEF Kept
<1>2. /\ Idle.stop = FALSE /\ Idle.flag = FALSE
      /\ {"addPR", "find", "pulls", "sha"} \cap Cleans = {}
  BY DEF Idle, Cleans
<1>3. ASSUME NEW h \in hooks, Labeled(w, h)
      PROVE  Kept'
  <2>1. hooks' \subseteq hooks /\ UNCHANGED <<labels, wanted, row>>
    BY <1>3 DEF Labeled, github, user
  <2>2. CASE UNCHANGED job
    BY <2>1, <2>2 DEF Kept, CleaningUp
  <2>3. ASSUME NEW l \in h.labels,
               Become(w, [Idle EXCEPT !.pc = "addPR", !.hook = TRUE, !.label = l])
        PROVE  Kept'
    <3> PICK j : j = [Idle EXCEPT !.pc = "addPR", !.hook = TRUE, !.label = l]
      OBVIOUS
    <3>1. j \in Job
      BY IdleIsJob DEF TypeOK, Hook, Job, Record, Writes, Looked, Pc
    <3>2. j.pc = "addPR" /\ j.stop = FALSE
      BY IdleIsJob, <1>2 DEF Job, Record
    <3>3. Harmless(j)
      BY <1>2, <3>2 DEF Harmless
    <3>4. QED
      BY <1>1, <2>1, <2>3, <3>1, <3>3, HarmlessKeeps
  <2>4. QED
    BY <1>3, <2>2, <2>3 DEF Labeled
<1>4. ASSUME NEW h \in hooks, UnlabeledOrClosed(w, h)
      PROVE  Kept'
  <2>1. hooks' \subseteq hooks /\ UNCHANGED <<labels, wanted, row>>
    BY <1>4 DEF UnlabeledOrClosed, github, user
  <2>2. CASE UNCHANGED job
    BY <2>1, <2>2 DEF Kept, CleaningUp
  <2>3. CASE ~UNCHANGED job
    <3> PICK j : j = [Idle EXCEPT !.pc = "getPR", !.hook = TRUE]
      OBVIOUS
    <3>1. Become(w, j) /\ (h.kind = "unlabeled" => h.labels = {})
      BY <1>4, <2>3 DEF UnlabeledOrClosed
    <3>2. CleaningUp
      BY <1>4, <3>1 DEF UnlabeledOrClosed, Kept, CleaningUp
    <3>3. j \in Job
      BY IdleIsJob DEF Job, Record, Writes, Looked, Pc
    <3>4. j.pc = "getPR" /\ j.stop = FALSE
      BY IdleIsJob, <1>2 DEF Job, Record
    <3>5. Harmless(j)
      BY <3>2, <3>4 DEF Harmless
    <3>6. QED
      BY <1>1, <2>1, <3>1, <3>3, <3>5, HarmlessKeeps
  <2>4. QED
    BY <2>2, <2>3
<1>5. CASE FindHanging(w)
  <2>1. PICK l \in labels \cap Mog : Become(w, [Idle EXCEPT !.pc = "find", !.label = l])
    BY <1>5 DEF FindHanging
  <2>2. hooks' = hooks /\ UNCHANGED <<labels, wanted, row>>
    BY <1>5 DEF FindHanging, github, user
  <2> PICK j : j = [Idle EXCEPT !.pc = "find", !.label = l]
    OBVIOUS
  <2>3. j \in Job
    BY IdleIsJob DEF Job, Record, Writes, Looked, Pc
  <2>4. j.pc = "find" /\ j.stop = FALSE
    BY IdleIsJob, <1>2 DEF Job, Record
  <2>5. Harmless(j)
    BY <1>2, <2>4 DEF Harmless
  <2>6. QED
    BY <1>1, <2>1, <2>2, <2>3, <2>5, HarmlessKeeps
<1>6. CASE CleanTable(w)
  <2>1. hooks' = hooks /\ UNCHANGED <<labels, wanted, row>> /\ row \in Row
    BY <1>6 DEF CleanTable, github, user, TypeOK
  <2> PICK j : j = [Idle EXCEPT !.pc = "pulls", !.label = row.label]
    OBVIOUS
  <2>2. Become(w, j)
    BY <1>6 DEF CleanTable
  <2>3. j \in Job
    BY <2>1, IdleIsJob DEF Job, Record, Row, Writes, Looked, Pc
  <2>4. j.pc = "pulls" /\ j.stop = FALSE /\ j.flag = FALSE
    BY IdleIsJob, <1>2 DEF Job, Record
  <2>5. Harmless(j)
    BY <1>2, <2>4 DEF Harmless
  <2>6. QED
    BY <1>1, <2>1, <2>2, <2>3, <2>5, HarmlessKeeps
<1>7. CASE ListPRs(w)
  <2>1. hooks' = hooks /\ UNCHANGED <<labels, wanted, row>> /\ row \in Row
    BY <1>7 DEF ListPRs, github, user, TypeOK
  <2>2. PICK b \in BOOLEAN : b = ("do not merge" \in labels)
    BY InIsBoolean
  <2> PICK j : j = [Idle EXCEPT !.pc = "sha", !.label = row.label, !.stop = row.old,
                                !.blocked = b]
    OBVIOUS
  <2>4. Become(w, j)
    BY <1>7, <2>2 DEF ListPRs
  <2>5. j \in Job
    <3>1. row.label \in Mog /\ row.old \in BOOLEAN
      BY <2>1 DEF Row
    <3>2. QED
      BY <2>2, <3>1, JobsTyped, Zenon
  <2>6. j.pc = "sha" /\ j.stop = FALSE
    BY <1>1, IdleIsJob, <1>2 DEF Job, Record
  <2>7. Harmless(j)
    BY <1>2, <2>6 DEF Harmless
  <2>8. QED
    BY <1>1, <2>1, <2>4, <2>5, <2>7, HarmlessKeeps
<1>8. QED
  BY <1>3, <1>4, <1>5, <1>6, <1>7 DEF Starts

\* A job that goes on, in a pull request that stays open and with no call failing.
LEMMA ContinuesKeep ==
  ASSUME TypeOK, Kept, Undisturbed, Undisturbed', NEW w \in Worker, Continues(w), ~Fault(w)
  PROVE  Kept'
<1>1. /\ row.old = FALSE /\ job[w].stop = FALSE
      /\ job[w].pc \in {"pulls", "labels"} => job[w].flag = FALSE
  BY DEF Kept
<1>2. /\ job[w] \in Job
      /\ job[w].pc \in Writes => job[w].label \in Mog
      /\ job[w].pc \in Looked => job[w].sha \in Commit
  BY DEF TypeOK, Job
<1>3. {"find", "addPR", "save", "merge", "update", "info", "statuses"} \cap Cleans = {}
  BY DEF Cleans
<1>4. Pc \cap {"addPR", "save", "remove", "cleanUp", "info", "update"}
        = {"addPR", "save", "remove", "cleanUp", "info", "update"}
  BY DEF Pc
<1>5. {"remove", "cleanUp", "update"} \cap (Writes \cup Looked) = {}
  BY DEF Writes, Looked
<1>6. /\ job[w].pc \in Cleans => CleaningUp
      /\ {"remove", "cleanUp"} \subseteq Cleans
  BY DEF CleaningUp, Cleans
<1>7. CASE FindRow(w)
  <2>1. UNCHANGED <<labels, wanted, row, hooks>> /\ job[w].label \in Mog
    BY <1>2, <1>7 DEF FindRow, github, user, At, Writes
  <2>2. QED
    BY <1>1, <1>3, <1>4, <1>7, <2>1, GoesOn, Ends DEF FindRow, Looked
<1>8. CASE CheckForBranchProtection(w)
  <2>1. UNCHANGED <<labels, wanted, row, hooks>> /\ job[w].label \in Mog /\ GoTo(w, "save")
    BY <1>2, <1>8 DEF CheckForBranchProtection, github, user, At, Writes
  <2>2. QED
    BY <1>1, <1>3, <1>4, <2>1, GoesOn DEF Looked
<1>9. CASE AddPR(w)
  <2>1. UNCHANGED <<labels, wanted, hooks>> /\ Finish(w)
    BY <1>9 DEF AddPR, github, user
  <2>2. row'.old = FALSE
    BY <1>9 DEF AddPR
  <2>3. QED
    BY <2>1, <2>2, Ends
<1>10. CASE GetRow(w)
  <2>1. UNCHANGED <<labels, wanted, row, hooks>> /\ CleaningUp
    BY <1>6, <1>10 DEF GetRow, github, user, At, Cleans
  <2>2. CASE Finish(w)
    BY <1>1, <2>1, <2>2, Ends
  <2>3. CASE ~Finish(w)
    <3> PICK j : j = [job[w] EXCEPT !.pc = "remove", !.label = row.label]
      OBVIOUS
    <3>1. Become(w, j) /\ row \in Row
      BY <1>10, <2>3 DEF GetRow, TypeOK
    <3>2. j \in Job
      BY <1>2, <3>1, JobsTyped DEF Row
    <3>3. j.pc = "remove" /\ j.stop = FALSE
      BY <1>1, <1>2 DEF Job, Record
    <3>4. Harmless(j)
      BY <2>1, <3>3 DEF Harmless
    <3>5. QED
      BY <1>1, <2>1, <3>1, <3>2, <3>4, HarmlessKeeps
  <2>4. QED
    BY <2>2, <2>3
<1>11. CASE RemovePR(w)
  <2>1. UNCHANGED <<labels, wanted, hooks>> /\ CleaningUp /\ GoTo(w, "cleanUp")
    BY <1>6, <1>11 DEF RemovePR, github, user, At, Cleans
  <2>2. row'.old = FALSE
    BY <1>11 DEF RemovePR, NoRow
  <2>3. QED
    BY <1>4, <1>5, <2>1, <2>2, GoesOn
<1>12. CASE CleanUpPullRequest(w)
  <2>1. CleaningUp /\ wanted = {} /\ UNCHANGED <<wanted, row>>
    BY <1>6, <1>12 DEF CleanUpPullRequest, At, Cleans, Kept, user
  <2>2. \A h \in hooks' : h \in hooks \/ h.kind = "unlabeled"
    BY <1>12 DEF CleanUpPullRequest, Send
  <2>3. \A v \in Worker : job'[v] = job[v] \/ job'[v] = Idle
    BY <1>12 DEF CleanUpPullRequest, Finish, Become, TypeOK
  <2>4. Idle.stop = FALSE /\ Idle.flag = FALSE
    BY DEF Idle
  <2>5. QED
    BY <2>1, <2>2, <2>3, <2>4 DEF Kept
<1>13. CASE PullsGet(w)
  <2>1. UNCHANGED <<labels, wanted, row, hooks>>
    BY <1>13 DEF PullsGet, github, user
  <2> PICK j : j = [job[w] EXCEPT !.pc = "labels", !.flag = FALSE]
    OBVIOUS
  <2>2. (pr # "open") = FALSE
    BY DEF Undisturbed
  <2>3. Become(w, [job[w] EXCEPT !.pc = "labels", !.flag = pr # "open"])
    BY <1>13 DEF PullsGet
  <2>4. Become(w, j)
    BY <2>2, <2>3
  <2>5. j \in Job
    BY <1>2, JobsTyped
  <2>6. j.pc = "labels" /\ j.stop = FALSE /\ j.flag = FALSE
    BY <1>1, <1>2 DEF Job, Record
  <2>7. Harmless(j)
    BY <2>6 DEF Harmless, Cleans
  <2>8. QED
    BY <1>1, <2>1, <2>4, <2>5, <2>7, HarmlessKeeps
<1>14. CASE ListLabels(w)
  <2>1. UNCHANGED <<labels, wanted, row, hooks>> /\ job[w].flag = FALSE
    BY <1>1, <1>14 DEF ListLabels, At, github, user
  <2>2. \/ labels \cap Mog = {} /\ GoTo(w, "remove")
        \/ Finish(w)
    BY <1>14, <2>1 DEF ListLabels
  <2>3. QED
    BY <1>1, <1>4, <1>5, <2>1, <2>2, GoesOn, Ends
<1>15. CASE GetLatestCommit(w)
  <2>1. UNCHANGED <<labels, wanted, row, hooks>>
    BY <1>15 DEF GetLatestCommit, github, user
  <2>2. CASE Returns(w, FALSE)
    BY <1>1, <2>1, <2>2, ComesBack
  <2>3. CASE ~Returns(w, FALSE)
    <3> PICK j : j = [job[w] EXCEPT !.pc = "statuses", !.sha = head]
      OBVIOUS
    <3>1. Become(w, j)
      BY <1>15, <2>3 DEF GetLatestCommit
    <3>2. j \in Job
      BY <1>2, JobsTyped DEF TypeOK
    <3>3. j.pc = "statuses" /\ j.stop = FALSE
      BY <1>1, <1>2 DEF Job, Record
    <3>4. Harmless(j)
      BY <1>3, <3>3 DEF Harmless
    <3>5. QED
      BY <1>1, <2>1, <3>1, <3>2, <3>4, HarmlessKeeps
  <2>4. QED
    BY <2>2, <2>3
<1>16. CASE StatusesForRef(w)
  <2>1. UNCHANGED <<labels, wanted, row, hooks>> /\ job[w].sha \in Commit
    BY <1>2, <1>16 DEF StatusesForRef, At, Looked, github, user
  <2>2. CASE GoTo(w, "info")
    BY <1>1, <1>3, <1>4, <2>1, <2>2, GoesOn DEF Writes
  <2>3. CASE Returns(w, job[w].stop)
    BY <1>1, <2>1, <2>3, ComesBack
  <2>4. QED
    BY <1>16, <2>2, <2>3 DEF StatusesForRef
<1>17. CASE GetInfo(w)
  <2>1. UNCHANGED <<labels, wanted, row, hooks>>
    BY <1>17 DEF GetInfo, github, user
  <2>2. CASE Returns(w, FALSE)
    BY <1>1, <2>1, <2>2, ComesBack
  <2>3. CASE ~Returns(w, FALSE)
    <3> PICK j : j = [job[w] EXCEPT !.pc = "merge", !.flag = behind]
      OBVIOUS
    <3>1. Become(w, j)
      BY <1>17, <2>3 DEF GetInfo
    <3>2. j \in Job
      BY <1>2, JobsTyped DEF TypeOK
    <3>3. j.pc = "merge" /\ j.stop = FALSE
      BY <1>1, <1>2 DEF Job, Record
    <3>4. Harmless(j)
      BY <1>3, <3>3 DEF Harmless
    <3>5. QED
      BY <1>1, <2>1, <3>1, <3>2, <3>4, HarmlessKeeps
  <2>4. QED
    BY <2>2, <2>3
<1>18. CASE Merge(w)
  <2>1. pr' = "open"
    BY DEF Undisturbed
  <2>2. UNCHANGED <<labels, wanted, row, hooks>>
    BY <1>18, <2>1 DEF Merge, user
  <2>3. GoTo(w, "update") \/ Returns(w, FALSE)
    BY <1>18, <2>1 DEF Merge
  <2>4. QED
    BY <1>1, <1>3, <1>4, <1>5, <2>2, <2>3, GoesOn, ComesBack
<1>19. CASE UpdateBranch(w)
  <2>1. UNCHANGED <<labels, wanted, row, hooks>> /\ Returns(w, FALSE)
    BY <1>19 DEF UpdateBranch, user
  <2>2. QED
    BY <1>1, <2>1, ComesBack
<1>20. QED
  BY <1>7, <1>8, <1>9, <1>10, <1>11, <1>12, <1>13, <1>14, <1>15, <1>16, <1>17, <1>18, <1>19
     DEF Continues

\* While it is undisturbed, a merge label that users want kept stays, whatever jobs run
\* beside each other and in whatever order: for any number of jobs, commits and edits,
\* in every behaviour up to its first failed call (merge-on-green.ts:219-273, 755-803).
THEOREM LabelsAreKept == Spec => []LabelKept
<1>1. Init => KeptInv
  BY DEF Init, KeptInv, Kept, CleaningUp, Cleans, Idle, NoRow
<1>2. TypeOK /\ KeptInv /\ [Next]_vars => KeptInv'
  <2> SUFFICES ASSUME TypeOK, KeptInv, [Next]_vars, Undisturbed'
               PROVE  Kept'
    BY DEF KeptInv
  <2>1. Undisturbed /\ \A w \in Worker : ~Fault(w)
    BY WasUndisturbed
  <2>2. Kept
    BY <2>1 DEF KeptInv
  <2>3. \A w \in Worker : ~Throws(w)
    BY <2>1 DEF Throws
  <2>4. ASSUME NEW c \in Commit, DismissReviews(c)
        PROVE  Kept'
    BY <2>2, <2>4 DEF DismissReviews, Kept, CleaningUp, user
  <2>5. CASE UNCHANGED vars
    BY <2>2, <2>5 DEF vars, Kept, CleaningUp, github, user
  <2>6. QED
    BY <2>1, <2>2, <2>3, <2>4, <2>5, EnvironmentKeeps, StartsKeep, ContinuesKeep DEF Next
<1>3. KeptInv => LabelKept
  BY DEF KeptInv, Kept, LabelKept
<1>4. QED
  BY <1>1, <1>2, <1>3, TypeCorrect, PTL DEF Spec

=============================================================================
