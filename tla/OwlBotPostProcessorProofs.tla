--------------------- MODULE OwlBotPostProcessorProofs ---------------------
(***************************************************************************)
(* Theorems of OwlBotPostProcessor, for any number of runs and commits and *)
(* any circuit breaker: the types, what the lock of a commit and the label *)
(* "owl-bot-ignore" guarantee, that no person's commit is overwritten      *)
(* unless the build squashes, and the bound on automatic commits.          *)
(***************************************************************************)
EXTENDS OwlBotPostProcessor, FiniteSetTheorems, TLAPS

(* Types *)

\* A run that goes on to another await, other than the last commit's, keeps its type.
LEMMA RunMoves ==
  ASSUME NEW f \in [Run -> RunValue], NEW r \in Run, NEW pc \in Pc \ {"last"}
  PROVE  [f EXCEPT ![r].pc = pc] \in [Run -> RunValue]
<1>1. [f[r] EXCEPT !.pc = pc] \in RunValue
  BY DEF RunValue, RunState
<1>2. QED
  BY <1>1

\* So does a run that ends.
LEMMA IdleTyped == Idle \in RunValue /\ Opened \in Trigger
<1>1. 1 \in Commit
  BY BoundsAssumption DEF Commit
<1>2. QED
  BY <1>1 DEF Idle, Opened, Trigger, RunValue, RunState, Pc

\* The builds' record types.
LEMMA NoBuildTyped == NoBuild \in BuildState
<1>1. 1 \in Commit
  BY BoundsAssumption DEF Commit
<1>2. QED
  BY <1>1 DEF NoBuild, BuildState, Stage

\* GitHub's part of the type invariant, and the history's.
GithubTyped ==
  /\ origin \in {"user", "copy", "squash"}
  /\ open \in BOOLEAN /\ branch \in BOOLEAN
  /\ head \in Commit
  /\ tagged \in BOOLEAN
  /\ streak \in 0 .. head
  /\ listed \in Seq(BOOLEAN) /\ cut \in BOOLEAN
  /\ files \in BOOLEAN /\ ignore \in BOOLEAN

HistoryTyped ==
  /\ asked \in BOOLEAN /\ lost \in BOOLEAN /\ theirs \in 0 .. MaxCommits
  /\ dropped \in SUBSET Commit

OthersTyped ==
  /\ triggers \in SUBSET Trigger
  /\ lease \in [Commit -> Lease]
  /\ extras \in 0 .. MaxExtras

\* The type invariant, in parts.
LEMMA TypeParts ==
  TypeOK <=> /\ GithubTyped /\ HistoryTyped /\ OthersTyped
             /\ run \in [Run -> RunValue] /\ build \in [Run -> BuildState]
  BY DEF TypeOK, GithubTyped, HistoryTyped, OthersTyped

\* An extra event is counted.
LEMMA ExtraTyped ==
  ASSUME extras \in 0 .. MaxExtras, Extra
  PROVE  extras' \in 0 .. MaxExtras
  BY BoundsAssumption DEF Extra

\* A pull request with room for another commit.
LEMMA NextCommit ==
  ASSUME head \in Commit, head < MaxCommits
  PROVE  /\ head + 1 \in Commit /\ head + 1 \in 0 .. MaxCommits
         /\ 0 \in 0 .. head + 1
         /\ \A s \in 0 .. head : s + 1 \in 0 .. head + 1
  BY BoundsAssumption DEF Commit

\* A commit inserted into a page makes it longer by one.
LEMMA InsertTyped ==
  ASSUME NEW page \in Seq(BOOLEAN), NEW at \in 1 .. Len(page) + 1, NEW own \in BOOLEAN
  PROVE  /\ InsertAt(page, at, own) \in Seq(BOOLEAN)
         /\ Len(InsertAt(page, at, own)) = Len(page) + 1
<1>1. SubSeq(page, 1, at - 1) \in Seq(BOOLEAN) /\ Len(SubSeq(page, 1, at - 1)) = at - 1
  OBVIOUS
<1>2. /\ SubSeq(page, at, Len(page)) \in Seq(BOOLEAN)
      /\ Len(SubSeq(page, at, Len(page))) = Len(page) + 1 - at
  OBVIOUS
<1>3. <<own>> \in Seq(BOOLEAN) /\ Len(<<own>>) = 1
  OBVIOUS
<1>4. \A s, t, u \in Seq(BOOLEAN) :
        s \o t \o u \in Seq(BOOLEAN) /\ Len(s \o t \o u) = Len(s) + Len(t) + Len(u)
  OBVIOUS
<1>5. Len(page) \in Nat /\ at \in Nat
  OBVIOUS
<1>6. (at - 1) + 1 + ((Len(page) + 1) - at) = Len(page) + 1
  BY <1>5
<1>7. /\ InsertAt(page, at, own) \in Seq(BOOLEAN)
      /\ Len(InsertAt(page, at, own)) =
           Len(SubSeq(page, 1, at - 1)) + Len(<<own>>) + Len(SubSeq(page, at, Len(page)))
  BY <1>1, <1>2, <1>3, <1>4 DEF InsertAt
<1>8. QED
  BY <1>1, <1>2, <1>3, <1>6, <1>7

\* What a page lists of commits is of its type.
LEMMA ListTyped ==
  ASSUME NEW page \in Seq(BOOLEAN), NEW at \in 1 .. Len(page) + 1, NEW own \in BOOLEAN
  PROVE  List(page, at, own) \in Seq(BOOLEAN)
  BY InsertTyped DEF List

\* The page after a person's commit, and after one of the post processor.
LEMMA PageTyped ==
  ASSUME TypeOK
  PROVE  /\ \A at \in Dates, own \in BOOLEAN : List(listed, at, own) \in Seq(BOOLEAN)
         /\ \A merged : ListsPush(merged) => listed' \in Seq(BOOLEAN) /\ cut' \in BOOLEAN
<1>1. listed \in Seq(BOOLEAN) /\ cut \in BOOLEAN /\ Len(listed) + 1 \in Dates
  BY DEF TypeOK, Dates
<1>2. \A at \in Dates, own \in BOOLEAN : List(listed, at, own) \in Seq(BOOLEAN)
  BY <1>1, ListTyped DEF Dates
<1>3. ASSUME NEW merged, ListsPush(merged) PROVE listed' \in Seq(BOOLEAN)
  <2>1. CASE merged
    <3>1. PICK at \in Dates :
            listed' = List(List(listed, at, TRUE), Len(List(listed, at, TRUE)) + 1, FALSE)
      BY <1>3, <2>1 DEF ListsPush
    <3>2. List(listed, at, TRUE) \in Seq(BOOLEAN)
      BY <1>2
    <3>3. Len(List(listed, at, TRUE)) + 1 \in 1 .. Len(List(listed, at, TRUE)) + 1
      <4>1. \A n \in Nat : n + 1 \in 1 .. n + 1
        OBVIOUS
      <4>2. Len(List(listed, at, TRUE)) \in Nat
        <5>1. \A page \in Seq(BOOLEAN) : Len(page) \in Nat
          OBVIOUS
        <5>2. QED
          BY <3>2, <5>1
      <4>3. QED
        BY <4>1, <4>2
    <3>4. QED
      BY <3>1, <3>2, <3>3, ListTyped
  <2>2. CASE ~merged
    BY <1>1, <1>2, <1>3, <2>2 DEF ListsPush
  <2>3. QED
    BY <2>1, <2>2
<1>4. ASSUME NEW merged, ListsPush(merged) PROVE cut' \in BOOLEAN
  BY <1>4 DEF ListsPush
<1>5. QED
  BY <1>2, <1>3, <1>4

\* What a push does to the types.
LEMMA PushedTyped ==
  ASSUME TypeOK, NEW r \in Run, NEW a \in BOOLEAN, NEW s,
         s = 0 \/ s = streak + 1, Pushed(r, a, s), branch' \in BOOLEAN, lost' \in BOOLEAN,
         listed' \in Seq(BOOLEAN), cut' \in BOOLEAN
  PROVE  TypeOK'
<1>1. /\ head' = head + 1 /\ head < MaxCommits /\ tagged' = a /\ streak' = s
      /\ files' \in BOOLEAN /\ triggers' = triggers \cup {[by |-> "push", sha |-> head']}
      /\ build' = [build EXCEPT ![r] = NoBuild]
      /\ UNCHANGED <<origin, open, ignore, lease, run, extras, theirs, dropped>>
  BY DEF Pushed, Synchronized, Build
<1>2. head' \in Commit /\ streak' \in 0 .. head'
  BY <1>1, NextCommit DEF TypeOK
<1>3. asked' \in BOOLEAN
  BY DEF Pushed
<1>4. GithubTyped'
  BY <1>1, <1>2 DEF TypeOK, GithubTyped
<1>5. HistoryTyped'
  BY <1>1, <1>3 DEF TypeOK, HistoryTyped
<1>6. [by |-> "push", sha |-> head'] \in Trigger
  BY <1>2 DEF Trigger
<1>7. OthersTyped'
  BY <1>1, <1>6 DEF TypeOK, OthersTyped
<1>8. build' \in [Run -> BuildState]
  BY <1>1, NoBuildTyped DEF TypeOK
<1>9. run' \in [Run -> RunValue]
  BY <1>1 DEF TypeOK
<1>10. QED
  BY <1>4, <1>5, <1>7, <1>8, <1>9, TypeParts DEF TypeOK, GithubTyped, HistoryTyped, OthersTyped

\* A run's step that changes nothing but where the run is.
LEMMA GoToTyped ==
  ASSUME TypeOK, NEW r \in Run, NEW pc \in Pc \ {"last"}, GoTo(r, pc),
         GithubTyped', HistoryTyped', OthersTyped', build' \in [Run -> BuildState]
  PROVE  TypeOK'
<1>1. run' \in [Run -> RunValue]
  BY RunMoves DEF TypeOK, GoTo
<1>2. QED
  BY <1>1 DEF TypeOK, GithubTyped, HistoryTyped, OthersTyped

\* A run ends.
LEMMA FinishTyped ==
  ASSUME TypeOK, NEW r \in Run, Finish(r),
         GithubTyped', HistoryTyped', OthersTyped', build' \in [Run -> BuildState]
  PROVE  TypeOK'
<1>1. run' \in [Run -> RunValue]
  BY IdleTyped DEF TypeOK, Finish
<1>2. QED
  BY <1>1 DEF TypeOK, GithubTyped, HistoryTyped, OthersTyped

\* What a step leaves alone keeps its type.
LEMMA Kept ==
  ASSUME TypeOK
  PROVE  /\ UNCHANGED github => GithubTyped'
         /\ UNCHANGED history => HistoryTyped'
         /\ UNCHANGED <<triggers, lease, extras>> => OthersTyped'
         /\ UNCHANGED build => build' \in [Run -> BuildState]
  BY DEF TypeOK, GithubTyped, HistoryTyped, OthersTyped, github, commits, history

\* A lease is taken or given back.
LEMMA LeaseTyped ==
  ASSUME TypeOK, NEW r \in Run, NEW c \in Commit
  PROVE  /\ [lease EXCEPT ![c] = NoLease] \in [Commit -> Lease]
         /\ [lease EXCEPT ![c] = [by |-> r, expired |-> FALSE]] \in [Commit -> Lease]
         /\ [lease EXCEPT ![c].expired = TRUE] \in [Commit -> Lease]
<1>1. NoLease \in Lease /\ [by |-> r, expired |-> FALSE] \in Lease
  BY DEF NoLease, Lease
<1>2. [lease[c] EXCEPT !.expired = TRUE] \in Lease
  BY DEF TypeOK, Lease
<1>3. QED
  BY <1>1, <1>2 DEF TypeOK

\* A run has looked up the head.
LEMMA ShaTyped ==
  ASSUME TypeOK, NEW r \in Run
  PROVE  Sha(r) \in Commit /\ run[r].trigger \in Trigger
  BY DEF TypeOK, RunValue, RunState, Trigger, Sha

\* The builds' own steps.
LEMMA BuildMoves ==
  ASSUME TypeOK, NEW r \in Run
  PROVE  /\ \A h \in BOOLEAN : [NoBuild EXCEPT !.stage = "queued", !.asked = h] \in BuildState
         /\ [build[r] EXCEPT !.stage = "cloned", !.base = head, !.tagged = tagged] \in BuildState
         /\ \A st \in Stage : [build[r] EXCEPT !.stage = st] \in BuildState
         /\ \A m \in BOOLEAN :
              [build[r] EXCEPT !.stage = "pulled", !.base = head, !.merged = m] \in BuildState
<1>1. build[r] \in BuildState /\ head \in Commit /\ tagged \in BOOLEAN
  BY DEF TypeOK
<1>2. QED
  BY <1>1, NoBuildTyped DEF BuildState, Stage

\* A build is created.
LEMMA BuildTyped ==
  ASSUME TypeOK, NEW r \in Run, NEW b \in BuildState, Build(r, b)
  PROVE  build' \in [Run -> BuildState]
  BY DEF TypeOK, Build

\* Every variable keeps its type.
THEOREM TypeCorrect == Spec => []TypeOK
<1>1. Init => TypeOK
  <2>1. ASSUME Init PROVE TypeOK
    <3> /\ 1 \in Commit /\ 0 \in 0 .. MaxCommits /\ 0 \in 0 .. 1 /\ 1 \in 0 .. 1
      BY BoundsAssumption DEF Commit
    <3>1. GithubTyped
      <4>1. streak \in 0 .. head
        BY <2>1 DEF Init
      <4>2. tagged \in BOOLEAN
        BY <2>1 DEF Init
      <4>3. listed \in Seq(BOOLEAN)
        <5>1. <<FALSE>> \in Seq(BOOLEAN) /\ <<FALSE, TRUE>> \in Seq(BOOLEAN)
          OBVIOUS
        <5>2. QED
          BY <2>1, <5>1 DEF Init
      <4>4. QED
        BY <2>1, <4>1, <4>2, <4>3 DEF Init, GithubTyped
    <3>2. HistoryTyped
      BY <2>1 DEF Init, HistoryTyped
    <3>3. OthersTyped
      BY <2>1, BoundsAssumption, IdleTyped DEF Init, OthersTyped, NoLease, Lease
    <3>4. QED
      BY <2>1, <3>1, <3>2, <3>3, IdleTyped, NoBuildTyped, TypeParts DEF Init
  <2>2. QED
    BY <2>1
<1>2. TypeOK /\ [Next]_vars => TypeOK'
  <2> SUFFICES ASSUME TypeOK, [Next]_vars PROVE TypeOK'
    OBVIOUS
  <2>1. CASE UserPush
    <3>1. head' \in Commit /\ head' \in 0 .. MaxCommits /\ streak' \in 0 .. head'
      BY <2>1, NextCommit DEF UserPush, TypeOK
    <3>0. listed' \in Seq(BOOLEAN) /\ cut' \in BOOLEAN
      BY <2>1, PageTyped DEF UserPush
    <3>2. GithubTyped'
      BY <2>1, <3>0, <3>1 DEF UserPush, TypeOK, GithubTyped
    <3>3. HistoryTyped'
      BY <2>1, <3>1 DEF UserPush, TypeOK, HistoryTyped
    <3>4. OthersTyped'
      BY <2>1, <3>1 DEF UserPush, TypeOK, OthersTyped, Synchronized, Trigger
    <3>5. QED
      BY <2>1, <3>2, <3>3, <3>4 DEF UserPush, TypeOK, GithubTyped, HistoryTyped, OthersTyped
  <2>2. CASE Ignore
    <3>1. \A r \in Run : [run[r] EXCEPT !.ignored = FALSE] \in RunValue
      BY DEF TypeOK, RunValue, RunState
    <3>2. run' \in [Run -> RunValue]
      BY <2>2, <3>1 DEF Ignore
    <3>3. extras' \in 0 .. MaxExtras
      BY <2>2, ExtraTyped DEF Ignore, TypeOK
    <3>4. QED
      BY <2>2, <3>2, <3>3 DEF Ignore, TypeOK, history, commits
  <2>3. ASSUME NEW by \in {"bot", "human"}, Label(by) PROVE TypeOK'
    <3>1. [by |-> by, sha |-> head] \in Trigger
      BY DEF Trigger, TypeOK
    <3>2. extras' \in 0 .. MaxExtras
      BY <2>3, ExtraTyped DEF Label, TypeOK
    <3>3. QED
      BY <2>3, <3>1, <3>2 DEF Label, TypeOK, history, github, commits
  <2>4. ASSUME NEW r \in Run, NEW t \in triggers, Start(r, t) PROVE TypeOK'
    <3>1. [pc |-> IF t.by = "bot" THEN "last" ELSE "lock",
           trigger |-> t, overdue |-> FALSE, ignored |-> ignore] \in RunValue
      BY DEF TypeOK, RunValue, RunState, Pc, Trigger
    <3>2. run' \in [Run -> RunValue]
      BY <2>4, <3>1 DEF Start, TypeOK
    <3>3. OthersTyped'
      BY <2>4 DEF Start, TypeOK, OthersTyped
    <3>4. QED
      BY <2>4, <3>2, <3>3, Kept, TypeParts DEF Start, TypeOK, OthersTyped, github, commits, history
  <2>5. ASSUME NEW r \in Run, LastCommit(r) PROVE TypeOK'
    <3>1. CASE streak > 0
      BY <2>5, <3>1, Kept, FinishTyped DEF LastCommit
    <3>2. CASE ~(streak > 0)
      BY <2>5, <3>2, Kept, GoToTyped DEF LastCommit, Pc
    <3>3. QED
      BY <3>1, <3>2
  <2>6. ASSUME NEW r \in Run, AcquireLock(r) PROVE TypeOK'
    <3>1. lease' \in [Commit -> Lease]
      <4>1. \/ lease' = [lease EXCEPT ![Sha(r)] = [by |-> r, expired |-> FALSE]]
            \/ UNCHANGED lease
        BY <2>6 DEF AcquireLock
      <4>2. Sha(r) \in Commit /\ lease \in [Commit -> Lease]
        BY ShaTyped DEF TypeOK
      <4>3. [lease EXCEPT ![Sha(r)] = [by |-> r, expired |-> FALSE]] \in [Commit -> Lease]
        BY <4>2, LeaseTyped
      <4>4. QED
        BY <4>1, <4>2, <4>3
    <3>2. OthersTyped'
      BY <2>6, <3>1 DEF AcquireLock, TypeOK, OthersTyped
    <3>3. QED
      BY <2>6, <3>2, Kept, FinishTyped, GoToTyped DEF AcquireLock, Pc
  <2>7. ASSUME NEW r \in Run, HasOwlBotLoop(r) PROVE TypeOK'
    BY <2>7, Kept, GoToTyped DEF HasOwlBotLoop, Pc
  <2>8. ASSUME NEW r \in Run, GetPullRequest(r) PROVE TypeOK'
    BY <2>8, Kept, GoToTyped DEF GetPullRequest, Pc
  <2>9. ASSUME NEW r \in Run, RunBuildTrigger(r) PROVE TypeOK'
    <3>1. (run[r].trigger.by = "human") \in BOOLEAN
      OBVIOUS
    <3>2. build' \in [Run -> BuildState]
      BY <2>9, <3>1, BuildMoves, BuildTyped DEF RunBuildTrigger
    <3>3. QED
      BY <2>9, <3>2, Kept, GoToTyped DEF RunBuildTrigger, Pc
  <2>10. ASSUME NEW r \in Run, WaitForBuild(r) PROVE TypeOK'
    <3>1. extras' \in 0 .. MaxExtras
      BY <2>10, ExtraTyped DEF WaitForBuild, TypeOK
    <3>2. OthersTyped'
      BY <2>10, <3>1 DEF WaitForBuild, TypeOK, OthersTyped
    <3>3. QED
      BY <2>10, <3>2, Kept, GoToTyped DEF WaitForBuild, Pc
  <2>11. ASSUME NEW r \in Run, GetPullRequestAgain(r) PROVE TypeOK'
    BY <2>11, Kept, GoToTyped DEF GetPullRequestAgain, Pc
  <2>12. ASSUME NEW r \in Run, ListFiles(r) PROVE TypeOK'
    BY <2>12, Kept, GoToTyped DEF ListFiles, Pc
  <2>13. ASSUME NEW r \in Run, ClosePullRequest(r) \/ DeleteRef(r) PROVE TypeOK'
    <3>1. GithubTyped'
      BY <2>13 DEF ClosePullRequest, DeleteRef, TypeOK, GithubTyped, commits
    <3>2. QED
      BY <2>13, <3>1, Kept, GoToTyped DEF ClosePullRequest, DeleteRef, Pc
  <2>14. ASSUME NEW r \in Run, ReleaseLock(r) PROVE TypeOK'
    <3>1. lease' \in [Commit -> Lease]
      BY <2>14, ShaTyped, LeaseTyped DEF ReleaseLock, TypeOK
    <3>2. OthersTyped'
      BY <2>14, <3>1, ShaTyped DEF ReleaseLock, Return, TypeOK, OthersTyped
    <3>3. QED
      BY <2>14, <3>2, Kept, FinishTyped DEF ReleaseLock, Return
  <2>15. ASSUME NEW r \in Run, Fault(r) PROVE TypeOK'
    <3>1. extras' \in 0 .. MaxExtras
      BY <2>15, ExtraTyped
         DEF Fault, Die, Redeliver, AcquireTimesOut, RunThrows, ReleaseFails, TypeOK
    <3>2. triggers' \in SUBSET Trigger
      BY <2>15, ShaTyped
         DEF Fault, Die, Redeliver, AcquireTimesOut, RunThrows, ReleaseFails, Return, TypeOK
    <3>3. lease' \in [Commit -> Lease]
      <4>1. CASE AcquireTimesOut(r)
        <5>1. Sha(r) \in Commit /\ lease \in [Commit -> Lease]
          BY ShaTyped DEF TypeOK
        <5>2. [lease EXCEPT ![Sha(r)] = [by |-> r, expired |-> FALSE]] \in [Commit -> Lease]
          BY <5>1, LeaseTyped
        <5>3. QED
          BY <4>1, <5>1, <5>2 DEF AcquireTimesOut
      <4>2. CASE ~AcquireTimesOut(r)
        BY <2>15, <4>2 DEF Fault, Die, Redeliver, RunThrows, ReleaseFails, TypeOK
      <4>3. QED
        BY <4>1, <4>2
    <3>4. OthersTyped'
      BY <3>1, <3>2, <3>3 DEF OthersTyped
    <3>5. CASE Die(r)
      BY <3>5, <3>4, Kept, FinishTyped DEF Die
    <3>6. CASE Redeliver(r)
      BY <3>6, <3>4, Kept, TypeParts DEF Redeliver, TypeOK, OthersTyped, GithubTyped, HistoryTyped
    <3>7. CASE AcquireTimesOut(r)
      <4>1. HistoryTyped'
        BY <3>7, ShaTyped DEF AcquireTimesOut, TypeOK, HistoryTyped
      <4>2. QED
        BY <3>7, <3>4, <4>1, Kept, FinishTyped DEF AcquireTimesOut
    <3>8. CASE RunThrows(r)
      BY <3>8, <3>4, Kept, GoToTyped DEF RunThrows, Pc
    <3>9. CASE ReleaseFails(r)
      BY <3>9, <3>4, Kept, FinishTyped DEF ReleaseFails, Return
    <3>10. QED
      BY <2>15, <3>5, <3>6, <3>7, <3>8, <3>9 DEF Fault
  <2>16. ASSUME NEW c \in Commit, LeaseExpires(c) PROVE TypeOK'
    <3>1. \A r \in Run, o \in BOOLEAN : [run[r] EXCEPT !.overdue = o] \in RunValue
      BY DEF TypeOK, RunValue, RunState
    <3>2. \A r \in Run :
            (run[r].overdue \/ (lease[c].by = r /\ HoldsLock(r) /\ Sha(r) = c)) \in BOOLEAN
      OBVIOUS
    <3>3. run' \in [Run -> RunValue]
      BY <2>16, <3>1, <3>2 DEF LeaseExpires
    <3>4. lease' \in [Commit -> Lease]
      <4>1. [lease[c] EXCEPT !.expired = TRUE] \in Lease
        BY DEF TypeOK, Lease
      <4>2. QED
        BY <2>16, <4>1 DEF LeaseExpires, TypeOK
    <3>5. QED
      BY <2>16, <3>3, <3>4 DEF LeaseExpires, TypeOK, github, commits, history
  <2>17. ASSUME NEW r \in Run, BuildEnds(r) \/ Clone(r) \/ CommitUpdate(r) \/ Pull(r)
         PROVE  TypeOK'
    <3>1. build' \in [Run -> BuildState]
      <4>1. (build[r].base # head) \in BOOLEAN /\ {"amended", "committed"} \subseteq Stage
        BY DEF Stage
      <4>2. CASE BuildEnds(r)
        BY <4>2, NoBuildTyped, BuildTyped DEF BuildEnds
      <4>3. CASE Clone(r)
        BY <4>3, BuildMoves, BuildTyped DEF Clone
      <4>4. CASE CommitUpdate(r)
        BY <4>1, <4>4, BuildMoves, BuildTyped DEF CommitUpdate
      <4>5. CASE Pull(r)
        BY <4>1, <4>5, BuildMoves, BuildTyped DEF Pull
      <4>6. QED
        BY <2>17, <4>2, <4>3, <4>4, <4>5
    <3>2. UNCHANGED <<github, triggers, lease, run, extras, history>>
      BY <2>17 DEF BuildEnds, Clone, CommitUpdate, Pull
    <3>3. QED
      BY <3>1, <3>2 DEF TypeOK, github, commits, history
  <2>18. ASSUME NEW r \in Run, ForcePush(r) PROVE TypeOK'
    <3>1. <<FALSE>> \in Seq(BOOLEAN)
      OBVIOUS
    <3>2. listed' \in Seq(BOOLEAN) /\ cut' \in BOOLEAN /\ branch' \in BOOLEAN
      BY <2>18, <3>1 DEF ForcePush
    <3>3. lost' \in BOOLEAN
      BY <2>18 DEF ForcePush, TypeOK
    <3>4. QED
      BY <2>18, <3>2, <3>3, PushedTyped DEF ForcePush
  <2>19. ASSUME NEW r \in Run, Push(r) PROVE TypeOK'
    <3>1. branch' \in BOOLEAN /\ lost' \in BOOLEAN
      BY <2>19 DEF Push, TypeOK
    <3>2. listed' \in Seq(BOOLEAN) /\ cut' \in BOOLEAN
      BY <2>19, PageTyped DEF Push
    <3>3. QED
      BY <2>19, <3>1, <3>2, PushedTyped DEF Push
  <2>20. CASE UNCHANGED vars
    BY <2>20 DEF vars, github, commits, history, TypeOK
  <2>21. QED
    BY <2>1, <2>2, <2>3, <2>4, <2>5, <2>6, <2>7, <2>8, <2>9, <2>10, <2>11, <2>12, <2>13, <2>14,
       <2>15, <2>16, <2>17, <2>18, <2>19, <2>20 DEF Next, RunStep, BuildStep
<1>3. QED
  BY <1>1, <1>2, PTL DEF Spec

----------------------------------------------------------------------------
(* The lock of a commit *)

\* What it is for a run to be covered by its lease.
Covered(r) == (HoldsLock(r) /\ ~run[r].overdue) => lease[Sha(r)] = [by |-> r, expired |-> FALSE]

CoverInv == \A r \in Run : Covered(r)

\* Leases of one commit are one lease.
LEMMA LeaseParts == LeaseInv <=> CoverInv
<1>1. ASSUME CoverInv, NEW r \in Run, NEW s \in Run, r # s, HoldsLock(r), HoldsLock(s),
             Sha(r) = Sha(s), ~run[r].overdue
      PROVE  run[s].overdue
  <2> DEFINE OwnLease(x) == [by |-> x, expired |-> FALSE]
  <2>1. lease[Sha(r)] = OwnLease(r)
    BY <1>1 DEF CoverInv, Covered
  <2>2. ~run[s].overdue => lease[Sha(s)] = OwnLease(s)
    BY <1>1 DEF CoverInv, Covered
  <2>3. lease[Sha(r)] = lease[Sha(s)]
    BY <1>1
  <2>4. OwnLease(r) # OwnLease(s)
    BY <1>1
  <2>5. QED
    BY <2>1, <2>2, <2>3, <2>4
<1>2. CoverInv => LeasedRunsAlone
  BY <1>1 DEF LeasedRunsAlone
<1>3. QED
  BY <1>2 DEF LeaseInv, CoverInv, Covered

\* A run that goes on under the same lock stays covered, and so does one that has none.
LEMMA CoverKept ==
  ASSUME TypeOK, NEW r \in Run, Covered(r), lease'[Sha(r)] = lease[Sha(r)],
         \/ UNCHANGED run[r]
         \/ run'[r].pc \in {"idle", "last", "lock"}
         \/ HoldsLock(r) /\ run'[r].trigger = run[r].trigger /\ run'[r].overdue = run[r].overdue
  PROVE  Covered(r)'
  BY DEF Covered, HoldsLock, Sha

\* Only the run itself moves.
LEMMA OnlyOne ==
  ASSUME TypeOK, NEW r \in Run, NEW pc, GoTo(r, pc) \/ Finish(r)
  PROVE  /\ \A q \in Run \ {r} : UNCHANGED run[q]
         /\ GoTo(r, pc) => /\ run'[r].pc = pc
                           /\ run'[r].trigger = run[r].trigger
                           /\ run'[r].overdue = run[r].overdue
         /\ Finish(r) => run'[r].pc = "idle"
  BY DEF TypeOK, GoTo, Finish, Idle, RunValue, RunState

\* A run that has not outlived its lease has it, so that of two runs for one commit one
\* has outlived its lease (owl-bot.ts:557-600).
THEOREM LockCoversRuns == Spec => []LeaseInv
<1>1. Init => CoverInv
  BY DEF Init, CoverInv, Covered, Idle, HoldsLock
<1>2. TypeOK /\ CoverInv /\ [Next]_vars => CoverInv'
  <2> SUFFICES ASSUME TypeOK, CoverInv, [Next]_vars, NEW q \in Run PROVE Covered(q)'
    BY DEF CoverInv
  <2> Covered(q)
    BY DEF CoverInv
  <2> Sha(q) \in Commit /\ lease \in [Commit -> Lease]
    BY ShaTyped DEF TypeOK
  <2>1. CASE UNCHANGED <<lease, run>>
    BY <2>1, CoverKept
  <2>2. CASE Ignore
    <3>1. run'[q].trigger = run[q].trigger /\ run'[q].overdue = run[q].overdue
          /\ run'[q].pc = run[q].pc
      BY <2>2 DEF Ignore, TypeOK, RunValue, RunState
    <3>2. QED
      BY <2>2, <3>1 DEF Ignore, Covered, HoldsLock, Sha
  <2>3. ASSUME NEW r \in Run, NEW t \in triggers, Start(r, t) PROVE Covered(q)'
    <3>1. q # r => UNCHANGED run[q]
      BY <2>3 DEF Start, TypeOK
    <3>2. q = r => run'[q].pc \in {"last", "lock"}
      BY <2>3 DEF Start, TypeOK
    <3>3. QED
      BY <2>3, <3>1, <3>2, CoverKept DEF Start
  <2>4. ASSUME NEW r \in Run, NEW pc, GoTo(r, pc) \/ Finish(r), UNCHANGED lease,
               GoTo(r, pc) => (HoldsLock(r) \/ pc \in {"idle", "last", "lock"})
        PROVE  Covered(q)'
    BY <2>4, OnlyOne, CoverKept
  <2>5. ASSUME NEW r \in Run, AcquireLock(r) PROVE Covered(q)'
    <3>1. CASE UNCHANGED lease /\ Finish(r)
      BY <2>4, <3>1
    <3>2. CASE /\ lease[Sha(r)] = NoLease \/ lease[Sha(r)].expired
               /\ lease' = [lease EXCEPT ![Sha(r)] = [by |-> r, expired |-> FALSE]]
               /\ GoTo(r, "loop")
      <4>1. CASE q = r
        BY <3>2, <4>1, OnlyOne DEF Covered, Sha
      <4>2. CASE q # r /\ Sha(q) = Sha(r)
        <5>1. ~(lease[Sha(q)] = [by |-> q, expired |-> FALSE])
          BY <3>2, <4>2, RunAssumption DEF NoLease
        <5>2. UNCHANGED run[q]
          BY <3>2, <4>2, OnlyOne
        <5>3. QED
          BY <5>1, <5>2 DEF Covered, HoldsLock, Sha
      <4>3. CASE q # r /\ Sha(q) # Sha(r)
        BY <3>2, <4>3, OnlyOne, CoverKept
      <4>4. QED
        BY <4>1, <4>2, <4>3
    <3>3. QED
      BY <2>5, <3>1, <3>2 DEF AcquireLock
  <2>6. ASSUME NEW r \in Run, ReleaseLock(r) PROVE Covered(q)'
    <3>0. Finish(r)
      BY <2>6 DEF ReleaseLock, Return
    <3>1. CASE q = r
      BY <3>0, <3>1, OnlyOne DEF Covered, HoldsLock
    <3>2. CASE q # r /\ Sha(q) = Sha(r)
      <4>1. UNCHANGED run[q]
        BY <3>0, <3>2, OnlyOne
      <4>2. lease[Sha(q)] = [by |-> q, expired |-> FALSE] => UNCHANGED lease
        BY <2>6, <3>2 DEF ReleaseLock
      <4>3. QED
        BY <4>1, <4>2 DEF Covered, HoldsLock, Sha
    <3>3. CASE q # r /\ Sha(q) # Sha(r)
      <4>1. lease'[Sha(q)] = lease[Sha(q)]
        BY <2>6, <3>3 DEF ReleaseLock
      <4>2. QED
        BY <3>0, <3>3, <4>1, OnlyOne, CoverKept
    <3>4. QED
      BY <3>1, <3>2, <3>3
  <2>7. ASSUME NEW c \in Commit, LeaseExpires(c) PROVE Covered(q)'
    <3>1. /\ run'[q].pc = run[q].pc /\ run'[q].trigger = run[q].trigger
          /\ run'[q].overdue =
               (run[q].overdue \/ (lease[c].by = q /\ HoldsLock(q) /\ Sha(q) = c))
      BY <2>7 DEF LeaseExpires, TypeOK, RunValue, RunState
    <3>2. CASE Sha(q) = c
      <4>1. (HoldsLock(q) /\ ~run[q].overdue) => lease[c].by = q
        BY <3>2 DEF Covered
      <4>2. QED
        BY <3>1, <3>2, <4>1 DEF Covered, HoldsLock, Sha
    <3>3. CASE Sha(q) # c
      BY <2>7, <3>1, <3>3 DEF LeaseExpires, Covered, HoldsLock, Sha
    <3>4. QED
      BY <3>2, <3>3
  <2>8. ASSUME NEW r \in Run, RunStep(r) PROVE Covered(q)'
    <3>1. CASE LastCommit(r)
      BY <2>4, <3>1 DEF LastCommit
    <3>2. CASE HasOwlBotLoop(r)
      BY <2>4, <3>2 DEF HasOwlBotLoop, At, HoldsLock
    <3>3. CASE GetPullRequest(r)
      BY <2>4, <3>3 DEF GetPullRequest, At, HoldsLock
    <3>4. CASE RunBuildTrigger(r)
      BY <2>4, <3>4 DEF RunBuildTrigger, At, HoldsLock
    <3>5. CASE WaitForBuild(r)
      BY <2>4, <3>5 DEF WaitForBuild, At, HoldsLock
    <3>6. CASE GetPullRequestAgain(r)
      BY <2>4, <3>6 DEF GetPullRequestAgain, At, HoldsLock
    <3>7. CASE ListFiles(r)
      BY <2>4, <3>7 DEF ListFiles, At, HoldsLock
    <3>8. CASE ClosePullRequest(r)
      BY <2>4, <3>8 DEF ClosePullRequest, At, HoldsLock
    <3>9. CASE DeleteRef(r)
      BY <2>4, <3>9 DEF DeleteRef, At, HoldsLock
    <3>10. QED
      BY <2>5, <2>6, <2>8, <3>1, <3>2, <3>3, <3>4, <3>5, <3>6, <3>7, <3>8, <3>9 DEF RunStep
  <2>9. ASSUME NEW r \in Run, Fault(r) PROVE Covered(q)'
    <3>1. CASE Die(r)
      BY <2>4, <3>1 DEF Die
    <3>2. CASE Redeliver(r)
      BY <2>1, <3>2 DEF Redeliver
    <3>3. CASE AcquireTimesOut(r)
      <4>1. /\ lease[Sha(r)] = NoLease \/ lease[Sha(r)].expired
            /\ lease' \in {lease, [lease EXCEPT ![Sha(r)] = [by |-> r, expired |-> FALSE]]}
            /\ Finish(r)
        BY <3>3 DEF AcquireTimesOut
      <4>2. CASE q = r
        BY <4>1, <4>2, OnlyOne DEF Covered, HoldsLock
      <4>3. CASE q # r /\ Sha(q) = Sha(r)
        <5>1. ~(lease[Sha(q)] = [by |-> q, expired |-> FALSE])
          BY <4>1, <4>3, RunAssumption DEF NoLease
        <5>2. UNCHANGED run[q]
          BY <4>1, <4>3, OnlyOne
        <5>3. QED
          BY <5>1, <5>2 DEF Covered, HoldsLock, Sha
      <4>4. CASE q # r /\ Sha(q) # Sha(r)
        BY <4>1, <4>4, OnlyOne, CoverKept
      <4>5. QED
        BY <4>2, <4>3, <4>4
    <3>4. CASE RunThrows(r)
      BY <2>4, <3>4 DEF RunThrows, HoldsLock
    <3>5. CASE ReleaseFails(r)
      BY <2>4, <3>5 DEF ReleaseFails, Return
    <3>6. QED
      BY <2>9, <3>1, <3>2, <3>3, <3>4, <3>5 DEF Fault
  <2>10. ASSUME NEW r \in Run, BuildStep(r) PROVE Covered(q)'
    BY <2>1, <2>10 DEF BuildStep, BuildEnds, Clone, CommitUpdate, ForcePush, Pull, Push, Pushed
  <2>11. QED
    BY <2>1, <2>2, <2>3, <2>7, <2>8, <2>9, <2>10
       DEF Next, vars, UserPush, Label
<1>3. QED
  BY <1>1, <1>2, TypeCorrect, LeaseParts, PTL DEF Spec

----------------------------------------------------------------------------
(* The circuit breaker *)

\* What the count of the runs that are not armed amounts to.
LEMMA CountTyped == IsFiniteSet(Run \ Armed) /\ Cardinality(Run \ Armed) \in Nat
<1>1. IsFiniteSet(Run \ Armed)
  BY RunAssumption, FS_Subset
<1>2. QED
  BY <1>1, FS_CardinalityType

\* The runs that may push once more can be counted after a step too.
LEMMA CountTypedNext == IsFiniteSet(Run \ Armed') /\ Cardinality(Run \ Armed') \in Nat
<1>1. IsFiniteSet(Run \ Armed')
  BY RunAssumption, FS_Subset
<1>2. QED
  BY <1>1, FS_CardinalityType

\* The bound, and the part of StreakInv about builds.
Bounded   == ~asked /\ ~cut => streak < CircuitBreaker + Cardinality(Run \ Armed)
Early     == {"last", "lock", "loop", "get", "trigger"}
Unbuilt(r) == run[r].pc \in Early => build[r] = NoBuild

\* Fewer armed runs leave more room.
LEMMA Disarm ==
  ASSUME TypeOK, Bounded, Armed' \subseteq Armed, UNCHANGED <<asked, streak, cut>>
  PROVE  Bounded'
<1>1. Cardinality(Run \ Armed) <= Cardinality(Run \ Armed')
  BY CountTypedNext, FS_Subset
<1>2. streak \in Nat
  BY BoundsAssumption DEF TypeOK, Commit
<1>3. QED
  BY <1>1, <1>2, CountTyped, CountTypedNext, BoundsAssumption DEF Bounded

\* Below the breaker any run may be armed.
LEMMA BelowBreaker ==
  ASSUME TypeOK', streak' < CircuitBreaker
  PROVE  Bounded'
<1>1. streak' \in Nat
  BY BoundsAssumption DEF TypeOK, Commit
<1>2. QED
  BY <1>1, CountTypedNext, BoundsAssumption DEF Bounded

\* One run's step arms nobody else.
LEMMA ArmsNobody ==
  ASSUME NEW r \in Run,
         \A q \in Run \ {r} : /\ run'[q].pc = run[q].pc
                             /\ run'[q].trigger = run[q].trigger
                             /\ build'[q] = build[q],
         r \in Armed' => r \in Armed
  PROVE  Armed' \subseteq Armed
  BY DEF Armed

\* A run's move to an await behind the build's start arms nobody.
LEMMA MoveDisarms ==
  ASSUME TypeOK, NEW r \in Run, NEW pc, GoTo(r, pc) \/ Finish(r), UNCHANGED build,
         GoTo(r, pc) => \/ pc \notin {"get", "trigger"}
                       \/ run[r].pc = "get"
                       \/ run[r].trigger.by = "human"
  PROVE  Armed' \subseteq Armed
<1>1. r \in Armed' => r \in Armed
  BY OnlyOne DEF Armed
<1>2. QED
  BY <1>1, OnlyOne, ArmsNobody

\* ... and is no reason for a build.
LEMMA MoveUnbuilt ==
  ASSUME TypeOK, NEW q \in Run, Unbuilt(q), NEW r \in Run, NEW pc, GoTo(r, pc) \/ Finish(r),
         UNCHANGED build, GoTo(r, pc) => (pc \notin Early \/ run[r].pc \in Early)
  PROVE  Unbuilt(q)'
<1>1. CASE q = r
  BY <1>1, OnlyOne DEF Unbuilt, Early
<1>2. CASE q # r
  BY <1>2, OnlyOne DEF Unbuilt
<1>3. QED
  BY <1>1, <1>2

BreakerInv == Bounded /\ StreakListed /\ \A r \in Run : Unbuilt(r)

\* As long as all commits are listed, a loop that is not found has not begun.
LEMMA LoopFound ==
  ASSUME TypeOK, StreakListed, ~LoopListed
  PROVE  cut \/ streak < CircuitBreaker
<1>1. /\ listed \in Seq(BOOLEAN) /\ Len(listed) \in Nat /\ streak \in Nat
      /\ DOMAIN listed \subseteq Nat
  BY BoundsAssumption DEF TypeOK, Commit
<1>2. ASSUME ~cut, streak >= CircuitBreaker PROVE LoopListed
  <2>1. Len(listed) >= CircuitBreaker
    BY <1>1, <1>2, BoundsAssumption DEF StreakListed
  <2>2. ASSUME NEW i \in DOMAIN listed, i > Len(listed) - CircuitBreaker PROVE listed[i]
    <3>1. i > Len(listed) - streak
      BY <1>1, <1>2, <2>2, BoundsAssumption
    <3>2. QED
      BY <1>2, <3>1 DEF StreakListed
  <2>3. QED
    BY <2>1, <2>2 DEF LoopListed
<1>3. QED
  BY <1>1, <1>2, BoundsAssumption

\* A page without a streak lists one of none.
LEMMA NoStreakListed ==
  ASSUME listed' \in Seq(BOOLEAN), streak' = 0
  PROVE  StreakListed'
<1>1. Len(listed') \in Nat /\ DOMAIN listed' = 1 .. Len(listed')
  OBVIOUS
<1>2. QED
  BY <1>1 DEF StreakListed

\* A commit at the end of a page that has room is listed last.
LEMMA ListLast ==
  ASSUME NEW page \in Seq(BOOLEAN), NEW own \in BOOLEAN, Len(page) < CommitPage
  PROVE  List(page, Len(page) + 1, own) = Append(page, own)
<1>1. List(page, Len(page) + 1, own) = InsertAt(page, Len(page) + 1, own)
  BY DEF List
<1>2. SubSeq(page, 1, (Len(page) + 1) - 1) = page
  OBVIOUS
<1>3. SubSeq(page, Len(page) + 1, Len(page)) = << >>
  OBVIOUS
<1>4. QED
  BY <1>1, <1>2, <1>3 DEF InsertAt

\* The page lists the streak after a push too.
LEMMA PushListed ==
  ASSUME TypeOK, StreakListed, NEW merged \in BOOLEAN, ListsPush(merged),
         listed' \in Seq(BOOLEAN), streak' = IF merged THEN 0 ELSE streak + 1
  PROVE  StreakListed'
<1>1. CASE merged
  BY <1>1, NoStreakListed
<1>2. CASE ~merged
  <2>1. /\ listed' = List(listed, Len(listed) + 1, TRUE)
        /\ cut' = (cut \/ Len(listed) >= CommitPage) /\ streak' = streak + 1
    BY <1>2 DEF ListsPush
  <2>2. listed \in Seq(BOOLEAN) /\ Len(listed) \in Nat /\ streak \in Nat
    BY BoundsAssumption DEF TypeOK, Commit
  <2>3. ASSUME ~cut'
        PROVE  /\ streak' <= Len(listed')
               /\ \A i \in DOMAIN listed' : i > Len(listed') - streak' => listed'[i]
    <3>1. ~cut /\ Len(listed) < CommitPage
      <4>1. ~cut /\ ~(Len(listed) >= CommitPage)
        BY <2>1, <2>3
      <4>2. QED
        BY <2>2, <4>1, BoundsAssumption
    <3>2. listed' = Append(listed, TRUE)
      BY <2>1, <2>2, <3>1, ListLast
    <3>3. /\ Len(listed') = Len(listed) + 1 /\ DOMAIN listed' = 1 .. Len(listed) + 1
          /\ listed'[Len(listed) + 1] = TRUE
          /\ \A i \in 1 .. Len(listed) : listed'[i] = listed[i]
      BY <2>2, <3>2
    <3>4. /\ streak <= Len(listed) /\ DOMAIN listed = 1 .. Len(listed)
          /\ \A i \in DOMAIN listed : i > Len(listed) - streak => listed[i]
      BY <2>2, <3>1 DEF StreakListed
    <3>5. ASSUME NEW i \in DOMAIN listed', i > Len(listed') - streak' PROVE listed'[i]
      <4>1. i \in Nat /\ i > Len(listed) - streak
        <5>1. i \in 1 .. Len(listed) + 1
          BY <3>3, <3>5
        <5>2. i > (Len(listed) + 1) - (streak + 1)
          BY <2>1, <3>3, <3>5
        <5>3. QED
          BY <2>2, <5>1, <5>2
      <4>2. CASE i = Len(listed) + 1
        BY <3>3, <4>2
      <4>3. CASE i # Len(listed) + 1
        <5>1. i \in DOMAIN listed /\ i \in 1 .. Len(listed)
          BY <2>2, <3>3, <3>4, <3>5, <4>3
        <5>2. QED
          BY <3>3, <3>4, <4>1, <5>1
      <4>4. QED
        BY <4>2, <4>3
    <3>6. streak' <= Len(listed')
      <4>1. streak + 1 <= Len(listed) + 1
        BY <2>2, <3>4
      <4>2. QED
        BY <2>1, <3>3, <4>1
    <3>7. QED
      BY <3>5, <3>6
  <2>4. QED
    BY <2>3 DEF StreakListed
<1>3. QED
  BY <1>1, <1>2

\* A push by a build counts against its run.
LEMMA PushBounded ==
  ASSUME TypeOK, TypeOK', BreakerInv, StreakListed', NEW r \in Run, NEW a \in BOOLEAN,
         NEW s, build[r] # NoBuild, s = 0 \/ (s = streak + 1 /\ (cut => cut')),
         Pushed(r, a, s)
  PROVE  BreakerInv'
<1>1. /\ streak' = s /\ asked' = (s > 0 /\ (asked \/ build[r].asked))
      /\ build' = [build EXCEPT ![r] = NoBuild] /\ UNCHANGED run
  BY DEF Pushed, Build
<1>2. \A q \in Run : Unbuilt(q)'
  BY <1>1 DEF BreakerInv, Unbuilt, TypeOK
<1>3. Bounded'
  <2>1. CASE s = 0
    BY <1>1, <2>1, BelowBreaker, BoundsAssumption
  <2>2. CASE s = streak + 1 /\ (cut => cut') /\ ~asked' /\ ~cut'
    <3>1. streak \in Nat
      BY BoundsAssumption DEF TypeOK, Commit
    <3>2. ~asked /\ ~build[r].asked
      <4>1. s > 0
        BY <2>2, <3>1
      <4>2. QED
        BY <1>1, <2>2, <4>1, Zenon
    <3>3. r \in Armed
      BY <3>2 DEF Armed
    <3>4. Armed' = Armed \ {r}
      <4>1. run[r].pc \notin {"get", "trigger"}
        BY DEF BreakerInv, Unbuilt, Early
      <4>2. build'[r] = NoBuild /\ \A q \in Run \ {r} : build'[q] = build[q]
        BY <1>1 DEF TypeOK
      <4>3. QED
        BY <1>1, <4>1, <4>2 DEF Armed
    <3>5. Run \ Armed' = (Run \ Armed) \cup {r}
      BY <3>3, <3>4
    <3>6. Cardinality(Run \ Armed') = Cardinality(Run \ Armed) + 1
      BY <3>3, <3>5, CountTyped, FS_AddElement
    <3>7. ~cut
      BY <2>2
    <3>8. QED
      BY <1>1, <2>2, <3>1, <3>2, <3>6, <3>7, CountTyped, BoundsAssumption DEF BreakerInv, Bounded
  <2>3. CASE asked' \/ cut'
    BY <2>3 DEF Bounded
  <2>4. QED
    BY <2>1, <2>2, <2>3
<1>4. QED
  BY <1>2, <1>3 DEF BreakerInv

\* What the circuit breaker sees to, in parts.
LEMMA BreakerParts == BreakerInv <=> StreakInv
  BY DEF BreakerInv, StreakInv, Bounded, Unbuilt, Early

\* While the first page lists all commits of the pull request, runs that nobody asked for
\* push at most one commit each on top of what the circuit breaker lets pass
\* (core.ts:525-576).
THEOREM BreakerHolds == Spec => []StreakInv
<1>1. Init => BreakerInv
  <2>1. ASSUME Init PROVE BreakerInv
    <3>1. Armed = {}
      BY <2>1 DEF Init, Armed, Idle
    <3>2. streak < CircuitBreaker + Cardinality(Run)
      <4>1. CASE streak = 0
        BY <4>1, BoundsAssumption, RunAssumption, FS_CardinalityType
      <4>2. CASE streak = 1
        <5>1. Cardinality(Run) # 0 /\ Cardinality(Run) \in Nat
          BY <4>2, RunAssumption, FS_CardinalityType, FS_EmptySet
        <5>2. QED
          BY <4>2, <5>1, BoundsAssumption
      <4>3. QED
        BY <2>1, <4>1, <4>2 DEF Init
    <3>3. StreakListed
      <4>1. CASE streak = 0
        <5>1. Len(<<FALSE>>) = 1 /\ DOMAIN <<FALSE>> = {1}
          OBVIOUS
        <5>2. QED
          BY <2>1, <4>1, <5>1 DEF Init, StreakListed
      <4>2. CASE streak = 1
        <5>1. /\ Len(<<FALSE, TRUE>>) = 2 /\ DOMAIN <<FALSE, TRUE>> = {1, 2}
              /\ <<FALSE, TRUE>>[2]
          OBVIOUS
        <5>2. listed = <<FALSE, TRUE>>
          BY <2>1, <4>2 DEF Init
        <5>3. ASSUME NEW i \in DOMAIN listed, i > Len(listed) - streak PROVE listed[i]
          <6>1. i = 2
            BY <4>2, <5>1, <5>2, <5>3
          <6>2. QED
            BY <5>1, <5>2, <6>1
        <5>4. streak <= Len(listed)
          BY <4>2, <5>1, <5>2
        <5>5. QED
          BY <5>3, <5>4 DEF StreakListed
      <4>3. QED
        BY <2>1, <4>1, <4>2 DEF Init
    <3>4. QED
      BY <2>1, <3>1, <3>2, <3>3 DEF BreakerInv, Bounded, Unbuilt, Init
  <2>2. QED
    BY <2>1
<1>2. TypeOK /\ TypeOK' /\ BreakerInv /\ [Next]_vars => BreakerInv'
  <2> SUFFICES ASSUME TypeOK, TypeOK', BreakerInv, [Next]_vars PROVE BreakerInv'
    OBVIOUS
  <2> Bounded /\ StreakListed /\ \A q \in Run : Unbuilt(q)
    BY DEF BreakerInv
  <2>0. ASSUME UNCHANGED commits PROVE StreakListed' /\ UNCHANGED <<streak, cut>>
    BY <2>0 DEF commits, StreakListed
  <2>1. ASSUME NEW r \in Run, NEW pc, GoTo(r, pc) \/ Finish(r), UNCHANGED <<build, asked, commits>>,
               GoTo(r, pc) => /\ pc \notin Early \/ run[r].pc \in Early
                              /\ \/ pc \notin {"get", "trigger"}
                                 \/ run[r].pc = "get"
                                 \/ run[r].trigger.by = "human"
        PROVE  BreakerInv'
    <3>1. Bounded'
      BY <2>0, <2>1, MoveDisarms, Disarm
    <3>2. \A q \in Run : Unbuilt(q)'
      BY <2>1, MoveUnbuilt
    <3>3. QED
      BY <2>0, <2>1, <3>1, <3>2 DEF BreakerInv
  <2>2. ASSUME UNCHANGED <<asked, commits, build>>,
               \A q \in Run : run'[q].pc = run[q].pc /\ run'[q].trigger = run[q].trigger
        PROVE  BreakerInv'
    <3>1. Armed' = Armed
      BY <2>2 DEF Armed
    <3>2. QED
      BY <2>0, <2>2, <3>1, Disarm DEF BreakerInv, Unbuilt
  <2>3. CASE UserPush
    <3>1. streak' = 0 /\ streak' < CircuitBreaker
      BY <2>3, BoundsAssumption DEF UserPush
    <3>2. \A q \in Run : Unbuilt(q)'
      BY <2>3 DEF UserPush, Unbuilt
    <3>3. StreakListed'
      BY <3>1, NoStreakListed DEF TypeOK
    <3>4. QED
      BY <3>1, <3>2, <3>3, BelowBreaker DEF BreakerInv
  <2>4. CASE Ignore
    <3>1. \A q \in Run : run'[q].pc = run[q].pc /\ run'[q].trigger = run[q].trigger
      BY <2>4 DEF Ignore, TypeOK, RunValue, RunState
    <3>2. QED
      BY <2>2, <2>4, <3>1 DEF Ignore, history
  <2>5. ASSUME NEW c \in Commit, LeaseExpires(c) PROVE BreakerInv'
    <3>1. \A q \in Run : run'[q].pc = run[q].pc /\ run'[q].trigger = run[q].trigger
      BY <2>5 DEF LeaseExpires, TypeOK, RunValue, RunState
    <3>2. QED
      BY <2>2, <2>5, <3>1 DEF LeaseExpires, github, history
  <2>6. ASSUME NEW r \in Run, NEW t \in triggers, Start(r, t) PROVE BreakerInv'
    <3>1. /\ run'[r].pc \in {"last", "lock"} /\ build[r] = NoBuild
          /\ UNCHANGED <<build, asked, commits>> /\ \A q \in Run \ {r} : run'[q] = run[q]
      BY <2>6 DEF Start, TypeOK, github, history
    <3>2. Armed' \subseteq Armed
      BY <3>1, ArmsNobody DEF Armed
    <3>3. \A q \in Run : Unbuilt(q)'
      BY <3>1 DEF Unbuilt
    <3>4. QED
      BY <2>0, <3>1, <3>2, <3>3, Disarm DEF BreakerInv
  <2>7. ASSUME NEW r \in Run, HasOwlBotLoop(r) PROVE BreakerInv'
    <3>0. UNCHANGED <<build, asked, commits>> /\ run[r].pc = "loop"
      BY <2>7 DEF HasOwlBotLoop, At, github, history
    <3>1. CASE GoTo(r, "release")
      BY <2>1, <3>0, <3>1 DEF Early
    <3>2. CASE run[r].trigger.by = "human" /\ GoTo(r, "get")
      BY <2>1, <3>0, <3>2 DEF Early
    <3>3. CASE ~LoopListed /\ GoTo(r, "get")
      <4>1. \A q \in Run : Unbuilt(q)'
        BY <3>0, <3>3, MoveUnbuilt DEF Early
      <4>2. cut' \/ streak' < CircuitBreaker
        BY <2>0, <3>0, <3>3, LoopFound
      <4>3. Bounded'
        BY <4>2, BelowBreaker DEF Bounded
      <4>4. QED
        BY <2>0, <3>0, <4>1, <4>3 DEF BreakerInv
    <3>4. QED
      BY <2>7, <3>1, <3>2, <3>3 DEF HasOwlBotLoop
  <2>8. ASSUME NEW r \in Run, RunBuildTrigger(r) PROVE BreakerInv'
    <3>1. /\ run[r].pc = "trigger" /\ GoTo(r, "wait") /\ UNCHANGED <<asked, commits>>
          /\ \A q \in Run \ {r} : build'[q] = build[q]
          /\ build'[r].asked = (run[r].trigger.by = "human")
      BY <2>8 DEF RunBuildTrigger, At, Build, TypeOK, github, history, NoBuild
    <3>2. Armed' \subseteq Armed
      <4>1. r \in Armed' => r \in Armed
        BY <3>1, OnlyOne DEF Armed
      <4>2. QED
        BY <3>1, <4>1, OnlyOne, ArmsNobody
    <3>3. \A q \in Run : Unbuilt(q)'
      BY <3>1, OnlyOne DEF Unbuilt, Early
    <3>4. QED
      BY <2>0, <3>1, <3>2, <3>3, Disarm DEF BreakerInv
  <2>9. ASSUME NEW r \in Run,
               \/ LastCommit(r) \/ AcquireLock(r) \/ GetPullRequest(r) \/ WaitForBuild(r)
               \/ GetPullRequestAgain(r) \/ ListFiles(r) \/ ClosePullRequest(r) \/ DeleteRef(r)
               \/ ReleaseLock(r) \/ Die(r) \/ AcquireTimesOut(r) \/ RunThrows(r)
               \/ ReleaseFails(r)
        PROVE  BreakerInv'
    <3>1. CASE LastCommit(r)
      BY <2>1, <3>1 DEF LastCommit, At, Early, github, history
    <3>2. CASE AcquireLock(r)
      BY <2>1, <3>2 DEF AcquireLock, At, Early, github, history
    <3>3. CASE GetPullRequest(r)
      BY <2>1, <3>3 DEF GetPullRequest, At, Early, github, history
    <3>4. CASE WaitForBuild(r)
      BY <2>1, <3>4 DEF WaitForBuild, Early, github, history
    <3>5. CASE GetPullRequestAgain(r)
      BY <2>1, <3>5 DEF GetPullRequestAgain, Early, github, history
    <3>6. CASE ListFiles(r)
      BY <2>1, <3>6 DEF ListFiles, Early, github, history
    <3>7. CASE ClosePullRequest(r)
      BY <2>1, <3>7 DEF ClosePullRequest, Early, history
    <3>8. CASE DeleteRef(r)
      BY <2>1, <3>8 DEF DeleteRef, Early, history
    <3>9. CASE ReleaseLock(r)
      BY <2>1, <3>9 DEF ReleaseLock, Return, Early, github, history
    <3>10. CASE Die(r)
      BY <2>1, <3>10 DEF Die, Early, github, history
    <3>11. CASE AcquireTimesOut(r)
      BY <2>1, <3>11 DEF AcquireTimesOut, Early, github
    <3>12. CASE RunThrows(r)
      BY <2>1, <3>12 DEF RunThrows, Early, github, history
    <3>13. CASE ReleaseFails(r)
      BY <2>1, <3>13 DEF ReleaseFails, Return, Early, github, history
    <3>14. QED
      BY <2>9, <3>1, <3>2, <3>3, <3>4, <3>5, <3>6, <3>7, <3>8, <3>9, <3>10, <3>11, <3>12, <3>13
  <2>10. ASSUME NEW r \in Run, BuildEnds(r) \/ Clone(r) \/ CommitUpdate(r) \/ Pull(r)
         PROVE  BreakerInv'
    <3>1. /\ UNCHANGED <<run, asked, commits>> /\ \A q \in Run \ {r} : build'[q] = build[q]
      BY <2>10 DEF BuildEnds, Clone, CommitUpdate, Pull, Build, TypeOK, github, history
    <3>2. build[r] # NoBuild
      BY <2>10 DEF BuildEnds, Clone, CommitUpdate, Pull, InStage, NoBuild
    <3>3. build'[r] = NoBuild \/ build'[r].asked = build[r].asked
      <4>1. CASE BuildEnds(r)
        BY <4>1 DEF BuildEnds, Build, TypeOK
      <4>2. CASE Clone(r)
        BY <4>2 DEF Clone, Build, TypeOK, BuildState
      <4>3. CASE CommitUpdate(r)
        BY <4>3 DEF CommitUpdate, Build, TypeOK, BuildState
      <4>4. CASE Pull(r)
        BY <4>4 DEF Pull, Build, TypeOK, BuildState
      <4>5. QED
        BY <2>10, <4>1, <4>2, <4>3, <4>4
    <3>4. Armed' \subseteq Armed
      BY <3>1, <3>2, <3>3, ArmsNobody DEF Armed
    <3>5. \A q \in Run : Unbuilt(q)'
      BY <3>1, <3>2 DEF Unbuilt
    <3>6. QED
      BY <2>0, <3>1, <3>4, <3>5, Disarm DEF BreakerInv
  <2>11. ASSUME NEW r \in Run, ForcePush(r) \/ Push(r) PROVE BreakerInv'
    <3>1. build[r] # NoBuild
      <4>1. InStage(r, "amended") \/ InStage(r, "pulled")
        BY <2>11 DEF ForcePush, Push
      <4>2. QED
        BY <4>1 DEF InStage, NoBuild
    <3>2. CASE ForcePush(r)
      <4>1. Pushed(r, TRUE, 0) /\ streak' = 0
        BY <3>2 DEF ForcePush, Pushed
      <4>2. StreakListed'
        BY <4>1, NoStreakListed DEF TypeOK
      <4>3. QED
        BY <3>1, <4>1, <4>2, PushBounded
    <3>3. CASE Push(r)
      <4> DEFINE merged == build[r].merged
      <4>1. /\ Pushed(r, FALSE, IF merged THEN 0 ELSE streak + 1) /\ ListsPush(merged)
            /\ streak' = IF merged THEN 0 ELSE streak + 1
        BY <3>3 DEF Push, Pushed
      <4>2. merged \in BOOLEAN
        BY DEF TypeOK, BuildState
      <4>3. StreakListed'
        BY <4>1, <4>2, PushListed DEF TypeOK
      <4>4. cut => cut'
        BY <4>1 DEF ListsPush
      <4>5. CASE merged
        BY <3>1, <4>1, <4>3, <4>5, PushBounded
      <4>6. CASE ~merged
        BY <3>1, <4>1, <4>3, <4>4, <4>6, PushBounded
      <4>7. QED
        BY <4>5, <4>6
    <3>4. QED
      BY <2>11, <3>2, <3>3
  <2>12. QED
    BY <2>2, <2>3, <2>4, <2>5, <2>6, <2>7, <2>8, <2>9, <2>10, <2>11
       DEF Next, RunStep, BuildStep, Fault, vars, Label, Redeliver, github, history
<1>3. QED
  BY <1>1, <1>2, TypeCorrect, BreakerParts, PTL DEF Spec

\* ... so that the commits in a row stay below the breaker plus the number of runs, while
\* the first page lists all commits.
THEOREM StreaksAreBounded == Spec => []StreakBounded
<1>1. ASSUME TypeOK, StreakInv PROVE StreakBounded
  <2>1. Cardinality(Run \ Armed) <= Cardinality(Run) /\ Cardinality(Run) \in Nat
    BY RunAssumption, FS_Subset, FS_CardinalityType
  <2>2. streak \in Nat
    BY <1>1, BoundsAssumption DEF TypeOK, Commit
  <2>3. QED
    BY <1>1, <2>1, <2>2, CountTyped, BoundsAssumption DEF StreakInv, StreakBounded
<1>2. QED
  BY <1>1, TypeCorrect, BreakerHolds, PTL

----------------------------------------------------------------------------
(* The label "owl-bot-ignore", and the commits of people *)

\* A run that has been ignored since it began finds the label there.
Heeded(r) ==
  run[r].ignored =>
    ignore /\ run[r].pc \notin {"trigger", "wait", "pulls", "files", "close", "delete"}

\* A run during all of which the pull request was labelled "owl-bot-ignore" neither builds
\* nor closes it (core.ts:118, core.ts:628).
THEOREM IgnoredAreLeft == Spec => []IgnoredIsLeft
<1> DEFINE HeedInv == \A r \in Run : Heeded(r)
<1>1. Init => HeedInv
  BY DEF Init, Heeded, Idle
<1>2. TypeOK /\ HeedInv /\ [Next]_vars => HeedInv'
  <2> SUFFICES ASSUME TypeOK, HeedInv, [Next]_vars, NEW q \in Run PROVE Heeded(q)'
    OBVIOUS
  <2>1. CASE UNCHANGED <<ignore, run>>
    BY <2>1 DEF Heeded
  <2>2. CASE Ignore
    BY <2>2 DEF Ignore, Heeded, TypeOK, RunValue, RunState
  <2>3. ASSUME NEW r \in Run, NEW t \in triggers, Start(r, t) PROVE Heeded(q)'
    <3>1. CASE q = r
      BY <2>3, <3>1 DEF Start, Heeded, TypeOK, github
    <3>2. CASE q # r
      BY <2>3, <3>2 DEF Start, Heeded, TypeOK, github
    <3>3. QED
      BY <3>1, <3>2
  <2>4. ASSUME NEW r \in Run, NEW pc, GoTo(r, pc) \/ Finish(r), UNCHANGED ignore,
               GoTo(r, pc) =>
                 \/ pc \in {"lock", "loop", "get", "release"}
                 \/ run[r].pc = "get" /\ ~ignore
                 \/ run[r].pc \in {"trigger", "wait", "pulls", "files", "close", "delete"}
        PROVE  Heeded(q)'
    <3>1. CASE q = r /\ GoTo(r, pc)
      <4>1. run'[q].pc = pc /\ run'[q].ignored = run[q].ignored
        BY <3>1 DEF GoTo, TypeOK, RunValue, RunState
      <4>2. QED
        BY <2>4, <3>1, <4>1 DEF Heeded
    <3>2. CASE q = r /\ Finish(r)
      BY <3>2 DEF Finish, Heeded, Idle, TypeOK
    <3>3. CASE q # r
      BY <2>4, <3>3, OnlyOne DEF Heeded
    <3>4. QED
      BY <2>4, <3>1, <3>2, <3>3
  <2>5. ASSUME NEW r \in Run, RunStep(r) PROVE Heeded(q)'
    <3>1. CASE LastCommit(r)
      BY <2>4, <3>1 DEF LastCommit, github
    <3>2. CASE AcquireLock(r)
      BY <2>4, <3>2 DEF AcquireLock, github
    <3>3. CASE HasOwlBotLoop(r)
      BY <2>4, <3>3 DEF HasOwlBotLoop, github
    <3>4. CASE GetPullRequest(r)
      BY <2>4, <3>4 DEF GetPullRequest, At, github
    <3>5. CASE RunBuildTrigger(r)
      BY <2>4, <3>5 DEF RunBuildTrigger, At, github
    <3>6. CASE WaitForBuild(r)
      BY <2>4, <3>6 DEF WaitForBuild, At, github
    <3>7. CASE GetPullRequestAgain(r)
      BY <2>4, <3>7 DEF GetPullRequestAgain, At, github
    <3>8. CASE ListFiles(r)
      BY <2>4, <3>8 DEF ListFiles, At, github
    <3>9. CASE ClosePullRequest(r)
      BY <2>4, <3>9 DEF ClosePullRequest, At
    <3>10. CASE DeleteRef(r)
      BY <2>4, <3>10 DEF DeleteRef
    <3>11. CASE ReleaseLock(r)
      BY <2>4, <3>11 DEF ReleaseLock, Return, github
    <3>12. QED
      BY <2>5, <3>1, <3>2, <3>3, <3>4, <3>5, <3>6, <3>7, <3>8, <3>9, <3>10, <3>11 DEF RunStep
  <2>6. ASSUME NEW r \in Run, Fault(r) PROVE Heeded(q)'
    <3>1. UNCHANGED ignore
      BY <2>6
         DEF Fault, Die, Redeliver, AcquireTimesOut, RunThrows, ReleaseFails, github
    <3>2. CASE Finish(r) \/ UNCHANGED run
      BY <2>1, <2>4, <3>1, <3>2
    <3>3. CASE RunThrows(r)
      <4>1. GoTo(r, "throw")
        BY <3>3 DEF RunThrows
      <4>2. run'[r].pc = "throw" /\ run'[r].ignored = run[r].ignored
        BY <4>1 DEF GoTo, TypeOK, RunValue, RunState
      <4>3. QED
        BY <3>1, <4>1, <4>2, OnlyOne DEF Heeded
    <3>4. QED
      BY <2>6, <3>2, <3>3 DEF Fault, Die, Redeliver, AcquireTimesOut, ReleaseFails, Return
  <2>7. ASSUME NEW c \in Commit, LeaseExpires(c) PROVE Heeded(q)'
    BY <2>7 DEF LeaseExpires, Heeded, TypeOK, RunValue, RunState, github
  <2>8. ASSUME NEW r \in Run, BuildStep(r) PROVE Heeded(q)'
    BY <2>1, <2>8
       DEF BuildStep, BuildEnds, Clone, CommitUpdate, ForcePush, Pull, Push, Pushed, github
  <2>9. QED
    BY <2>1, <2>2, <2>3, <2>5, <2>6, <2>7, <2>8
       DEF Next, vars, github, UserPush, Label
<1>3. HeedInv => IgnoredIsLeft
  BY DEF Heeded, IgnoredIsLeft
<1>4. QED
  BY <1>1, <1>2, <1>3, TypeCorrect, PTL DEF Spec

\* Nothing is amended where no configuration says squash.
NoSquash ==
  origin # "squash" =>
    /\ ~tagged /\ ~lost
    /\ \A r \in Run : ~build[r].tagged /\ build[r].stage # "amended"

\* Without "squash: true" no commit of a person is overwritten
\* (commit-post-processor-update.ts:141-168).
THEOREM CommitsAreKept == Spec => []UserCommitsKept
<1>1. Init => NoSquash
  <2>1. NoBuild.tagged = FALSE /\ NoBuild.stage = "none"
    BY DEF NoBuild
  <2>2. ASSUME Init, origin # "squash" PROVE ~tagged /\ ~lost
    BY <2>2 DEF Init
  <2>3. ASSUME Init, NEW r \in Run PROVE build[r] = NoBuild
    BY <2>3 DEF Init
  <2>4. QED
    BY <2>1, <2>2, <2>3 DEF NoSquash
<1>2. TypeOK /\ NoSquash /\ [Next]_vars => NoSquash'
  <2> SUFFICES ASSUME TypeOK, NoSquash, [Next]_vars PROVE NoSquash'
    OBVIOUS
  <2>1. UNCHANGED origin
    BY DEF Next, vars, github, commits, UserPush, Ignore, Label, Start, RunStep, LastCommit, AcquireLock,
           HasOwlBotLoop, GetPullRequest, RunBuildTrigger, WaitForBuild, GetPullRequestAgain,
           ListFiles, ClosePullRequest, DeleteRef, ReleaseLock, BuildStep, BuildEnds, Clone,
           CommitUpdate, ForcePush, Pull, Push, Pushed, Return, Fault, Die, Redeliver,
           AcquireTimesOut, RunThrows, ReleaseFails, LeaseExpires
  <2> SUFFICES ASSUME origin # "squash" PROVE NoSquash'
    BY <2>1 DEF NoSquash
  <2> /\ ~tagged /\ ~lost
      /\ \A r \in Run : ~build[r].tagged /\ build[r].stage # "amended"
    BY DEF NoSquash
  <2>2. CASE UNCHANGED <<tagged, lost, build>>
    BY <2>2 DEF NoSquash
  <2>3. ASSUME UNCHANGED <<tagged, lost>>, NEW r \in Run, NEW b, Build(r, b),
               ~b.tagged, b.stage # "amended"
        PROVE  NoSquash'
    BY <2>3 DEF NoSquash, Build, TypeOK
  <2>4. CASE UserPush
    BY <2>4 DEF UserPush, NoSquash
  <2>5. ASSUME NEW r \in Run, RunStep(r) PROVE NoSquash'
    <3>1. CASE RunBuildTrigger(r)
      <4> DEFINE b == [NoBuild EXCEPT !.stage = "queued", !.asked = (run[r].trigger.by = "human")]
      <4>1. ~b.tagged /\ b.stage # "amended"
        BY DEF NoBuild
      <4>2. Build(r, b) /\ UNCHANGED <<tagged, lost>>
        BY <3>1 DEF RunBuildTrigger, github, commits, history
      <4> HIDE DEF b
      <4>3. QED
        BY <2>3, <4>1, <4>2
    <3>2. CASE ~RunBuildTrigger(r)
      BY <2>2, <2>5, <3>2
         DEF RunStep, LastCommit, AcquireLock, HasOwlBotLoop, GetPullRequest, WaitForBuild,
             GetPullRequestAgain, ListFiles, ClosePullRequest, DeleteRef, ReleaseLock,
             github, commits, history
    <3>3. QED
      BY <3>1, <3>2
  <2>6. ASSUME NEW r \in Run, BuildStep(r) PROVE NoSquash'
    <3>0. build[r] \in BuildState
      BY DEF TypeOK
    <3>1. CASE BuildEnds(r)
      BY <2>3, <3>1 DEF BuildEnds, NoBuild, github, commits, history
    <3>2. CASE Clone(r)
      <4> DEFINE b == [build[r] EXCEPT !.stage = "cloned", !.base = head, !.tagged = tagged]
      <4>1. ~b.tagged /\ b.stage # "amended"
        BY <3>0 DEF BuildState
      <4>2. Build(r, b) /\ UNCHANGED <<tagged, lost>>
        BY <3>2 DEF Clone, github, commits, history
      <4> HIDE DEF b
      <4>3. QED
        BY <2>3, <4>1, <4>2
    <3>3. CASE CommitUpdate(r)
      <4>1. Build(r, [build[r] EXCEPT !.stage = "committed"]) /\ UNCHANGED <<tagged, lost>>
        BY <3>3 DEF CommitUpdate, github, commits, history
      <4>2. QED
        BY <2>3, <3>0, <4>1 DEF BuildState
    <3>4. CASE ForcePush(r)
      BY <3>4 DEF ForcePush, InStage
    <3>5. CASE Pull(r)
      <4> DEFINE b == [build[r] EXCEPT !.stage = "pulled", !.base = head,
                                  !.merged = build[r].base # head]
      <4>1. ~b.tagged /\ b.stage # "amended"
        BY <3>0 DEF BuildState
      <4>2. Build(r, b) /\ UNCHANGED <<tagged, lost>>
        BY <3>5 DEF Pull, github, commits, history
      <4> HIDE DEF b
      <4>3. QED
        BY <2>3, <4>1, <4>2
    <3>6. CASE Push(r)
      <4>1. ~tagged' /\ UNCHANGED lost /\ Build(r, NoBuild)
        BY <3>6 DEF Push, Pushed
      <4>2. QED
        BY <4>1 DEF NoSquash, Build, NoBuild, TypeOK
    <3>7. QED
      BY <2>6, <3>1, <3>2, <3>3, <3>4, <3>5, <3>6 DEF BuildStep
  <2>7. QED
    BY <2>2, <2>4, <2>5, <2>6
       DEF Next, vars, github, commits, history, Ignore, Label, Start, Fault, Die, Redeliver,
           AcquireTimesOut, RunThrows, ReleaseFails, LeaseExpires
<1>3. NoSquash => UserCommitsKept
  BY DEF NoSquash, UserCommitsKept
<1>4. QED
  BY <1>1, <1>2, <1>3, TypeCorrect, PTL DEF Spec

=============================================================================
