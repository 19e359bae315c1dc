-------------------------- MODULE OwlBotJobsProofs --------------------------
(***************************************************************************)
(* owl-bot's store of configurations and its updates of lock files, for    *)
(* any number of repositories, refreshes, images and builds; and its jobs  *)
(* that copy code, for any number of jobs, configuration files, commits    *)
(* and failures.                                                           *)
(***************************************************************************)
EXTENDS OwlBotJobs, FiniteSetTheorems, SequenceTheorems, WellFoundedInduction, TLAPS

USE ConfigsAssumption

----------------------------------------------------------------------------
(* The store of configurations. *)

\* Where a refresh has got to is consistent with the branch, which only grows:
\* the document it read is not newer than the branch, and the commit it is going
\* to store is newer than that document.
RefreshInOrder(x) ==
  /\ x.pc \in {"configs", "branch", "store", "issue"} => x.repo \in Repo
  /\ x.pc \in {"branch", "store"} => x.seen <= Tip(x.repo)
  /\ x.pc = "store" => x.seen < x.commit /\ x.commit <= Tip(x.repo)

ConfigsInOrder ==
  /\ \A r \in Repo : Tip(r) >= 1 /\ store[r].commit <= Tip(r)
  /\ \A p \in Refresher : RefreshInOrder(refresh[p])

ConfigsInv == ConfigsTypeOK /\ ConfigsInOrder

\* A refresh that is not under way.
LEMMA RestingTyped ==
  /\ Resting \in RefreshState /\ RefreshInOrder(Resting)
  /\ \A S \in SUBSET Repo : Scanning(S) \in RefreshState /\ RefreshInOrder(Scanning(S))
  /\ \A r \in Repo : LET x == [Resting EXCEPT !.pc = "configs", !.repo = r]
                     IN  x \in RefreshState /\ RefreshInOrder(x)
<1>1. Resting \in RefreshState /\ RefreshInOrder(Resting)
  BY DEF Resting, RefreshState, RefreshPc, RefreshInOrder
<1>2. ASSUME NEW x \in RefreshState, NEW S \in SUBSET Repo
      PROVE  LET y == [x EXCEPT !.pc = "next", !.scan = TRUE, !.todo = S]
             IN  y \in RefreshState /\ RefreshInOrder(y)
  BY DEF RefreshState, RefreshPc, RefreshInOrder
<1>3. ASSUME NEW x \in RefreshState, NEW r \in Repo
      PROVE  LET y == [x EXCEPT !.pc = "configs", !.repo = r]
             IN  y \in RefreshState /\ RefreshInOrder(y)
  BY DEF RefreshState, RefreshPc, RefreshInOrder
<1>4. QED
  BY <1>1, <1>2, <1>3 DEF Scanning

\* What the end of a repository leaves of a refresh.
LEMMA DoneTyped ==
  ASSUME ConfigsInv, NEW p \in Refresher, Done(p), UNCHANGED commits
  PROVE  refresh' \in [Refresher -> RefreshState] /\ \A q \in Refresher : RefreshInOrder(refresh[q])'
<1>1. refresh[p].todo \in SUBSET Repo
  BY DEF ConfigsInv, ConfigsTypeOK, RefreshState
<1>2. PICK x \in RefreshState : refresh' = [refresh EXCEPT ![p] = x] /\ RefreshInOrder(x)
  BY <1>1, RestingTyped DEF Done
<1>3. QED
  BY <1>2 DEF ConfigsInv, ConfigsTypeOK, ConfigsInOrder, RefreshInOrder, Tip

\* A refresh goes on with x, and the branches are what they were.
LEMMA RefreshTyped ==
  ASSUME ConfigsInv, NEW p \in Refresher, NEW x \in RefreshState, RefreshInOrder(x),
         refresh' = [refresh EXCEPT ![p] = x], UNCHANGED commits
  PROVE  refresh' \in [Refresher -> RefreshState] /\ \A q \in Refresher : RefreshInOrder(refresh[q])'
BY DEF ConfigsInv, ConfigsTypeOK, ConfigsInOrder, RefreshInOrder, Tip

\* A commit lands.
LEMMA LandTyped ==
  ASSUME ConfigsInv, NEW r \in Repo, NEW c \in Content, Land(r, c)
  PROVE  /\ commits' \in [Repo -> Seq(Content)]
         /\ \A q \in Repo : Len(commits'[q]) \in Nat /\ Len(commits'[q]) <= MaxCommits
         /\ \A q \in Repo : Tip(q) <= Tip(q)' /\ Tip(q)' >= 1
<1>1. Len(commits[r]) \in Nat /\ Append(commits[r], c) \in Seq(Content) /\ Len(Append(commits[r], c)) = Len(commits[r]) + 1
  BY DEF ConfigsInv, ConfigsTypeOK
<1>2. commits' = [commits EXCEPT ![r] = Append(commits[r], c)] /\ Len(commits[r]) < MaxCommits
  BY DEF Land, Tip
<1>3. \A q \in Repo : Len(commits[q]) \in Nat /\ Len(commits[q]) >= 1 /\ Len(commits[q]) <= MaxCommits
  BY DEF ConfigsInv, ConfigsTypeOK, ConfigsInOrder, Tip
<1>4. QED
  BY <1>1, <1>2, <1>3 DEF ConfigsInv, ConfigsTypeOK, Tip

\* The contents at the head of a branch.
LEMMA LastTyped ==
  ASSUME ConfigsInv, NEW r \in Repo
  PROVE  /\ Last(commits[r]) \in Content
         /\ \A c \in 1 .. Tip(r) : commits[r][c] \in Content
<1>1. commits[r] \in Seq(Content) /\ Len(commits[r]) \in Nat /\ Len(commits[r]) >= 1
  BY DEF ConfigsInv, ConfigsTypeOK, ConfigsInOrder, Tip
<1>2. QED
  BY <1>1 DEF Last, Tip

\* Growing branches leave everything in order.
LEMMA GrowthKeepsOrder ==
  ASSUME ConfigsInv, UNCHANGED <<store, refresh>>, 
         \A q \in Repo : Tip(q)' \in Nat /\ Tip(q) <= Tip(q)' /\ Tip(q)' >= 1
  PROVE  ConfigsInOrder'
<1>1. \A q \in Repo : Tip(q) \in Nat /\ store[q].commit \in Nat
  BY DEF ConfigsInv, ConfigsTypeOK, Tip, Configs
<1>2. ASSUME NEW p \in Refresher
      PROVE  RefreshInOrder(refresh[p])'
  <2>1. refresh[p].seen \in Nat /\ refresh[p].commit \in Nat /\ RefreshInOrder(refresh[p])
    BY DEF ConfigsInv, ConfigsTypeOK, ConfigsInOrder, RefreshState
  <2>2. QED
    BY <1>1, <2>1 DEF RefreshInOrder
<1>3. QED
  BY <1>1, <1>2 DEF ConfigsInv, ConfigsInOrder

\* A fault is counted.
LEMMA FaultTyped ==
  ASSUME faults \in 0 .. MaxFaults, Fault
  PROVE  faults' \in 0 .. MaxFaults
BY DEF Fault

\* Pushes and the cron keep the invariant of the stored configurations.
LEMMA PeopleKeepConfigs ==
  ASSUME ConfigsInv, NEW r \in Repo, UserCommit(r) \/ Archive(r)
  PROVE  ConfigsInv'
<1>1. CASE UserCommit(r)
  <2>1. PICK bad \in BOOLEAN, event \in BOOLEAN :
          /\ Land(r, [Last(commits[r]) EXCEPT !.bad = bad])
          /\ closed' = IF event THEN closed \cup {r} ELSE closed
    BY <1>1 DEF UserCommit
  <2>2. [Last(commits[r]) EXCEPT !.bad = bad] \in Content
    BY LastTyped DEF Content
  <2>3. ConfigsTypeOK'
    BY <1>1, <2>1, <2>2, LandTyped, FaultTyped DEF UserCommit, ConfigsInv, ConfigsTypeOK
  <2>4. ConfigsInOrder'
    BY <1>1, <2>1, <2>2, LandTyped, GrowthKeepsOrder DEF UserCommit, Tip
  <2>5. QED
    BY <2>3, <2>4 DEF ConfigsInv
<1>2. CASE Archive(r)
  <2>1. ConfigsTypeOK'
    BY <1>2, FaultTyped DEF Archive, ConfigsInv, ConfigsTypeOK
  <2>2. \A q \in Repo : Tip(q) \in Nat /\ Tip(q) >= 1 /\ Tip(q)' = Tip(q)
    BY <1>2 DEF Archive, ConfigsInv, ConfigsTypeOK, ConfigsInOrder, Tip
  <2>3. ConfigsInOrder'
    BY <1>2, <2>2, GrowthKeepsOrder DEF Archive
  <2>4. QED
    BY <2>1, <2>3 DEF ConfigsInv
<1>3. QED
  BY <1>1, <1>2

\* A step of refresh p: it goes on in order, and what it stores is there.
LEMMA StepKeepsConfigs ==
  ASSUME ConfigsInv, UNCHANGED commits,
         refresh' \in [Refresher -> RefreshState], \A q \in Refresher : RefreshInOrder(refresh[q])',
         store' \in [Repo -> Configs], \A r \in Repo : store'[r].commit <= Tip(r),
         archived' \subseteq Repo, issues' \subseteq Repo, closed' \subseteq Repo, clearing' \subseteq Repo,
         faults' \in 0 .. MaxFaults
  PROVE  ConfigsInv'
BY DEF ConfigsInv, ConfigsTypeOK, ConfigsInOrder, Tip

\* So do the steps of a refresh.
LEMMA RefreshKeepsConfigs ==
  ASSUME ConfigsInv, NEW p \in Refresher, Refreshes(p)
  PROVE  ConfigsInv'
<1> USE DEF ConfigsInv
<1>0. /\ refresh[p] \in RefreshState /\ RefreshInOrder(refresh[p])
      /\ archived \subseteq Repo /\ issues \subseteq Repo /\ closed \subseteq Repo /\ clearing \subseteq Repo
      /\ store \in [Repo -> Configs] /\ \A r \in Repo : store[r].commit <= Tip(r)
      /\ faults \in 0 .. MaxFaults
  BY DEF ConfigsTypeOK, ConfigsInOrder
<1>1. ASSUME NEW r \in Repo, PullRequestClosed(p, r)
      PROVE  ConfigsInv'
  <2>1. refresh' = [refresh EXCEPT ![p] = [Resting EXCEPT !.pc = "configs", !.repo = r]] /\ UNCHANGED commits
    BY <1>1 DEF PullRequestClosed
  <2>2. refresh' \in [Refresher -> RefreshState] /\ \A q \in Refresher : RefreshInOrder(refresh[q])'
    BY <2>1, RestingTyped, RefreshTyped
  <2>3. QED
    BY <1>0, <1>1, <2>2, StepKeepsConfigs DEF PullRequestClosed
<1>2. CASE ScanGithubForConfigs(p)
  <2>1. refresh' \in [Refresher -> RefreshState] /\ \A q \in Refresher : RefreshInOrder(refresh[q])'
    BY <1>2, RestingTyped, RefreshTyped DEF ScanGithubForConfigs
  <2>2. QED
    BY <1>0, <1>2, <2>1, StepKeepsConfigs DEF ScanGithubForConfigs
<1>3. ASSUME NEW r \in Repo, NextRepo(p, r)
      PROVE  ConfigsInv'
  <2>1. LET x == [refresh[p] EXCEPT !.todo = @ \ {r}]
            y == [refresh[p] EXCEPT !.pc = "configs", !.todo = @ \ {r}, !.repo = r]
        IN  /\ x \in RefreshState /\ (refresh[p].pc = "next" => RefreshInOrder(x))
            /\ y \in RefreshState /\ RefreshInOrder(y)
    BY <1>0 DEF RefreshState, RefreshPc, RefreshInOrder
  <2>2. refresh' = [refresh EXCEPT ![p] = IF r \in archived THEN [refresh[p] EXCEPT !.todo = @ \ {r}]
                      ELSE [refresh[p] EXCEPT !.pc = "configs", !.todo = @ \ {r}, !.repo = r]]
    BY <1>0, <1>3 DEF NextRepo, ConfigsTypeOK
  <2>3. refresh' \in [Refresher -> RefreshState] /\ \A q \in Refresher : RefreshInOrder(refresh[q])'
    <3>1. CASE r \in archived
      BY <1>3, <2>1, <2>2, <3>1, RefreshTyped DEF NextRepo
    <3>2. CASE r \notin archived
      BY <1>3, <2>1, <2>2, <3>2, RefreshTyped DEF NextRepo
    <3>3. QED
      BY <3>1, <3>2
  <2>4. QED
    BY <1>0, <1>3, <2>3, StepKeepsConfigs DEF NextRepo
<1>4. CASE ScanDone(p)
  <2>1. refresh' \in [Refresher -> RefreshState] /\ \A q \in Refresher : RefreshInOrder(refresh[q])'
    BY <1>4, RestingTyped, RefreshTyped DEF ScanDone
  <2>2. QED
    BY <1>0, <1>4, <2>1, StepKeepsConfigs DEF ScanDone
<1>5. CASE GetConfigs(p)
  <2>1. LET x == [refresh[p] EXCEPT !.pc = "branch", !.seen = store[refresh[p].repo].commit]
        IN  refresh' = [refresh EXCEPT ![p] = x] /\ x \in RefreshState /\ RefreshInOrder(x)
    BY <1>0, <1>5 DEF GetConfigs, RefreshState, RefreshPc, RefreshInOrder, Configs, ConfigsTypeOK
  <2>2. refresh' \in [Refresher -> RefreshState] /\ \A q \in Refresher : RefreshInOrder(refresh[q])'
    BY <1>5, <2>1, RefreshTyped DEF GetConfigs
  <2>3. QED
    BY <1>0, <1>5, <2>2, StepKeepsConfigs DEF GetConfigs
<1>6. CASE GetBranch(p)
  <2>1. refresh' \in [Refresher -> RefreshState] /\ \A q \in Refresher : RefreshInOrder(refresh[q])'
    <3>1. CASE Tip(refresh[p].repo) = refresh[p].seen
      BY <1>6, <3>1, DoneTyped DEF GetBranch
    <3>2. CASE Tip(refresh[p].repo) # refresh[p].seen
      <4>1. refresh[p].repo \in Repo /\ refresh[p].seen \in Nat /\ refresh[p].seen <= Tip(refresh[p].repo)
        BY <1>0, <1>6 DEF GetBranch, RefreshInOrder, RefreshState
      <4>2. PICK head \in 0 .. MaxCommits : head = Tip(refresh[p].repo)
        BY <4>1 DEF ConfigsTypeOK, Tip
      <4> DEFINE x == [refresh[p] EXCEPT !.pc = "store", !.commit = head]
      <4>3. x \in RefreshState /\ RefreshInOrder(x)
        <5>1. /\ x \in RefreshState
              /\ x.pc = "store" /\ x.repo = refresh[p].repo /\ x.seen = refresh[p].seen /\ x.commit = head
          BY <1>0 DEF RefreshState, RefreshPc
        <5>2. QED
          BY <3>2, <4>1, <4>2, <5>1 DEF RefreshInOrder, Tip
      <4>4. refresh' = [refresh EXCEPT ![p] = [refresh[p] EXCEPT !.pc = "store", !.commit = head]]
        BY <1>0, <1>6, <3>2, <4>2 DEF GetBranch, ConfigsTypeOK
      <4>5. QED
        BY <1>6, <4>3, <4>4, RefreshTyped DEF GetBranch
    <3>3. QED
      BY <3>1, <3>2
  <2>2. QED
    BY <1>0, <1>6, <2>1, StepKeepsConfigs DEF GetBranch
<1>7. CASE StoreConfigs(p)
  <2> DEFINE r == refresh[p].repo
             c == refresh[p].commit
             new == [commit |-> c, lock |-> commits[r][c].lock]
  <2>1. r \in Repo /\ c \in 1 .. Tip(r) /\ c \in 0 .. MaxCommits
    BY <1>0, <1>7 DEF StoreConfigs, RefreshInOrder, RefreshState, ConfigsTypeOK, Tip
  <2>2. new \in Configs /\ new.commit <= Tip(r)
    BY <2>1, LastTyped DEF Configs, Content
  <2>3. store' \in [Repo -> Configs] /\ \A q \in Repo : store'[q].commit <= Tip(q)
    BY <1>0, <1>7, <2>1, <2>2 DEF StoreConfigs
  <2>4. refresh' \in [Refresher -> RefreshState] /\ \A q \in Refresher : RefreshInOrder(refresh[q])'
    <3>1. CASE Done(p)
      BY <1>7, <3>1, DoneTyped DEF StoreConfigs
    <3>2. CASE Goes(p, "issue")
      <4>1. LET x == [refresh[p] EXCEPT !.pc = "issue"]
            IN  refresh' = [refresh EXCEPT ![p] = x] /\ x \in RefreshState /\ RefreshInOrder(x)
        BY <1>0, <2>1, <3>2 DEF Goes, RefreshState, RefreshPc, RefreshInOrder, ConfigsTypeOK
      <4>2. QED
        BY <1>7, <4>1, RefreshTyped DEF StoreConfigs
    <3>3. QED
      BY <1>7, <3>1, <3>2 DEF StoreConfigs
  <2>5. QED
    BY <1>0, <1>7, <2>3, <2>4, StepKeepsConfigs DEF StoreConfigs
<1>8. CASE CreateIssueIfTitleDoesntExist(p)
  <2>1. refresh[p].repo \in Repo
    BY <1>0, <1>8 DEF CreateIssueIfTitleDoesntExist, RefreshInOrder
  <2>2. QED
    BY <1>0, <1>8, <2>1, DoneTyped, StepKeepsConfigs DEF CreateIssueIfTitleDoesntExist
<1>9. CASE RefreshFails(p)
  <2>1. refresh[p].repo \in Repo
    BY <1>0, <1>9 DEF RefreshFails, RefreshInOrder
  <2>2. refresh' \in [Refresher -> RefreshState] /\ \A q \in Refresher : RefreshInOrder(refresh[q])'
    BY <1>9, DoneTyped, RestingTyped, RefreshTyped DEF RefreshFails
  <2>3. QED
    BY <1>0, <1>9, <2>1, <2>2, FaultTyped, StepKeepsConfigs DEF RefreshFails
<1>10. QED
  BY <1>1, <1>2, <1>3, <1>4, <1>5, <1>6, <1>7, <1>8, <1>9 DEF Refreshes, RefreshStep

\* So does forgetting the configuration of a repository.
LEMMA ClearKeepsConfigs ==
  ASSUME ConfigsInv, NEW r \in Repo, ClearConfigs(r)
  PROVE  ConfigsInv'
<1>1. NoConfigs \in Configs /\ NoConfigs.commit = 0
  BY DEF NoConfigs, Configs
<1>2. \A q \in Repo : Tip(q) \in Nat
  BY DEF ConfigsInv, ConfigsTypeOK, Tip
<1>3. store' \in [Repo -> Configs] /\ \A q \in Repo : store'[q].commit <= Tip(q)
  BY <1>1, <1>2 DEF ClearConfigs, ConfigsInv, ConfigsTypeOK, ConfigsInOrder
<1>4. \A q \in Refresher : RefreshInOrder(refresh[q])'
  BY DEF ClearConfigs, ConfigsInv, ConfigsInOrder, RefreshInOrder, Tip
<1>5. QED
  BY <1>3, <1>4, StepKeepsConfigs DEF ClearConfigs, ConfigsInv, ConfigsTypeOK

\* So does every step.
LEMMA ConfigsNextKeepsInv ==
  ASSUME ConfigsInv, ConfigsNext
  PROVE  ConfigsInv'
BY PeopleKeepConfigs, ClearKeepsConfigs, RefreshKeepsConfigs DEF ConfigsNext

----------------------------------------------------------------------------
(* The builds of an image: how often a build is tried. *)

\* A group's builds by one of the triggers.
Attempts(g, forced) == {b \in DOMAIN builds : builds[b].group = g /\ builds[b].forced = forced}
Of(b) == Attempts(builds[b].group, builds[b].forced)
IsNewest(b) == \A c \in Of(b) : c <= b
AllFailed(g, forced) == \A b \in Attempts(g, forced) : builds[b].status = "failure"

\* Builds are listed in the order of their creation, by groups that are named
\* for their first build.
BuildsInOrder ==
  \A b \in DOMAIN builds :
    /\ builds[b].group <= b /\ builds[b].at <= time
    /\ \A c \in b .. Len(builds) : builds[b].at <= builds[c].at
    /\ ~ Ended(b) => builds[b].at = time

\* A build is tried again only when it has failed, and by the forcing trigger
\* only after the other one had its tries.
TriedInTurn ==
  \A b, c \in DOMAIN builds :
    /\ (c \in Of(b) /\ b < c) => builds[b].status = "failure"
    /\ (builds[b].group = builds[c].group /\ ~ builds[b].forced /\ builds[c].forced) =>
         b < c /\ Tries(builds[b].group, builds[b].forced) >= MaxTries

\* From a try to the next one takes a day at most.
TriedDaily ==
  \A b, c \in DOMAIN builds :
    c \in Of(b) => builds[c].at + 1 <= builds[b].at + Tries(builds[b].group, builds[b].forced)

\* The forcing trigger has not been at b's group.
Unforced(b) == \A c \in DOMAIN builds : builds[c].group = builds[b].group => ~ builds[c].forced

\* Build b is the next to be tried again.
IsDue(b) ==
  /\ IsNewest(b) /\ AllFailed(builds[b].group, builds[b].forced)
  /\ IF builds[b].forced THEN Tries(builds[b].group, builds[b].forced) < MaxTries ELSE Unforced(b)
Due(b) == IsDue(b) /\ Elapsed(b) <= Recent

\* Whom the job has picked, and when.
PickedRight(x) ==
  /\ x[1] \in DOMAIN builds
  /\ IsDue(x[1]) /\ time <= builds[x[1]].at + 1
  /\ ~ x[2] => Tries(builds[x[1]].group, builds[x[1]].forced) < MaxTries
  /\ x[2] => ~ builds[x[1]].forced /\ Tries(builds[x[1]].group, builds[x[1]].forced) >= MaxTries

\* What the job is going to start again is still to be.
PickedAreDue == \A x \in rebuilds : PickedRight(x)

\* The job has gone through all builds of the days before when it is done with a
\* day, and none of an earlier one is left.
NoneIsLate ==
  \A b \in DOMAIN builds : Due(b) =>
    /\ time <= builds[b].at + 1
    /\ scanned => builds[b].at = time
    /\ rebuilds # {} => builds[b].at = time \/ \E x \in rebuilds : x[1] = b

TriesInv ==
  /\ BuildsInOrder /\ TriedInTurn /\ TriedDaily /\ PickedAreDue /\ NoneIsLate
  /\ TriesBounded

\* The library's well-founded induction, for the least and the greatest number of a set.
Below == {ss \in Nat \X Nat : ss[1] < ss[2]}

\* Some numbers have a least one.
LEMMA Least ==
  ASSUME NEW S \in SUBSET Nat, S # {}
  PROVE  \E m \in S : \A x \in S : m <= x
<1>1. IsWellFoundedOn(Below, Nat)
  BY NatLessThanWellFounded, Zenon DEF OpToRel, Below
<1>2. PICK m \in S : \A x \in S : ~ (<<x, m>> \in Below)
  BY <1>1, WFMin
<1>3. ASSUME NEW x \in S PROVE m <= x
  <2>1. x \in Nat /\ m \in Nat /\ <<x, m>> \notin Below
    BY <1>2
  <2>2. <<x, m>> \in Nat \X Nat /\ <<x, m>>[1] = x /\ <<x, m>>[2] = m
    BY <2>1
  <2>3. ~ (x < m)
    BY <2>1, <2>2, Zenon DEF Below
  <2>4. QED
    BY <2>1, <2>3
<1>4. QED
  BY <1>3

\* Numbers up to a bound have a greatest one.
LEMMA Greatest ==
  ASSUME NEW n \in Nat, NEW S \in SUBSET (1 .. n), S # {}
  PROVE  \E m \in S : \A x \in S : x <= m
<1> DEFINE T == {n - x : x \in S}
<1>1. T \in SUBSET Nat /\ T # {}
  <2>1. \A x \in S : n - x \in Nat
    OBVIOUS
  <2>2. QED
    BY <2>1
<1>2. PICK t \in T : \A y \in T : t <= y
  BY <1>1, Least
<1>3. PICK m \in S : t = n - m
  OBVIOUS
<1>4. ASSUME NEW x \in S PROVE x <= m
  <2>1. n - m <= n - x
    BY <1>2, <1>3
  <2>2. QED
    BY <2>1
<1>5. QED
  BY <1>4

\* What the type invariant says of the builds, and how their groups are counted.
LEMMA BuildsTyped ==
  ASSUME LockTypeOK
  PROVE  /\ Len(builds) \in Nat /\ DOMAIN builds = 1 .. Len(builds) /\ time \in Nat
         /\ \A b \in DOMAIN builds :
              /\ builds[b].group \in BuildId /\ builds[b].forced \in BOOLEAN
              /\ builds[b].status \in Status /\ builds[b].at \in Nat
         /\ \A g, forced : /\ Attempts(g, forced) \in SUBSET (1 .. Len(builds))
                           /\ Tries(g, forced) = Cardinality(Attempts(g, forced))
                           /\ Tries(g, forced) \in Nat
<1>1. /\ Len(builds) \in Nat /\ DOMAIN builds = 1 .. Len(builds) /\ time \in Nat
      /\ \A b \in DOMAIN builds : builds[b] \in Build
  BY DEF LockTypeOK
<1>2. \A b \in DOMAIN builds :
        /\ builds[b].group \in BuildId /\ builds[b].forced \in BOOLEAN
        /\ builds[b].status \in Status /\ builds[b].at \in Nat
  BY <1>1 DEF Build
<1>3. ASSUME NEW g, NEW forced
      PROVE  /\ Attempts(g, forced) \in SUBSET (1 .. Len(builds))
             /\ Tries(g, forced) = Cardinality(Attempts(g, forced))
             /\ Tries(g, forced) \in Nat
  <2>1. Attempts(g, forced) \in SUBSET (1 .. Len(builds)) /\ Tries(g, forced) = Cardinality(Attempts(g, forced))
    BY <1>1 DEF Attempts, Tries
  <2>2. IsFiniteSet(1 .. Len(builds))
    BY <1>1, FS_Interval
  <2>3. IsFiniteSet(Attempts(g, forced))
    BY <2>1, <2>2, FS_Subset
  <2>4. QED
    BY <2>1, <2>3, FS_CardinalityType
<1>4. QED
  BY <1>1, <1>2, <1>3

\* A group whose builds failed has one to be tried again at most, by one of the triggers.
LEMMA PickedOnce ==
  ASSUME LockTypeOK, rebuilds \subseteq BuildId \X BOOLEAN, PickedAreDue,
         NEW x \in rebuilds, NEW y \in rebuilds, builds[x[1]].group = builds[y[1]].group
  PROVE  x = y
<1>1. /\ x \in BuildId \X BOOLEAN /\ y \in BuildId \X BOOLEAN
      /\ x[1] \in DOMAIN builds /\ y[1] \in DOMAIN builds /\ PickedRight(x) /\ PickedRight(y)
  BY DEF PickedAreDue, PickedRight
<1>2. builds[x[1]].forced = builds[y[1]].forced
  <2>1. builds[x[1]].forced \in BOOLEAN /\ builds[y[1]].forced \in BOOLEAN
    BY <1>1, BuildsTyped
  <2>2. /\ ~ builds[x[1]].forced => ~ builds[y[1]].forced
        /\ ~ builds[y[1]].forced => ~ builds[x[1]].forced
    BY <1>1 DEF PickedRight, IsDue, Unforced
  <2>3. QED
    BY <2>1, <2>2
<1>3. x[1] = y[1]
  <2>1. Of(x[1]) = Of(y[1]) /\ x[1] \in Of(x[1]) /\ y[1] \in Of(y[1])
    BY <1>1, <1>2 DEF Of, Attempts
  <2>2. x[1] <= y[1] /\ y[1] <= x[1]
    BY <1>1, <2>1 DEF PickedRight, IsDue, IsNewest
  <2>3. QED
    BY <1>1, <2>2 DEF BuildId
<1>4. x[2] = y[2]
  <2>1. Tries(builds[x[1]].group, builds[x[1]].forced) \in Nat /\ MaxTries \in Nat
    BY BuildsTyped, LockUpdateAssumption
  <2>2. x[2] \in BOOLEAN /\ y[2] \in BOOLEAN
    BY <1>1
  <2>3. QED
    BY <1>1, <1>3, <2>1, <2>2 DEF PickedRight
<1>5. QED
  BY <1>1, <1>3, <1>4

\* A build goes on or ends: only one that has not ended does, and that is the newest
\* of its group, created today.
LEMMA GoingKeepsTries ==
  ASSUME LockTypeOK, TriesInv, NEW b \in DOMAIN builds, ~ Ended(b), NEW status \in Status,
         BuildGoes(b, status)
  PROVE  TriesInv'
<1> USE DEF BuildGoes
<1>1. /\ builds' = [builds EXCEPT ![b].status = status] /\ UNCHANGED <<rebuilds, scanned, time>>
      /\ builds \in Seq(Build)
  BY DEF LockTypeOK
<1>2. /\ DOMAIN builds' = DOMAIN builds /\ Len(builds') = Len(builds)
      /\ \A c \in DOMAIN builds : /\ builds'[c].group = builds[c].group /\ builds'[c].forced = builds[c].forced
                                  /\ builds'[c].at = builds[c].at
                                  /\ c # b => builds'[c].status = builds[c].status
  <2>1. builds[b] \in Build
    BY <1>1
  <2>2. [builds[b] EXCEPT !.status = status].group = builds[b].group /\ [builds[b] EXCEPT !.status = status].forced = builds[b].forced
        /\ [builds[b] EXCEPT !.status = status].at = builds[b].at
    BY <2>1 DEF Build
  <2>3. builds' = [builds EXCEPT ![b] = [builds[b] EXCEPT !.status = status]]
    BY <1>1
  <2>4. QED
    BY <1>1, <2>2, <2>3
<1>3. /\ \A g, forced : Attempts(g, forced)' = Attempts(g, forced) /\ Tries(g, forced)' = Tries(g, forced)
      /\ \A c \in DOMAIN builds : Of(c)' = Of(c) /\ (IsNewest(c)' <=> IsNewest(c)) /\ Elapsed(c)' = Elapsed(c)
  <2>1. \A g, forced : Attempts(g, forced)' = Attempts(g, forced)
    BY <1>2 DEF Attempts
  <2>2. \A g, forced : Tries(g, forced)' = Tries(g, forced)
    BY <1>2 DEF Tries
  <2>3. \A c \in DOMAIN builds : Of(c)' = Of(c)
    BY <1>2, <2>1 DEF Of
  <2>4. \A c \in DOMAIN builds : Elapsed(c)' = Elapsed(c)
    <3>1. Len(builds) \in Nat /\ DOMAIN builds = 1 .. Len(builds) /\ b \in DOMAIN builds
      BY BuildsTyped
    <3>2. Len(builds) \in DOMAIN builds
      BY <3>1
    <3>3. QED
      BY <1>2, <3>2 DEF Elapsed, Last
  <2>5. \A c \in DOMAIN builds : IsNewest(c)' <=> IsNewest(c)
    BY <2>3 DEF IsNewest
  <2>6. QED
    BY <2>1, <2>2, <2>3, <2>4, <2>5
<1>4. \A c \in DOMAIN builds : Unforced(c)' <=> Unforced(c)
  BY <1>2 DEF Unforced
<1>5. builds[b].status # "failure" /\ builds[b].at = time /\ \A c \in Of(b) : c <= b
  <2>1. builds[b].status # "failure" /\ builds[b].at = time
    BY DEF Ended, TriesInv, BuildsInOrder
  <2>2. \A c \in Of(b) : c \in DOMAIN builds /\ ~ (b < c)
    BY <2>1 DEF Of, Attempts, TriesInv, TriedInTurn
  <2>3. QED
    BY <2>1, <2>2, BuildsTyped
<1>6. \A c \in DOMAIN builds : ~ Ended(c)' => builds[c].at = time
  BY <1>2, <1>5 DEF Ended, TriesInv, BuildsInOrder
<1>7. BuildsInOrder'
  BY <1>1, <1>2, <1>6 DEF BuildsInOrder, TriesInv
<1>8. TriedInTurn'
  BY <1>2, <1>3, <1>5 DEF TriedInTurn, TriesInv
<1>9. TriedDaily'
  BY <1>2, <1>3 DEF TriedDaily, TriesInv
<1>10. \A c \in DOMAIN builds : IsDue(c) => b \notin Of(c) /\ IsDue(c)'
  <2>1. ASSUME NEW c \in DOMAIN builds, IsDue(c) PROVE b \notin Of(c) /\ IsDue(c)'
    <3>1. b \notin Of(c)
      BY <1>5, <2>1 DEF IsDue, AllFailed, Of
    <3>2. \A a \in Of(c) : a \in DOMAIN builds /\ a # b /\ builds[a].status = "failure"
      BY <2>1, <3>1 DEF IsDue, AllFailed, Of, Attempts
    <3>3. AllFailed(builds[c].group, builds[c].forced)'
      BY <1>2, <1>3, <3>2 DEF AllFailed, Of
    <3>4. QED
      BY <1>2, <1>3, <1>4, <2>1, <3>1, <3>3 DEF IsDue
  <2>2. QED
    BY <2>1
<1>11. PickedAreDue'
  BY <1>1, <1>2, <1>3, <1>10 DEF PickedAreDue, PickedRight, TriesInv
<1>12. NoneIsLate'
  <2>1. ASSUME NEW c \in DOMAIN builds, Due(c)', b \in Of(c)
        PROVE  c = b
    <3>1. c \in Of(b) /\ c \in Nat /\ b \in Nat
      BY <2>1, BuildsTyped DEF Of, Attempts
    <3>2. IsNewest(c)
      BY <1>3, <2>1 DEF Due, IsDue
    <3>3. QED
      BY <1>5, <2>1, <3>1, <3>2 DEF IsNewest
  <2>2. ASSUME NEW c \in DOMAIN builds, Due(c)', b \notin Of(c)
        PROVE  Due(c)
    <3>1. \A a \in Of(c) : a \in DOMAIN builds /\ a # b /\ builds'[a].status = "failure"
      BY <1>2, <1>3, <2>2 DEF Due, IsDue, AllFailed, Of, Attempts
    <3>2. AllFailed(builds[c].group, builds[c].forced)
      BY <1>2, <3>1 DEF AllFailed, Of
    <3>3. QED
      BY <1>2, <1>3, <1>4, <2>2, <3>2 DEF Due, IsDue
  <2>3. time \in Nat
    BY BuildsTyped
  <2>4. QED
    BY <1>1, <1>2, <1>5, <2>1, <2>2, <2>3 DEF NoneIsLate, TriesInv
<1>13. TriesBounded'
  BY <1>3 DEF TriesBounded, TriesInv
<1>14. QED
  BY <1>7, <1>8, <1>9, <1>11, <1>12, <1>13 DEF TriesInv

\* A new build joins its group, and the others keep theirs.
LEMMA NewBuild ==
  ASSUME LockTypeOK, TriesInv, NEW r \in Repo, NEW d \in Digest, NEW g \in BuildId, NEW forced \in BOOLEAN,
         RunBuild(r, d, g, forced), UNCHANGED time
  PROVE  LET n == Len(builds) + 1
         IN  /\ builds' \in Seq(Build) /\ Len(builds') = n /\ n <= MaxBuilds /\ DOMAIN builds' = 1 .. n
             /\ \A b \in DOMAIN builds : b \in DOMAIN builds' /\ b < n /\ builds'[b] = builds[b]
             /\ builds'[n].group = g /\ builds'[n].forced = forced
             /\ builds'[n].status = "queued" /\ builds'[n].at = time
             /\ \A h, f : Attempts(h, f)' = IF h = g /\ f = forced THEN Attempts(h, f) \cup {n} ELSE Attempts(h, f)
             /\ \A h, f : Tries(h, f)' = IF h = g /\ f = forced THEN Tries(h, f) + 1 ELSE Tries(h, f)
             /\ \A b \in DOMAIN builds : Elapsed(b) <= Elapsed(b)'
<1> DEFINE n == Len(builds) + 1
           e == [repo |-> r, digest |-> d, group |-> g, forced |-> forced, status |-> "queued", at |-> time]
<1>1. e \in Build
  BY DEF Build, Status, LockTypeOK
<1>2. /\ builds \in Seq(Build) /\ Len(builds) \in Nat /\ Len(builds) < MaxBuilds /\ MaxBuilds \in Nat
      /\ builds' = Append(builds, e)
  BY LockUpdateAssumption DEF LockTypeOK, RunBuild
<1>3. /\ builds' \in Seq(Build) /\ Len(builds') = n /\ n <= MaxBuilds /\ DOMAIN builds' = 1 .. n
      /\ DOMAIN builds = 1 .. Len(builds)
      /\ \A b \in DOMAIN builds : b \in DOMAIN builds' /\ b < n /\ builds'[b] = builds[b]
      /\ builds'[n] = e /\ n \in DOMAIN builds' /\ n \notin DOMAIN builds
  BY <1>1, <1>2
<1>4. /\ builds'[n].group = g /\ builds'[n].forced = forced
      /\ builds'[n].status = "queued" /\ builds'[n].at = time
  BY <1>3
<1>5. \A h, f : Attempts(h, f)' = IF h = g /\ f = forced THEN Attempts(h, f) \cup {n} ELSE Attempts(h, f)
  <2>1. DOMAIN builds' = DOMAIN builds \cup {n}
    BY <1>2, <1>3
  <2>2. QED
    BY <1>3, <1>4, <2>1 DEF Attempts
<1>6. \A h, f : Tries(h, f)' = IF h = g /\ f = forced THEN Tries(h, f) + 1 ELSE Tries(h, f)
  <2>1. ASSUME NEW h, NEW f
        PROVE  Tries(h, f)' = IF h = g /\ f = forced THEN Tries(h, f) + 1 ELSE Tries(h, f)
    <3>1. Attempts(h, f) \in SUBSET (1 .. Len(builds)) /\ Tries(h, f) = Cardinality(Attempts(h, f))
      BY BuildsTyped
    <3>2. IsFiniteSet(Attempts(h, f)) /\ n \notin Attempts(h, f)
      <4>1. IsFiniteSet(1 .. Len(builds))
        BY <1>2, FS_Interval
      <4>2. QED
        BY <1>2, <3>1, <4>1, FS_Subset
    <3>3. Tries(h, f)' = Cardinality(Attempts(h, f)')
      BY DEF Tries, Attempts
    <3>4. Cardinality(Attempts(h, f) \cup {n}) = Cardinality(Attempts(h, f)) + 1
      BY <3>2, FS_AddElement
    <3>5. QED
      BY <1>5, <3>1, <3>3, <3>4
  <2>2. QED
    BY <2>1
<1>7. \A b \in DOMAIN builds : Elapsed(b) <= Elapsed(b)'
  <2>1. ASSUME NEW b \in DOMAIN builds PROVE Elapsed(b) <= Elapsed(b)'
    <3>1. Len(builds) \in DOMAIN builds
      BY <1>2, <1>3, <2>1
    <3>2. builds[Len(builds)].at <= time /\ builds[Len(builds)].at \in Nat /\ time \in Nat /\ builds[b].at \in Nat
      BY <3>1, <2>1, BuildsTyped DEF TriesInv, BuildsInOrder
    <3>3. Elapsed(b) = builds[Len(builds)].at - builds[b].at
      BY DEF Elapsed, Last
    <3>4. Elapsed(b)' = time - builds[b].at
      BY <1>3, <1>4, <2>1 DEF Elapsed, Last
    <3>5. QED
      BY <3>2, <3>3, <3>4
  <2>2. QED
    BY <2>1
<1>8. QED
  BY <1>3, <1>4, <1>5, <1>6, <1>7

\* The trigger starts a build with substitutions of its own, a new group.
LEMMA TriggerKeepsTries ==
  ASSUME LockTypeOK, TriesInv, NEW r \in Repo, NEW d \in Digest, NEW no \in BOOLEAN, ~ no,
         RunBuild(r, d, Len(builds) + 1, no), UNCHANGED <<rebuilds, scanned, time>>
  PROVE  TriesInv'
<1>0. PICK n \in Nat : n = Len(builds) + 1
  BY BuildsTyped
<1>1. /\ Len(builds) \in Nat /\ DOMAIN builds = 1 .. Len(builds) /\ time \in Nat /\ MaxTries \in Nat \ {0} /\ MaxBuilds \in Nat
      /\ n \in BuildId
  BY <1>0, BuildsTyped, LockUpdateAssumption DEF RunBuild, BuildId
<1>2. /\ Len(builds') = n /\ DOMAIN builds' = 1 .. n
      /\ \A b \in DOMAIN builds : b \in DOMAIN builds' /\ b < n /\ builds'[b] = builds[b]
      /\ builds'[n].group = n /\ builds'[n].forced = no
      /\ builds'[n].status = "queued" /\ builds'[n].at = time
      /\ \A h, f : Attempts(h, f)' = IF h = n /\ f = no THEN Attempts(h, f) \cup {n} ELSE Attempts(h, f)
      /\ \A h, f : Tries(h, f)' = IF h = n /\ f = no THEN Tries(h, f) + 1 ELSE Tries(h, f)
      /\ \A b \in DOMAIN builds : Elapsed(b) <= Elapsed(b)'
  BY <1>0, <1>1, NewBuild
<1>3. \A f : Attempts(n, f) = {} /\ Tries(n, f) = 0
  <2>1. \A b \in DOMAIN builds : builds[b].group # n
    BY <1>0, <1>1, BuildsTyped DEF TriesInv, BuildsInOrder, BuildId
  <2>2. QED
    BY <2>1, BuildsTyped, FS_EmptySet DEF Attempts
<1>4. \A b \in DOMAIN builds' : b = n \/ b \in DOMAIN builds
  BY <1>0, <1>1, <1>2
<1>5. \A b \in DOMAIN builds : /\ builds[b].group # n /\ n \notin Of(b)
                               /\ Of(b)' = Of(b) /\ (Unforced(b)' <=> Unforced(b))
                               /\ Tries(builds[b].group, builds[b].forced)' = Tries(builds[b].group, builds[b].forced)
  <2>1. \A b \in DOMAIN builds : builds[b].group # n
    BY <1>0, <1>1, BuildsTyped DEF TriesInv, BuildsInOrder, BuildId
  <2>2. QED
    BY <1>0, <1>1, <1>2, <1>4, <2>1 DEF Of, Attempts, Unforced
<1>6. Of(n)' = {n} /\ Tries(n, no)' = 1
  <2>1. Of(n)' = Attempts(n, no)' /\ Attempts(n, no) = {}
    BY <1>2, <1>3 DEF Of
  <2>2. Tries(n, no)' = Tries(n, no) + 1 /\ Tries(n, no) = 0
    BY <1>2, <1>3
  <2>3. QED
    BY <1>2, <2>1, <2>2
<1>7. BuildsInOrder'
  <2>1. ASSUME NEW b \in DOMAIN builds, NEW c \in b .. n PROVE builds'[b].at <= builds'[c].at
    <3>1. c = n \/ (c \in b .. Len(builds) /\ c \in DOMAIN builds)
      BY <1>0, <1>1, <2>1
    <3>2. QED
      BY <1>1, <1>2, <3>1, BuildsTyped DEF TriesInv, BuildsInOrder
  <2>2. \A b \in DOMAIN builds : ~ Ended(b)' => ~ Ended(b)
    BY <1>2 DEF Ended
  <2>3. QED
    BY <1>1, <1>2, <1>4, <2>1, <2>2 DEF TriesInv, BuildsInOrder
<1>8. TriedInTurn'
  <2>1. ASSUME NEW b \in DOMAIN builds', NEW c \in DOMAIN builds', (c \in Of(b))', b < c
        PROVE  builds'[b].status = "failure"
    BY <1>1, <1>2, <1>4, <1>5, <1>6, <2>1 DEF TriesInv, TriedInTurn
  <2>2. ASSUME NEW b \in DOMAIN builds', NEW c \in DOMAIN builds',
               builds'[b].group = builds'[c].group, ~ builds'[b].forced, builds'[c].forced
        PROVE  b < c /\ Tries(builds[b].group, builds[b].forced)' >= MaxTries
    <3>1. b \in DOMAIN builds /\ c \in DOMAIN builds
      BY <1>2, <1>4, <1>5, <2>2
    <3>2. QED
      BY <1>2, <1>5, <2>2, <3>1 DEF TriesInv, TriedInTurn
  <2>3. QED
    BY <2>1, <2>2 DEF TriedInTurn
<1>9. TriedDaily'
  <2>1. ASSUME NEW b \in DOMAIN builds', NEW c \in DOMAIN builds', (c \in Of(b))'
        PROVE  (builds[c].at + 1 <= builds[b].at + Tries(builds[b].group, builds[b].forced))'
    <3>1. CASE b = n
      BY <1>1, <1>2, <1>6, <2>1, <3>1
    <3>2. CASE b \in DOMAIN builds
      <4>1. c \in Of(b) /\ c \in DOMAIN builds
        BY <1>5, <2>1, <3>2 DEF Of, Attempts
      <4>2. QED
        BY <1>2, <1>5, <3>2, <4>1 DEF TriesInv, TriedDaily
    <3>3. QED
      BY <1>4, <3>1, <3>2
  <2>2. QED
    BY <2>1 DEF TriedDaily
<1>10. \A b \in DOMAIN builds : IsDue(b)' <=> IsDue(b)
  <2>1. ASSUME NEW b \in DOMAIN builds PROVE IsDue(b)' <=> IsDue(b)
    <3>1. \A c \in Of(b) : c \in DOMAIN builds
      BY DEF Of, Attempts
    <3>2. AllFailed(builds[b].group, builds[b].forced)' <=> AllFailed(builds[b].group, builds[b].forced)
      BY <1>2, <1>5, <3>1 DEF AllFailed, Of
    <3>3. QED
      BY <1>2, <1>5, <3>2 DEF IsDue, IsNewest
  <2>2. QED
    BY <2>1
<1>11. PickedAreDue'
  <2>1. ASSUME NEW x \in rebuilds PROVE PickedRight(x)'
    BY <1>2, <1>5, <1>10 DEF TriesInv, PickedAreDue, PickedRight
  <2>2. QED
    BY <2>1 DEF PickedAreDue
<1>12. NoneIsLate'
  <2>1. ~ Due(n)'
    BY <1>2, <1>6 DEF Due, IsDue, AllFailed, Of
  <2>2. \A b \in DOMAIN builds : Elapsed(b) \in Int /\ Elapsed(b)' \in Int /\ Recent \in Int
    <3>1. \A b \in DOMAIN builds : Elapsed(b) = builds[Len(builds)].at - builds[b].at /\ Elapsed(b)' = time - builds[b].at
      BY <1>2 DEF Elapsed, Last
    <3>2. \A b \in DOMAIN builds : Len(builds) \in DOMAIN builds
      BY <1>1
    <3>3. QED
      BY <1>1, <3>1, <3>2, BuildsTyped, LockUpdateAssumption
  <2>3. \A b \in DOMAIN builds : Due(b)' => Due(b)
    BY <1>2, <1>10, <2>2, LockUpdateAssumption DEF Due
  <2>4. QED
    BY <1>2, <1>4, <2>1, <2>3 DEF TriesInv, NoneIsLate
<1>13. TriesBounded'
  BY <1>1, <1>2, <1>3 DEF TriesInv, TriesBounded
<1>14. QED
  BY <1>7, <1>8, <1>9, <1>11, <1>12, <1>13 DEF TriesInv

\* The job starts a build again: by the trigger it was started with, or by the forcing one.
LEMMA RebuildKeepsTries ==
  ASSUME LockTypeOK, TriesInv, NEW x \in rebuilds, Rebuild(x)
  PROVE  TriesInv'
<1>0. PICK n \in Nat, a \in DOMAIN builds, g \in BuildId, f \in BOOLEAN, k \in BOOLEAN :
        /\ n = Len(builds) + 1 /\ a = x[1] /\ k = x[2]
        /\ g = builds[a].group /\ f = (builds[a].forced \/ x[2])
  <2>1. x[1] \in DOMAIN builds /\ x[2] \in BOOLEAN
    BY DEF LockTypeOK, TriesInv, PickedAreDue, PickedRight
  <2>2. (builds[x[1]].forced \/ x[2]) \in BOOLEAN
    OBVIOUS
  <2>3. QED
    BY <2>1, <2>2, BuildsTyped
<1>1. /\ Len(builds) \in Nat /\ DOMAIN builds = 1 .. Len(builds) /\ time \in Nat /\ MaxTries \in Nat \ {0}
      /\ builds[a] \in Build /\ builds[a].forced \in BOOLEAN
      /\ UNCHANGED time /\ rebuilds' = rebuilds \ {x} /\ scanned' = (rebuilds' = {}) /\ x \in rebuilds
  BY <1>0, BuildsTyped, LockUpdateAssumption DEF Rebuild, JobUnchanged, LockTypeOK
<1>2. /\ Len(builds') = n /\ DOMAIN builds' = 1 .. n
      /\ \A b \in DOMAIN builds : b \in DOMAIN builds' /\ b < n /\ builds'[b] = builds[b]
      /\ builds'[n].group = g /\ builds'[n].forced = f
      /\ builds'[n].status = "queued" /\ builds'[n].at = time
      /\ \A h, j : Attempts(h, j)' = IF h = g /\ j = f THEN Attempts(h, j) \cup {n} ELSE Attempts(h, j)
      /\ \A h, j : Tries(h, j)' = IF h = g /\ j = f THEN Tries(h, j) + 1 ELSE Tries(h, j)
      /\ \A b \in DOMAIN builds : Elapsed(b) <= Elapsed(b)'
  <2>1. builds[a].repo \in Repo /\ builds[a].digest \in Digest
    BY <1>1 DEF Build
  <2>2. RunBuild(builds[a].repo, builds[a].digest, g, f)
    BY <1>0, Zenon DEF Rebuild
  <2>3. QED
    BY <1>0, <1>1, <2>1, <2>2, NewBuild
<1>3. /\ IsDue(a) /\ time <= builds[a].at + 1
      /\ ~ k => Tries(g, builds[a].forced) < MaxTries
      /\ k => ~ builds[a].forced /\ Tries(g, builds[a].forced) >= MaxTries
      /\ a \in Attempts(g, builds[a].forced) /\ (k => f) /\ (~ k => f = builds[a].forced)
  BY <1>0, <1>1 DEF TriesInv, PickedAreDue, PickedRight, Attempts
<1>4. \A b \in DOMAIN builds' : b = n \/ b \in DOMAIN builds
  BY <1>0, <1>1, <1>2
<1>5. \A h, j : Tries(h, j) \in Nat /\ Attempts(h, j) \subseteq DOMAIN builds
  BY <1>1, BuildsTyped
\* The trigger's tries before were of this build, all failed, and were a day apart at most.
<1>6. Tries(g, f) < MaxTries /\ \A b \in Attempts(g, f) : builds[b].status = "failure" /\ time <= builds[b].at + Tries(g, f)
  <2>1. CASE k
    <3>1. \A c \in DOMAIN builds : builds[c].group = g => ~ builds[c].forced
      BY <1>0, <1>3, <2>1 DEF IsDue, Unforced
    <3>2. Attempts(g, f) = {}
      BY <1>3, <2>1, <3>1 DEF Attempts
    <3>3. Tries(g, f) = 0
      BY <3>2, BuildsTyped, FS_EmptySet
    <3>4. QED
      BY <1>1, <3>2, <3>3
  <2>2. CASE ~ k
    <3>1. \A b \in Attempts(g, f) : builds[b].status = "failure"
      BY <1>0, <1>3, <2>2 DEF IsDue, AllFailed
    <3>2. \A b \in Attempts(g, f) : builds[a].at + 1 <= builds[b].at + Tries(g, f)
      <4>1. ASSUME NEW b \in Attempts(g, f) PROVE builds[a].at + 1 <= builds[b].at + Tries(g, f)
        <5>1. b \in DOMAIN builds /\ builds[b].group = g /\ builds[b].forced = f /\ a \in Of(b)
          BY <1>3, <2>2 DEF Attempts, Of
        <5>2. QED
          BY <5>1 DEF TriesInv, TriedDaily
      <4>2. QED
        BY <4>1
    <3>3. \A b \in Attempts(g, f) : builds[b].at \in Nat /\ builds[a].at \in Nat
      BY <1>5, BuildsTyped
    <3>4. QED
      BY <1>1, <1>3, <1>5, <2>2, <3>1, <3>2, <3>3
  <2>3. QED
    BY <2>1, <2>2
\* The other trigger's tries, if there are any, are over.
<1>7. ASSUME NEW b \in DOMAIN builds, builds[b].group = g, builds[b].forced # f
      PROVE  ~ builds[b].forced /\ f /\ Tries(g, builds[b].forced) >= MaxTries
  <2>1. builds[b].forced \in BOOLEAN
    BY BuildsTyped
  <2>2. CASE k
    <3>1. f /\ ~ builds[b].forced /\ builds[b].forced = builds[a].forced
      BY <1>1, <1>3, <1>7, <2>1, <2>2
    <3>2. QED
      BY <1>3, <2>2, <3>1
  <2>3. CASE ~ k
    <3>1. ~ builds[a].forced => ~ builds[b].forced
      BY <1>0, <1>3, <1>7 DEF IsDue, Unforced
    <3>2. f /\ ~ builds[b].forced /\ builds[a].forced
      BY <1>0, <1>1, <1>3, <1>7, <2>1, <2>3, <3>1
    <3>3. Tries(builds[b].group, builds[b].forced) >= MaxTries
      BY <1>0, <1>7, <3>2 DEF TriesInv, TriedInTurn
    <3>4. QED
      BY <1>7, <3>2, <3>3
  <2>4. QED
    BY <2>2, <2>3
<1>8. BuildsInOrder'
  <2>1. ASSUME NEW b \in DOMAIN builds, NEW c \in b .. n PROVE builds'[b].at <= builds'[c].at
    <3>1. c = n \/ (c \in b .. Len(builds) /\ c \in DOMAIN builds)
      BY <1>0, <1>1, <2>1
    <3>2. QED
      BY <1>1, <1>2, <3>1, BuildsTyped DEF TriesInv, BuildsInOrder
  <2>2. \A b \in DOMAIN builds : ~ Ended(b)' => ~ Ended(b)
    BY <1>2 DEF Ended
  <2>3. g <= n
    BY <1>0, <1>1 DEF TriesInv, BuildsInOrder, BuildId
  <2>4. QED
    BY <1>1, <1>2, <1>4, <2>1, <2>2, <2>3 DEF TriesInv, BuildsInOrder
\* Who is of a build's group now.
<1>9. \A b \in DOMAIN builds :
        /\ ~ (builds[b].group = g /\ builds[b].forced = f) =>
              Of(b)' = Of(b) /\ Tries(builds[b].group, builds[b].forced)' = Tries(builds[b].group, builds[b].forced)
        /\ (builds[b].group = g /\ builds[b].forced = f) =>
              Of(b)' = Attempts(g, f) \cup {n} /\ Of(b) = Attempts(g, f)
              /\ Tries(builds[b].group, builds[b].forced)' = Tries(g, f) + 1
  BY <1>2 DEF Of
<1>10. Of(n)' = Attempts(g, f) \cup {n} /\ Tries(builds[n].group, builds[n].forced)' = Tries(g, f) + 1
  BY <1>2 DEF Of
<1>11. TriedInTurn'
  <2>1. ASSUME NEW b \in DOMAIN builds', NEW c \in DOMAIN builds', (c \in Of(b))', b < c
        PROVE  builds'[b].status = "failure"
    <3>1. b \in DOMAIN builds
      BY <1>1, <1>2, <1>4, <2>1
    <3>2. CASE c \in Of(b)
      <4>1. c \in DOMAIN builds
        BY <3>2 DEF Of, Attempts
      <4>2. QED
        BY <1>2, <2>1, <3>1, <3>2, <4>1 DEF TriesInv, TriedInTurn
    <3>3. CASE c \notin Of(b)
      <4>1. b \in Attempts(g, f)
        BY <1>9, <2>1, <3>1, <3>3 DEF Attempts
      <4>2. QED
        BY <1>2, <1>6, <3>1, <4>1
    <3>4. QED
      BY <3>2, <3>3
  <2>2. ASSUME NEW b \in DOMAIN builds', NEW c \in DOMAIN builds',
               builds'[b].group = builds'[c].group, ~ builds'[b].forced, builds'[c].forced
        PROVE  b < c /\ (Tries(builds[b].group, builds[b].forced) >= MaxTries)'
    <3>1. CASE b = n
      <4>1. c \in DOMAIN builds /\ builds[c].group = g /\ builds[c].forced /\ ~ f
        BY <1>2, <1>4, <2>2, <3>1
      <4>2. QED
        BY <1>7, <4>1
    <3>2. CASE b \in DOMAIN builds /\ c = n
      <4>1. builds[b].group = g /\ ~ builds[b].forced /\ f /\ b < n
        BY <1>2, <2>2, <3>2
      <4>2. Tries(g, builds[b].forced) >= MaxTries
        BY <1>7, <3>2, <4>1
      <4>3. Tries(builds[b].group, builds[b].forced)' = Tries(builds[b].group, builds[b].forced)
        BY <1>9, <3>2, <4>1
      <4>4. QED
        BY <3>2, <4>1, <4>2, <4>3
    <3>3. CASE b \in DOMAIN builds /\ c \in DOMAIN builds
      <4>1. b < c /\ Tries(builds[b].group, builds[b].forced) >= MaxTries
        BY <1>2, <2>2, <3>3 DEF TriesInv, TriedInTurn
      <4>2. Tries(builds[b].group, builds[b].forced)' >= Tries(builds[b].group, builds[b].forced)
        BY <1>5, <1>9, <3>3
      <4>3. Tries(builds[b].group, builds[b].forced)' \in Nat
        BY <1>5, <1>9, <3>3
      <4>4. QED
        BY <1>1, <1>5, <4>1, <4>2, <4>3
    <3>4. QED
      BY <1>4, <2>2, <3>1, <3>2, <3>3
  <2>3. QED
    BY <2>1, <2>2 DEF TriedInTurn
<1>12. TriedDaily'
  <2>1. ASSUME NEW b \in DOMAIN builds', NEW c \in DOMAIN builds', (c \in Of(b))'
        PROVE  (builds[c].at + 1 <= builds[b].at + Tries(builds[b].group, builds[b].forced))'
    <3>1. builds'[c].at \in Nat /\ builds'[c].at <= time /\ builds'[b].at \in Nat
      BY <1>1, <1>2, <1>4, BuildsTyped DEF TriesInv, BuildsInOrder
    <3>2. CASE b = n
      BY <1>1, <1>2, <1>5, <1>10, <3>1, <3>2
    <3>3. CASE b \in DOMAIN builds /\ b \in Attempts(g, f)
      <4>1. builds[b].group = g /\ builds[b].forced = f
        BY <3>3 DEF Attempts
      <4>2. time <= builds[b].at + Tries(g, f)
        BY <1>6, <3>3
      <4>3. Tries(builds[b].group, builds[b].forced)' = Tries(g, f) + 1
        BY <1>9, <3>3, <4>1
      <4>4. QED
        BY <1>1, <1>2, <1>5, <3>1, <3>3, <4>2, <4>3
    <3>4. CASE b \in DOMAIN builds /\ b \notin Attempts(g, f)
      <4>1. ~ (builds[b].group = g /\ builds[b].forced = f)
        BY <3>4 DEF Attempts
      <4>2. c \in Of(b) /\ c \in DOMAIN builds
        BY <1>9, <2>1, <3>4, <4>1 DEF Of, Attempts
      <4>3. builds[c].at + 1 <= builds[b].at + Tries(builds[b].group, builds[b].forced)
        BY <3>4, <4>2 DEF TriesInv, TriedDaily
      <4>4. QED
        BY <1>2, <1>9, <3>4, <4>1, <4>2, <4>3
    <3>5. QED
      BY <1>4, <3>2, <3>3, <3>4
  <2>2. QED
    BY <2>1 DEF TriedDaily
<1>13. \A b \in DOMAIN builds : builds[b].group # g => (IsDue(b)' <=> IsDue(b))
  <2>1. ASSUME NEW b \in DOMAIN builds, builds[b].group # g PROVE IsDue(b)' <=> IsDue(b)
    <3>1. Of(b)' = Of(b) /\ \A c \in Of(b) : c \in DOMAIN builds
      BY <1>9, <2>1 DEF Of, Attempts
    <3>2. AllFailed(builds[b].group, builds[b].forced)' <=> AllFailed(builds[b].group, builds[b].forced)
      BY <1>2, <2>1, <3>1 DEF AllFailed, Of
    <3>3. Unforced(b)' <=> Unforced(b)
      BY <1>2, <1>4, <2>1 DEF Unforced
    <3>4. Tries(builds[b].group, builds[b].forced)' = Tries(builds[b].group, builds[b].forced)
      BY <1>9, <2>1
    <3>5. QED
      BY <1>2, <3>1, <3>2, <3>3, <3>4 DEF IsDue, IsNewest
  <2>2. QED
    BY <2>1
<1>14. PickedAreDue'
  <2>1. ASSUME NEW y \in rebuilds' PROVE PickedRight(y)'
    <3>1. y \in rebuilds /\ y # x /\ PickedRight(y) /\ y[1] \in DOMAIN builds
      BY <1>1 DEF TriesInv, PickedAreDue, PickedRight
    <3>2. builds[y[1]].group # g
      BY <1>0, <1>1, <3>1, PickedOnce DEF TriesInv, LockTypeOK
    <3>3. Tries(builds[y[1]].group, builds[y[1]].forced)' = Tries(builds[y[1]].group, builds[y[1]].forced)
      BY <1>9, <3>1, <3>2
    <3>4. QED
      BY <1>1, <1>2, <1>13, <3>1, <3>2, <3>3 DEF PickedRight
  <2>2. QED
    BY <2>1 DEF PickedAreDue
<1>15. NoneIsLate'
  <2>1. ~ Due(n)'
    BY <1>2, <1>10 DEF Due, IsDue, AllFailed, Of
  <2>2. ASSUME NEW b \in DOMAIN builds, Due(b)'
        PROVE  builds[b].group # g
    <3>1. SUFFICES ASSUME builds[b].group = g PROVE FALSE
      OBVIOUS
    <3>2. CASE builds[b].forced = f
      <4>1. (n \in Of(b))' /\ (AllFailed(builds[b].group, builds[b].forced))'
        BY <1>9, <2>2, <3>1, <3>2 DEF Due, IsDue
      <4>2. QED
        BY <1>2, <4>1 DEF AllFailed, Of
    <3>3. CASE builds[b].forced # f
      <4>1. ~ builds[b].forced /\ f
        BY <1>7, <3>1, <3>3
      <4>2. Unforced(b)'
        BY <1>2, <2>2, <4>1 DEF Due, IsDue
      <4>3. n \in DOMAIN builds'
        BY <1>0, <1>1, <1>2
      <4>4. QED
        BY <1>2, <3>1, <4>1, <4>2, <4>3 DEF Unforced
    <3>4. QED
      BY <3>2, <3>3
  <2>3. \A b \in DOMAIN builds : Elapsed(b) \in Int /\ Elapsed(b)' \in Int /\ Recent \in Int
    <3>1. \A b \in DOMAIN builds : Elapsed(b) = builds[Len(builds)].at - builds[b].at /\ Elapsed(b)' = time - builds[b].at
      BY <1>2 DEF Elapsed, Last
    <3>2. \A b \in DOMAIN builds : Len(builds) \in DOMAIN builds
      BY <1>1
    <3>3. QED
      BY <1>1, <3>1, <3>2, BuildsTyped, LockUpdateAssumption
  <2>4. ASSUME NEW b \in DOMAIN builds, Due(b)'
        PROVE  Due(b)
    <3>1. builds[b].group # g
      BY <2>2, <2>4
    <3>2. QED
      BY <1>2, <1>13, <2>3, <2>4, <3>1 DEF Due
  <2>5. ASSUME NEW b \in DOMAIN builds, Due(b)'
        PROVE  /\ time <= builds[b].at + 1
               /\ builds[b].at = time \/ \E y \in rebuilds' : y[1] = b
    <3>1. Due(b) /\ builds[b].group # g
      BY <2>2, <2>4, <2>5
    <3>2. \A y \in rebuilds : y[1] = b => y # x
      BY <1>0, <3>1
    <3>3. QED
      BY <1>1, <3>1, <3>2 DEF TriesInv, NoneIsLate
  <2>6. QED
    BY <1>1, <1>2, <1>4, <2>1, <2>5 DEF NoneIsLate
<1>16. TriesBounded'
  BY <1>1, <1>2, <1>5, <1>6 DEF TriesInv, TriesBounded
<1>17. QED
  BY <1>8, <1>11, <1>12, <1>14, <1>15, <1>16 DEF TriesInv

\* A group with a recent build is seen whole, as its builds are a day apart at most.
LEMMA InSight ==
  ASSUME LockTypeOK, TriesInv, Recent + MaxTries <= Window + 1,
         NEW g \in BuildId, NEW forced \in BOOLEAN, Counted(g, forced)
  PROVE  /\ Members(g, forced) = Attempts(g, forced)
         /\ Newest(Members(g, forced)) \in Attempts(g, forced)
         /\ \A c \in Attempts(g, forced) : c <= Newest(Members(g, forced))
         /\ Elapsed(Newest(Members(g, forced))) <= Recent
<1>1. /\ Len(builds) \in Nat /\ DOMAIN builds = 1 .. Len(builds)
      /\ Attempts(g, forced) \in SUBSET (1 .. Len(builds)) /\ Tries(g, forced) \in Nat
      /\ MaxTries \in Nat /\ Recent \in Nat /\ Window \in Nat
      /\ \A b \in DOMAIN builds : builds[b].at \in Nat
  BY BuildsTyped, LockUpdateAssumption
<1>2. PICK b \in Members(g, forced) : Elapsed(b) <= Recent
  BY DEF Counted
<1>3. b \in Attempts(g, forced)
  BY DEF Members, Attempts
<1>4. PICK last \in Nat : \A c \in DOMAIN builds : Elapsed(c) = last - builds[c].at
  <2>1. Last(builds).at \in Nat
    BY <1>1, <1>3 DEF Last
  <2>2. QED
    BY <2>1 DEF Elapsed
<1>5. ASSUME NEW c \in Attempts(g, forced)
      PROVE  Elapsed(c) <= Window
  <2>1. b \in Of(c) /\ builds[c].group = g /\ builds[c].forced = forced /\ c \in DOMAIN builds /\ b \in DOMAIN builds
    BY <1>3 DEF Attempts, Of
  <2>2. builds[b].at + 1 <= builds[c].at + Tries(g, forced)
    BY <2>1 DEF TriesInv, TriedDaily
  <2>3. Tries(g, forced) <= MaxTries
    BY DEF TriesInv, TriesBounded
  <2>4. builds[b].at + 1 <= builds[c].at + MaxTries
    BY <1>1, <2>1, <2>2, <2>3
  <2>5. QED
    BY <1>1, <1>2, <1>4, <2>1, <2>4
<1>6. Members(g, forced) = Attempts(g, forced)
  BY <1>5 DEF Members, Attempts
<1>7. PICK m \in Attempts(g, forced) : \A c \in Attempts(g, forced) : c <= m
  BY <1>1, <1>3, Greatest
<1>8. Newest(Members(g, forced)) = m
  <2>1. \A c \in Attempts(g, forced) : c \in Nat
    BY <1>1
  <2>2. \A y \in Attempts(g, forced) : (\A c \in Attempts(g, forced) : c <= y) => y = m
    BY <1>7, <2>1
  <2>3. QED
    BY <1>6, <1>7, <2>2 DEF Newest
<1>9. Elapsed(m) <= Recent
  <2>1. b <= m /\ b \in DOMAIN builds /\ m \in DOMAIN builds
    BY <1>1, <1>3, <1>7
  <2>2. m \in b .. Len(builds)
    BY <1>1, <2>1
  <2>3. builds[b].at <= builds[m].at
    BY <2>1, <2>2 DEF TriesInv, BuildsInOrder
  <2>4. QED
    BY <1>1, <1>2, <1>4, <2>1, <2>3
<1>10. QED
  BY <1>6, <1>7, <1>8, <1>9

\* Whom the job picks.
LEMMA PicksAreRight ==
  ASSUME LockTypeOK, TriesInv, Recent + MaxTries <= Window + 1, NEW x \in Retries \cup ForceRetries
  PROVE  PickedRight(x) /\ x \in BuildId \X BOOLEAN
<1>1. PICK g \in BuildId, forced \in BOOLEAN :
        /\ OnlyFailures(g, forced) /\ x[1] = Newest(Members(g, forced)) /\ x[2] \in BOOLEAN
        /\ x = <<x[1], x[2]>>
        /\ ~ x[2] => Cardinality(Failures(g, forced)) < MaxTries
        /\ x[2] => Cardinality(Failures(g, forced)) >= MaxTries /\ ~ Counted(g, TRUE)
  <2>1. CASE x \in Retries
    <3>1. PICK y \in Failed : x = <<Newest(Members(y[1], y[2])), FALSE>> /\ Cardinality(Failures(y[1], y[2])) < MaxTries
      BY <2>1 DEF Retries
    <3>2. y[1] \in BuildId /\ y[2] \in BOOLEAN /\ OnlyFailures(y[1], y[2])
      BY DEF Failed
    <3>3. x[1] = Newest(Members(y[1], y[2])) /\ x[2] = FALSE /\ x = <<x[1], x[2]>>
      BY <3>1
    <3>4. QED
      BY <3>1, <3>2, <3>3
  <2>2. CASE x \in ForceRetries
    <3>1. PICK y \in Failed : /\ x = <<Newest(Members(y[1], y[2])), TRUE>>
                               /\ Cardinality(Failures(y[1], y[2])) >= MaxTries /\ ~ Counted(y[1], TRUE)
      BY <2>2 DEF ForceRetries
    <3>2. y[1] \in BuildId /\ y[2] \in BOOLEAN /\ OnlyFailures(y[1], y[2])
      BY DEF Failed
    <3>3. x[1] = Newest(Members(y[1], y[2])) /\ x[2] = TRUE /\ x = <<x[1], x[2]>>
      BY <3>1
    <3>4. QED
      BY <3>1, <3>2, <3>3
  <2>3. QED
    BY <2>1, <2>2
<1> DEFINE b == x[1]
<1>2. /\ b \in Attempts(g, forced) /\ Members(g, forced) = Attempts(g, forced)
      /\ \A c \in Attempts(g, forced) : c <= b
      /\ Elapsed(b) <= Recent
  BY <1>1, InSight DEF OnlyFailures
<1>3. Failures(g, forced) = Attempts(g, forced) /\ Tries(g, forced) = Cardinality(Failures(g, forced))
  BY <1>1, <1>2 DEF OnlyFailures, Tries, Attempts
<1>4. b \in DOMAIN builds /\ builds[b].group = g /\ builds[b].forced = forced
  BY <1>2 DEF Attempts
<1>5. IsNewest(b) /\ AllFailed(builds[b].group, builds[b].forced)
  BY <1>2, <1>3, <1>4 DEF IsNewest, Of, AllFailed, Failures
<1>6. Tries(builds[b].group, builds[b].forced) \in Nat /\ MaxTries \in Nat /\ {Recent, Window} \subseteq Nat
  BY BuildsTyped, LockUpdateAssumption
<1>7. x[2] => ~ forced
  <2>1. forced => Counted(g, TRUE)
    BY <1>1, Zenon DEF OnlyFailures
  <2>2. QED
    BY <1>1, <2>1
\* Had the forcing trigger been at it, the job would have seen that.
<1>8. ~ forced => Unforced(b)
  <2>1. SUFFICES ASSUME ~ forced, NEW c \in DOMAIN builds, builds[c].group = g, builds[c].forced PROVE FALSE
    BY <1>4 DEF Unforced
  <2>2. b < c /\ Tries(builds[b].group, builds[b].forced) >= MaxTries
    BY <1>4, <2>1 DEF TriesInv, TriedInTurn
  <2>3. x[2]
    BY <1>1, <1>3, <1>4, <1>6, <2>2
  <2>4. builds[b].at <= builds[c].at /\ builds[b].at \in Nat /\ builds[c].at \in Nat
    <3>1. c \in b .. Len(builds)
      BY <1>4, <2>1, <2>2, BuildsTyped
    <3>2. QED
      BY <1>4, <2>1, <3>1, BuildsTyped DEF TriesInv, BuildsInOrder
  <2>5. Elapsed(c) <= Recent /\ Elapsed(c) <= Window
    <3>1. Last(builds).at \in Nat
      <4>1. Len(builds) \in DOMAIN builds
        BY <1>4, BuildsTyped
      <4>2. QED
        BY <4>1, BuildsTyped DEF Last
    <3>2. Recent <= Window
      BY LockUpdateAssumption
    <3>3. QED
      BY <1>2, <1>6, <2>4, <3>1, <3>2 DEF Elapsed
  <2>6. builds[c].forced = TRUE
    BY <2>1, BuildsTyped
  <2>7. Counted(g, TRUE)
    BY <2>1, <2>5, <2>6, Zenon DEF Counted, Members
  <2>8. QED
    BY <1>1, <2>3, <2>7
<1>9. IsDue(b)
  <2>1. forced => Tries(builds[b].group, builds[b].forced) < MaxTries
    BY <1>1, <1>3, <1>4, <1>7
  <2>2. QED
    BY <1>4, <1>5, <1>8, <2>1 DEF IsDue
<1>10. time <= builds[b].at + 1
  BY <1>2, <1>4, <1>9 DEF TriesInv, NoneIsLate, Due
<1>11. b \in BuildId
  <2>1. Len(builds) \in Nat /\ Len(builds) <= MaxBuilds /\ MaxBuilds \in Nat /\ b \in 1 .. Len(builds)
    BY <1>4, BuildsTyped, LockUpdateAssumption DEF LockTypeOK
  <2>2. QED
    BY <2>1 DEF BuildId
<1>12. QED
  BY <1>1, <1>3, <1>4, <1>7, <1>9, <1>10, <1>11 DEF PickedRight

\* Whoever is due is picked.
LEMMA DueIsPicked ==
  ASSUME LockTypeOK, TriesInv, Recent + MaxTries <= Window + 1, NEW b \in DOMAIN builds, Due(b)
  PROVE  \E x \in Retries \cup ForceRetries : x[1] = b
<1>1. PICK g \in BuildId, forced \in BOOLEAN : g = builds[b].group /\ forced = builds[b].forced
  BY BuildsTyped
<1>2. b \in Attempts(g, forced) /\ Attempts(g, forced) = Of(b)
  BY <1>1 DEF Attempts, Of
<1>3. {MaxTries, Recent, Window} \subseteq Nat /\ Recent <= Window /\ Tries(g, forced) \in Nat /\ Elapsed(b) \in Int
  <2>1. Len(builds) \in DOMAIN builds
    BY BuildsTyped
  <2>2. QED
    BY <2>1, BuildsTyped, LockUpdateAssumption DEF Elapsed, Last
<1>4. Counted(g, forced)
  BY <1>1, <1>3 DEF Counted, Members, Due
<1>5. Members(g, forced) = Attempts(g, forced) /\ Newest(Members(g, forced)) = b
  <2>1. /\ Members(g, forced) = Attempts(g, forced)
        /\ Newest(Members(g, forced)) \in Attempts(g, forced)
        /\ \A c \in Attempts(g, forced) : c <= Newest(Members(g, forced))
    BY <1>4, InSight
  <2>2. \A c \in Attempts(g, forced) : c <= b /\ c \in Nat
    BY <1>2, BuildsTyped DEF Due, IsDue, IsNewest
  <2>3. QED
    BY <1>2, <2>1, <2>2
<1>6. Failures(g, forced) = Attempts(g, forced) /\ Tries(g, forced) = Cardinality(Failures(g, forced))
  <2>1. Failures(g, forced) = Attempts(g, forced)
    BY <1>1, <1>5 DEF Failures, Due, IsDue, AllFailed
  <2>2. QED
    BY <2>1, BuildsTyped
<1>7. <<g, forced>> \in Failed
  BY <1>4, <1>5, <1>6 DEF Failed, OnlyFailures
<1>8. CASE Tries(g, forced) < MaxTries
  <2>1. <<b, FALSE>> \in Retries
    BY <1>5, <1>6, <1>7, <1>8 DEF Retries
  <2>2. QED
    BY <2>1
<1>9. CASE ~ (Tries(g, forced) < MaxTries)
  <2>1. ~ forced /\ Unforced(b)
    BY <1>1, <1>9 DEF Due, IsDue
  <2>2. ~ Counted(g, TRUE)
    BY <1>1, <2>1, Zenon DEF Counted, Members, Unforced
  <2>3. Cardinality(Failures(g, forced)) >= MaxTries
    BY <1>3, <1>6, <1>9
  <2>4. <<b, TRUE>> \in ForceRetries
    <3>1. PICK y \in Failed : y[1] = g /\ y[2] = forced
      BY <1>7
    <3>2. Cardinality(Failures(y[1], y[2])) >= MaxTries /\ ~ Counted(y[1], TRUE)
      BY <2>2, <2>3, <3>1
    <3>3. <<Newest(Members(y[1], y[2])), TRUE>> \in ForceRetries
      BY <3>1, <3>2, Zenon DEF ForceRetries
    <3>4. QED
      BY <1>5, <3>1, <3>3
  <2>5. QED
    BY <2>4
<1>10. QED
  BY <1>8, <1>9

\* The job scans the builds.
LEMMA FilterKeepsTries ==
  ASSUME LockTypeOK, TriesInv, Recent + MaxTries <= Window + 1, FilterBuildsToRetry
  PROVE  TriesInv' /\ rebuilds' \subseteq BuildId \X BOOLEAN
<1>1. /\ UNCHANGED <<builds, time>> /\ rebuilds' = Retries \cup ForceRetries
      /\ scanned' = (scanned \/ rebuilds' = {}) /\ scanned \in BOOLEAN /\ rebuilds = {}
  BY DEF FilterBuildsToRetry, JobUnchanged, LockTypeOK
<1>2. BuildsInOrder' /\ TriedInTurn' /\ TriedDaily' /\ TriesBounded'
  <2>1. BuildsInOrder'
    BY <1>1 DEF TriesInv, BuildsInOrder, Ended
  <2>2. TriedInTurn'
    BY <1>1 DEF TriesInv, TriedInTurn, Of, Attempts, Tries
  <2>3. TriedDaily'
    BY <1>1 DEF TriesInv, TriedDaily, Of, Attempts, Tries
  <2>4. TriesBounded'
    BY <1>1 DEF TriesInv, TriesBounded, Of, Attempts, Tries
  <2>5. QED
    BY <2>1, <2>2, <2>3, <2>4
<1>3. \A x : PickedRight(x)' <=> PickedRight(x)
  BY <1>1 DEF PickedRight, IsDue, IsNewest, AllFailed, Unforced, Of, Attempts, Tries
<1>4. \A b : Due(b)' <=> Due(b)
  BY <1>1 DEF Due, IsDue, IsNewest, AllFailed, Unforced, Of, Attempts, Tries, Elapsed
<1>5. PickedAreDue' /\ rebuilds' \subseteq BuildId \X BOOLEAN
  BY <1>1, <1>3, PicksAreRight DEF PickedAreDue
<1>6. NoneIsLate'
  <2>1. ASSUME NEW b \in DOMAIN builds, Due(b)
        PROVE  /\ time <= builds[b].at + 1 /\ (scanned => builds[b].at = time)
               /\ \E x \in rebuilds' : x[1] = b
    BY <1>1, <2>1, DueIsPicked DEF TriesInv, NoneIsLate
  <2>2. QED
    BY <1>1, <1>4, <2>1 DEF NoneIsLate
<1>7. QED
  BY <1>2, <1>5, <1>6 DEF TriesInv

\* A day goes by, or the job fails.
LEMMA DayKeepsTries ==
  ASSUME LockTypeOK, TriesInv, Tick \/ JobFails
  PROVE  TriesInv'
<1>1. UNCHANGED builds /\ time \in Nat /\ rebuilds' = {} /\ \A b \in DOMAIN builds : builds[b].at \in Nat
  BY BuildsTyped DEF Tick, JobFails, JobUnchanged
<1>2. TriedInTurn' /\ TriedDaily' /\ TriesBounded'
  BY <1>1 DEF TriesInv, TriedInTurn, TriedDaily, TriesBounded, Of, Attempts, Tries
<1>3. \A b : (Due(b)' <=> Due(b)) /\ (Ended(b)' <=> Ended(b))
  BY <1>1 DEF Due, IsDue, IsNewest, AllFailed, Unforced, Of, Attempts, Tries, Elapsed, Ended
<1>4. PickedAreDue'
  BY <1>1 DEF PickedAreDue
<1>5. BuildsInOrder' /\ NoneIsLate'
  <2>1. CASE Tick
    <3>1. time' = time + 1 /\ scanned /\ scanned' = FALSE /\ \A b \in DOMAIN builds : Ended(b)
      BY <2>1 DEF Tick
    <3>2. BuildsInOrder'
      BY <1>1, <1>3, <3>1 DEF TriesInv, BuildsInOrder
    <3>3. NoneIsLate'
      BY <1>1, <1>3, <3>1 DEF TriesInv, NoneIsLate
    <3>4. QED
      BY <3>2, <3>3
  <2>2. CASE JobFails
    <3>1. UNCHANGED <<time, scanned>>
      BY <2>2 DEF JobFails, JobUnchanged
    <3>2. BuildsInOrder' /\ NoneIsLate'
      BY <1>1, <1>3, <3>1 DEF TriesInv, BuildsInOrder, NoneIsLate
    <3>3. QED
      BY <3>2
  <2>3. QED
    BY <2>1, <2>2
<1>6. QED
  BY <1>2, <1>4, <1>5 DEF TriesInv

\* Whoever leaves the builds and the job alone keeps the invariant.
LEMMA OthersKeepTries ==
  ASSUME TriesInv, UNCHANGED <<builds, rebuilds, scanned, time>>
  PROVE  TriesInv'
<1>1. BuildsInOrder' /\ TriedInTurn' /\ TriedDaily' /\ TriesBounded'
  <2>1. builds' = builds /\ time' = time
    OBVIOUS
  <2>2. BuildsInOrder'
    BY <2>1 DEF TriesInv, BuildsInOrder, Ended
  <2>3. TriedInTurn' /\ TriedDaily' /\ TriesBounded'
    BY <2>1 DEF TriesInv, TriedInTurn, TriedDaily, TriesBounded, Of, Attempts, Tries
  <2>4. QED
    BY <2>2, <2>3
<1>2. \A x : PickedRight(x)' <=> PickedRight(x)
  BY DEF PickedRight, IsDue, IsNewest, AllFailed, Unforced, Of, Attempts, Tries
<1>3. \A b : Due(b)' <=> Due(b)
  BY DEF Due, IsDue, IsNewest, AllFailed, Unforced, Of, Attempts, Tries, Elapsed
<1>4. PickedAreDue' /\ NoneIsLate'
  BY <1>2, <1>3 DEF TriesInv, PickedAreDue, NoneIsLate
<1>5. QED
  BY <1>1, <1>4 DEF TriesInv

----------------------------------------------------------------------------
(* The types. *)

\* A request that handles a message knows its image, and once it looks for a
\* repository's build that one.
PublishInOrder(x) ==
  /\ x.pc # "idle" => x.digest \in Digest
  /\ x.pc \in {"find", "trigger", "record"} => x.repo \in Repo

TypeInv ==
  /\ LockUpdateTypeOK /\ ConfigsInOrder
  /\ \A h \in Publisher : PublishInOrder(publish[h])
  /\ \A x \in rebuilds : x[1] \in DOMAIN builds

\* An image is published.
LEMMA PublishTyped ==
  ASSUME LockTypeOK, \A h \in Publisher : PublishInOrder(publish[h]),
         NEW h \in Publisher, NEW x \in PublishState, PublishInOrder(x),
         publish' = [publish EXCEPT ![h] = x]
  PROVE  publish' \in [Publisher -> PublishState] /\ \A q \in Publisher : PublishInOrder(publish'[q])
BY DEF LockTypeOK

\* Another build, or another state of one.
LEMMA RunBuildTyped ==
  ASSUME LockTypeOK, NEW r \in Repo, NEW d \in Digest, NEW g \in BuildId, NEW forced \in BOOLEAN,
         RunBuild(r, d, g, forced)
  PROVE  /\ builds' \in Seq(Build) /\ Len(builds') <= MaxBuilds /\ Len(builds') = Len(builds) + 1
         /\ DOMAIN builds \subseteq DOMAIN builds'
<1>1. [repo |-> r, digest |-> d, group |-> g, forced |-> forced, status |-> "queued", at |-> time] \in Build
  BY DEF Build, Status, LockTypeOK
<1>2. builds \in Seq(Build) /\ Len(builds) \in Nat /\ Len(builds) < MaxBuilds /\ MaxBuilds \in Nat
  BY LockUpdateAssumption DEF LockTypeOK, RunBuild
<1>3. QED
  BY <1>1, <1>2 DEF RunBuild

\* A build goes on.
LEMMA BuildGoesTyped ==
  ASSUME LockTypeOK, NEW b \in DOMAIN builds, NEW status \in Status, BuildGoes(b, status)
  PROVE  builds' \in Seq(Build) /\ Len(builds') = Len(builds) /\ DOMAIN builds' = DOMAIN builds
<1>1. builds \in Seq(Build) /\ builds[b] \in Build /\ b \in 1 .. Len(builds)
  BY DEF LockTypeOK
<1>2. [builds[b] EXCEPT !.status = status] \in Build
  BY <1>1 DEF Build
<1>3. builds' = [builds EXCEPT ![b] = [builds[b] EXCEPT !.status = status]]
  BY <1>1 DEF BuildGoes
<1>4. QED
  BY <1>1, <1>2, <1>3, ExceptSeq

\* The job picks builds that exist.
LEMMA PicksExist ==
  ASSUME LockTypeOK
  PROVE  \A x \in Retries \cup ForceRetries : x \in BuildId \X BOOLEAN /\ x[1] \in DOMAIN builds
<1>1. ASSUME NEW y \in Failed
      PROVE  Newest(Members(y[1], y[2])) \in DOMAIN builds
  <2> DEFINE S == Members(y[1], y[2])
  <2>1. S # {} /\ S \in SUBSET (1 .. Len(builds)) /\ Len(builds) \in Nat /\ DOMAIN builds = 1 .. Len(builds)
    BY BuildsTyped DEF Failed, OnlyFailures, Counted, Members
  <2>2. \E m \in S : \A c \in S : c <= m
    BY <2>1, Greatest
  <2>3. QED
    BY <2>1, <2>2 DEF Newest
<1>2. DOMAIN builds \subseteq BuildId
  <2>1. Len(builds) \in Nat /\ Len(builds) <= MaxBuilds /\ MaxBuilds \in Nat /\ DOMAIN builds = 1 .. Len(builds)
    BY BuildsTyped, LockUpdateAssumption DEF LockTypeOK
  <2>2. QED
    BY <2>1 DEF BuildId
<1>3. ASSUME NEW x \in Retries \cup ForceRetries
      PROVE  x \in BuildId \X BOOLEAN /\ x[1] \in DOMAIN builds
  <2>1. PICK y \in Failed, forced \in BOOLEAN : x = <<Newest(Members(y[1], y[2])), forced>>
    <3>1. CASE x \in Retries
      BY <3>1 DEF Retries
    <3>2. CASE x \in ForceRetries
      BY <3>2 DEF ForceRetries
    <3>3. QED
      BY <3>1, <3>2
  <2>2. QED
    BY <1>1, <1>2, <2>1
<1>4. QED
  BY <1>3

\* The steps of the handler of published images keep every type.
LEMMA PublisherKeepsType ==
  ASSUME TypeInv, NEW h \in Publisher, PublishStep(h) \/ PublishFails(h)
  PROVE  TypeInv'
<1> USE DEF TypeInv, LockUpdateTypeOK
<1>0. /\ LockTypeOK /\ publish[h] \in PublishState /\ PublishInOrder(publish[h])
      /\ ConfigsInv /\ \A q \in Publisher : PublishInOrder(publish[q])
  BY DEF LockTypeOK, ConfigsInv
<1>1. ASSUME NEW x \in PublishState, PublishInOrder(x), publish' = [publish EXCEPT ![h] = x],
             UNCHANGED <<configsVars, faults, published, branches, pulls, rebuilds, scanned, time>>,
             messages' \subseteq Digest, buildOf' \in [Repo -> [Digest -> 0 .. MaxBuilds]],
             builds' \in Seq(Build), Len(builds') <= MaxBuilds, DOMAIN builds \subseteq DOMAIN builds'
      PROVE  TypeInv'
  <2>1. publish' \in [Publisher -> PublishState] /\ \A q \in Publisher : PublishInOrder(publish'[q])
    BY <1>0, <1>1, PublishTyped
  <2>2. LockTypeOK'
    BY <1>0, <1>1, <2>1 DEF LockTypeOK
  <2>3. ConfigsTypeOK' /\ ConfigsInOrder'
    BY <1>1 DEF ConfigsTypeOK, ConfigsInOrder, RefreshInOrder, Tip, configsVars
  <2>4. \A q \in Publisher : PublishInOrder(publish[q])'
    BY <2>1 DEF PublishInOrder
  <2>5. QED
    BY <1>1, <2>2, <2>3, <2>4
<1>2. NoPublish \in PublishState /\ PublishInOrder(NoPublish)
  BY LockUpdateAssumption DEF NoPublish, PublishState, PublishInOrder, NoBuild
<1>3. ASSUME NEW x \in PublishState, NEW pc \in {"next", "record"}, NEW b \in 0 .. MaxBuilds, x.digest \in Digest, x.repo \in Repo
       PROVE  LET y == [x EXCEPT !.pc = pc, !.build = b]
              IN  y \in PublishState /\ PublishInOrder(y)
  <2> DEFINE y == [x EXCEPT !.pc = pc, !.build = b]
  <2>1. y \in PublishState /\ y.digest = x.digest /\ y.repo = x.repo
    BY <1>3, LockUpdateAssumption DEF PublishState
  <2>2. QED
    BY <1>3, <2>1 DEF PublishInOrder
<1>4. /\ messages \subseteq Digest /\ buildOf \in [Repo -> [Digest -> 0 .. MaxBuilds]]
      /\ builds \in Seq(Build) /\ Len(builds) <= MaxBuilds
  BY <1>0 DEF LockTypeOK
<1>5. ASSUME NEW d \in Digest, OnPostProcessorPublished(h, d)
      PROVE  TypeInv'
  <2>1. ASSUME NEW x \in PublishState, NEW S \in SUBSET Repo
        PROVE  LET y == [x EXCEPT !.pc = "next", !.digest = d, !.todo = S]
               IN  y \in PublishState /\ PublishInOrder(y)
    BY DEF PublishState, PublishInOrder
  <2>2. PICK S \in SUBSET Repo : publish' = [publish EXCEPT ![h] = [NoPublish EXCEPT !.pc = "next", !.digest = d, !.todo = S]]
    BY <1>5 DEF OnPostProcessorPublished
  <2>3. QED
    BY <1>1, <1>2, <1>4, <1>5, <2>1, <2>2 DEF OnPostProcessorPublished
<1>6. CASE NextStaleRepo(h)
  <2>1. CASE publish[h].todo = {}
    BY <1>1, <1>2, <1>4, <1>6, <2>1 DEF NextStaleRepo, PublishUnchanged
  <2>2. CASE publish[h].todo # {}
    <3> DEFINE r == CHOOSE x \in publish[h].todo : TRUE
    <3>1. r \in publish[h].todo
      BY <2>2
    <3>2. r \in Repo
      BY <1>0, <3>1 DEF PublishState
    <3>3. LET x == [publish[h] EXCEPT !.pc = "find", !.todo = publish[h].todo \ {r}, !.repo = r]
          IN  x \in PublishState /\ (publish[h].pc = "next" => PublishInOrder(x))
      BY <1>0, <3>2 DEF PublishState, PublishInOrder
    <3>4. publish' = [publish EXCEPT ![h] = [publish[h] EXCEPT !.pc = "find", !.todo = publish[h].todo \ {r}, !.repo = r]]
      BY <1>6, <2>2, Zenon DEF NextStaleRepo
    <3>5. QED
      BY <1>1, <1>4, <1>6, <3>3, <3>4 DEF NextStaleRepo, PublishUnchanged
  <2>3. QED
    BY <2>1, <2>2
<1>7. CASE FindBuildIdForUpdatingLock(h)
  <2>1. ASSUME NEW pc \in {"next", "trigger"}
        PROVE  LET x == [publish[h] EXCEPT !.pc = pc]
               IN  x \in PublishState /\ (publish[h].pc = "find" => PublishInOrder(x))
    BY <1>0 DEF PublishState, PublishInOrder
  <2>2. PICK pc \in {"next", "trigger"} : publish' = [publish EXCEPT ![h] = [publish[h] EXCEPT !.pc = pc]]
    <3>1. PICK pc \in {"next", "trigger"} : publish' = [publish EXCEPT ![h].pc = pc]
      BY <1>7 DEF FindBuildIdForUpdatingLock
    <3>2. QED
      BY <1>0, <3>1 DEF LockTypeOK
  <2>3. QED
    BY <1>1, <1>4, <1>7, <2>1, <2>2 DEF FindBuildIdForUpdatingLock, PublishUnchanged
<1>8. CASE RunBuildTrigger(h)
  <2>1. PICK n \in BuildId : n = Len(builds) + 1
    <3>1. Len(builds) < MaxBuilds /\ Len(builds) \in Nat /\ MaxBuilds \in Nat
      BY <1>4, <1>8, LockUpdateAssumption DEF RunBuildTrigger, RunBuild
    <3>2. QED
      BY <3>1 DEF BuildId
  <2>2. RunBuild(publish[h].repo, publish[h].digest, n, FALSE) /\ publish[h].repo \in Repo /\ publish[h].digest \in Digest
    BY <1>0, <1>8, <2>1 DEF RunBuildTrigger, PublishInOrder
  <2>3. /\ builds' \in Seq(Build) /\ Len(builds') <= MaxBuilds /\ Len(builds') = n
        /\ DOMAIN builds \subseteq DOMAIN builds'
    BY <1>0, <2>1, <2>2, RunBuildTyped
  <2>4. LET x == [publish[h] EXCEPT !.pc = "record", !.build = n]
        IN  x \in PublishState /\ PublishInOrder(x)
    <3>1. n \in 0 .. MaxBuilds
      BY LockUpdateAssumption DEF BuildId
    <3>2. QED
      BY <1>0, <1>3, <2>2, <3>1
  <2>5. publish' = [publish EXCEPT ![h] = [publish[h] EXCEPT !.pc = "record", !.build = n]]
    BY <1>0, <1>8, <2>3 DEF RunBuildTrigger, LockTypeOK
  <2>6. QED
    BY <1>1, <1>4, <1>8, <2>3, <2>4, <2>5 DEF RunBuildTrigger, PublishUnchanged
<1>9. CASE RecordBuildIdForUpdatingLock(h)
  <2>1. LET x == [publish[h] EXCEPT !.pc = "next", !.build = NoBuild]
        IN  x \in PublishState /\ (publish[h].pc = "record" => PublishInOrder(x))
    <3>1. NoBuild \in 0 .. MaxBuilds
      BY LockUpdateAssumption DEF NoBuild
    <3>2. publish[h].pc = "record" => publish[h].digest \in Digest /\ publish[h].repo \in Repo
      BY <1>0 DEF PublishInOrder
    <3>3. QED
      BY <1>0, <1>3, <1>9, <3>1, <3>2 DEF RecordBuildIdForUpdatingLock
  <2>2. publish' = [publish EXCEPT ![h] = [publish[h] EXCEPT !.pc = "next", !.build = NoBuild]]
    BY <1>0, <1>9 DEF RecordBuildIdForUpdatingLock, LockTypeOK
  <2>3. buildOf' \in [Repo -> [Digest -> 0 .. MaxBuilds]]
    BY <1>0, <1>4, <1>9 DEF RecordBuildIdForUpdatingLock, PublishState, PublishInOrder
  <2>4. QED
    BY <1>1, <1>4, <1>9, <2>1, <2>2, <2>3 DEF RecordBuildIdForUpdatingLock, PublishUnchanged
<1>10. CASE PublishFails(h)
  <2>1. publish[h].digest \in Digest
    BY <1>0, <1>10 DEF PublishFails, PublishInOrder
  <2>2. publish' \in [Publisher -> PublishState] /\ \A q \in Publisher : PublishInOrder(publish'[q])
    BY <1>0, <1>2, <1>10, PublishTyped DEF PublishFails
  <2>3. LockTypeOK' /\ faults' \in 0 .. MaxFaults
    BY <1>0, <1>10, <2>1, <2>2, FaultTyped DEF PublishFails, LockTypeOK, ConfigsTypeOK
  <2>4. ConfigsTypeOK' /\ ConfigsInOrder'
    BY <1>10, <2>3 DEF PublishFails, ConfigsTypeOK, ConfigsInOrder, RefreshInOrder, Tip, configsVars
  <2>5. QED
    BY <1>10, <2>2, <2>3, <2>4 DEF PublishFails, PublishInOrder
<1>11. QED
  BY <1>5, <1>6, <1>7, <1>8, <1>9, <1>10 DEF PublishStep

\* So do those of builds.
LEMMA BuildKeepsType ==
  ASSUME TypeInv, NEW b \in DOMAIN builds, BuildStep(b) \/ BuildFails(b)
  PROVE  TypeInv' /\ ~ Ended(b) /\ \E status \in Status : BuildGoes(b, status)
<1> USE DEF TypeInv, LockUpdateTypeOK
<1>1. builds[b] \in Build /\ builds[b].repo \in Repo /\ builds[b].digest \in Digest
  <2>1. builds[b] \in Build
    BY DEF LockTypeOK
  <2>2. QED
    BY <2>1 DEF Build
<1>2. PICK status \in Status : BuildGoes(b, status)
  BY DEF BuildStep, BuildClones, BuildPushes, BuildCreatesPull, BuildFails, Status
<1>3. ~ Ended(b)
  BY DEF BuildStep, BuildClones, BuildPushes, BuildCreatesPull, BuildFails, Ended
<1>4. builds' \in Seq(Build) /\ Len(builds') <= MaxBuilds /\ DOMAIN builds' = DOMAIN builds
  BY <1>2, BuildGoesTyped DEF LockTypeOK
<1>5. branches' \subseteq Repo \X Digest /\ pulls' \subseteq Repo \X Digest
  BY <1>1 DEF BuildStep, BuildClones, BuildPushes, BuildCreatesPull, BuildFails, LockTypeOK
<1>6. faults' \in 0 .. MaxFaults
  BY FaultTyped DEF BuildStep, BuildClones, BuildPushes, BuildCreatesPull, BuildFails, ConfigsTypeOK
<1>7. UNCHANGED <<configsVars, messages, published, publish, buildOf, rebuilds, scanned, time>>
  BY <1>2 DEF BuildGoes
<1>8. LockTypeOK'
  BY <1>4, <1>5, <1>7 DEF LockTypeOK
<1>9. ConfigsTypeOK' /\ ConfigsInOrder'
  BY <1>6, <1>7 DEF ConfigsTypeOK, ConfigsInOrder, RefreshInOrder, Tip, configsVars
<1>10. QED
  BY <1>2, <1>3, <1>4, <1>7, <1>8, <1>9 DEF PublishInOrder

\* So do all of the lock updates.
LEMMA LockNextKeepsType ==
  ASSUME TypeInv, LockNext
  PROVE  TypeInv'
<1> USE DEF TypeInv, LockUpdateTypeOK
<1>0. LockTypeOK /\ ConfigsInv /\ MaxDigests \in Nat /\ MaxTime \in Nat
  BY ConfigsAssumption, LockUpdateAssumption DEF ConfigsInv
<1>1. ASSUME UNCHANGED configsVars, faults' \in 0 .. MaxFaults
      PROVE  ConfigsTypeOK' /\ ConfigsInOrder'
  BY <1>1 DEF ConfigsTypeOK, ConfigsInOrder, RefreshInOrder, Tip, configsVars
<1>2. ASSUME UNCHANGED publish
      PROVE  (\A h \in Publisher : PublishInOrder(publish[h]))'
  BY <1>2 DEF PublishInOrder
<1>3. CASE Publish
  <2>1. published' \in 0 .. MaxDigests /\ messages' \subseteq Digest
    BY <1>0, <1>3 DEF Publish, LockTypeOK, Digest
  <2>2. LockTypeOK'
    BY <1>3, <2>1 DEF Publish, LockTypeOK
  <2>3. QED
    BY <1>1, <1>2, <1>3, <2>2 DEF Publish, ConfigsTypeOK
<1>4. CASE Tick
  <2>1. time' \in 0 .. MaxTime
    BY <1>0, <1>4 DEF Tick, LockTypeOK
  <2>2. LockTypeOK'
    BY <1>4, <2>1 DEF Tick, LockTypeOK
  <2>3. QED
    BY <1>1, <1>2, <1>4, <2>2 DEF Tick, ConfigsTypeOK
<1>5. ASSUME NEW r \in Repo, NEW d \in Digest, Merge(r, d)
      PROVE  TypeInv'
  <2>1. [Last(commits[r]) EXCEPT !.lock = d] \in Content
    BY <1>0, LastTyped DEF Content
  <2>2. /\ commits' \in [Repo -> Seq(Content)]
        /\ \A q \in Repo : Len(commits'[q]) \in Nat /\ Len(commits'[q]) <= MaxCommits
        /\ \A q \in Repo : Tip(q) <= Tip(q)' /\ Tip(q)' >= 1
    BY <1>0, <1>5, <2>1, LandTyped DEF Merge
  <2>3. ConfigsTypeOK'
    BY <1>5, <2>2 DEF Merge, ConfigsTypeOK
  <2>4. ConfigsInOrder'
    BY <1>0, <1>5, <2>2, GrowthKeepsOrder DEF Merge, Tip
  <2>5. LockTypeOK'
    BY <1>5 DEF Merge, LockTypeOK
  <2>6. QED
    BY <1>2, <1>5, <2>3, <2>4, <2>5 DEF Merge
<1>6. CASE FilterBuildsToRetry
  <2>1. UNCHANGED <<configsVars, faults, messages, published, publish, buildOf, builds, branches, pulls, time>>
    BY <1>6 DEF FilterBuildsToRetry, JobUnchanged
  <2>2. \A x \in rebuilds' : x \in BuildId \X BOOLEAN /\ x[1] \in DOMAIN builds
    BY <1>0, <1>6, PicksExist DEF FilterBuildsToRetry
  <2>3. scanned' \in BOOLEAN
    BY <1>0, <1>6 DEF FilterBuildsToRetry, LockTypeOK
  <2>4. LockTypeOK'
    BY <2>1, <2>2, <2>3 DEF LockTypeOK
  <2>5. QED
    BY <1>1, <1>2, <2>1, <2>2, <2>4 DEF ConfigsTypeOK
<1>7. CASE JobFails
  <2>1. LockTypeOK'
    BY <1>7 DEF JobFails, JobUnchanged, LockTypeOK
  <2>2. faults' \in 0 .. MaxFaults
    BY <1>7, FaultTyped DEF JobFails, ConfigsTypeOK
  <2>3. QED
    BY <1>1, <1>2, <1>7, <2>1, <2>2 DEF JobFails, JobUnchanged
<1>8. ASSUME NEW x \in rebuilds, Rebuild(x)
      PROVE  TypeInv'
  <2> DEFINE a == builds[x[1]]
  <2>1. a \in Build /\ x \in BuildId \X BOOLEAN
    BY <1>8 DEF LockTypeOK
  <2>2. a.repo \in Repo /\ a.digest \in Digest /\ a.group \in BuildId /\ (a.forced \/ x[2]) \in BOOLEAN
    BY <2>1 DEF Build
  <2>3. RunBuild(a.repo, a.digest, a.group, a.forced \/ x[2])
    BY <1>8, Zenon DEF Rebuild
  <2>4. /\ builds' \in Seq(Build) /\ Len(builds') <= MaxBuilds
        /\ DOMAIN builds \subseteq DOMAIN builds'
    BY <1>0, <2>2, <2>3, RunBuildTyped
  <2>5. UNCHANGED <<configsVars, faults, messages, published, publish, buildOf, branches, pulls, time>>
        /\ rebuilds' \subseteq rebuilds /\ scanned' \in BOOLEAN
    BY <1>8 DEF Rebuild, JobUnchanged
  <2>6. LockTypeOK'
    BY <1>0, <2>4, <2>5 DEF LockTypeOK
  <2>7. QED
    BY <1>1, <1>2, <2>4, <2>5, <2>6 DEF ConfigsTypeOK
<1>9. QED
  BY <1>3, <1>4, <1>5, <1>6, <1>7, <1>8, PublisherKeepsType, BuildKeepsType DEF LockNext

\* So does every step.
LEMMA NextKeepsType ==
  ASSUME TypeInv, [LockUpdateNext]_allVars
  PROVE  TypeInv'
<1> USE DEF TypeInv, LockUpdateTypeOK
<1>1. CASE ConfigsNext /\ UNCHANGED lockVars
  <2>1. ConfigsTypeOK' /\ ConfigsInOrder'
    BY <1>1, ConfigsNextKeepsInv DEF ConfigsInv
  <2>2. QED
    BY <1>1, <2>1 DEF lockVars, LockTypeOK, PublishInOrder
<1>2. CASE LockNext
  BY <1>2, LockNextKeepsType
<1>3. CASE UNCHANGED allVars
  BY <1>3 DEF allVars, configsVars, lockVars, LockTypeOK, PublishInOrder, ConfigsTypeOK, ConfigsInOrder, RefreshInOrder, Tip
<1>4. QED
  BY <1>1, <1>2, <1>3 DEF LockUpdateNext

\* Every type is right at the start.
LEMMA InitTyped ==
  ASSUME LockUpdateInit
  PROVE  TypeInv /\ TriesInv
<1> USE DEF LockUpdateInit
<1>1. ConfigsTypeOK /\ ConfigsInOrder
  <2>1. [lock |-> NoLock, bad |-> FALSE] \in Content /\ NoConfigs \in Configs
    BY DEF Content, NoConfigs, Configs, NoLock
  <2>2. \A r \in Repo : commits[r] \in Seq(Content) /\ Len(commits[r]) = 1
    BY <2>1 DEF ConfigsInit
  <2>3. ConfigsTypeOK
    <3>1. commits \in [Repo -> Seq(Content)] /\ \A r \in Repo : Len(commits[r]) <= MaxCommits
      <4>1. commits \in [Repo -> Seq(Content)]
        BY <2>2, Zenon DEF ConfigsInit
      <4>2. MaxCommits \in Nat /\ MaxCommits >= 1
        BY ConfigsAssumption
      <4>3. QED
        BY <2>2, <4>1, <4>2
    <3>2. store \in [Repo -> Configs] /\ refresh \in [Refresher -> RefreshState]
      BY <2>1, RestingTyped DEF ConfigsInit
    <3>3. archived = {} /\ issues = {} /\ closed = {} /\ clearing = {} /\ faults \in 0 .. MaxFaults
      BY ConfigsAssumption DEF ConfigsInit
    <3>4. QED
      BY <3>1, <3>2, <3>3 DEF ConfigsTypeOK
  <2>4. ConfigsInOrder
    <3>1. \A r \in Repo : Tip(r) = 1 /\ store[r].commit = 0
      BY <2>2 DEF ConfigsInit, Tip, NoConfigs
    <3>2. \A q \in Refresher : refresh[q] = Resting
      BY DEF ConfigsInit
    <3>3. \A q \in Refresher : RefreshInOrder(refresh[q])
      BY <3>2 DEF Resting, RefreshInOrder
    <3>4. QED
      BY <3>1, <3>3 DEF ConfigsInOrder
  <2>5. QED
    BY <2>3, <2>4
<1>2. LockTypeOK /\ (\A h \in Publisher : PublishInOrder(publish[h])) /\ \A x \in rebuilds : x[1] \in DOMAIN builds
  <2>1. NoPublish \in PublishState /\ PublishInOrder(NoPublish)
    BY LockUpdateAssumption DEF NoPublish, PublishState, PublishInOrder, NoBuild
  <2>2. LockTypeOK
    <3>1. publish \in [Publisher -> PublishState]
      BY <2>1 DEF LockInit
    <3>2. buildOf \in [Repo -> [Digest -> 0 .. MaxBuilds]]
      <4>1. NoBuild \in 0 .. MaxBuilds
        BY LockUpdateAssumption DEF NoBuild
      <4>2. QED
        BY <4>1 DEF LockInit
    <3>3. builds \in Seq(Build) /\ Len(builds) <= MaxBuilds
      BY LockUpdateAssumption DEF LockInit
    <3>4. MaxDigests \in Nat /\ MaxBuilds \in Nat /\ MaxTime \in Nat
      BY ConfigsAssumption, LockUpdateAssumption
    <3>5. messages \subseteq Digest /\ published \in 0 .. MaxDigests /\ branches \subseteq Repo \X Digest /\ pulls \subseteq Repo \X Digest
      BY <3>4 DEF LockInit
    <3>6. time \in 0 .. MaxTime
      BY <3>4 DEF LockInit
    <3>7. rebuilds \subseteq BuildId \X BOOLEAN /\ scanned \in BOOLEAN
      <4>1. rebuilds = {} /\ scanned = FALSE
        BY DEF LockInit
      <4>2. QED
        BY <4>1, Zenon
    <3>8. QED
      BY <3>1, <3>2, <3>3, <3>5, <3>6, <3>7 DEF LockTypeOK
  <2>3. QED
    BY <2>1, <2>2 DEF LockInit
<1>3. TriesInv
  <2>1. builds = <<>> /\ DOMAIN builds = {} /\ rebuilds = {} /\ MaxTries \in Nat
    BY LockUpdateAssumption DEF LockInit
  <2>2. TriesBounded
    <3>1. \A g, forced : Tries(g, forced) = 0
      BY <2>1, FS_EmptySet DEF Tries
    <3>2. QED
      BY <2>1, <3>1 DEF TriesBounded
  <2>3. QED
    BY <2>1, <2>2 DEF TriesInv, BuildsInOrder, TriedInTurn, TriedDaily, PickedAreDue, NoneIsLate
<1>4. QED
  BY <1>1, <1>2, <1>3 DEF TypeInv, LockUpdateTypeOK

\* The variables of the store of configurations and of the updates of lock files have
\* the values the code can give them: among others, whatever is started again exists.
THEOREM LockUpdateTypeCorrect == LockUpdateSpec => []LockUpdateTypeOK
<1>1. LockUpdateInit => TypeInv
  BY InitTyped
<1>2. TypeInv /\ [LockUpdateNext]_allVars => TypeInv'
  BY NextKeepsType
<1>3. TypeInv => LockUpdateTypeOK
  BY DEF TypeInv
<1>4. QED
  BY <1>1, <1>2, <1>3, PTL DEF LockUpdateSpec

\* The configurations of a repository are never replaced by older ones, however
\* many refreshes overlap (refreshConfigs() and the transaction of storeConfigs()):
\* whoever stores read the document before the branch, the document has not changed
\* since, and the branch has only grown.
THEOREM ConfigsNeverReplacedByOlder == LockUpdateSpec => NeverReplacedByOlder
<1>1. TypeInv /\ [LockUpdateNext]_allVars
      => [\A r \in Repo : store[r].commit = 0 \/ store'[r].commit = 0 \/ store'[r].commit >= store[r].commit]_store
  <2>1. SUFFICES ASSUME TypeInv, [LockUpdateNext]_allVars, store' # store, NEW r \in Repo
                 PROVE  store[r].commit = 0 \/ store'[r].commit = 0 \/ store'[r].commit >= store[r].commit
    OBVIOUS
  <2>2. store \in [Repo -> Configs] /\ \A q \in Repo : store[q].commit \in Nat
    BY <2>1 DEF TypeInv, LockUpdateTypeOK, ConfigsTypeOK, Configs
  <2>3. ASSUME NEW p \in Refresher, StoreConfigs(p)
        PROVE  store'[r].commit >= store[r].commit
    <3>1. refresh[p] \in RefreshState /\ RefreshInOrder(refresh[p]) /\ refresh[p].pc = "store"
      BY <2>1, <2>3 DEF TypeInv, LockUpdateTypeOK, ConfigsTypeOK, ConfigsInOrder, StoreConfigs
    <3>2. refresh[p].seen \in Nat /\ refresh[p].commit \in Nat /\ refresh[p].seen < refresh[p].commit
      BY <3>1 DEF RefreshState, RefreshInOrder
    <3>3. store' = store \/ (store[refresh[p].repo].commit = refresh[p].seen /\ refresh[p].repo \in Repo
             /\ store' = [store EXCEPT ![refresh[p].repo] = [commit |-> refresh[p].commit, lock |-> commits[refresh[p].repo][refresh[p].commit].lock]])
      BY <2>3, <3>1 DEF StoreConfigs, RefreshInOrder
    <3>4. QED
      BY <2>2, <3>2, <3>3
  <2>4. ASSUME NEW q \in Repo, ClearConfigs(q)
        PROVE  store'[r].commit = 0 \/ store'[r].commit = store[r].commit
    BY <2>2, <2>4 DEF ClearConfigs, NoConfigs
  <2>5. CASE ConfigsNext
    <3>1. \/ \E p \in Refresher : StoreConfigs(p)
          \/ \E q \in Repo : ClearConfigs(q)
      BY <2>1, <2>5 DEF ConfigsNext, UserCommit, Archive, Refreshes, RefreshStep, PullRequestClosed, ScanGithubForConfigs,
            NextRepo, ScanDone, GetConfigs, GetBranch, CreateIssueIfTitleDoesntExist, RefreshFails
    <3>2. QED
      BY <2>2, <2>3, <2>4, <3>1
  <2>6. CASE LockNext
    BY <2>1, <2>6 DEF LockNext, Publish, Tick, Merge, PublishStep, PublishFails, OnPostProcessorPublished, NextStaleRepo,
         FindBuildIdForUpdatingLock, RunBuildTrigger, RecordBuildIdForUpdatingLock, PublishUnchanged, BuildStep, BuildClones,
         BuildPushes, BuildCreatesPull, BuildFails, BuildGoes, FilterBuildsToRetry, JobFails, Rebuild, JobUnchanged, configsVars
  <2>7. QED
    BY <2>1, <2>5, <2>6 DEF LockUpdateNext, allVars, configsVars
<1>2. LockUpdateInit => TypeInv
  BY InitTyped
<1>3. TypeInv /\ [LockUpdateNext]_allVars => TypeInv'
  BY NextKeepsType
<1>4. QED
  BY <1>1, <1>2, <1>3, PTL DEF LockUpdateSpec, NeverReplacedByOlder

\* Every step keeps the tries of builds in bounds.
LEMMA NextKeepsTries ==
  ASSUME TypeInv, TriesInv, Recent + MaxTries <= Window + 1, [LockUpdateNext]_allVars
  PROVE  TriesInv'
<1>1. LockTypeOK /\ \A h \in Publisher : publish[h] \in PublishState /\ PublishInOrder(publish[h])
  BY DEF TypeInv, LockUpdateTypeOK, LockTypeOK
<1>2. CASE ConfigsNext /\ UNCHANGED lockVars
  BY <1>2, OthersKeepTries DEF lockVars
<1>3. CASE UNCHANGED allVars
  BY <1>3, OthersKeepTries DEF allVars, lockVars
<1>4. CASE Publish \/ \E r \in Repo, d \in Digest : Merge(r, d)
  BY <1>4, OthersKeepTries DEF Publish, Merge
<1>5. CASE Tick \/ JobFails
  BY <1>1, <1>5, DayKeepsTries
<1>6. ASSUME NEW h \in Publisher, PublishStep(h) \/ PublishFails(h)
      PROVE  TriesInv'
  <2>1. CASE RunBuildTrigger(h)
    <3>1. publish[h].repo \in Repo /\ publish[h].digest \in Digest
      BY <1>1, <2>1 DEF RunBuildTrigger, PublishInOrder
    <3>2. PICK no \in BOOLEAN : ~ no
      OBVIOUS
    <3>3. no = FALSE
      BY <3>2
    <3>4. RunBuild(publish[h].repo, publish[h].digest, Len(builds) + 1, no)
      BY <2>1, <3>3 DEF RunBuildTrigger
    <3>5. UNCHANGED <<rebuilds, scanned, time>>
      BY <2>1 DEF RunBuildTrigger, PublishUnchanged
    <3>6. QED
      BY <1>1, <3>1, <3>2, <3>4, <3>5, TriggerKeepsTries
  <2>2. CASE ~ RunBuildTrigger(h)
    BY <1>6, <2>2, OthersKeepTries DEF PublishStep, PublishFails, OnPostProcessorPublished, NextStaleRepo,
         FindBuildIdForUpdatingLock, RecordBuildIdForUpdatingLock, PublishUnchanged
  <2>3. QED
    BY <2>1, <2>2
<1>7. ASSUME NEW b \in DOMAIN builds, BuildStep(b) \/ BuildFails(b)
      PROVE  TriesInv'
  BY <1>1, <1>7, BuildKeepsType, GoingKeepsTries
<1>8. CASE FilterBuildsToRetry
  BY <1>1, <1>8, FilterKeepsTries
<1>9. ASSUME NEW x \in rebuilds, Rebuild(x)
      PROVE  TriesInv'
  BY <1>1, <1>9, RebuildKeepsTries
<1>10. QED
  BY <1>2, <1>3, <1>4, <1>5, <1>6, <1>7, <1>8, <1>9 DEF LockUpdateNext, LockNext

\* No build is tried more than maxTries times by either trigger (filterBuildsToRetry()
\* and its callers), although the job counts only the builds of the window: a group
\* that failed is tried again within a day, so that all its tries are in sight as long as
\* one is recent. That takes a window of at least the recent day and the days of the tries
\* after the first, which 72 hours are for 24 hours and 3 tries.
THEOREM TriesAreBounded ==
  ASSUME Recent + MaxTries <= Window + 1
  PROVE  LockUpdateSpec => []TriesBounded
<1>1. LockUpdateInit => TypeInv /\ TriesInv
  BY InitTyped
<1>2. TypeInv /\ TriesInv /\ [LockUpdateNext]_allVars => TypeInv' /\ TriesInv'
  BY NextKeepsType, NextKeepsTries
<1>3. TriesInv => TriesBounded
  BY DEF TriesInv
<1>4. QED
  BY <1>1, <1>2, <1>3, PTL DEF LockUpdateSpec

----------------------------------------------------------------------------
(* Copying code. *)

\* What a job has at hand.
Searching == {"each", "rest", "batch"}
Pushing == {"push", "pushNew", "create", "record"}
JobFits(x) ==
  /\ x.pc \notin {"idle", "scan"} => x.stack # <<>>
  /\ x.pc = "scan" => x.cursor <= Len(source)
  /\ x.pc \in Pushing => x.tags # {}
  /\ x.pc \in Pushing \cup {"copy", "copyNew"} => x.target # {}
  /\ x.pc = "rest" => x.leftOvers # {}
CopyTyped == CopyTypeOK /\ \A s \in Scanner : JobFits(scanner[s])

\* What is recorded was delivered, and so was everything older, or it needed not be.
Dealt(y, c) == <<y, c>> \in delivered \cup skipped \cup raced
DealtBefore(d) == \A y \in Yaml, c \in Source : (c < d /\ Affects(y, c)) => Dealt(y, c)
RecordedInOrder ==
  recorded \subseteq delivered /\ \A t \in recorded : t[2] <= Len(source) /\ DealtBefore(t[2])

\* A job has what is older than the work on its stack on the stack too, further up.
Awaited(x, y, c) ==
  \/ \E i \in DOMAIN x.stack : x.stack[i].commit = c /\ y \in x.stack[i].yamls
  \/ x.pc = "scan" /\ c <= x.cursor
StackInOrder(x) ==
  /\ \A i \in DOMAIN x.stack : x.stack[i].commit <= Len(source) /\ (x.pc = "scan" => x.cursor < x.stack[i].commit)
  /\ \A i, j \in DOMAIN x.stack : i < j => x.stack[j].commit <= x.stack[i].commit
  /\ allowed => \A i \in DOMAIN x.stack, y \in Yaml, c \in Source :
                  (c < x.stack[i].commit /\ Affects(y, c)) => Dealt(y, c) \/ Awaited(x, y, c)

\* The files of its work are dealt with or it will get to them.
Stage(x) == IF x.pc \in Searching THEN x.pc ELSE x.phase
StillToDo(x) == CASE Stage(x) = "each"  -> x.todo \cup x.leftOvers
                  [] Stage(x) = "rest"  -> x.leftOvers
                  [] Stage(x) = "batch" -> x.todo
WorkInHand(x) ==
  x.pc \notin {"idle", "scan", "clone"} =>
    LET w == Last(x.stack) IN
    /\ allowed
    /\ \A y \in w.yamls : Dealt(y, w.commit) \/ y \in StillToDo(x)
    /\ (x.pc \notin Searching /\ x.phase = "rest") => x.target = x.leftOvers
    /\ x.pc \in Pushing => \A t \in x.tags : t[2] = w.commit
    /\ x.pc \in {"push", "pushNew"} => \A y \in x.target : Dealt(y, w.commit) \/ <<y, w.commit>> \in x.tags
    /\ x.pc \in {"create", "record"} => x.tags \subseteq delivered /\ \A y \in x.target : Dealt(y, w.commit)
JobInOrder(x) == StackInOrder(x) /\ WorkInHand(x)
CopyInv == RecordedInOrder /\ \A s \in Scanner : JobInOrder(scanner[s])

\* Who is going to overwrite the branch of a pull request knows its tags, or they are late.
ScannerKnows(s) ==
  (scanner[s].pc \in {"copyNew", "pushNew"} /\ scanner[s].target \in open)
    => Tags(branch[scanner[s].target]) \subseteq late[s]
RegeneratorKnows(g) ==
  /\ regenerator[g].pc # "idle" => regenerator[g].target # {}
  /\ (regenerator[g].pc = "push" /\ ~regenerator[g].again)
       => Tags(branch[regenerator[g].target]) \ Tags(regenerator[g].clone) \subseteq late[g]
LateInv == lost = {} /\ (\A s \in Scanner : ScannerKnows(s)) /\ \A g \in Regenerator : RegeneratorKnows(g)

\* A finite set as a sequence has each of its elements.
LEMMA SetToSeqHasAll ==
  ASSUME NEW S, IsFiniteSet(S)
  PROVE  /\ SetToSeq(S) \in [1 .. Cardinality(S) -> S]
         /\ \A x \in S : \E i \in 1 .. Cardinality(S) : SetToSeq(S)[i] = x
<1> DEFINE n == Cardinality(S)
<1>1. n \in Nat /\ ExistsBijection(1 .. n, S)
  BY FS_CardinalityType
<1>2. \E f \in [1 .. n -> S] : IsInjective(f)
  BY <1>1 DEF ExistsBijection, Bijection, Injection
<1>3. SetToSeq(S) \in [1 .. n -> S] /\ IsInjective(SetToSeq(S))
  BY <1>2 DEF SetToSeq
<1>4. SetToSeq(S) \in Injection(1 .. n, S)
  BY <1>3 DEF Injection
<1>5. Cardinality(1 .. n) = n
  BY <1>1, FS_Interval
<1>6. SetToSeq(S) \in Surjection(1 .. n, S)
  BY <1>4, <1>5, FS_Injection
<1>7. QED
  BY <1>3, <1>6 DEF Surjection

\* The last of some work, and what comes before it.
LEMMA LastAndFront ==
  ASSUME NEW T, NEW st \in Seq(T), st # <<>>
  PROVE  /\ Len(st) \in Nat \ {0} /\ Last(st) = st[Len(st)] /\ Last(st) \in T
         /\ Front(st) \in Seq(T) /\ Len(Front(st)) = Len(st) - 1
         /\ \A i \in 1 .. Len(st) - 1 : Front(st)[i] = st[i]
         /\ Front(st) = <<>> <=> Len(st) = 1
<1>1. Len(st) \in Nat \ {0} /\ DOMAIN st = 1 .. Len(st) /\ \A i \in 1 .. Len(st) : st[i] \in T
  BY EmptySeq, LenProperties
<1>2. Last(st) = st[Len(st)] /\ Last(st) \in T
  BY <1>1 DEF Last
<1>3. Front(st) = SubSeq(st, 1, Len(st) - 1)
  BY DEF Front
<1>4. /\ Front(st) \in Seq(T) /\ Len(Front(st)) = Len(st) - 1
      /\ \A i \in 1 .. Len(st) - 1 : Front(st)[i] = st[i]
  BY <1>1, <1>3, SubSeqProperties
<1>5. Front(st) = <<>> <=> Len(st) = 1
  BY <1>1, <1>4, EmptySeq
<1>6. QED
  BY <1>1, <1>2, <1>4, <1>5
\* The work a commit makes has all its files that are not recorded, and no others.
LEMMA TodosTyped ==
  ASSUME CopyTypeOK, NEW c \in 1 .. Len(source)
  PROVE  /\ c \in Source /\ TodoYamls(c) \in SUBSET Yaml /\ Todos(c) \in Seq(Todo)
         /\ \A i \in DOMAIN Todos(c) : Todos(c)[i].commit = c
         /\ \A y \in TodoYamls(c) : \E i \in DOMAIN Todos(c) : y \in Todos(c)[i].yamls
<1> DEFINE ys == TodoYamls(c)
           n == Cardinality(ys)
           one == [yamls |-> ys, commit |-> c]
           files == SetToSeq(ys)
           each == [i \in 1 .. Len(files) |-> [yamls |-> {files[i]}, commit |-> c]]
<1>1. c \in Source /\ ys \in SUBSET Yaml
  <2>1. source \in Seq(SUBSET Yaml) /\ Len(source) <= MaxSource /\ MaxSource \in Nat \ {0}
    BY CopyAssumption DEF CopyTypeOK
  <2>2. source[c] \in SUBSET Yaml
    BY <2>1, ElementOfSeq
  <2>3. Len(source) \in Nat
    BY <2>1, LenProperties
  <2>4. QED
    BY <2>1, <2>2, <2>3 DEF Source, TodoYamls
<1>2. IsFiniteSet(ys) /\ n \in Nat
  BY <1>1, CopyAssumption, FS_Subset, FS_CardinalityType
<1>3. CASE n > Combine
  <2>1. ys # {}
    BY <1>2, <1>3, CopyAssumption, FS_EmptySet
  <2>2. one \in Todo
    BY <1>1, <2>1 DEF Todo, Branch
  <2>3. Todos(c) = <<one>>
    BY <1>3 DEF Todos
  <2>4. <<one>> \in Seq(Todo) /\ DOMAIN <<one>> = {1} /\ <<one>>[1] = one
    BY <2>2
  <2>5. one.commit = c /\ one.yamls = ys
    OBVIOUS
  <2>6. QED
    BY <1>1, <2>3, <2>4, <2>5
<1>4. CASE ~(n > Combine)
  <2>1. files \in [1 .. n -> ys] /\ \A y \in ys : \E i \in 1 .. n : files[i] = y
    BY <1>2, SetToSeqHasAll
  <2>2. Len(files) = n
    BY <1>2, <2>1
  <2>3. each = [i \in 1 .. n |-> [yamls |-> {files[i]}, commit |-> c]]
    BY <2>2
  <2>4. Todos(c) = each
    BY <1>4 DEF Todos
  <2>5. \A i \in 1 .. n : [yamls |-> {files[i]}, commit |-> c] \in Todo
    BY <1>1, <2>1 DEF Todo, Branch
  <2>6. each \in [1 .. n -> Todo]
    BY <2>3, <2>5
  <2>7. each \in Seq(Todo)
    BY <1>2, <2>6
  <2>8. DOMAIN each = 1 .. n /\ \A i \in 1 .. n : each[i].commit = c /\ each[i].yamls = {files[i]}
    BY <2>3
  <2> HIDE DEF ys, n, files, each
  <2>9. \A y \in ys : \E i \in 1 .. n : y \in each[i].yamls
    BY <2>1, <2>8
  <2>10. QED
    BY <1>1, <2>4, <2>7, <2>8, <2>9 DEF ys
<1>5. QED
  BY <1>3, <1>4

\* Jobs at rest, with the next work and on a search.
LEMMA JobsTyped ==
  /\ ScanIdle \in ScannerState /\ JobFits(ScanIdle)
  /\ \A x \in ScannerState : x.stack # <<>> =>
       /\ Finished(x) \in ScannerState /\ JobFits(Finished(x))
       /\ Found(x) \in ScannerState /\ JobFits(Found(x))
       /\ NotFound(x) \in ScannerState /\ (x.target # {} => JobFits(NotFound(x)))
<1>1. /\ ScanIdle \in ScannerState /\ ScanIdle.pc = "idle" /\ ScanIdle.stack = <<>>
      /\ \A pc \in ScannerPc, st \in Seq(Todo) : \A y :
           y = [ScanIdle EXCEPT !.stack = st, !.pc = pc] => y \in ScannerState /\ y.pc = pc /\ y.stack = st
  <2>1. Nothing \in [Branch -> Seq(SUBSET Tag)]
    BY DEF Nothing
  <2>2. <<>> \in Seq(Todo) /\ 0 \in 0 .. MaxSource
    BY CopyAssumption
  <2>3. QED
    BY <2>1, <2>2 DEF ScanIdle, ScannerState, ScannerPc
<1>2. ASSUME NEW x \in ScannerState, x.stack # <<>>
      PROVE  /\ Finished(x) \in ScannerState /\ JobFits(Finished(x))
             /\ Found(x) \in ScannerState /\ JobFits(Found(x))
             /\ NotFound(x) \in ScannerState /\ (x.target # {} => JobFits(NotFound(x)))
  <2>1. x.stack \in Seq(Todo)
    BY DEF ScannerState
  <2>2. Front(x.stack) \in Seq(Todo) /\ (Front(x.stack) = <<>> <=> Len(x.stack) = 1)
    BY <1>2, <2>1, LastAndFront
  <2>3. PICK pc \in {"idle", "clone"} : pc = IF Len(x.stack) = 1 THEN "idle" ELSE "clone"
    OBVIOUS
  <2>4. Finished(x) = [ScanIdle EXCEPT !.stack = Front(x.stack), !.pc = pc]
    BY <2>3 DEF Finished
  <2>5. Finished(x) \in ScannerState /\ JobFits(Finished(x))
    <3>1. Finished(x) \in ScannerState /\ Finished(x).pc = pc /\ Finished(x).stack = Front(x.stack)
      <4>1. pc \in ScannerPc
        BY DEF ScannerPc
      <4>2. \A y : y = [ScanIdle EXCEPT !.stack = Front(x.stack), !.pc = pc]
                     => y \in ScannerState /\ y.pc = pc /\ y.stack = Front(x.stack)
        BY <1>1, <2>2, <4>1, Zenon
      <4>3. QED
        BY <2>4, <4>2, Zenon
    <3>2. pc = "clone" => Front(x.stack) # <<>>
      BY <2>2, <2>3
    <3>3. QED
      BY <2>3, <3>1, <3>2 DEF JobFits, Pushing
  <2>6. ASSUME NEW at \in {"each", "batch", "copyNew"}, NEW todo \in SUBSET Yaml, NEW left \in SUBSET Yaml, NEW y,
               y = [x EXCEPT !.pc = at, !.todo = todo, !.leftOvers = left]
        PROVE  y \in ScannerState /\ (at \in {"each", "batch"} \/ x.target # {} => JobFits(y))
    BY <1>2, <2>6 DEF ScannerState, ScannerPc, JobFits, Pushing
  <2>7. /\ x.phase \in {"each", "rest", "batch"} /\ x.todo \ x.target \in SUBSET Yaml /\ x.todo \in SUBSET Yaml
        /\ x.leftOvers \in SUBSET Yaml /\ x.leftOvers \cup x.target \in SUBSET Yaml
    BY DEF ScannerState
  <2>8. Found(x) \in ScannerState /\ JobFits(Found(x))
    <3>1. CASE x.phase = "each"
      <4>1. Found(x) = [x EXCEPT !.pc = "each", !.todo = x.todo \ x.target, !.leftOvers = x.leftOvers]
        BY <3>1 DEF Found, ScannerState
      <4>2. QED
        BY <2>6, <2>7, <4>1
    <3>2. CASE x.phase = "batch"
      <4>1. Found(x) = [x EXCEPT !.pc = "batch", !.todo = x.todo \ x.target, !.leftOvers = x.leftOvers]
        BY <3>2 DEF Found, ScannerState
      <4>2. QED
        BY <2>6, <2>7, <4>1
    <3>3. CASE x.phase = "rest"
      BY <2>5, <3>3 DEF Found
    <3>4. QED
      BY <2>7, <3>1, <3>2, <3>3
  <2>9. NotFound(x) \in ScannerState /\ (x.target # {} => JobFits(NotFound(x)))
    <3>1. CASE x.phase = "each"
      <4>1. NotFound(x) = [x EXCEPT !.pc = "each", !.todo = x.todo \ x.target, !.leftOvers = x.leftOvers \cup x.target]
        BY <3>1 DEF NotFound, ScannerState
      <4>2. QED
        BY <2>6, <2>7, <4>1
    <3>2. CASE x.phase = "rest"
      <4>1. NotFound(x) = [x EXCEPT !.pc = "batch", !.todo = x.leftOvers, !.leftOvers = x.leftOvers]
        BY <3>2 DEF NotFound, ScannerState
      <4>2. QED
        BY <2>6, <2>7, <4>1
    <3>3. CASE x.phase = "batch"
      <4>1. NotFound(x) = [x EXCEPT !.pc = "copyNew", !.todo = x.todo, !.leftOvers = x.leftOvers]
        BY <3>3 DEF NotFound, ScannerState
      <4>2. QED
        BY <2>6, <2>7, <4>1
    <3>4. QED
      BY <2>7, <3>1, <3>2, <3>3
  <2>10. QED
    BY <2>5, <2>8, <2>9
<1>3. QED
  BY <1>1, <1>2 DEF JobFits, Pushing

\* The tags of some commits, and of the files a job copies.
LEMMA TagsTyped ==
  ASSUME CopyTyped
  PROVE  /\ \A log \in Seq(SUBSET Tag) : Tags(log) \in SUBSET Tag
         /\ \A log \in Seq(SUBSET Tag), tags \in SUBSET Tag : Tags(Append(log, tags)) = Tags(log) \cup tags
         /\ \A tags : Tags(<<tags>>) = tags
         /\ Tags(<<>>) = {}
         /\ \A s \in Scanner : scanner[s].stack # <<>> => Work(s) \in Todo /\ \A state : TagsOf(s, state) \in SUBSET Tag
<1>1. ASSUME NEW log \in Seq(SUBSET Tag) PROVE Tags(log) \in SUBSET Tag
  <2>1. \A i \in DOMAIN log : log[i] \in SUBSET Tag
    BY LenProperties, ElementOfSeq
  <2>2. QED
    BY <2>1 DEF Tags, Range
<1>2. ASSUME NEW log \in Seq(SUBSET Tag), NEW tags \in SUBSET Tag
      PROVE  Tags(Append(log, tags)) = Tags(log) \cup tags
  <2> DEFINE more == Append(log, tags)
  <2>1. /\ DOMAIN log = 1 .. Len(log) /\ Len(log) \in Nat /\ DOMAIN more = 1 .. Len(log) + 1
        /\ \A i \in 1 .. Len(log) : more[i] = log[i]
        /\ more[Len(log) + 1] = tags
    BY LenProperties, AppendProperties
  <2> HIDE DEF more
  <2>2. Range(more) = Range(log) \cup {tags}
    BY <2>1 DEF Range
  <2>3. QED
    BY <2>2 DEF Tags, more
<1>3. ASSUME NEW tags PROVE Tags(<<tags>>) = tags
  <2>1. Range(<<tags>>) = {tags}
    BY DEF Range
  <2>2. QED
    BY <2>1 DEF Tags
<1>4. Tags(<<>>) = {}
  BY DEF Tags, Range
<1>5. ASSUME NEW s \in Scanner, scanner[s].stack # <<>>
      PROVE  Work(s) \in Todo /\ \A state : TagsOf(s, state) \in SUBSET Tag
  <2>1. scanner[s].stack \in Seq(Todo) /\ scanner[s].target \in SUBSET Yaml
    BY DEF CopyTyped, CopyTypeOK, ScannerState
  <2>2. Work(s) \in Todo
    BY <1>5, <2>1, LastAndFront DEF Work
  <2>3. Work(s).commit \in Source
    BY <2>2 DEF Todo
  <2>4. QED
    BY <2>1, <2>2, <2>3 DEF TagsOf, Tag
<1>6. QED
  BY <1>1, <1>2, <1>3, <1>4, <1>5

\* The other variables of a step of a job are typed.
RestTyped ==
  /\ UNCHANGED <<github, regenerator>>
  /\ branch' \in [Branch -> Seq(SUBSET Tag)] /\ open' \in SUBSET Branch
  /\ {recorded', delivered', skipped', raced', lost'} \subseteq SUBSET Tag
  /\ late' \in [Scanner \cup Regenerator -> SUBSET Tag]
  /\ copyFaults' \in 0 .. MaxCopyFaults

\* A job goes on.
LEMMA JobKeepsTyping ==
  ASSUME CopyTyped, NEW s \in Scanner, NEW y \in ScannerState, JobFits(y), Becomes(s, y), RestTyped
  PROVE  CopyTyped'
<1>1. CopyTypeOK /\ \A t \in Scanner : JobFits(scanner[t])
  BY DEF CopyTyped
<1>2. scanner' \in [Scanner -> ScannerState] /\ \A t \in Scanner : scanner'[t] = IF t = s THEN y ELSE scanner[t]
  BY <1>1 DEF CopyTypeOK, Becomes
<1>3. CopyTypeOK'
  BY <1>1, <1>2 DEF CopyTypeOK, RestTyped, github
<1>4. \A t \in Scanner : JobFits(scanner'[t])
  BY <1>1, <1>2
<1>5. \A t \in Scanner : JobFits(scanner[t])'
  BY <1>4 DEF JobFits, RestTyped, github
<1>6. QED
  BY <1>3, <1>5 DEF CopyTyped

\* What others miss of a branch.
LEMMA MissesTyped ==
  ASSUME CopyTyped, NEW p, NEW b, NEW tags \in SUBSET Tag, Misses(p, b, tags)
  PROVE  /\ late' \in [Scanner \cup Regenerator -> SUBSET Tag]
         /\ \A q \in Scanner \cup Regenerator :
              late'[q] = IF q # p /\ Target(q) = b THEN late[q] \cup tags ELSE late[q]
<1>1. late \in [Scanner \cup Regenerator -> SUBSET Tag]
  BY DEF CopyTyped, CopyTypeOK
<1>2. late' = [q \in Scanner \cup Regenerator |-> IF q # p /\ Target(q) = b THEN late[q] \cup tags ELSE late[q]]
  BY <1>1 DEF Misses
<1>3. QED
  BY <1>1, <1>2

\* What a job looks for are files.
LEMMA WantedTyped ==
  ASSUME NEW x \in ScannerState, JobFits(x), x.pc \in Searching, x.pc = "rest" \/ x.todo # {}
  PROVE  Wanted(x) \in SUBSET Yaml /\ Wanted(x) # {}
<1>1. x.todo \in SUBSET Yaml /\ x.leftOvers \in SUBSET Yaml /\ Yaml \subseteq Nat
  BY CopyAssumption DEF ScannerState
<1>2. CASE x.pc = "rest"
  <2>1. Wanted(x) = x.leftOvers
    BY <1>2 DEF Wanted
  <2>2. QED
    BY <1>1, <1>2, <2>1 DEF JobFits
<1>3. ASSUME x.pc \in {"each", "batch"} PROVE Wanted(x) \in SUBSET Yaml /\ Wanted(x) # {}
  <2>1. x.todo \in SUBSET Nat /\ x.todo # {}
    BY <1>1, <1>3
  <2>2. PICK y \in x.todo : \A z \in x.todo : y <= z
    BY <2>1, Least
  <2>3. CASE x.pc = "each"
    <3>1. (CHOOSE z \in x.todo : \A u \in x.todo : z <= u) \in x.todo
      BY <2>2
    <3>2. Wanted(x) = {CHOOSE z \in x.todo : \A u \in x.todo : z <= u}
      BY <2>3 DEF Wanted
    <3>3. QED
      BY <1>1, <3>1, <3>2
  <2>4. CASE x.pc = "batch"
    <3>1. Wanted(x) = Batch(x.todo)
      BY <2>4 DEF Wanted
    <3>2. {z \in x.todo : z < y} = {}
      BY <2>1, <2>2
    <3>3. Cardinality({z \in x.todo : z < y}) = 0 /\ 0 < BatchSize
      BY <3>2, FS_EmptySet, CopyAssumption
    <3>4. y \in Batch(x.todo) /\ Batch(x.todo) \subseteq x.todo
      BY <3>3 DEF Batch
    <3>5. QED
      BY <1>1, <3>1, <3>4
  <2>5. QED
    BY <1>3, <2>3, <2>4
<1>4. QED
  BY <1>2, <1>3 DEF Searching

\* The first of some tags is one of them.
LEMMA FirstTag ==
  ASSUME NEW tags \in SUBSET Tag, tags # {}
  PROVE  (CHOOSE t \in tags : \A u \in tags : t[1] <= u[1]) \in tags
<1> DEFINE S == {t[1] : t \in tags}
<1>1. S \in SUBSET Nat /\ S # {}
  BY CopyAssumption DEF Tag
<1>2. PICK m \in S : \A n \in S : m <= n
  BY <1>1, Least
<1>3. PICK t \in tags : t[1] = m
  OBVIOUS
<1>4. \A u \in tags : t[1] <= u[1]
  BY <1>2, <1>3
<1>5. QED
  BY <1>4

\* A push, forced or not.
LEMMA PushTyped ==
  ASSUME CopyTyped, NEW p, NEW b, NEW tags \in SUBSET Tag
  PROVE  /\ \A clone \in Seq(SUBSET Tag) : Push(p, b, clone, tags) =>
              branch' \in [Branch -> Seq(SUBSET Tag)] /\ delivered' \in SUBSET Tag
         /\ PushForced(p, b, tags) =>
              branch' \in [Branch -> Seq(SUBSET Tag)] /\ delivered' \in SUBSET Tag /\ lost' \in SUBSET Tag
<1>1. /\ branch \in [Branch -> Seq(SUBSET Tag)] /\ delivered \in SUBSET Tag /\ lost \in SUBSET Tag
      /\ open \in SUBSET Branch
  BY DEF CopyTyped, CopyTypeOK
<1>2. \A clone \in Seq(SUBSET Tag) : Append(clone, tags) \in Seq(SUBSET Tag)
  BY AppendProperties
<1>3. <<tags>> \in Seq(SUBSET Tag)
  OBVIOUS
<1>4. b \in open => Tags(branch[b]) \in SUBSET Tag
  BY <1>1, TagsTyped
<1>5. QED
  BY <1>1, <1>2, <1>3, <1>4 DEF Push, PushForced

\* A push that is not forced adds what everybody else is said to miss.
LEMMA PushAdds ==
  ASSUME CopyTyped, NEW p, NEW b \in Branch, NEW tags \in SUBSET Tag,
         NEW clone \in Seq(SUBSET Tag), Push(p, b, clone, tags)
  PROVE  \E pushed \in SUBSET Tag, log \in Seq(SUBSET Tag) :
           /\ Misses(p, b, pushed) /\ branch' = [branch EXCEPT ![b] = log]
           /\ Tags(log) \subseteq Tags(branch[b]) \cup pushed
<1>1. branch[b] \in Seq(SUBSET Tag)
  BY DEF CopyTyped, CopyTypeOK
<1>2. PICK pushed : pushed = tags \cup (Tags(clone) \ Tags(branch[b]))
  OBVIOUS
<1>3. PICK log : log = Append(clone, tags)
  OBVIOUS
<1>4. pushed \in SUBSET Tag /\ log \in Seq(SUBSET Tag)
  BY <1>1, <1>2, <1>3, TagsTyped, AppendProperties
<1>5. Tags(log) = Tags(clone) \cup tags
  BY <1>3, TagsTyped
<1>6. Misses(p, b, pushed) /\ branch' = [branch EXCEPT ![b] = log]
  BY <1>2, <1>3 DEF Push
<1>7. QED
  BY <1>2, <1>4, <1>5, <1>6

\* A step of a job.
LEMMA ScannerStepTyped ==
  ASSUME CopyTyped, NEW s \in Scanner, ScannerStep(s) \/ ScannerFails(s)
  PROVE  CopyTyped'
<1> DEFINE x == scanner[s]
<1>1. CopyTypeOK /\ x \in ScannerState /\ JobFits(x)
  BY DEF CopyTyped, CopyTypeOK
<1>2. UNCHANGED <<github, branch, open, recorded, regenerator, copyFaults, history>> => RestTyped
  BY <1>1 DEF RestTyped, CopyTypeOK, history
<1>3. ASSUME ScannerFails(s) PROVE CopyTyped'
  <2>1. RestTyped /\ Becomes(s, ScanIdle)
    BY <1>1, <1>3, CopyAssumption DEF ScannerFails, CopyFault, RestTyped, CopyTypeOK, history
  <2>2. QED
    BY <2>1, JobsTyped, JobKeepsTyping
<1>4. CASE StartScan(s)
  <2>1. PICK n \in Nat : n = Len(source)
    BY <1>1, LenProperties DEF CopyTypeOK
  <2>2. n \in 0 .. MaxSource
    BY <1>1, <2>1, CopyAssumption DEF CopyTypeOK
  <2>3. PICK y : y = [ScanIdle EXCEPT !.pc = "scan", !.cursor = n]
    OBVIOUS
  <2>4. y \in ScannerState /\ y.pc = "scan" /\ y.cursor = n
    BY <2>2, <2>3, JobsTyped DEF ScannerState, ScannerPc
  <2>5. JobFits(y)
    BY <2>1, <2>4 DEF JobFits, Pushing
  <2>6. Becomes(s, y) /\ RestTyped
    BY <1>2, <1>4, <2>1, <2>3 DEF StartScan
  <2>7. QED
    BY <2>4, <2>5, <2>6, JobKeepsTyping
<1>5. CASE ScanCommit(s)
  <2>1. PICK c \in Nat : c = x.cursor
    BY <1>1 DEF ScannerState
  <2>2. x.pc = "scan" /\ c > 0 /\ c <= Len(source) /\ c \in 0 .. MaxSource
    BY <1>1, <1>5, <2>1 DEF ScanCommit, JobFits, ScannerState
  <2>3. Len(source) \in Nat
    BY <1>1, LenProperties DEF CopyTypeOK
  <2>4. c \in 1 .. Len(source) /\ Todos(c) \in Seq(Todo)
    BY <1>1, <2>2, <2>3, TodosTyped
  <2>5. PICK m \in 0 .. MaxSource, st \in Seq(Todo) :
          m <= c /\ m = (IF source[c] # {} /\ Todos(c) = <<>> THEN 0 ELSE c - 1) /\ st = x.stack \o Todos(c)
    <3>1. x.stack \o Todos(c) \in Seq(Todo)
      BY <1>1, <2>4, ConcatProperties DEF ScannerState
    <3>2. 0 \in 0 .. MaxSource /\ c - 1 \in 0 .. MaxSource /\ 0 <= c /\ c - 1 <= c
      BY <2>2, CopyAssumption
    <3>3. QED
      BY <3>1, <3>2
  <2>6. PICK y : y = [x EXCEPT !.stack = st, !.cursor = m]
    OBVIOUS
  <2>7. y \in ScannerState /\ y.pc = "scan" /\ y.cursor = m
    BY <1>1, <2>2, <2>5, <2>6 DEF ScannerState
  <2>8. JobFits(y)
    BY <2>2, <2>3, <2>5, <2>7 DEF JobFits, Pushing
  <2>9. Becomes(s, y) /\ RestTyped
    BY <1>1, <1>2, <1>5, <2>1, <2>5, <2>6 DEF ScanCommit, ScannerState
  <2>10. QED
    BY <2>7, <2>8, <2>9, JobKeepsTyping
<1>6. CASE ScanEnds(s)
  <2>1. PICK pc \in {"idle", "clone"}, st \in Seq(Todo) :
          pc = (IF x.stack = <<>> THEN "idle" ELSE "clone") /\ st = x.stack
    BY <1>1 DEF ScannerState
  <2>2. PICK y : y = [ScanIdle EXCEPT !.pc = pc, !.stack = st]
    OBVIOUS
  <2>3. y \in ScannerState /\ y.pc = pc /\ y.stack = st
    BY <2>1, <2>2, JobsTyped DEF ScannerState, ScannerPc
  <2>4. JobFits(y)
    BY <2>1, <2>3 DEF JobFits, Pushing
  <2>5. Becomes(s, y) /\ RestTyped
    BY <1>2, <1>6, <2>1, <2>2 DEF ScanEnds, Pop
  <2>6. QED
    BY <2>3, <2>4, <2>5, JobKeepsTyping
<1>7. CASE Clone(s)
  <2>1. x.stack # <<>> /\ x.pc = "clone"
    BY <1>1, <1>7 DEF Clone, JobFits
  <2>2. Work(s).yamls \in SUBSET Yaml
    BY <2>1, TagsTyped DEF Todo, Branch
  <2>3. PICK y : y = [x EXCEPT !.pc = "each", !.clone = branch, !.todo = Work(s).yamls]
    OBVIOUS
  <2>4. y \in ScannerState /\ JobFits(y)
    BY <1>1, <2>1, <2>2, <2>3 DEF ScannerState, ScannerPc, JobFits, Pushing, CopyTypeOK
  <2>5. Becomes(s, y) \/ Becomes(s, Finished(x))
    BY <1>7, <2>3 DEF Clone
  <2>6. RestTyped
    BY <1>2, <1>7 DEF Clone
  <2>7. QED
    BY <1>1, <2>1, <2>4, <2>5, <2>6, JobsTyped, JobKeepsTyping
<1>8. CASE EachDone(s)
  <2>1. x.stack # <<>> /\ x.pc = "each"
    BY <1>1, <1>8 DEF EachDone, JobFits
  <2>2. PICK y, z : y = [x EXCEPT !.pc = "batch", !.todo = x.leftOvers] /\ z = [x EXCEPT !.pc = "rest"]
    OBVIOUS
  <2>3. y \in ScannerState /\ JobFits(y) /\ z \in ScannerState /\ (x.leftOvers # {} => JobFits(z))
    BY <1>1, <2>1, <2>2 DEF ScannerState, ScannerPc, JobFits, Pushing
  <2>4. Becomes(s, y) \/ (Becomes(s, z) /\ x.leftOvers # {}) \/ Becomes(s, Finished(x))
    BY <1>8, <2>2 DEF EachDone
  <2>5. RestTyped
    BY <1>2, <1>8 DEF EachDone
  <2>6. QED
    BY <1>1, <2>1, <2>3, <2>4, <2>5, JobsTyped, JobKeepsTyping
<1>9. CASE BatchesDone(s)
  <2>1. x.stack # <<>>
    BY <1>1, <1>9 DEF BatchesDone, JobFits
  <2>2. Becomes(s, Finished(x)) /\ RestTyped
    BY <1>2, <1>9 DEF BatchesDone
  <2>3. QED
    BY <1>1, <2>1, <2>2, JobsTyped, JobKeepsTyping
<1>10. CASE List(s)
  <2>1. x.stack # <<>> /\ x.pc \in {"each", "rest", "batch"} /\ (x.pc = "rest" \/ x.todo # {})
    BY <1>1, <1>10 DEF List, JobFits
  <2>2. Wanted(x) \in SUBSET Yaml /\ Wanted(x) # {}
    BY <1>1, <2>1, WantedTyped DEF Searching
  <2>3. PICK y : y = [x EXCEPT !.phase = x.pc, !.target = Wanted(x)]
    OBVIOUS
  <2>4. y \in ScannerState /\ y.stack # <<>> /\ y.target # {}
    BY <1>1, <2>1, <2>2, <2>3 DEF ScannerState
  <2>5. PICK z : z = [y EXCEPT !.pc = "copy"]
    OBVIOUS
  <2>6. z \in ScannerState /\ JobFits(z)
    BY <2>4, <2>5 DEF ScannerState, ScannerPc, JobFits, Pushing
  <2>7. Becomes(s, NotFound(y)) \/ Becomes(s, ScanIdle) \/ Becomes(s, z)
    BY <1>10, <2>3, <2>5 DEF List
  <2>8. RestTyped
    BY <1>1, <1>10 DEF List, Looks, RestTyped, CopyTypeOK
  <2>9. QED
    BY <2>4, <2>6, <2>7, <2>8, JobsTyped, JobKeepsTyping
<1>11. CASE Copy(s) \/ CopyNew(s)
  <2>1. x.stack # <<>> /\ x.target # {}
    BY <1>1, <1>11 DEF Copy, CopyNew, JobFits, Pushing
  <2>2. \A state : TagsOf(s, state) \in SUBSET Tag
    BY <2>1, TagsTyped
  <2>3a. PICK pc \in {"push", "pushNew"} :
          \/ Becomes(s, [x EXCEPT !.pc = pc, !.tags = TagsOf(s, "good")]) /\ TagsOf(s, "good") # {}
          \/ Becomes(s, Found(x))
    BY <1>11 DEF Copy, CopyNew
  <2>3. PICK y :
          /\ pc \in {"push", "pushNew"}
          /\ y = [x EXCEPT !.pc = pc, !.tags = TagsOf(s, "good")]
          /\ (Becomes(s, y) /\ TagsOf(s, "good") # {}) \/ Becomes(s, Found(x))
    BY <2>3a
  <2>4. y \in ScannerState /\ (TagsOf(s, "good") # {} => JobFits(y))
    <3>1. PICK tags \in SUBSET Tag : tags = TagsOf(s, "good")
      BY <2>2
    <3>2. y = [x EXCEPT !.pc = pc, !.tags = tags]
      BY <2>3, <3>1
    <3>3. y \in ScannerState /\ (tags # {} => JobFits(y))
      BY <1>1, <2>1, <3>2 DEF ScannerState, ScannerPc, JobFits, Pushing
    <3>4. QED
      BY <3>1, <3>3
  <2>5. RestTyped
    <3>1. TagsOf(s, "good") \in SUBSET Tag /\ TagsOf(s, "broken") \in SUBSET Tag /\ TagsOf(s, "missing") \in SUBSET Tag
      BY <2>2
    <3>2. recorded \in SUBSET Tag /\ delivered \in SUBSET Tag /\ skipped \in SUBSET Tag /\ raced \in SUBSET Tag /\ lost \in SUBSET Tag
      BY <1>1 DEF CopyTypeOK
    <3>3. recorded' \in SUBSET Tag /\ delivered' \in SUBSET Tag /\ skipped' \in SUBSET Tag /\ raced' \in SUBSET Tag /\ lost' \in SUBSET Tag
      BY <1>11, <3>1, <3>2 DEF Copy, CopyNew, CopyCodeIntoCommit
    <3>4. UNCHANGED <<github, branch, open, regenerator, copyFaults, late>>
      BY <1>11 DEF Copy, CopyNew, CopyCodeIntoCommit
    <3>5. QED
      BY <1>1, <3>3, <3>4 DEF RestTyped, CopyTypeOK
  <2>6. QED
    BY <1>1, <2>1, <2>3, <2>4, <2>5, JobsTyped, JobKeepsTyping
<1>12. CASE PushToPull(s)
  <2>1. /\ x.pc = "push" /\ x.stack # <<>> /\ x.tags \in (SUBSET Tag) \ {{}}
        /\ x.target \in (SUBSET Yaml) \ {{}}
    BY <1>1, <1>12 DEF PushToPull, JobFits, Pushing, ScannerState
  <2>2. PICK y : y = [x EXCEPT !.pc = "record"]
    OBVIOUS
  <2>3. y \in ScannerState /\ JobFits(y)
    BY <1>1, <2>1, <2>2 DEF ScannerState, ScannerPc, JobFits, Pushing
  <2>4. Becomes(s, y) \/ Becomes(s, ScanIdle)
    BY <1>12, <2>2 DEF PushToPull
  <2>5. RestTyped
    <3>1. CASE Push(s, x.target, x.clone[x.target], x.tags)
      <4>0. x.clone[x.target] \in Seq(SUBSET Tag) /\ x.target \in Branch
        BY <1>1, <2>1 DEF ScannerState, Branch
      <4>1. branch' \in [Branch -> Seq(SUBSET Tag)] /\ delivered' \in SUBSET Tag
        BY <1>1, <2>1, <3>1, <4>0, PushTyped
      <4>2. late' \in [Scanner \cup Regenerator -> SUBSET Tag]
        BY <2>1, <3>1, <4>0, PushAdds, MissesTyped
      <4>3. QED
        BY <1>1, <1>12, <4>1, <4>2 DEF PushToPull, RestTyped, CopyTypeOK
    <3>2. CASE UNCHANGED <<branch, delivered, late>>
      BY <1>1, <1>12, <3>2 DEF PushToPull, RestTyped, CopyTypeOK
    <3>3. QED
      BY <1>12, <3>1, <3>2 DEF PushToPull
  <2>6. QED
    BY <2>3, <2>4, <2>5, JobsTyped, JobKeepsTyping
<1>13. CASE Record(s)
  <2>1. x.stack # <<>> /\ x.tags \in SUBSET Tag /\ x.pc = "record"
    BY <1>1, <1>13 DEF Record, JobFits, Pushing, ScannerState
  <2>2. PICK tag : /\ recorded' = recorded \cup {tag}
                   /\ Becomes(s, IF x.tags = {tag} THEN Found([x EXCEPT !.tags = {}]) ELSE [x EXCEPT !.tags = @ \ {tag}])
                   /\ x.tags # {} => tag \in x.tags
    BY <1>13, <2>1, FirstTag DEF Record
  <2>3. PICK y, z : y = [x EXCEPT !.tags = {}] /\ z = [x EXCEPT !.tags = x.tags \ {tag}]
    OBVIOUS
  <2>4. y \in ScannerState /\ y.stack # <<>> /\ z \in ScannerState
        /\ (x.tags # {tag} => JobFits(z))
    BY <1>1, <2>1, <2>2, <2>3 DEF ScannerState, JobFits, Pushing
  <2>5. Becomes(s, Found(y)) \/ (Becomes(s, z) /\ x.tags # {tag})
    BY <1>1, <2>2, <2>3 DEF ScannerState
  <2>6. RestTyped
    <3>1. tag \in Tag
      BY <2>1, <2>2, <1>1, <1>13 DEF JobFits, Pushing
    <3>2. QED
      BY <1>1, <1>13, <2>2, <3>1 DEF Record, RestTyped, CopyTypeOK, history
  <2>7. QED
    BY <2>4, <2>5, <2>6, JobsTyped, JobKeepsTyping
<1>14. CASE PushNew(s)
  <2>1. x.pc = "pushNew" /\ x.stack # <<>> /\ x.tags \in (SUBSET Tag) \ {{}} /\ x.target # {}
    BY <1>1, <1>14 DEF PushNew, JobFits, Pushing, ScannerState
  <2>2. PICK y : y = [x EXCEPT !.pc = "create"]
    OBVIOUS
  <2>3. y \in ScannerState /\ JobFits(y)
    BY <1>1, <2>1, <2>2 DEF ScannerState, ScannerPc, JobFits, Pushing
  <2>4. Becomes(s, y) /\ PushForced(s, x.target, x.tags)
    BY <1>14, <2>2 DEF PushNew
  <2>5. branch' \in [Branch -> Seq(SUBSET Tag)] /\ delivered' \in SUBSET Tag /\ lost' \in SUBSET Tag
    BY <1>1, <2>1, <2>4, PushTyped
  <2>6. late' \in [Scanner \cup Regenerator -> SUBSET Tag]
    BY <2>1, <2>4, MissesTyped DEF PushForced
  <2>7. RestTyped
    BY <1>1, <1>14, <2>5, <2>6 DEF PushNew, RestTyped, CopyTypeOK
  <2>8. QED
    BY <2>3, <2>4, <2>7, JobsTyped, JobKeepsTyping
<1>15. CASE CreatePull(s)
  <2>1. x.pc = "create" /\ x.stack # <<>> /\ x.tags # {} /\ x.target \in (SUBSET Yaml) \ {{}}
    BY <1>1, <1>15 DEF CreatePull, JobFits, Pushing, ScannerState
  <2>2. PICK y : y = [x EXCEPT !.pc = "record"]
    OBVIOUS
  <2>3. y \in ScannerState /\ JobFits(y)
    BY <1>1, <2>1, <2>2 DEF ScannerState, ScannerPc, JobFits, Pushing
  <2>4. Becomes(s, y) \/ Becomes(s, ScanIdle)
    BY <1>15, <2>2 DEF CreatePull
  <2>5. PICK tags : tags = (IF x.target \in open THEN {} ELSE Tags(branch[x.target])) /\ Misses(s, x.target, tags)
    BY <1>15 DEF CreatePull
  <2>6. x.target \in Branch /\ tags \in SUBSET Tag
    BY <1>1, <2>1, <2>5, TagsTyped DEF CopyTypeOK, Branch
  <2>7. late' \in [Scanner \cup Regenerator -> SUBSET Tag]
    BY <2>5, <2>6, MissesTyped
  <2>8. RestTyped
    BY <1>1, <1>15, <2>6, <2>7 DEF CreatePull, RestTyped, CopyTypeOK
  <2>9. QED
    BY <2>3, <2>4, <2>8, JobsTyped, JobKeepsTyping
<1>16. QED
  BY <1>3, <1>4, <1>5, <1>6, <1>7, <1>8, <1>9, <1>10, <1>11, <1>12, <1>13, <1>14, <1>15 DEF ScannerStep

\* What is left of the jobs when they take no step.
LEMMA ScannersKept ==
  ASSUME CopyTyped, UNCHANGED scanner, CopyTypeOK', Len(source) <= Len(source')
  PROVE  CopyTyped'
<1>1. ASSUME NEW s \in Scanner, scanner[s].pc # "scan" PROVE JobFits(scanner[s])'
  <2>1. JobFits(scanner[s]) /\ scanner'[s] = scanner[s]
    BY DEF CopyTyped
  <2>2. QED
    BY <1>1, <2>1 DEF JobFits
<1>2. ASSUME NEW s \in Scanner, scanner[s].pc = "scan" PROVE JobFits(scanner[s])'
  <2>1. PICK n \in Nat, m \in Nat, c \in Nat : n = Len(source) /\ m = Len(source') /\ c = scanner[s].cursor
    BY LenProperties DEF CopyTyped, CopyTypeOK, ScannerState
  <2>2. c <= n /\ n <= m
    BY <1>2, <2>1 DEF CopyTyped, JobFits
  <2>3. scanner'[s] = scanner[s] /\ scanner'[s].cursor <= Len(source')
    BY <2>1, <2>2
  <2>4. QED
    BY <1>2, <2>3 DEF JobFits, Pushing
<1>3. QED
  BY <1>1, <1>2 DEF CopyTyped

\* What happens outside of Owl Bot.
LEMMA OutsideTyped ==
  ASSUME CopyTyped, Generate \/ (\E y \in Yaml : EditFile(y)) \/ (\E b \in Branch : ClosePull(b))
  PROVE  CopyTyped'
<1>1. CopyTypeOK /\ Len(source) \in Nat
  BY LenProperties DEF CopyTyped, CopyTypeOK
<1>2. CASE Generate
  <2>1. PICK ys \in SUBSET Yaml : source' = Append(source, ys)
    BY <1>2 DEF Generate
  <2>2. source' \in Seq(SUBSET Yaml) /\ Len(source') = Len(source) + 1
    BY <1>1, <2>1, AppendProperties DEF CopyTypeOK
  <2>3. Len(source') <= MaxSource
    BY <1>1, <1>2, <2>2, CopyAssumption DEF Generate
  <2>4. CopyTypeOK' /\ UNCHANGED scanner
    BY <1>1, <1>2, <2>2, <2>3 DEF Generate, CopyTypeOK, history
  <2>5. QED
    BY <1>1, <2>2, <2>4, ScannersKept
<1>3. ASSUME NEW y \in Yaml, EditFile(y) PROVE CopyTyped'
  <2>1. file' \in [Yaml -> {"good", "broken", "missing"}] /\ copyFaults' \in 0 .. MaxCopyFaults
    BY <1>1, <1>3, CopyAssumption DEF EditFile, CopyFault, CopyTypeOK
  <2>2. CopyTypeOK' /\ UNCHANGED scanner /\ UNCHANGED source
    BY <1>1, <1>3, <2>1 DEF EditFile, CopyTypeOK, history
  <2>3. QED
    BY <1>1, <2>2, ScannersKept
<1>4. ASSUME NEW b \in Branch, ClosePull(b) PROVE CopyTyped'
  <2>1. branch' \in [Branch -> Seq(SUBSET Tag)] /\ copyFaults' \in 0 .. MaxCopyFaults /\ open' \in SUBSET Branch
    <3>1. <<>> \in Seq(SUBSET Tag)
      BY EmptySeq
    <3>2. branch' \in [Branch -> Seq(SUBSET Tag)]
      <4>1. CASE branch' = branch
        BY <1>1, <4>1 DEF CopyTypeOK
      <4>2. CASE branch' = [branch EXCEPT ![b] = <<>>]
        BY <1>1, <3>1, <4>2, Zenon DEF CopyTypeOK
      <4>3. QED
        BY <1>4, <4>1, <4>2 DEF ClosePull
    <3>3. open' \in SUBSET Branch
      BY <1>1, <1>4 DEF ClosePull, CopyTypeOK
    <3>4. copyFaults' \in 0 .. MaxCopyFaults
      BY <1>1, <1>4, CopyAssumption DEF ClosePull, CopyFault, CopyTypeOK
    <3>5. QED
      BY <3>2, <3>3, <3>4
  <2>2. CopyTypeOK' /\ UNCHANGED scanner /\ UNCHANGED source
    BY <1>1, <1>4, <2>1 DEF ClosePull, CopyTypeOK, history, github
  <2>3. QED
    BY <1>1, <2>2, ScannersKept
<1>5. QED
  BY <1>2, <1>3, <1>4

\* A build that regenerates goes on.
LEMMA RegeneratorStepTyped ==
  ASSUME CopyTyped, NEW g \in Regenerator, RegeneratorStep(g) \/ \E b \in Branch : StartRegenerate(g, b)
  PROVE  CopyTyped'
<1> DEFINE r == regenerator[g]
<1>1. /\ CopyTypeOK /\ r \in RegeneratorState /\ Len(source) \in Nat
      /\ branch \in [Branch -> Seq(SUBSET Tag)] /\ late \in [Scanner \cup Regenerator -> SUBSET Tag]
  BY LenProperties DEF CopyTyped, CopyTypeOK
<1>2. ASSUME NEW y \in RegeneratorState, Turns(g, y), UNCHANGED <<github, open, recorded, scanner, skipped, raced>>,
             branch' \in [Branch -> Seq(SUBSET Tag)], {delivered', lost'} \subseteq SUBSET Tag,
             late' \in [Scanner \cup Regenerator -> SUBSET Tag], copyFaults' \in 0 .. MaxCopyFaults
      PROVE  CopyTyped'
  <2>1. regenerator' \in [Regenerator -> RegeneratorState]
    BY <1>1, <1>2 DEF Turns, CopyTypeOK
  <2>2. CopyTypeOK' /\ UNCHANGED scanner /\ UNCHANGED source
    BY <1>1, <1>2, <2>1 DEF CopyTypeOK, github
  <2>3. QED
    BY <1>1, <2>2, ScannersKept
<1>3. AtRest \in RegeneratorState
  BY DEF AtRest, RegeneratorState
<1>4. Looks(g) => late' \in [Scanner \cup Regenerator -> SUBSET Tag]
  BY <1>1 DEF Looks
<1>5. Tags(r.clone) \in SUBSET Tag
  BY <1>1, TagsTyped DEF RegeneratorState
<1>6. ASSUME NEW b \in Branch, StartRegenerate(g, b) PROVE CopyTyped'
  <2>1. PICK again, y : again \in BOOLEAN /\ y = [pc |-> "list", again |-> again, target |-> b, clone |-> branch[b]] /\ Turns(g, y)
    BY <1>6 DEF StartRegenerate
  <2>2. y \in RegeneratorState
    BY <1>1, <2>1 DEF RegeneratorState, Branch
  <2>3. copyFaults' \in 0 .. MaxCopyFaults
    BY <1>1, <1>6, CopyAssumption DEF StartRegenerate, CopyFault, CopyTypeOK
  <2>4. QED
    BY <1>1, <1>2, <1>4, <1>6, <2>1, <2>2, <2>3 DEF StartRegenerate, CopyTypeOK
<1>7. CASE FindPull(g)
  <2>1. PICK y, z : y = [r EXCEPT !.pc = "push"] /\ z = [r EXCEPT !.pc = "fetch"]
    OBVIOUS
  <2>2. y \in RegeneratorState /\ z \in RegeneratorState
    BY <1>1, <2>1 DEF RegeneratorState
  <2>3. Turns(g, AtRest) \/ Turns(g, y) \/ Turns(g, z)
    BY <1>7, <2>1 DEF FindPull
  <2>4. UNCHANGED <<github, branch, open, recorded, scanner, copyFaults, history>>
    BY <1>7 DEF FindPull
  <2>5. QED
    BY <1>1, <1>2, <1>3, <2>2, <2>3, <2>4 DEF history, CopyTypeOK
<1>8. CASE FetchAgain(g)
  <2>1. PICK y : y = [r EXCEPT !.pc = "push"]
    OBVIOUS
  <2>2. y \in RegeneratorState
    BY <1>1, <2>1 DEF RegeneratorState
  <2>3. Turns(g, AtRest) \/ Turns(g, y)
    BY <1>8, <2>1 DEF FetchAgain
  <2>4. UNCHANGED <<github, branch, open, recorded, scanner, copyFaults, delivered, skipped, raced, lost>> /\ Looks(g)
    BY <1>8 DEF FetchAgain
  <2>5. QED
    BY <1>1, <1>2, <1>3, <1>4, <2>2, <2>3, <2>4 DEF CopyTypeOK
<1>9. CASE PushRegenerated(g)
  <2>1. PushForced(g, r.target, Tags(r.clone)) /\ Turns(g, AtRest)
    BY <1>9 DEF PushRegenerated
  <2>2. branch' \in [Branch -> Seq(SUBSET Tag)] /\ delivered' \in SUBSET Tag /\ lost' \in SUBSET Tag
    BY <1>5, <2>1, PushTyped
  <2>3. late' \in [Scanner \cup Regenerator -> SUBSET Tag]
    BY <1>5, <2>1, MissesTyped DEF PushForced
  <2>4. QED
    BY <1>1, <1>2, <1>3, <1>9, <2>1, <2>2, <2>3 DEF PushRegenerated, CopyTypeOK
<1>10. CASE PushAgain(g)
  <2>1. Turns(g, AtRest) /\ (Push(g, r.target, r.clone, {}) \/ UNCHANGED <<branch, delivered, late>>)
    BY <1>10 DEF PushAgain
  <2>2. {} \in SUBSET Tag
    OBVIOUS
  <2>3. branch' \in [Branch -> Seq(SUBSET Tag)] /\ delivered' \in SUBSET Tag
    <3>1. r.clone \in Seq(SUBSET Tag)
      BY <1>1 DEF RegeneratorState
    <3>2. QED
      BY <1>1, <2>1, <2>2, <3>1, PushTyped DEF CopyTypeOK
  <2>4. late' \in [Scanner \cup Regenerator -> SUBSET Tag]
    <3>1. PICK pushed : pushed = {} \cup (Tags(r.clone) \ Tags(branch[r.target]))
      OBVIOUS
    <3>2. pushed \in SUBSET Tag
      BY <1>5, <3>1
    <3>3. Misses(g, r.target, pushed) \/ UNCHANGED late
      BY <2>1, <3>1 DEF Push
    <3>4. QED
      BY <1>1, <3>2, <3>3, MissesTyped
  <2>5. QED
    BY <1>1, <1>2, <1>3, <1>10, <2>1, <2>3, <2>4 DEF PushAgain, CopyTypeOK
<1>11. QED
  BY <1>6, <1>7, <1>8, <1>9, <1>10 DEF RegeneratorStep

\* Every step keeps the variables in their ranges, and so do the jobs' stacks and cursors.
LEMMA CopyStepTyped ==
  ASSUME CopyTyped, [CopyNext]_copyVars
  PROVE  CopyTyped'
<1>1. CASE UNCHANGED copyVars
  <2>1. CopyTypeOK' /\ UNCHANGED scanner /\ UNCHANGED source
    BY <1>1 DEF CopyTyped, CopyTypeOK, copyVars, github, history
  <2>2. Len(source) \in Nat
    BY LenProperties DEF CopyTyped, CopyTypeOK
  <2>3. QED
    BY <2>1, <2>2, ScannersKept
<1>2. QED
  BY <1>1, ScannerStepTyped, OutsideTyped, RegeneratorStepTyped DEF CopyNext, CopyNextWith

\* At the start nothing was delivered, and every scanner and regenerator is at rest.
LEMMA CopyStartsTyped == CopyInit => CopyTyped
<1> SUFFICES ASSUME CopyInit PROVE CopyTyped
  OBVIOUS
<1>1. Nothing \in [Branch -> Seq(SUBSET Tag)] /\ AtRest \in RegeneratorState
  BY DEF Nothing, AtRest, RegeneratorState
<1>2. \A s \in Scanner : scanner[s] = ScanIdle
  BY DEF CopyInit
<1>3. source \in Seq(SUBSET Yaml) /\ Len(source) = 0
  BY DEF CopyInit
<1>4. scanner \in [Scanner -> ScannerState]
  BY JobsTyped DEF CopyInit
<1>5. CopyTypeOK
  BY <1>1, <1>3, <1>4, CopyAssumption DEF CopyInit, CopyTypeOK
<1>6. QED
  BY <1>2, <1>5, JobsTyped DEF CopyTyped

\* Type correctness of the copy jobs: whatever overlaps and fails, a stack holds work for
\* some files of a commit there is, a clone is a set of branches, and a job has tags to push.
THEOREM CopyTypeCorrect == CopySpec => []CopyTypeOK
<1>1. CopyTyped /\ [CopyNext]_copyVars => CopyTyped'
  BY CopyStepTyped
<1>2. CopyTyped => CopyTypeOK
  BY DEF CopyTyped
<1>3. QED
  BY <1>1, <1>2, CopyStartsTyped, PTL DEF CopySpec

\* Who does not move knows as much as before, when it is told of what is pushed or opened.
LEMMA OthersKnow ==
  ASSUME CopyTyped, LateInv, NEW p, NEW b, NEW tags,
         \A s \in Scanner \ {p} : scanner'[s] = scanner[s] /\ late[s] \subseteq late'[s],
         \A g \in Regenerator \ {p} : regenerator'[g] = regenerator[g] /\ late[g] \subseteq late'[g],
         \A q \in (Scanner \cup Regenerator) \ {p} : Target(q) = b => tags \subseteq late'[q],
         \A c \in Branch \ {b} : Tags(branch'[c]) \subseteq Tags(branch[c]) /\ (c \in open' => c \in open),
         b \in Branch => Tags(branch'[b]) \subseteq Tags(branch[b]) \cup tags,
         open' \in SUBSET Branch,
         (b \in open' /\ b \notin open) => Tags(branch'[b]) \subseteq tags
  PROVE  /\ \A s \in Scanner \ {p} : ScannerKnows(s)'
         /\ \A g \in Regenerator \ {p} : RegeneratorKnows(g)'
<1>1. ASSUME NEW s \in Scanner \ {p} PROVE ScannerKnows(s)'
  <2>1. ScannerKnows(s) /\ scanner'[s] = scanner[s] /\ late[s] \subseteq late'[s] /\ Target(s) = scanner[s].target
    BY DEF LateInv, Target
  <2>2. SUFFICES ASSUME scanner[s].pc \in {"copyNew", "pushNew"}, scanner[s].target \in open'
                 PROVE  Tags(branch'[scanner[s].target]) \subseteq late'[s]
    BY <2>1 DEF ScannerKnows
  <2>3. CASE scanner[s].target # b
    BY <2>1, <2>2, <2>3 DEF ScannerKnows
  <2>4. CASE scanner[s].target = b
    <3>1. tags \subseteq late'[s]
      BY <2>1, <2>4
    <3>2. QED
      BY <2>1, <2>2, <2>4, <3>1 DEF ScannerKnows
  <2>5. QED
    BY <2>3, <2>4
<1>2. ASSUME NEW g \in Regenerator \ {p} PROVE RegeneratorKnows(g)'
  <2>1. /\ RegeneratorKnows(g) /\ regenerator'[g] = regenerator[g] /\ late[g] \subseteq late'[g]
        /\ Target(g) = regenerator[g].target
    BY CopyAssumption DEF LateInv, Target
  <2>2. regenerator[g].target \in SUBSET Yaml
    BY DEF CopyTyped, CopyTypeOK, RegeneratorState
  <2>3. SUFFICES ASSUME regenerator[g].pc = "push", ~regenerator[g].again, regenerator[g].target \in Branch
                 PROVE  Tags(branch'[regenerator[g].target]) \ Tags(regenerator[g].clone) \subseteq late'[g]
    BY <2>1, <2>2 DEF RegeneratorKnows, Branch
  <2>4. CASE regenerator[g].target # b
    BY <2>1, <2>3, <2>4 DEF RegeneratorKnows
  <2>5. CASE regenerator[g].target = b
    <3>1. tags \subseteq late'[g]
      BY <2>1, <2>5
    <3>2. QED
      BY <2>1, <2>3, <2>5, <3>1 DEF RegeneratorKnows
  <2>6. QED
    BY <2>4, <2>5
<1>3. QED
  BY <1>1, <1>2

\* A job that goes on without a push.
LEMMA JobKeepsKnowing ==
  ASSUME CopyTyped, LateInv, NEW s \in Scanner, NEW y, Becomes(s, y),
         UNCHANGED <<branch, open, regenerator, lost>>, \A q \in (Scanner \cup Regenerator) \ {s} : late'[q] = late[q],
         \/ y.pc \notin {"copyNew", "pushNew"}
         \/ y.target \notin open
         \/ y.target = scanner[s].target /\ scanner[s].pc = "copyNew" /\ UNCHANGED late
  PROVE  LateInv'
<1>1. /\ scanner \in [Scanner -> ScannerState] /\ late \in [Scanner \cup Regenerator -> SUBSET Tag]
      /\ open \in SUBSET Branch
  BY DEF CopyTyped, CopyTypeOK
<1>2. scanner'[s] = y /\ \A t \in Scanner \ {s} : scanner'[t] = scanner[t]
  BY <1>1 DEF Becomes
<1>3. ScannerKnows(s)'
  BY <1>2 DEF ScannerKnows, LateInv
<1>4. PICK none : none = {} /\ none \notin Branch
  BY DEF Branch
<1>5. /\ \A c \in Branch : Tags(branch'[c]) \subseteq Tags(branch[c]) /\ (c \in open' => c \in open)
      /\ open' \in SUBSET Branch /\ none \notin open'
      /\ \A q : none \subseteq late'[q]
      /\ \A t \in Scanner \ {s} : scanner'[t] = scanner[t] /\ late[t] \subseteq late'[t]
      /\ \A g \in Regenerator \ {s} : regenerator'[g] = regenerator[g] /\ late[g] \subseteq late'[g]
  BY <1>1, <1>2, <1>4
<1>6. /\ \A t \in Scanner \ {s} : ScannerKnows(t)'
      /\ \A g \in Regenerator \ {s} : RegeneratorKnows(g)'
  BY <1>4, <1>5, OthersKnow
<1>7. \A g \in Regenerator : g # s
  BY CopyAssumption
<1>8. QED
  BY <1>3, <1>6, <1>7 DEF LateInv

\* A job that found no pull request, where it looks next.
LEMMA NotFoundIs ==
  ASSUME NEW x \in ScannerState, NEW z, z = NotFound(x)
  PROVE  /\ z.stack = x.stack /\ z.phase = x.phase /\ z.target = x.target
         /\ x.phase = "each" => z.pc = "each" /\ z.todo = x.todo \ x.target /\ z.leftOvers = x.leftOvers \cup x.target
         /\ x.phase = "rest" => z.pc = "batch" /\ z.todo = x.leftOvers /\ z.leftOvers = x.leftOvers
         /\ x.phase = "batch" => z.pc = "copyNew" /\ z.todo = x.todo /\ z.leftOvers = x.leftOvers
<1>1. x.phase \in {"each", "rest", "batch"}
  BY DEF ScannerState
<1>2. CASE x.phase = "each"
  <2>1. z = [x EXCEPT !.pc = "each", !.todo = x.todo \ x.target, !.leftOvers = x.leftOvers \cup x.target]
    BY <1>2 DEF NotFound
  <2>2. QED
    BY <1>2, <2>1 DEF ScannerState
<1>3. CASE x.phase = "rest"
  <2>1. z = [x EXCEPT !.pc = "batch", !.todo = x.leftOvers]
    BY <1>3 DEF NotFound
  <2>2. QED
    BY <1>3, <2>1 DEF ScannerState
<1>4. CASE x.phase = "batch"
  <2>1. z = [x EXCEPT !.pc = "copyNew"]
    BY <1>4 DEF NotFound
  <2>2. QED
    BY <1>4, <2>1 DEF ScannerState
<1>5. QED
  BY <1>1, <1>2, <1>3, <1>4

\* Where a job is after a search.
LEMMA AfterSearch ==
  ASSUME NEW x \in ScannerState
  PROVE  /\ Finished(x).pc \in {"idle", "clone"}
         /\ Found(x).pc \in {"each", "batch", "idle", "clone"}
         /\ NotFound(x).pc \in {"each", "batch", "copyNew"} /\ NotFound(x).target = x.target
<1>1. x.phase \in {"each", "rest", "batch"}
  BY DEF ScannerState
<1>2. ScanIdle.pc = "idle" /\ \A pc, st, y : y = [ScanIdle EXCEPT !.stack = st, !.pc = pc] => y.pc = pc
  BY DEF ScanIdle
<1>3. Finished(x).pc \in {"idle", "clone"}
  <2>1. PICK pc \in {"idle", "clone"} : pc = IF Len(x.stack) = 1 THEN "idle" ELSE "clone"
    OBVIOUS
  <2>2. Finished(x) = [ScanIdle EXCEPT !.stack = Front(x.stack), !.pc = pc]
    BY <2>1 DEF Finished
  <2>3. Finished(x).pc = pc
    BY <1>2, <2>2, Zenon
  <2>4. QED
    BY <2>3
<1>4. Found(x).pc \in {"each", "batch", "idle", "clone"}
  <2>1. CASE x.phase = "rest"
    BY <1>3, <2>1 DEF Found
  <2>2. CASE x.phase # "rest"
    <3>1. PICK pc \in {"each", "batch"} : Found(x) = [x EXCEPT !.pc = pc, !.todo = x.todo \ x.target]
      BY <1>1, <2>2 DEF Found
    <3>2. PICK y : y = [x EXCEPT !.pc = pc, !.todo = x.todo \ x.target]
      OBVIOUS
    <3>3. y.pc = pc
      BY <3>2 DEF ScannerState
    <3>4. QED
      BY <3>1, <3>2, <3>3
  <2>3. QED
    BY <2>1, <2>2
<1>5. NotFound(x).pc \in {"each", "batch", "copyNew"} /\ NotFound(x).target = x.target
  BY <1>1, NotFoundIs
<1>6. QED
  BY <1>3, <1>4, <1>5

\* After a push everybody else knows the branch, or what it misses of it is late.
LEMMA PushTellsOthers ==
  ASSUME CopyTyped, LateInv, NEW p, NEW b \in Branch, NEW tags \in SUBSET Tag, Misses(p, b, tags),
         NEW log \in Seq(SUBSET Tag), branch' = [branch EXCEPT ![b] = log],
         Tags(log) \subseteq Tags(branch[b]) \cup tags,
         UNCHANGED open,
         \A s \in Scanner \ {p} : scanner'[s] = scanner[s],
         \A g \in Regenerator \ {p} : regenerator'[g] = regenerator[g]
  PROVE  /\ \A s \in Scanner \ {p} : ScannerKnows(s)'
         /\ \A g \in Regenerator \ {p} : RegeneratorKnows(g)'
<1>1. /\ open \in SUBSET Branch /\ branch \in [Branch -> Seq(SUBSET Tag)]
      /\ late \in [Scanner \cup Regenerator -> SUBSET Tag]
  BY DEF CopyTyped, CopyTypeOK
<1>2. \A q \in Scanner \cup Regenerator :
        late'[q] = IF q # p /\ Target(q) = b THEN late[q] \cup tags ELSE late[q]
  BY <1>1 DEF Misses
<1>3. \A c \in Branch \ {b} : branch'[c] = branch[c]
  BY <1>1
<1>4. Tags(branch'[b]) \subseteq Tags(branch[b]) \cup tags
  BY <1>1
<1>5. /\ \A c \in Branch \ {b} : Tags(branch'[c]) \subseteq Tags(branch[c]) /\ (c \in open' => c \in open)
      /\ open' \in SUBSET Branch /\ (b \in open' => b \in open)
  BY <1>1, <1>3
<1>6. \A s \in Scanner \ {p} : scanner'[s] = scanner[s] /\ late[s] \subseteq late'[s]
  BY <1>2
<1>7. \A g \in Regenerator \ {p} : regenerator'[g] = regenerator[g] /\ late[g] \subseteq late'[g]
  BY <1>2
<1>8. \A q \in (Scanner \cup Regenerator) \ {p} : Target(q) = b => tags \subseteq late'[q]
  BY <1>2
<1>9. QED
  <2>1. \A s \in Scanner \ {p} : scanner'[s] = scanner[s] /\ late[s] \subseteq late'[s]
    BY <1>6
  <2>2. \A c \in Branch \ {b} : Tags(branch'[c]) \subseteq Tags(branch[c]) /\ (c \in open' => c \in open)
    BY <1>5
  <2>3. open' \in SUBSET Branch /\ ~(b \in open' /\ b \notin open)
    BY <1>5
  <2>4. QED
    BY <1>4, <1>7, <1>8, <2>1, <2>2, <2>3, OthersKnow

\* A step of a job loses no tag but late ones.
LEMMA ScannerLosesNothing ==
  ASSUME CopyTyped, LateInv, NEW s \in Scanner, ScannerStep(s) \/ ScannerFails(s)
  PROVE  LateInv'
<1> DEFINE x == scanner[s]
<1>1. /\ x \in ScannerState /\ open \in SUBSET Branch /\ branch \in [Branch -> Seq(SUBSET Tag)]
      /\ late \in [Scanner \cup Regenerator -> SUBSET Tag] /\ scanner \in [Scanner -> ScannerState]
  BY DEF CopyTyped, CopyTypeOK
<1>2. Target(s) = x.target /\ ScanIdle.pc = "idle"
  BY DEF Target, ScanIdle
<1>3. ASSUME UNCHANGED <<github, branch, open, recorded, regenerator, copyFaults, history>>,
             NEW y, Becomes(s, y), y.pc \notin {"copyNew", "pushNew"}
      PROVE  LateInv'
  BY <1>3, JobKeepsKnowing DEF history
<1>4. CASE ScannerFails(s)
  BY <1>2, <1>4, JobKeepsKnowing DEF ScannerFails, history
<1>5. CASE StartScan(s)
  <2>1. PICK y : y = [ScanIdle EXCEPT !.pc = "scan", !.cursor = Len(source)]
    OBVIOUS
  <2>2. y.pc = "scan"
    BY <2>1 DEF ScanIdle
  <2>3. QED
    BY <1>3, <1>5, <2>1, <2>2 DEF StartScan
<1>6. CASE ScanCommit(s)
  <2>1. PICK st, c : Becomes(s, [x EXCEPT !.stack = st, !.cursor = c])
    BY <1>6 DEF ScanCommit
  <2>2. PICK y : y = [x EXCEPT !.stack = st, !.cursor = c]
    OBVIOUS
  <2>3. y.pc = "scan"
    BY <1>1, <1>6, <2>2 DEF ScannerState, ScanCommit
  <2>4. QED
    BY <1>3, <1>6, <2>1, <2>2, <2>3 DEF ScanCommit
<1>7. CASE ScanEnds(s)
  <2>1. PICK pc \in {"idle", "clone"} : Becomes(s, [ScanIdle EXCEPT !.pc = pc, !.stack = x.stack])
    BY <1>7 DEF ScanEnds, Pop
  <2>2. PICK y : y = [ScanIdle EXCEPT !.pc = pc, !.stack = x.stack]
    OBVIOUS
  <2>3. y.pc = pc
    BY <2>2 DEF ScanIdle
  <2>4. QED
    BY <1>3, <1>7, <2>1, <2>2, <2>3 DEF ScanEnds
<1>8. CASE Clone(s)
  <2>1. PICK y : y = [x EXCEPT !.pc = "each", !.clone = branch, !.todo = Work(s).yamls]
    OBVIOUS
  <2>2. y.pc = "each"
    BY <1>1, <2>1 DEF ScannerState
  <2>3. Becomes(s, y) \/ Becomes(s, Finished(x))
    BY <1>8, <2>1 DEF Clone
  <2>4. QED
    BY <1>1, <1>3, <1>8, <2>2, <2>3, AfterSearch DEF Clone
<1>9. CASE EachDone(s)
  <2>1. PICK y, z : y = [x EXCEPT !.pc = "batch", !.todo = x.leftOvers] /\ z = [x EXCEPT !.pc = "rest"]
    OBVIOUS
  <2>2. y.pc = "batch" /\ z.pc = "rest"
    BY <1>1, <2>1 DEF ScannerState
  <2>3. Becomes(s, y) \/ Becomes(s, z) \/ Becomes(s, Finished(x))
    BY <1>9, <2>1 DEF EachDone
  <2>4. QED
    BY <1>1, <1>3, <1>9, <2>2, <2>3, AfterSearch DEF EachDone
<1>10. CASE BatchesDone(s)
  BY <1>1, <1>3, <1>10, AfterSearch DEF BatchesDone
<1>11. CASE List(s)
  <2>1. PICK y : y = [x EXCEPT !.phase = x.pc, !.target = Wanted(x)]
    OBVIOUS
  <2>2. x.pc \in {"each", "rest", "batch"}
    BY <1>11 DEF List
  <2>3. \A z : z = [y EXCEPT !.pc = "copy"] => z.pc = "copy"
    BY <1>1, <2>1 DEF ScannerState
  <2>4. (y.target \notin open /\ Becomes(s, NotFound(y))) \/ Becomes(s, ScanIdle) \/ Becomes(s, [y EXCEPT !.pc = "copy"])
    BY <1>11, <2>1 DEF List
  <2>5. NotFound(y).target = y.target
    <3>1. Wanted(x) \in SUBSET Yaml
      BY <1>1, <1>11, <2>2, WantedTyped DEF CopyTyped, List, Searching
    <3>2. y \in ScannerState
      BY <1>1, <2>1, <2>2, <3>1 DEF ScannerState
    <3>3. QED
      BY <3>2, AfterSearch
  <2>6. \A q \in (Scanner \cup Regenerator) \ {s} : late'[q] = late[q]
    BY <1>1, <1>11 DEF List, Looks
  <2>7. UNCHANGED <<branch, open, regenerator, lost>>
    BY <1>11 DEF List
  <2>8. QED
    BY <1>2, <2>3, <2>4, <2>5, <2>6, <2>7, JobKeepsKnowing
<1>12. CASE Copy(s)
  <2>1. PICK y : y = [x EXCEPT !.pc = "push", !.tags = TagsOf(s, "good")]
    OBVIOUS
  <2>2. y.pc = "push"
    BY <1>1, <2>1 DEF ScannerState
  <2>3. Becomes(s, Found(x)) \/ Becomes(s, y)
    BY <1>12, <2>1 DEF Copy
  <2>4. UNCHANGED <<branch, open, regenerator, lost, late>>
    BY <1>12 DEF Copy, CopyCodeIntoCommit
  <2>5. QED
    BY <1>1, <2>2, <2>3, <2>4, AfterSearch, JobKeepsKnowing
<1>13. CASE CopyNew(s)
  <2>1. PICK y : y = [x EXCEPT !.pc = "pushNew", !.tags = TagsOf(s, "good")]
    OBVIOUS
  <2>2. y.pc = "pushNew" /\ y.target = x.target /\ x.pc = "copyNew"
    BY <1>1, <1>13, <2>1 DEF ScannerState, CopyNew
  <2>3. Becomes(s, Found(x)) \/ Becomes(s, y)
    BY <1>13, <2>1 DEF CopyNew
  <2>4. UNCHANGED <<branch, open, regenerator, lost, late>>
    BY <1>13 DEF CopyNew, CopyCodeIntoCommit
  <2>5. CASE Becomes(s, Found(x))
    BY <1>1, <2>4, <2>5, AfterSearch, JobKeepsKnowing
  <2>6. CASE Becomes(s, y)
    BY <1>1, <2>2, <2>4, <2>6, JobKeepsKnowing
  <2>7. QED
    BY <2>3, <2>5, <2>6
<1>14. CASE Record(s)
  <2>1. PICK tag : Becomes(s, IF x.tags = {tag} THEN Found([x EXCEPT !.tags = {}]) ELSE [x EXCEPT !.tags = @ \ {tag}])
    BY <1>14 DEF Record
  <2>2. PICK y, z : y = [x EXCEPT !.tags = {}] /\ z = [x EXCEPT !.tags = x.tags \ {tag}]
    OBVIOUS
  <2>3. y \in ScannerState /\ z.pc = "record"
    BY <1>1, <1>14, <2>2 DEF ScannerState, Record
  <2>4. Becomes(s, Found(y)) \/ Becomes(s, z)
    BY <1>1, <2>1, <2>2 DEF ScannerState
  <2>5. UNCHANGED <<branch, open, regenerator, lost, late>>
    BY <1>14 DEF Record, history
  <2>6. QED
    BY <2>3, <2>4, <2>5, AfterSearch, JobKeepsKnowing
<1>15. \A g \in Regenerator : g # s
  BY CopyAssumption
<1>16. CASE PushToPull(s)
  <2>1. PICK y : y = [x EXCEPT !.pc = "record"]
    OBVIOUS
  <2>2. y.pc = "record" /\ x.target \in Branch /\ x.tags \in SUBSET Tag
    BY <1>1, <1>16, <2>1 DEF ScannerState, PushToPull, CopyTyped, JobFits, Pushing, Branch
  <2>3. CASE Becomes(s, ScanIdle) /\ UNCHANGED <<branch, delivered, late>>
    BY <1>2, <1>16, <2>3, JobKeepsKnowing DEF PushToPull
  <2>4. CASE Becomes(s, y) /\ Push(s, x.target, x.clone[x.target], x.tags)
    <3>1. scanner'[s] = y /\ \A t \in Scanner \ {s} : scanner'[t] = scanner[t]
      BY <1>1, <2>4 DEF Becomes
    <3>2. UNCHANGED <<open, regenerator, lost>>
      BY <1>16 DEF PushToPull
    <3>0. x.clone[x.target] \in Seq(SUBSET Tag)
      BY <1>1, <2>2 DEF ScannerState
    <3>3. PICK pushed \in SUBSET Tag, log \in Seq(SUBSET Tag) :
            /\ Misses(s, x.target, pushed) /\ branch' = [branch EXCEPT ![x.target] = log]
            /\ Tags(log) \subseteq Tags(branch[x.target]) \cup pushed
      BY <2>2, <2>4, <3>0, PushAdds
    <3>4. /\ \A t \in Scanner \ {s} : ScannerKnows(t)'
          /\ \A g \in Regenerator \ {s} : RegeneratorKnows(g)'
      BY <2>2, <3>1, <3>2, <3>3, PushTellsOthers
    <3>5. ScannerKnows(s)'
      BY <2>2, <3>1 DEF ScannerKnows
    <3>6. QED
      BY <1>15, <3>2, <3>4, <3>5 DEF LateInv
  <2>5. QED
    BY <1>16, <2>1, <2>3, <2>4 DEF PushToPull
<1>17. CASE PushNew(s)
  <2>1. PICK y : y = [x EXCEPT !.pc = "create"]
    OBVIOUS
  <2>2. y.pc = "create" /\ x.target \in Branch /\ x.tags \in SUBSET Tag
    BY <1>1, <1>17, <2>1 DEF ScannerState, PushNew, CopyTyped, JobFits, Pushing, Branch
  <2>3. Becomes(s, y) /\ PushForced(s, x.target, x.tags) /\ UNCHANGED <<open, regenerator>> /\ x.pc = "pushNew"
    BY <1>17, <2>1 DEF PushNew
  <2>4. scanner'[s] = y /\ \A t \in Scanner \ {s} : scanner'[t] = scanner[t]
    BY <1>1, <2>3 DEF Becomes
  <2>5. PICK log : log = <<x.tags>>
    OBVIOUS
  <2>6. /\ \A t \in Scanner \ {s} : ScannerKnows(t)'
        /\ \A g \in Regenerator \ {s} : RegeneratorKnows(g)'
    <3>1. Misses(s, x.target, x.tags) /\ branch' = [branch EXCEPT ![x.target] = log]
      BY <2>3, <2>5 DEF PushForced
    <3>2. log \in Seq(SUBSET Tag)
      BY <2>2, <2>5
    <3>3. Tags(log) \subseteq Tags(branch[x.target]) \cup x.tags
      BY <2>5, TagsTyped
    <3>4. QED
      BY <2>2, <2>3, <2>4, <3>1, <3>2, <3>3, PushTellsOthers
  <2>7. ScannerKnows(s)'
    BY <2>2, <2>4 DEF ScannerKnows
  <2>8. lost' = {}
    <3>1. ScannerKnows(s) /\ lost = {}
      BY DEF LateInv
    <3>2. lost' = lost \cup (IF x.target \in open THEN (Tags(branch[x.target]) \ x.tags) \ late[s] ELSE {})
      BY <2>3 DEF PushForced
    <3>3. QED
      BY <2>3, <3>1, <3>2 DEF ScannerKnows
  <2>9. QED
    BY <1>15, <2>6, <2>7, <2>8 DEF LateInv
<1>18. CASE CreatePull(s)
  <2>1. PICK y : y = [x EXCEPT !.pc = "record"]
    OBVIOUS
  <2>2. y.pc = "record" /\ x.target \in Branch
    BY <1>1, <1>18, <2>1 DEF ScannerState, CreatePull, CopyTyped, JobFits, Pushing, Branch
  <2>3. UNCHANGED <<branch, regenerator, lost>> /\ open' = open \cup {x.target}
    BY <1>18 DEF CreatePull
  <2>4. PICK tags : tags = (IF x.target \in open THEN {} ELSE Tags(branch[x.target])) /\ Misses(s, x.target, tags)
    BY <1>18 DEF CreatePull
  <2>5. tags \in SUBSET Tag
    BY <1>1, <2>2, <2>4, TagsTyped
  <2>6. \A q \in Scanner \cup Regenerator :
          late'[q] = IF q # s /\ Target(q) = x.target THEN late[q] \cup tags ELSE late[q]
    BY <1>1, <2>4 DEF Misses
  <2>7. scanner'[s].pc \in {"record", "idle"} /\ \A t \in Scanner \ {s} : scanner'[t] = scanner[t]
    <3>1. Becomes(s, y) \/ Becomes(s, ScanIdle)
      BY <1>18, <2>1 DEF CreatePull
    <3>2. QED
      BY <1>1, <1>2, <2>2, <3>1 DEF Becomes
  <2>8. /\ \A t \in Scanner \ {s} : ScannerKnows(t)'
        /\ \A g \in Regenerator \ {s} : RegeneratorKnows(g)'
    <3>1. /\ \A t \in Scanner \ {s} : scanner'[t] = scanner[t] /\ late[t] \subseteq late'[t]
          /\ \A g \in Regenerator \ {s} : regenerator'[g] = regenerator[g] /\ late[g] \subseteq late'[g]
          /\ \A q \in (Scanner \cup Regenerator) \ {s} : Target(q) = x.target => tags \subseteq late'[q]
      BY <2>3, <2>6, <2>7
    <3>2. /\ \A c \in Branch \ {x.target} : Tags(branch'[c]) \subseteq Tags(branch[c]) /\ (c \in open' => c \in open)
          /\ Tags(branch'[x.target]) \subseteq Tags(branch[x.target]) \cup tags
          /\ open' \in SUBSET Branch
          /\ (x.target \in open' /\ x.target \notin open) => Tags(branch'[x.target]) \subseteq tags
      BY <1>1, <2>2, <2>3, <2>4
    <3>3. QED
      BY <3>1, <3>2, OthersKnow
  <2>9. ScannerKnows(s)'
    BY <2>7 DEF ScannerKnows
  <2>10. QED
    BY <1>15, <2>3, <2>8, <2>9 DEF LateInv
<1>19. QED
  BY <1>4, <1>5, <1>6, <1>7, <1>8, <1>9, <1>10, <1>11, <1>12, <1>13, <1>14, <1>16, <1>17, <1>18 DEF ScannerStep

\* What happens outside of Owl Bot loses no tag.
LEMMA OutsideLosesNothing ==
  ASSUME CopyTyped, LateInv,
         UNCHANGED copyVars \/ Generate \/ (\E y \in Yaml : EditFile(y)) \/ (\E b \in Branch : ClosePull(b))
  PROVE  LateInv'
<1>1. UNCHANGED <<scanner, regenerator, late, lost>>
  BY DEF copyVars, Generate, EditFile, ClosePull, history
<1>2. open' \subseteq open /\ \A c \in Branch : Tags(branch'[c]) \subseteq Tags(branch[c])
  <2>1. CASE UNCHANGED <<branch, open>>
    BY <2>1
  <2>2. ASSUME NEW b \in Branch, ClosePull(b) PROVE open' \subseteq open /\ \A c \in Branch : Tags(branch'[c]) \subseteq Tags(branch[c])
    <3>1. branch \in [Branch -> Seq(SUBSET Tag)]
      BY DEF CopyTyped, CopyTypeOK
    <3>2. \A c \in Branch : branch'[c] = branch[c] \/ branch'[c] = <<>>
      BY <2>2, <3>1, Zenon DEF ClosePull
    <3>3. Tags(<<>>) = {}
      BY TagsTyped
    <3>4. open' \subseteq open
      BY <2>2 DEF ClosePull
    <3>5. QED
      BY <3>2, <3>3, <3>4
  <2>3. QED
    BY <2>1, <2>2 DEF copyVars, Generate, EditFile
<1>3. ASSUME NEW s \in Scanner PROVE ScannerKnows(s)'
  <2>1. ScannerKnows(s) /\ open \in SUBSET Branch
    BY DEF LateInv, CopyTyped, CopyTypeOK
  <2>2. QED
    BY <1>1, <1>2, <2>1 DEF ScannerKnows
<1>4. ASSUME NEW g \in Regenerator PROVE RegeneratorKnows(g)'
  <2>1. RegeneratorKnows(g) /\ regenerator[g].target \in SUBSET Yaml
    BY DEF LateInv, CopyTyped, CopyTypeOK, RegeneratorState
  <2>2. (regenerator[g].pc = "push" /\ ~regenerator[g].again) => regenerator[g].target \in Branch
    BY <2>1 DEF RegeneratorKnows, Branch
  <2>3. QED
    BY <1>1, <1>2, <2>1, <2>2 DEF RegeneratorKnows
<1>5. QED
  BY <1>1, <1>3, <1>4 DEF LateInv

\* A build that regenerates a pull request only overwrites what it has read, or what is late.
LEMMA RegeneratorLosesNothing ==
  ASSUME CopyTyped, LateInv, NEW g \in Regenerator,
         RegeneratorStep(g) \/ \E b \in Branch : StartRegenerate(g, b)
  PROVE  LateInv'
<1> DEFINE r == regenerator[g]
<1>1. /\ r \in RegeneratorState /\ open \in SUBSET Branch /\ branch \in [Branch -> Seq(SUBSET Tag)]
      /\ late \in [Scanner \cup Regenerator -> SUBSET Tag]
      /\ regenerator \in [Regenerator -> RegeneratorState]
  BY DEF CopyTyped, CopyTypeOK
<1>2. lost = {} /\ RegeneratorKnows(g) /\ \A s \in Scanner : s # g
  BY CopyAssumption DEF LateInv
<1>3. \A y : Turns(g, y) => regenerator'[g] = y /\ \A h \in Regenerator \ {g} : regenerator'[h] = regenerator[h]
  BY <1>1 DEF Turns
<1>4. Tags(r.clone) \in SUBSET Tag
  BY <1>1, TagsTyped DEF RegeneratorState
<1>5. AtRest.pc = "idle" /\ \A y, pc : y = [r EXCEPT !.pc = pc] =>
        y.pc = pc /\ y.target = r.target /\ y.again = r.again /\ y.clone = r.clone
  BY <1>1 DEF AtRest, RegeneratorState
<1>6. ASSUME UNCHANGED <<branch, open, scanner, lost>>, \A q \in (Scanner \cup Regenerator) \ {g} : late'[q] = late[q],
             NEW y, Turns(g, y),
             y.pc # "idle" => y.target # {},
             (y.pc = "push" /\ ~y.again) => Tags(branch[y.target]) \ Tags(y.clone) \subseteq late'[g]
      PROVE  LateInv'
  <2>1. RegeneratorKnows(g)'
    BY <1>3, <1>6 DEF RegeneratorKnows
  <2>2. \A s \in Scanner : ScannerKnows(s)'
    BY <1>2, <1>6 DEF ScannerKnows, LateInv
  <2>3. \A h \in Regenerator \ {g} : RegeneratorKnows(h)'
    BY <1>3, <1>6 DEF RegeneratorKnows, LateInv
  <2>4. QED
    BY <1>2, <1>6, <2>1, <2>2, <2>3 DEF LateInv
<1>7. Looks(g) => \A q \in (Scanner \cup Regenerator) \ {g} : late'[q] = late[q]
  BY <1>1 DEF Looks
<1>8. ASSUME NEW b \in Branch, StartRegenerate(g, b) PROVE LateInv'
  <2>1. PICK again, y : again \in BOOLEAN /\ y = [pc |-> "list", again |-> again, target |-> b, clone |-> branch[b]] /\ Turns(g, y)
    BY <1>8 DEF StartRegenerate
  <2>2. y.pc = "list" /\ y.target = b /\ b # {}
    BY <2>1 DEF Branch
  <2>3. QED
    BY <1>6, <1>7, <1>8, <2>1, <2>2 DEF StartRegenerate
<1>9. CASE FindPull(g)
  <2>1. PICK y, z : y = [r EXCEPT !.pc = "push"] /\ z = [r EXCEPT !.pc = "fetch"]
    OBVIOUS
  <2>2. /\ Turns(g, AtRest) \/ (Turns(g, y) /\ r.again) \/ Turns(g, z)
        /\ UNCHANGED <<branch, open, scanner, late, lost>> /\ r.pc = "list"
    BY <1>9, <2>1 DEF FindPull, history
  <2>3. y.pc = "push" /\ y.again = r.again /\ y.target = r.target /\ z.pc = "fetch" /\ z.target = r.target
    BY <1>1, <2>1 DEF RegeneratorState
  <2>4. r.target # {}
    BY <1>2, <2>2 DEF RegeneratorKnows
  <2>5. QED
    BY <1>5, <1>6, <2>2, <2>3, <2>4
<1>10. CASE FetchAgain(g)
  <2>1. PICK y : y = [r EXCEPT !.pc = "push"]
    OBVIOUS
  <2>2. /\ Turns(g, AtRest) \/ (Turns(g, y) /\ branch[r.target] = r.clone)
        /\ UNCHANGED <<branch, open, scanner, lost>> /\ Looks(g) /\ r.pc = "fetch"
    BY <1>10, <2>1 DEF FetchAgain
  <2>3. y.target = r.target /\ y.clone = r.clone
    BY <1>1, <2>1 DEF RegeneratorState
  <2>4. r.target # {}
    BY <1>2, <2>2 DEF RegeneratorKnows
  <2>5. Tags(branch[r.target]) = Tags(r.clone) \/ Turns(g, AtRest)
    BY <2>2
  <2>6. QED
    BY <1>5, <1>6, <1>7, <2>2, <2>3, <2>4, <2>5
<1>11. ASSUME PushRegenerated(g) \/ (PushAgain(g) /\ Accepts(r.target, r.clone)) PROVE LateInv'
  <2>2. UNCHANGED <<open, scanner>> /\ Turns(g, AtRest) /\ r.pc = "push"
    BY <1>11 DEF PushRegenerated, PushAgain
  <2>3. r.target \in Branch
    BY <1>1, <1>2, <2>2 DEF RegeneratorKnows, RegeneratorState, Branch
  <2>1. PICK tags \in SUBSET Tag, log \in Seq(SUBSET Tag) :
          /\ Misses(g, r.target, tags)
          /\ branch' = [branch EXCEPT ![r.target] = log]
          /\ Tags(log) \subseteq Tags(branch[r.target]) \cup tags
    <3>1. CASE PushRegenerated(g)
      <4>1. PICK log : log = <<Tags(r.clone)>>
        OBVIOUS
      <4>2. log \in Seq(SUBSET Tag) /\ Tags(log) = Tags(r.clone)
        BY <1>4, <4>1, TagsTyped
      <4>3. Misses(g, r.target, Tags(r.clone)) /\ branch' = [branch EXCEPT ![r.target] = log]
        BY <3>1, <4>1 DEF PushRegenerated, PushForced
      <4>4. QED
        BY <1>4, <4>2, <4>3
    <3>2. CASE ~PushRegenerated(g)
      <4>1. Push(g, r.target, r.clone, {})
        BY <1>11, <3>2 DEF PushAgain
      <4>2. r.clone \in Seq(SUBSET Tag) /\ {} \in SUBSET Tag
        BY <1>1 DEF RegeneratorState
      <4>3. QED
        BY <2>3, <4>1, <4>2, PushAdds
    <3>3. QED
      BY <3>1, <3>2
  <2>4. /\ \A s \in Scanner \ {g} : ScannerKnows(s)'
        /\ \A h \in Regenerator \ {g} : RegeneratorKnows(h)'
    BY <1>3, <2>1, <2>2, <2>3, PushTellsOthers
  <2>5. RegeneratorKnows(g)'
    BY <1>3, <1>5, <2>2 DEF RegeneratorKnows
  <2>6. lost' = {}
    <3>1. CASE PushAgain(g)
      BY <1>2, <3>1 DEF PushAgain
    <3>2. CASE PushRegenerated(g)
      <4>1. lost' = lost \cup (IF r.target \in open THEN (Tags(branch[r.target]) \ Tags(r.clone)) \ late[g] ELSE {})
        BY <3>2 DEF PushRegenerated, PushForced
      <4>2. Tags(branch[r.target]) \ Tags(r.clone) \subseteq late[g]
        BY <1>2, <3>2 DEF PushRegenerated, RegeneratorKnows
      <4>3. QED
        BY <1>2, <4>1, <4>2
    <3>3. QED
      BY <1>11, <3>1, <3>2
  <2>7. QED
    BY <1>2, <2>4, <2>5, <2>6 DEF LateInv
<1>12. ASSUME PushAgain(g), ~Accepts(r.target, r.clone) PROVE LateInv'
  BY <1>5, <1>6, <1>12 DEF PushAgain
<1>13. QED
  BY <1>8, <1>9, <1>10, <1>11, <1>12 DEF RegeneratorStep

\* A forced push to the branch of an open pull request, by a job that had found none or by
\* a build that regenerates it, only overwrites copies that came after the pusher looked:
\* however jobs, builds and people overlap.
THEOREM OnlyLateTagsAreLost == CopySpec => []OnlyLateIsLost
<1>1. CopyInit => LateInv
  <2>1. SUFFICES ASSUME CopyInit PROVE LateInv
    OBVIOUS
  <2>2. lost = {} /\ open = {} /\ \A g \in Regenerator : regenerator[g].pc = "idle"
    BY <2>1 DEF CopyInit, AtRest
  <2>3. QED
    BY <2>2 DEF LateInv, ScannerKnows, RegeneratorKnows
<1>2. CopyTyped /\ LateInv /\ [CopyNext]_copyVars => (CopyTyped /\ LateInv)'
  <2>1. SUFFICES ASSUME CopyTyped, LateInv, [CopyNext]_copyVars PROVE CopyTyped' /\ LateInv'
    OBVIOUS
  <2>2. CopyTyped'
    BY <2>1, CopyStepTyped
  <2>3. LateInv'
    BY <2>1, ScannerLosesNothing, OutsideLosesNothing, RegeneratorLosesNothing DEF CopyNext, CopyNextWith
  <2>4. QED
    BY <2>2, <2>3
<1>3. LateInv => OnlyLateIsLost
  BY DEF LateInv, OnlyLateIsLost
<1>4. QED
  BY <1>1, <1>2, <1>3, CopyStartsTyped, PTL DEF CopySpec

\* What is past stays: commits of the source, and what is dealt with.
HistoryGrows ==
  /\ UNCHANGED <<begin, allowed>>
  /\ source' \in Seq(SUBSET Yaml) /\ Len(source) <= Len(source')
  /\ \A c \in 1 .. Len(source) : source'[c] = source[c]
  /\ delivered \subseteq delivered' /\ skipped \subseteq skipped' /\ raced \subseteq raced'

\* A commit that was dealt with stays so: nothing is taken back from the history.
LEMMA DealtStays ==
  ASSUME CopyTyped, HistoryGrows
  PROVE  /\ \A y, c : Dealt(y, c) => Dealt(y, c)'
         /\ \A y \in Yaml, c \in Source : c <= Len(source) /\ Affects(y, c)' => Affects(y, c)
         /\ \A d \in Nat : d <= Len(source) /\ DealtBefore(d) => DealtBefore(d)'
<1>1. Len(source) \in Nat /\ Len(source') \in Nat /\ Source \subseteq Nat
  BY LenProperties DEF CopyTyped, CopyTypeOK, HistoryGrows, Source
<1>2. \A y, c : Dealt(y, c) => Dealt(y, c)'
  BY DEF Dealt, HistoryGrows
<1>3. ASSUME NEW y \in Yaml, NEW c \in Source, c <= Len(source), Affects(y, c)' PROVE Affects(y, c)
  <2>1. c \in 1 .. Len(source)
    BY <1>1, <1>3 DEF Source
  <2>2. source'[c] = source[c] /\ begin' = begin
    BY <2>1 DEF HistoryGrows
  <2>3. QED
    BY <1>3, <2>2 DEF Affects, TooOld
<1>4. ASSUME NEW d \in Nat, d <= Len(source), DealtBefore(d) PROVE DealtBefore(d)'
  <2>1. ASSUME NEW y \in Yaml, NEW c \in Source, c < d, Affects(y, c)' PROVE Dealt(y, c)'
    <3>1. c <= Len(source)
      BY <1>1, <1>4, <2>1
    <3>2. Affects(y, c)
      BY <1>3, <2>1, <3>1
    <3>3. Dealt(y, c)
      BY <1>4, <2>1, <3>2 DEF DealtBefore
    <3>4. QED
      BY <1>2, <3>3
  <2>2. QED
    BY <2>1 DEF DealtBefore
<1>5. QED
  BY <1>2, <1>3, <1>4

\* Commits on a stack are commits.
LEMMA StackTyped ==
  ASSUME NEW x \in ScannerState
  PROVE  /\ Len(x.stack) \in Nat /\ DOMAIN x.stack = 1 .. Len(x.stack)
         /\ \A i \in DOMAIN x.stack : x.stack[i] \in Todo /\ x.stack[i].commit \in Source /\ x.stack[i].commit \in Nat
<1>1. x.stack \in Seq(Todo)
  BY DEF ScannerState
<1>2. Len(x.stack) \in Nat /\ DOMAIN x.stack = 1 .. Len(x.stack)
  BY <1>1, LenProperties
<1>3. \A i \in DOMAIN x.stack : x.stack[i] \in Todo
  BY <1>1, <1>2, ElementOfSeq
<1>4. QED
  BY <1>2, <1>3 DEF Todo, Source

\* The order on a stack stays while the job is at work.
LEMMA StackStays ==
  ASSUME CopyTyped, HistoryGrows, NEW x \in ScannerState, StackInOrder(x), NEW z, z.stack = x.stack,
         (z.pc = x.pc /\ z.cursor = x.cursor) \/ (z.pc # "scan" /\ x.pc # "scan")
  PROVE  StackInOrder(z)'
<1>1. Len(source) \in Nat /\ Len(source') \in Nat
  BY LenProperties DEF CopyTyped, CopyTypeOK, HistoryGrows
<1>2. \A i \in DOMAIN x.stack : x.stack[i].commit \in Nat
  BY StackTyped
<1>3. ASSUME NEW i \in DOMAIN z.stack
      PROVE  z.stack[i].commit <= Len(source') /\ (z.pc = "scan" => z.cursor < z.stack[i].commit)
  <2>1. x.stack[i].commit <= Len(source) /\ (x.pc = "scan" => x.cursor < x.stack[i].commit)
    BY <1>3 DEF StackInOrder
  <2>2. x.stack[i].commit \in Nat /\ Len(source) <= Len(source')
    BY <1>2, <1>3 DEF HistoryGrows
  <2>3. QED
    BY <1>1, <2>1, <2>2
<1>4. \A i, j \in DOMAIN z.stack : i < j => z.stack[j].commit <= z.stack[i].commit
  BY DEF StackInOrder
<1>5. ASSUME allowed', NEW i \in DOMAIN z.stack, NEW y \in Yaml, NEW c \in Source,
             c < z.stack[i].commit, Affects(y, c)'
      PROVE  Dealt(y, c)' \/ Awaited(z, y, c)
  <2>1. x.stack[i].commit <= Len(source) /\ x.stack[i].commit \in Nat /\ c \in Nat
    BY <1>2, <1>5 DEF StackInOrder, Source
  <2>2. c <= Len(source)
    BY <1>1, <1>5, <2>1
  <2>3. Affects(y, c)
    BY <1>5, <2>2, DealtStays
  <2>4. allowed
    BY <1>5 DEF HistoryGrows
  <2>5. Dealt(y, c) \/ Awaited(x, y, c)
    BY <1>5, <2>3, <2>4 DEF StackInOrder
  <2>6. Awaited(x, y, c) => Awaited(z, y, c)
    BY DEF Awaited
  <2>7. QED
    BY <2>5, <2>6, DealtStays
<1>6. QED
  BY <1>3, <1>4, <1>5 DEF StackInOrder, Awaited

\* The stack of what comes next is in order when the work on top is dealt with or dropped.
LEMMA FinishedInOrder ==
  ASSUME CopyTyped, HistoryGrows, NEW x \in ScannerState, x.stack # <<>>, x.pc # "scan", StackInOrder(x),
         allowed => \A y \in Last(x.stack).yamls : Dealt(y, Last(x.stack).commit)',
         NEW z, z = Finished(x)
  PROVE  JobInOrder(z)'
<1>1. Len(source) \in Nat /\ Len(source') \in Nat
  BY LenProperties DEF CopyTyped, CopyTypeOK, HistoryGrows
<1>2. PICK st \in Seq(Todo), n \in Nat \ {0} :
        /\ st = Front(x.stack) /\ n = Len(x.stack) /\ Len(st) = n - 1 /\ DOMAIN st = 1 .. n - 1
        /\ DOMAIN x.stack = 1 .. n /\ Last(x.stack) = x.stack[n]
        /\ \A i \in 1 .. n - 1 : st[i] = x.stack[i]
  <2>1. x.stack \in Seq(Todo)
    BY DEF ScannerState
  <2>2. Front(x.stack) \in Seq(Todo) /\ Len(Front(x.stack)) = Len(x.stack) - 1 /\ Len(x.stack) \in Nat \ {0}
    BY <2>1, LastAndFront
  <2>3. DOMAIN Front(x.stack) = 1 .. Len(x.stack) - 1 /\ DOMAIN x.stack = 1 .. Len(x.stack)
    BY <2>1, <2>2, LenProperties
  <2>4. QED
    BY <2>1, <2>2, <2>3, LastAndFront
<1>3. z.stack = st /\ z.pc \in {"idle", "clone"}
  <2>1. PICK pc : z = [ScanIdle EXCEPT !.stack = st, !.pc = pc]
    BY <1>2 DEF Finished
  <2>2. z.stack = st
    BY <2>1 DEF ScanIdle
  <2>3. QED
    BY <2>2, AfterSearch
<1>4. \A i \in 1 .. n : x.stack[i].commit \in Nat
  BY <1>2, StackTyped
<1>5. \A i \in DOMAIN z.stack : z.stack[i] = x.stack[i] /\ i \in 1 .. n
  BY <1>2, <1>3
<1>6. ASSUME NEW i \in DOMAIN z.stack PROVE z.stack[i].commit <= Len(source')
  <2>1. x.stack[i].commit <= Len(source) /\ x.stack[i].commit \in Nat /\ Len(source) <= Len(source')
    BY <1>2, <1>4, <1>5, <1>6 DEF StackInOrder, HistoryGrows
  <2>2. QED
    BY <1>1, <1>5, <1>6, <2>1
<1>7. \A i, j \in DOMAIN z.stack : i < j => z.stack[j].commit <= z.stack[i].commit
  BY <1>2, <1>5 DEF StackInOrder
<1>8. ASSUME allowed', NEW i \in DOMAIN z.stack, NEW y \in Yaml, NEW c \in Source,
             c < z.stack[i].commit, Affects(y, c)'
      PROVE  Dealt(y, c)' \/ Awaited(z, y, c)
  <2>1. x.stack[i].commit <= Len(source) /\ x.stack[i].commit \in Nat /\ c \in Nat
    BY <1>2, <1>4, <1>5, <1>8 DEF StackInOrder, Source
  <2>2. c <= Len(source) /\ allowed
    BY <1>1, <1>5, <1>8, <2>1 DEF HistoryGrows
  <2>3. Affects(y, c)
    BY <1>8, <2>2, DealtStays
  <2>4. Dealt(y, c) \/ Awaited(x, y, c)
    BY <1>2, <1>5, <1>8, <2>2, <2>3 DEF StackInOrder
  <2>5. ASSUME Awaited(x, y, c) PROVE Dealt(y, c)' \/ Awaited(z, y, c)
    <3>1. PICK j \in 1 .. n : x.stack[j].commit = c /\ y \in x.stack[j].yamls
      BY <1>2, <2>5 DEF Awaited
    <3>2. CASE j = n
      BY <1>2, <2>2, <3>1, <3>2
    <3>3. CASE j # n
      <4>1. j \in DOMAIN z.stack
        BY <1>2, <1>3, <3>1, <3>3
      <4>2. QED
        BY <1>5, <3>1, <4>1 DEF Awaited
    <3>4. QED
      BY <3>2, <3>3
  <2>6. QED
    BY <2>4, <2>5, DealtStays
<1>9. StackInOrder(z)'
  BY <1>3, <1>6, <1>7, <1>8 DEF StackInOrder, Awaited
<1>10. WorkInHand(z)'
  BY <1>3 DEF WorkInHand
<1>11. QED
  BY <1>9, <1>10 DEF JobInOrder

\* What is older than the work on top of a stack is dealt with.
LEMMA OlderIsDealt ==
  ASSUME CopyTyped, NEW x \in ScannerState, x.stack # <<>>, x.pc # "scan", allowed, StackInOrder(x)
  PROVE  /\ Last(x.stack) \in Todo /\ Last(x.stack).commit \in Source
         /\ Last(x.stack).commit <= Len(source) /\ DealtBefore(Last(x.stack).commit)
<1>1. PICK n \in Nat \ {0} : n = Len(x.stack) /\ DOMAIN x.stack = 1 .. n /\ Last(x.stack) = x.stack[n]
  <2>1. x.stack \in Seq(Todo)
    BY DEF ScannerState
  <2>2. QED
    BY <2>1, LastAndFront, StackTyped
<1>2. n \in 1 .. n /\ x.stack[n] \in Todo /\ x.stack[n].commit \in Source /\ x.stack[n].commit <= Len(source)
  BY <1>1, StackTyped DEF StackInOrder
<1>3. \A i \in 1 .. n : x.stack[n].commit <= x.stack[i].commit /\ x.stack[i].commit \in Nat
  <2>1. ASSUME NEW i \in 1 .. n PROVE x.stack[n].commit <= x.stack[i].commit /\ x.stack[i].commit \in Nat
    <3>1. CASE i = n
      BY <1>1, <3>1, StackTyped
    <3>2. CASE i < n
      BY <1>1, <1>2, <3>2, StackTyped DEF StackInOrder
    <3>3. QED
      BY <3>1, <3>2
  <2>2. QED
    BY <2>1
<1>4. ASSUME NEW y \in Yaml, NEW c \in Source, c < x.stack[n].commit, Affects(y, c) PROVE Dealt(y, c)
  <2>1. Dealt(y, c) \/ Awaited(x, y, c)
    BY <1>1, <1>2, <1>4 DEF StackInOrder
  <2>2. ~ Awaited(x, y, c)
    BY <1>1, <1>3, <1>4 DEF Awaited, Source
  <2>3. QED
    BY <2>1, <2>2
<1>5. QED
  BY <1>1, <1>2, <1>4 DEF DealtBefore

\* The work goes on, or the next one comes, when the files of a search are dealt with.
LEMMA FoundInOrder ==
  ASSUME CopyTyped, HistoryGrows, NEW x \in ScannerState, x.stack # <<>>,
         x.pc \notin {"idle", "scan", "clone"} \cup Searching, JobInOrder(x),
         \A y \in x.target : Dealt(y, Last(x.stack).commit)',
         NEW z, z = Found(x)
  PROVE  JobInOrder(z)'
<1> DEFINE w == Last(x.stack)
<1>1. /\ StackInOrder(x) /\ allowed /\ x.phase \in {"each", "rest", "batch"} /\ Stage(x) = x.phase
      /\ \A y \in w.yamls : Dealt(y, w.commit) \/ y \in StillToDo(x)
      /\ x.phase = "rest" => x.target = x.leftOvers
  BY DEF JobInOrder, WorkInHand, Stage, ScannerState
<1>2. allowed' = allowed /\ \A y : Dealt(y, w.commit) => Dealt(y, w.commit)'
  BY DealtStays DEF HistoryGrows
<1>3. CASE x.phase = "rest"
  <2>1. z = Finished(x)
    BY <1>3 DEF Found
  <2>2. StillToDo(x) = x.leftOvers
    BY <1>1, <1>3 DEF StillToDo
  <2>3. \A y \in w.yamls : Dealt(y, w.commit)'
    BY <1>1, <1>2, <1>3, <2>2
  <2>4. x.pc # "scan"
    OBVIOUS
  <2>5. QED
    BY <1>1, <2>1, <2>3, <2>4, FinishedInOrder
<1>4. CASE x.phase # "rest"
  <2>1. PICK pc \in {"each", "batch"} : pc = x.phase /\ z = [x EXCEPT !.pc = pc, !.todo = x.todo \ x.target]
    BY <1>1, <1>4 DEF Found
  <2>2. z.pc = pc /\ z.stack = x.stack /\ z.leftOvers = x.leftOvers /\ z.todo = x.todo \ x.target
    BY <2>1 DEF ScannerState
  <2>3. StackInOrder(z)'
    BY <1>1, <2>2, StackStays
  <2>4. Stage(z) = pc /\ pc \in Searching /\ z.pc \notin Pushing
    BY <2>2 DEF Stage, Searching, Pushing
  <2>5. StillToDo(z) = IF pc = "each" THEN (x.todo \ x.target) \cup x.leftOvers ELSE x.todo \ x.target
    BY <2>2, <2>4 DEF StillToDo
  <2>6. StillToDo(x) = IF pc = "each" THEN x.todo \cup x.leftOvers ELSE x.todo
    BY <1>1, <2>1 DEF StillToDo
  <2>7. \A y \in w.yamls : Dealt(y, w.commit)' \/ y \in StillToDo(z)
    BY <1>1, <1>2, <2>5, <2>6
  <2>8. WorkInHand(z)'
    BY <1>1, <1>2, <2>2, <2>4, <2>7 DEF WorkInHand, Stage, StillToDo, Pushing, Searching
  <2>9. QED
    BY <2>3, <2>8 DEF JobInOrder
<1>5. QED
  BY <1>3, <1>4

\* A job that has not found a pull request has what it looked for still to do.
LEMMA NotFoundInOrder ==
  ASSUME CopyTyped, HistoryGrows, NEW x \in ScannerState, x.stack # <<>>, x.pc = "copy", JobInOrder(x),
         NEW z, z = NotFound(x)
  PROVE  JobInOrder(z)'
<1> DEFINE w == Last(x.stack)
<1>1. /\ StackInOrder(x) /\ allowed /\ x.phase \in {"each", "rest", "batch"} /\ Stage(x) = x.phase
      /\ \A y \in w.yamls : Dealt(y, w.commit) \/ y \in StillToDo(x)
  BY DEF JobInOrder, WorkInHand, Stage, Searching, ScannerState
<1>2. allowed' = allowed /\ \A y : Dealt(y, w.commit) => Dealt(y, w.commit)'
  BY DealtStays DEF HistoryGrows
<1>3. PICK pc, todo, left : pc = z.pc /\ todo = z.todo /\ left = z.leftOvers
  OBVIOUS
<1>4. /\ z.pc = pc /\ z.stack = x.stack /\ z.leftOvers = left /\ z.todo = todo /\ z.phase = x.phase
      /\ x.phase = "each" => pc = "each" /\ todo = x.todo \ x.target /\ left = x.leftOvers \cup x.target
      /\ x.phase = "rest" => pc = "batch" /\ todo = x.leftOvers
      /\ x.phase = "batch" => pc = "copyNew" /\ todo = x.todo
  BY <1>3, NotFoundIs
<1>5. StackInOrder(z)'
  BY <1>1, <1>4, StackStays
<1>6. StillToDo(x) \subseteq StillToDo(z) /\ Stage(z) = IF pc = "copyNew" THEN "batch" ELSE pc
  BY <1>1, <1>3, <1>4 DEF StillToDo, Stage, Searching
<1>7. z.pc \notin Pushing /\ (z.pc \notin Searching => z.phase # "rest")
  BY <1>1, <1>3, <1>4 DEF Pushing, Searching
<1>8. \A y \in w.yamls : Dealt(y, w.commit)' \/ y \in StillToDo(z)
  BY <1>1, <1>2, <1>6
<1>9. WorkInHand(z)'
  BY <1>1, <1>2, <1>4, <1>7, <1>8 DEF WorkInHand, Stage, StillToDo, Pushing, Searching
<1>10. QED
  BY <1>5, <1>9 DEF JobInOrder

\* A job that takes no step stays in order.
LEMMA OthersInOrder ==
  ASSUME CopyTyped, HistoryGrows, NEW x \in ScannerState, JobFits(x), JobInOrder(x)
  PROVE  JobInOrder(x)'
<1>1. StackInOrder(x) /\ WorkInHand(x)
  BY DEF JobInOrder
<1>2. StackInOrder(x)'
  BY <1>1, StackStays
<1>3. WorkInHand(x)'
  <2>1. allowed' = allowed /\ (\A y, c : Dealt(y, c) => Dealt(y, c)') /\ delivered \subseteq delivered'
    BY DealtStays DEF HistoryGrows
  <2>2. QED
    BY <1>1, <2>1 DEF WorkInHand, Stage, StillToDo, Pushing, Searching
<1>4. QED
  BY <1>2, <1>3 DEF JobInOrder

\* All jobs are in order when the one that moves is.
LEMMA AllInOrder ==
  ASSUME CopyTyped, CopyInv, HistoryGrows, NEW s \in Scanner, NEW z, Becomes(s, z), JobInOrder(z)'
  PROVE  (\A t \in Scanner : JobInOrder(scanner[t]))'
<1>1. scanner \in [Scanner -> ScannerState] /\ \A t \in Scanner : JobFits(scanner[t]) /\ JobInOrder(scanner[t])
  BY DEF CopyTyped, CopyTypeOK, CopyInv
<1>2. scanner'[s] = z /\ \A t \in Scanner \ {s} : scanner'[t] = scanner[t]
  BY <1>1 DEF Becomes
<1>3. ASSUME NEW t \in Scanner PROVE JobInOrder(scanner[t])'
  <2>1. PICK x : x = scanner'[t]
    OBVIOUS
  <2>2. JobInOrder(x)'
    <3>1. CASE t = s
      BY <1>2, <2>1, <3>1
    <3>2. CASE t # s
      <4>1. x = scanner[t] /\ x \in ScannerState
        BY <1>1, <1>2, <2>1, <3>2
      <4>2. JobFits(x) /\ JobInOrder(x)
        BY <1>1, <4>1
      <4>3. QED
        BY <4>1, <4>2, OthersInOrder
    <3>3. QED
      BY <3>1, <3>2
  <2>3. QED
    BY <2>1, <2>2
<1>4. QED
  BY <1>3

\* What gets recorded has been delivered, and so has what is older.
LEMMA RecordedStays ==
  ASSUME CopyTyped, CopyInv, HistoryGrows, NEW more, recorded' = recorded \cup more, more \subseteq delivered',
         \A t \in more : t[2] \in Nat /\ t[2] <= Len(source) /\ DealtBefore(t[2])
  PROVE  RecordedInOrder'
<1>1. Len(source) \in Nat /\ Len(source') \in Nat /\ Len(source) <= Len(source') /\ recorded \in SUBSET Tag
  BY LenProperties DEF CopyTyped, CopyTypeOK, HistoryGrows
<1>2. ASSUME NEW t \in recorded' PROVE t[2] <= Len(source') /\ DealtBefore(t[2])'
  <2>1. t[2] \in Nat /\ t[2] <= Len(source) /\ DealtBefore(t[2])
    <3>1. CASE t \in recorded
      BY <1>1, <3>1 DEF CopyInv, RecordedInOrder, Tag, Source
    <3>2. CASE t \in more
      BY <3>2
    <3>3. QED
      BY <1>2, <3>1, <3>2
  <2>2. PICK d \in Nat : d = t[2]
    BY <2>1
  <2>3. DealtBefore(d)'
    BY <2>1, <2>2, DealtStays
  <2>4. QED
    BY <1>1, <2>1, <2>2, <2>3
<1>3. recorded' \subseteq delivered'
  BY DEF CopyInv, RecordedInOrder, HistoryGrows
<1>4. QED
  BY <1>2, <1>3 DEF RecordedInOrder

\* The parts of a sequence put together of two.
LEMMA ConcatParts ==
  ASSUME NEW T, NEW a \in Seq(T), NEW b \in Seq(T), NEW st, st = a \o b,
         NEW n, n = Len(a), NEW k, k = Len(b)
  PROVE  /\ n \in Nat /\ k \in Nat /\ DOMAIN a = 1 .. n /\ DOMAIN b = 1 .. k /\ DOMAIN st = 1 .. n + k
         /\ \A i \in 1 .. n : i \in 1 .. n + k /\ st[i] = a[i]
         /\ \A i \in 1 .. k : n + i \in 1 .. n + k /\ st[n + i] = b[i]
         /\ \A i \in 1 .. n + k : i \notin 1 .. n => i - n \in 1 .. k /\ st[i] = b[i - n]
<1>1. n \in Nat /\ k \in Nat /\ DOMAIN a = 1 .. n /\ DOMAIN b = 1 .. k
  BY LenProperties
<1>2. /\ st \in Seq(T) /\ Len(st) = n + k
      /\ \A i \in 1 .. n + k : st[i] = IF i <= n THEN a[i] ELSE b[i - n]
  BY <1>1, ConcatProperties
<1>3. DOMAIN st = 1 .. n + k
  BY <1>2, LenProperties
<1>4. \A i \in 1 .. n : i \in 1 .. n + k /\ i <= n
  BY <1>1
<1>5. \A i \in 1 .. k : n + i \in 1 .. n + k /\ ~(n + i <= n) /\ (n + i) - n = i
  BY <1>1
<1>6. \A i \in 1 .. n + k : i \notin 1 .. n => i - n \in 1 .. k /\ ~(i <= n)
  BY <1>1
<1>7. \A i \in 1 .. n : i \in 1 .. n + k /\ st[i] = a[i]
  BY <1>2, <1>4
<1>8. \A i \in 1 .. k : n + i \in 1 .. n + k /\ st[n + i] = b[i]
  BY <1>2, <1>5
<1>9. \A i \in 1 .. n + k : i \notin 1 .. n => i - n \in 1 .. k /\ st[i] = b[i - n]
  BY <1>2, <1>6
<1>10. QED
  BY <1>1, <1>3, <1>7, <1>8, <1>9

\* A sequence of numbers that goes down, with smaller ones that are all the same after it.
LEMMA GoesDown ==
  ASSUME NEW n \in Nat, NEW k \in Nat, NEW h, NEW c \in Nat, NEW top \in Nat, c <= top,
         \A i \in 1 .. n : h[i] \in Nat /\ c < h[i] /\ h[i] <= top,
         \A i \in 1 .. n + k : i \notin 1 .. n => h[i] = c,
         \A i, j \in 1 .. n : i < j => h[j] <= h[i]
  PROVE  /\ \A i \in 1 .. n + k : h[i] \in Nat /\ c <= h[i] /\ h[i] <= top
         /\ \A i, j \in 1 .. n + k : i < j => h[j] <= h[i]
<1>1. \A i \in 1 .. n + k : h[i] \in Nat /\ c <= h[i] /\ h[i] <= top
  OBVIOUS
<1>2. ASSUME NEW i \in 1 .. n + k, NEW j \in 1 .. n + k, i < j PROVE h[j] <= h[i]
  <2>1. CASE j \in 1 .. n
    <3>1. i \in 1 .. n
      BY <1>2, <2>1
    <3>2. QED
      BY <1>2, <2>1, <3>1
  <2>2. CASE j \notin 1 .. n
    BY <1>1, <2>2
  <2>3. QED
    BY <2>1, <2>2
<1>3. QED
  BY <1>1, <1>2

\* A job has looked at one more commit.
LookedAt(x, c, z) ==
  /\ x.pc = "scan" /\ x.cursor = c /\ c > 0
  /\ z.pc = "scan" /\ z.stack = x.stack \o Todos(c)
  /\ z.cursor = IF source[c] # {} /\ Todos(c) = <<>> THEN 0 ELSE c - 1

\* What is new on its stack is on top, has that commit, and all that is to do at it.
OnTop(x, c, z) ==
  /\ c \in 1 .. Len(source) /\ Len(source) \in Nat
  /\ \A i \in DOMAIN z.stack :
       /\ z.stack[i].commit \in Nat /\ c <= z.stack[i].commit /\ z.stack[i].commit <= Len(source)
       /\ z.stack[i].commit # c => i \in DOMAIN x.stack /\ z.stack[i] = x.stack[i]
  /\ \A i, j \in DOMAIN z.stack : i < j => z.stack[j].commit <= z.stack[i].commit
  /\ \A i \in DOMAIN x.stack : i \in DOMAIN z.stack /\ z.stack[i] = x.stack[i]
  /\ \A y \in TodoYamls(c) : \E i \in DOMAIN z.stack : z.stack[i].commit = c /\ y \in z.stack[i].yamls

\* What the search finds at a commit goes on top of the stack in order.
LEMMA FoundGoesOnTop ==
  ASSUME CopyTyped, NEW x \in ScannerState, JobFits(x), StackInOrder(x), NEW c \in Nat, NEW z, LookedAt(x, c, z)
  PROVE  OnTop(x, c, z)
<1>1. PICK top \in Nat : top = Len(source)
  BY LenProperties DEF CopyTyped, CopyTypeOK
<1>2. c \in 1 .. top /\ c <= top
  BY <1>1 DEF LookedAt, JobFits
<1>3. /\ Todos(c) \in Seq(Todo)
      /\ \A i \in DOMAIN Todos(c) : Todos(c)[i].commit = c
      /\ \A y \in TodoYamls(c) : \E i \in DOMAIN Todos(c) : y \in Todos(c)[i].yamls
  BY <1>1, <1>2, TodosTyped DEF CopyTyped
<1>4. PICK st, old, new, n, k : st = z.stack /\ old = x.stack /\ new = Todos(c) /\ n = Len(old) /\ k = Len(new)
  OBVIOUS
<1>5. old \in Seq(Todo) /\ new \in Seq(Todo) /\ st = old \o new
  BY <1>3, <1>4 DEF LookedAt, ScannerState
<1>6. /\ n \in Nat /\ k \in Nat /\ DOMAIN old = 1 .. n /\ DOMAIN new = 1 .. k /\ DOMAIN st = 1 .. n + k
      /\ \A i \in 1 .. n : i \in 1 .. n + k /\ st[i] = old[i]
      /\ \A i \in 1 .. k : n + i \in 1 .. n + k /\ st[n + i] = new[i]
      /\ \A i \in 1 .. n + k : i \notin 1 .. n => i - n \in 1 .. k /\ st[i] = new[i - n]
  BY <1>4, <1>5, ConcatParts
<1>7. PICK h : h = [i \in 1 .. n + k |-> st[i].commit]
  OBVIOUS
<1>8. \A i \in 1 .. n + k : h[i] = st[i].commit
  BY <1>7
<1>9. \A i \in 1 .. n : h[i] \in Nat /\ c < h[i] /\ h[i] <= top
  <2>1. \A i \in 1 .. n : old[i].commit \in Nat /\ c < old[i].commit /\ old[i].commit <= top
    BY <1>1, <1>4, <1>6, StackTyped DEF StackInOrder, LookedAt
  <2>2. \A i \in 1 .. n : h[i] = old[i].commit
    BY <1>6, <1>8
  <2>3. QED
    BY <2>1, <2>2
<1>10. \A i \in 1 .. n + k : i \notin 1 .. n => h[i] = c
  <2>1. \A i \in 1 .. k : new[i].commit = c
    BY <1>3, <1>4, <1>6
  <2>2. QED
    BY <1>6, <1>8, <2>1
<1>11. \A i, j \in 1 .. n : i < j => h[j] <= h[i]
  <2>1. \A i, j \in 1 .. n : i < j => old[j].commit <= old[i].commit
    BY <1>4, <1>6 DEF StackInOrder
  <2>2. \A i \in 1 .. n : h[i] = old[i].commit
    BY <1>6, <1>8
  <2>3. QED
    BY <2>1, <2>2
<1>12. /\ \A i \in 1 .. n + k : h[i] \in Nat /\ c <= h[i] /\ h[i] <= top
       /\ \A i, j \in 1 .. n + k : i < j => h[j] <= h[i]
  BY <1>2, <1>6, <1>9, <1>10, <1>11, GoesDown
<1>13. \A i \in 1 .. n + k : h[i] # c => i \in 1 .. n /\ st[i] = old[i]
  BY <1>6, <1>10
<1>14. ASSUME NEW y \in TodoYamls(c) PROVE \E i \in 1 .. n + k : st[i].commit = c /\ y \in st[i].yamls
  <2>1. PICK j \in 1 .. k : y \in new[j].yamls /\ new[j].commit = c
    BY <1>3, <1>4, <1>6
  <2>2. n + j \in 1 .. n + k /\ st[n + j] = new[j]
    BY <1>6
  <2>3. PICK i \in 1 .. n + k : i = n + j
    BY <2>2
  <2>4. st[i].commit = c /\ y \in st[i].yamls
    BY <2>1, <2>2, <2>3
  <2>5. QED
    BY <2>4
<1>15. /\ \A i \in DOMAIN st :
            /\ st[i].commit \in Nat /\ c <= st[i].commit /\ st[i].commit <= top
            /\ st[i].commit # c => i \in DOMAIN old /\ st[i] = old[i]
       /\ \A i, j \in DOMAIN st : i < j => st[j].commit <= st[i].commit
       /\ \A i \in DOMAIN old : i \in DOMAIN st /\ st[i] = old[i]
       /\ \A y \in TodoYamls(c) : \E i \in DOMAIN st : st[i].commit = c /\ y \in st[i].yamls
  <2>1. \A i \in 1 .. n + k : st[i].commit = h[i]
    BY <1>8
  <2>2. DOMAIN st = 1 .. n + k /\ DOMAIN old = 1 .. n
    BY <1>6
  <2>3. \A i \in DOMAIN st : st[i].commit \in Nat /\ c <= st[i].commit /\ st[i].commit <= top
    BY <1>12, <2>1, <2>2
  <2>4. \A i \in DOMAIN st : st[i].commit # c => i \in DOMAIN old /\ st[i] = old[i]
    BY <1>13, <2>1, <2>2
  <2>5. \A i, j \in DOMAIN st : i < j => st[j].commit <= st[i].commit
    BY <1>12, <2>1, <2>2
  <2>6. \A i \in DOMAIN old : i \in DOMAIN st /\ st[i] = old[i]
    BY <1>6, <2>2
  <2>7. \A y \in TodoYamls(c) : \E i \in DOMAIN st : st[i].commit = c /\ y \in st[i].yamls
    BY <1>14, <2>2
  <2>8. QED
    BY <2>3, <2>4, <2>5, <2>6, <2>7
<1>16. QED
  BY <1>1, <1>2, <1>4, <1>15 DEF OnTop

\* The search ends at a commit with nothing to do only when everything older is dealt with.
LEMMA ScanInOrder ==
  ASSUME CopyTyped, CopyInv, HistoryGrows, NEW x \in ScannerState, JobFits(x), JobInOrder(x),
         NEW c \in Nat, NEW z \in ScannerState, LookedAt(x, c, z)
  PROVE  JobInOrder(z)'
<1>1. StackInOrder(x)
  BY DEF JobInOrder
<1>2. /\ c \in 1 .. Len(source) /\ Len(source) \in Nat
      /\ \A i \in DOMAIN z.stack :
           /\ z.stack[i].commit \in Nat /\ c <= z.stack[i].commit /\ z.stack[i].commit <= Len(source)
           /\ z.stack[i].commit # c => i \in DOMAIN x.stack /\ z.stack[i] = x.stack[i]
      /\ \A i, j \in DOMAIN z.stack : i < j => z.stack[j].commit <= z.stack[i].commit
      /\ \A i \in DOMAIN x.stack : i \in DOMAIN z.stack /\ z.stack[i] = x.stack[i]
      /\ \A y \in TodoYamls(c) : \E i \in DOMAIN z.stack : z.stack[i].commit = c /\ y \in z.stack[i].yamls
  <2>1. OnTop(x, c, z)
    BY <1>1, FoundGoesOnTop
  <2>2. QED
    BY <2>1 DEF OnTop
<1>3. PICK m \in Nat : m = z.cursor /\ m < c /\ (m # c - 1 => source[c] # {} /\ Todos(c) = <<>>)
  <2>1. c > 0 /\ c - 1 \in Nat /\ c - 1 < c /\ 0 \in Nat
    BY DEF LookedAt
  <2>2. CASE source[c] # {} /\ Todos(c) = <<>>
    <3>1. z.cursor = 0
      BY <2>2, Zenon DEF LookedAt
    <3>2. QED
      BY <2>1, <2>2, <3>1
  <2>3. CASE ~(source[c] # {} /\ Todos(c) = <<>>)
    <3>1. z.cursor = c - 1
      BY <2>3, Zenon DEF LookedAt
    <3>2. QED
      BY <2>1, <3>1
  <2>4. QED
    BY <2>2, <2>3
<1>4. ASSUME allowed, NEW i \in DOMAIN z.stack, NEW y \in Yaml, NEW d \in Nat, d \in Source,
             d < z.stack[i].commit, Affects(y, d)
      PROVE  Dealt(y, d) \/ Awaited(z, y, d)
  <2>1. CASE d > c
    <3>1. i \in DOMAIN x.stack /\ z.stack[i] = x.stack[i]
      BY <1>2, <1>4, <2>1
    <3>2. Dealt(y, d) \/ Awaited(x, y, d)
      BY <1>1, <1>4, <3>1 DEF StackInOrder
    <3>3. Awaited(x, y, d) => Awaited(z, y, d)
      <4>1. ~(d <= x.cursor)
        BY <2>1 DEF LookedAt
      <4>2. QED
        BY <1>2, <4>1 DEF Awaited
    <3>4. QED
      BY <3>2, <3>3
  <2>2. CASE d = c
    <3>1. y \in source[c] /\ ~TooOld(c)
      BY <1>4, <2>2 DEF Affects
    <3>2. CASE <<y, c>> \in recorded
      BY <2>2, <3>2 DEF CopyInv, RecordedInOrder, Dealt
    <3>3. CASE <<y, c>> \notin recorded
      <4>1. y \in TodoYamls(c)
        BY <3>1, <3>3 DEF TodoYamls
      <4>2. QED
        BY <1>2, <2>2, <4>1 DEF Awaited
    <3>4. QED
      BY <3>2, <3>3
  <2>3. CASE d < c
    <3>1. CASE m = c - 1
      <4>1. d <= m
        BY <1>4, <2>3, <3>1
      <4>2. QED
        BY <1>3, <4>1 DEF Awaited, LookedAt
    <3>2. CASE m # c - 1
      <4>1. source[c] # {} /\ Todos(c) = <<>>
        BY <1>3, <3>2
      <4>2. TodoYamls(c) = {}
        <5>1. DOMAIN Todos(c) = {}
          BY <4>1
        <5>2. \A u \in TodoYamls(c) : \E i_1 \in DOMAIN Todos(c) : u \in Todos(c)[i_1].yamls
          BY <1>2, TodosTyped DEF CopyTyped
        <5>3. QED
          BY <5>1, <5>2
      <4>3. ~TooOld(c)
        <5>1. ~(d <= begin) /\ begin \in Nat
          BY <1>4 DEF Affects, TooOld, CopyTyped, CopyTypeOK
        <5>2. QED
          BY <1>4, <2>3, <5>1 DEF TooOld
      <4>4. PICK u \in source[c] : <<u, c>> \in recorded
        BY <4>1, <4>2, <4>3 DEF TodoYamls
      <4>5. DealtBefore(<<u, c>>[2])
        BY <4>4, Zenon DEF CopyInv, RecordedInOrder
      <4>6. DealtBefore(c)
        BY <4>5
      <4>7. QED
        BY <1>4, <2>3, <4>6 DEF DealtBefore
    <3>3. QED
      BY <3>1, <3>2
  <2>4. QED
    BY <1>4, <2>1, <2>2, <2>3
<1>5. StackInOrder(z)
  <2>1. ASSUME NEW i \in DOMAIN z.stack
        PROVE  z.stack[i].commit <= Len(source) /\ (z.pc = "scan" => z.cursor < z.stack[i].commit)
    <3>1. PICK e \in Nat : e = z.stack[i].commit /\ c <= e /\ e <= Len(source)
      BY <1>2
    <3>2. QED
      BY <1>3, <3>1
  <2>2. \A i, j \in DOMAIN z.stack : i < j => z.stack[j].commit <= z.stack[i].commit
    BY <1>2
  <2>3. Source \subseteq Nat
    BY DEF Source
  <2>4. allowed => \A i \in DOMAIN z.stack, y \in Yaml, d \in Source :
                     (d < z.stack[i].commit /\ Affects(y, d)) => Dealt(y, d) \/ Awaited(z, y, d)
    BY <1>4, <2>3
  <2>5. QED
    BY <2>1, <2>2, <2>4 DEF StackInOrder
<1>6. StackInOrder(z)'
  BY <1>5, StackStays
<1>7. WorkInHand(z)'
  BY DEF WorkInHand, LookedAt
<1>8. QED
  BY <1>6, <1>7 DEF JobInOrder

\* A step of a job leaves what is recorded and all the jobs in order.
LEMMA ScannerStepInOrder ==
  ASSUME CopyTyped, CopyTyped', CopyInv, NEW s \in Scanner, ScannerStep(s) \/ ScannerFails(s)
  PROVE  CopyInv'
<1>1. PICK x \in ScannerState : x = scanner[s]
  BY DEF CopyTyped, CopyTypeOK
<1>2. JobFits(x) /\ JobInOrder(x)
  BY <1>1 DEF CopyTyped, CopyInv
<1>3. /\ x.stack \in Seq(Todo) /\ x.todo \in SUBSET Yaml /\ x.leftOvers \in SUBSET Yaml /\ x.target \in SUBSET Yaml
      /\ x.phase \in {"each", "rest", "batch"} /\ x.tags \in SUBSET Tag
  BY DEF ScannerState
<1>4. HistoryGrows
  <2>1. UNCHANGED github /\ source \in Seq(SUBSET Yaml) /\ Len(source) \in Nat
    BY LenProperties DEF CopyTyped, CopyTypeOK, ScannerStep, ScannerFails, StartScan, ScanCommit, ScanEnds, Clone, List,
       EachDone, BatchesDone, Copy, CopyCodeIntoCommit, PushToPull, Record, CopyNew, PushNew, CreatePull
  <2>2. delivered \subseteq delivered' /\ skipped \subseteq skipped' /\ raced \subseteq raced'
    BY DEF ScannerStep, ScannerFails, StartScan, ScanCommit, ScanEnds, Clone, List, EachDone, BatchesDone,
       Copy, CopyCodeIntoCommit, PushToPull, Push, Record, CopyNew, PushNew, PushForced, CreatePull, history
  <2>3. QED
    BY <2>1, <2>2 DEF HistoryGrows, github
<1>5. allowed' = allowed /\ (\A y, c : Dealt(y, c) => Dealt(y, c)') /\ delivered \subseteq delivered'
  BY <1>4, DealtStays DEF HistoryGrows
<1>6. RecordedInOrder' => \A z : Becomes(s, z) /\ JobInOrder(z)' => CopyInv'
  BY <1>4, AllInOrder DEF CopyInv
<1>7. UNCHANGED recorded => RecordedInOrder'
  <2>1. PICK none : none = {}
    OBVIOUS
  <2>2. UNCHANGED recorded => recorded' = recorded \cup none /\ none \subseteq delivered'
    BY <2>1
  <2>3. \A t \in none : t[2] \in Nat /\ t[2] <= Len(source) /\ DealtBefore(t[2])
    BY <2>1
  <2>4. QED
    BY <1>4, <2>2, <2>3, RecordedStays
<1>8. PICK idle \in ScannerState : idle = ScanIdle /\ idle.pc = "idle" /\ idle.stack = <<>>
  BY JobsTyped DEF ScanIdle
<1>9. \A z : z.stack = <<>> /\ z.pc \in {"idle", "scan", "clone"} => JobInOrder(z)'
  BY DEF JobInOrder, StackInOrder, WorkInHand
<1>10. CASE ScannerFails(s)
  BY <1>6, <1>7, <1>8, <1>9, <1>10 DEF ScannerFails
<1>11. CASE StartScan(s)
  <2>1. PICK z : z = [ScanIdle EXCEPT !.pc = "scan", !.cursor = Len(source)]
    OBVIOUS
  <2>2. z.pc = "scan" /\ z.stack = <<>>
    BY <2>1 DEF ScanIdle
  <2>3. QED
    BY <1>6, <1>7, <1>9, <1>11, <2>1, <2>2 DEF StartScan
<1>12. CASE ScanCommit(s)
  <2>1. PICK c \in Nat : c = x.cursor
    BY DEF ScannerState
  <2>2. PICK z : z = [x EXCEPT !.stack = x.stack \o Todos(c),
                               !.cursor = IF source[c] # {} /\ Todos(c) = <<>> THEN 0 ELSE c - 1]
    OBVIOUS
  <2>3. Becomes(s, z)
    BY <1>1, <1>12, <2>1, <2>2 DEF ScanCommit
  <2>4. z \in ScannerState
    <3>1. scanner'[s] = z /\ scanner'[s] \in ScannerState
      BY <2>3 DEF CopyTyped, CopyTypeOK, Becomes
    <3>2. QED
      BY <3>1
  <2>5. LookedAt(x, c, z)
    <3>1. x.pc = "scan" /\ c > 0 /\ x.cursor = c
      BY <1>1, <1>12, <2>1, <2>2 DEF ScanCommit
    <3>2. z.pc = x.pc /\ z.stack = x.stack \o Todos(c)
          /\ z.cursor = IF source[c] # {} /\ Todos(c) = <<>> THEN 0 ELSE c - 1
      BY <2>2 DEF ScannerState
    <3>3. QED
      BY <3>1, <3>2 DEF LookedAt
  <2>6. JobInOrder(z)'
    BY <1>2, <1>4, <2>4, <2>5, ScanInOrder
  <2>7. QED
    BY <1>6, <1>7, <1>12, <2>3, <2>6 DEF ScanCommit
<1>13. CASE ScanEnds(s)
  <2>1a. PICK pc \in {"idle", "clone"} : Becomes(s, [ScanIdle EXCEPT !.pc = pc, !.stack = x.stack])
    BY <1>1, <1>13 DEF ScanEnds, Pop
  <2>1. PICK z : pc \in {"idle", "clone"} /\ z = [ScanIdle EXCEPT !.pc = pc, !.stack = x.stack] /\ Becomes(s, z)
    BY <2>1a
  <2>2. z.pc = pc /\ z.stack = x.stack
    BY <2>1 DEF ScanIdle
  <2>3. PICK y \in ScannerState : y = [x EXCEPT !.pc = "idle"]
    BY DEF ScannerState, ScannerPc
  <2>4. y.pc = "idle" /\ y.stack = x.stack
    BY <2>3 DEF ScannerState
  <2>5. StackInOrder(y)
    <3>1. StackInOrder(x) /\ x.cursor = 0 /\ \A c \in Source : ~(c <= 0)
      BY <1>1, <1>2, <1>13 DEF JobInOrder, ScanEnds, Source
    <3>2. QED
      BY <2>4, <3>1 DEF StackInOrder, Awaited
  <2>6. StackInOrder(z)'
    BY <1>4, <2>2, <2>4, <2>5, StackStays
  <2>7. JobInOrder(z)'
    BY <2>2, <2>6 DEF JobInOrder, WorkInHand
  <2>8. QED
    BY <1>6, <1>7, <1>13, <2>1, <2>7 DEF ScanEnds
<1>14. CASE Clone(s)
  <2>1. x.stack # <<>> /\ x.pc = "clone" /\ StackInOrder(x) /\ Work(s) = Last(x.stack)
    BY <1>1, <1>2, <1>14 DEF Clone, JobFits, JobInOrder, Work
  <2>2. CASE ~allowed
    <3>1. PICK z : z = Finished(x) /\ Becomes(s, z)
      BY <1>1, <1>14, <2>2 DEF Clone
    <3>2. JobInOrder(z)'
      BY <1>4, <2>1, <2>2, <3>1, FinishedInOrder
    <3>3. QED
      BY <1>6, <1>7, <1>14, <3>1, <3>2 DEF Clone
  <2>3. CASE allowed
    <3>1. PICK z, yamls : /\ yamls = Last(x.stack).yamls /\ Becomes(s, z)
                          /\ z = [x EXCEPT !.pc = "each", !.clone = branch, !.todo = yamls]
      BY <1>1, <1>14, <2>1, <2>3 DEF Clone
    <3>2. z.pc = "each" /\ z.stack = x.stack /\ z.todo = yamls
      BY <3>1 DEF ScannerState
    <3>3. StackInOrder(z)'
      BY <1>4, <2>1, <3>2, StackStays
    <3>4. WorkInHand(z)'
      BY <1>5, <2>3, <3>1, <3>2 DEF WorkInHand, Stage, StillToDo, Searching, Pushing
    <3>5. QED
      BY <1>6, <1>7, <1>14, <3>1, <3>3, <3>4 DEF Clone, JobInOrder
  <2>4. QED
    BY <2>2, <2>3
<1>15. ASSUME x.pc \notin {"idle", "scan", "clone"}
       PROVE  /\ x.stack # <<>> /\ StackInOrder(x) /\ WorkInHand(x) /\ allowed /\ Work(s) = Last(x.stack)
              /\ Last(x.stack) \in Todo /\ Last(x.stack).commit \in Source
              /\ Last(x.stack).commit <= Len(source) /\ DealtBefore(Last(x.stack).commit)
  <2>1. x.stack # <<>> /\ StackInOrder(x) /\ WorkInHand(x) /\ allowed /\ Work(s) = Last(x.stack) /\ x.pc # "scan"
    BY <1>1, <1>2, <1>15 DEF JobFits, JobInOrder, WorkInHand, Work
  <2>2. QED
    BY <2>1, OlderIsDealt
<1>16. CASE EachDone(s)
  <2>1. x.pc = "each" /\ x.todo = {}
    BY <1>1, <1>16 DEF EachDone
  <2>2. \A y \in Last(x.stack).yamls : Dealt(y, Last(x.stack).commit)' \/ y \in x.leftOvers
    BY <1>5, <1>15, <2>1 DEF WorkInHand, StillToDo, Stage, Searching
  <2>3. CASE x.leftOvers = {}
    <3>1. PICK z : z = Finished(x) /\ Becomes(s, z)
      <4>1. Work(s).yamls # {}
        BY <1>15, <2>1 DEF Todo, Branch
      <4>2. Becomes(s, Finished(x))
        BY <1>1, <1>16, <2>3, <4>1 DEF EachDone
      <4>3. QED
        BY <4>2
    <3>2. JobInOrder(z)'
      BY <1>4, <1>15, <2>1, <2>2, <2>3, <3>1, FinishedInOrder
    <3>3. QED
      BY <1>6, <1>7, <1>16, <3>1, <3>2 DEF EachDone
  <2>4. CASE x.leftOvers # {}
    <3>1. PICK pc, todo, z :
            /\ (pc = "rest" /\ todo = x.todo) \/ (pc = "batch" /\ todo = x.leftOvers)
            /\ z = [x EXCEPT !.pc = pc, !.todo = todo] /\ Becomes(s, z)
      <4>1. CASE Becomes(s, [x EXCEPT !.pc = "batch", !.todo = x.leftOvers])
        BY <4>1
      <4>2. CASE Becomes(s, [x EXCEPT !.pc = "rest"])
        <5>1. [x EXCEPT !.pc = "rest"] = [x EXCEPT !.pc = "rest", !.todo = x.todo]
          BY DEF ScannerState
        <5>2. QED
          BY <4>2, <5>1
      <4>3. QED
        BY <1>1, <1>16, <2>4, <4>1, <4>2 DEF EachDone
    <3>2. z.pc = pc /\ z.stack = x.stack /\ z.todo = todo /\ z.leftOvers = x.leftOvers
      BY <3>1 DEF ScannerState
    <3>3. StackInOrder(z)'
      BY <1>4, <1>15, <2>1, <3>1, <3>2, StackStays
    <3>4. WorkInHand(z)'
      <4>1. x.leftOvers = StillToDo(z)
        BY <3>1, <3>2 DEF StillToDo, Stage, Searching
      <4>2. QED
        BY <1>5, <1>15, <2>1, <2>2, <3>1, <3>2, <4>1 DEF WorkInHand, Searching, Pushing, StillToDo, Stage
    <3>5. QED
      BY <1>6, <1>7, <1>16, <3>1, <3>3, <3>4 DEF EachDone, JobInOrder
  <2>5. QED
    BY <2>3, <2>4
<1>17. CASE BatchesDone(s)
  <2>1. x.pc = "batch" /\ x.todo = {}
    BY <1>1, <1>17 DEF BatchesDone
  <2>2. \A y \in Last(x.stack).yamls : Dealt(y, Last(x.stack).commit)'
    BY <1>5, <1>15, <2>1 DEF WorkInHand, StillToDo, Stage, Searching
  <2>3. PICK z : z = Finished(x) /\ Becomes(s, z)
    BY <1>1, <1>17 DEF BatchesDone
  <2>4. JobInOrder(z)'
    BY <1>4, <1>15, <2>1, <2>2, <2>3, FinishedInOrder
  <2>5. QED
    BY <1>6, <1>7, <1>17, <2>3, <2>4 DEF BatchesDone
<1>18. CASE List(s)
  <2>1. x.pc \in {"each", "rest", "batch"} /\ (x.pc = "rest" \/ x.todo # {})
    BY <1>1, <1>18 DEF List
  <2>2. Wanted(x) \in SUBSET Yaml
    BY <1>2, <2>1, WantedTyped DEF Searching
  <2>3. PICK y : y = [x EXCEPT !.phase = x.pc, !.target = Wanted(x)]
    OBVIOUS
  <2>4. PICK z : z = [x EXCEPT !.pc = "copy", !.phase = x.pc, !.target = Wanted(x)]
    OBVIOUS
  <2>5. /\ z \in ScannerState /\ z.pc = "copy" /\ z.phase = x.pc /\ z.target = Wanted(x) /\ z.stack = x.stack
        /\ z.todo = x.todo /\ z.leftOvers = x.leftOvers
    BY <2>1, <2>2, <2>4 DEF ScannerState, ScannerPc
  <2>6. JobInOrder(z)
    <3>1. StackInOrder(z)
      BY <1>15, <2>1, <2>5 DEF StackInOrder, Awaited
    <3>2. Stage(z) = Stage(x) /\ StillToDo(z) = StillToDo(x)
      BY <2>1, <2>5 DEF Stage, StillToDo, Searching
    <3>3. x.pc = "rest" => z.target = x.leftOvers
      BY <2>5 DEF Wanted
    <3>4. WorkInHand(z)
      BY <1>15, <2>1, <2>5, <3>2, <3>3 DEF WorkInHand, Searching, Pushing
    <3>5. QED
      BY <3>1, <3>4 DEF JobInOrder
  <2>7. Becomes(s, ScanIdle) \/ Becomes(s, z) \/ Becomes(s, NotFound(z))
    <3>1. Becomes(s, NotFound(y)) \/ Becomes(s, ScanIdle) \/ Becomes(s, [y EXCEPT !.pc = "copy"])
      BY <1>1, <1>18, <2>3, Zenon DEF List
    <3>2. [y EXCEPT !.pc = "copy"] = z
      BY <2>3, <2>4 DEF ScannerState
    <3>3. NotFound(y) = NotFound(z)
      <4>1. y.phase = z.phase /\ y.todo = z.todo /\ y.leftOvers = z.leftOvers /\ y.target = z.target
        BY <2>1, <2>3, <2>5 DEF ScannerState
      <4>2. \A pc, todo, left :
              /\ [y EXCEPT !.pc = pc] = [z EXCEPT !.pc = pc]
              /\ [y EXCEPT !.pc = pc, !.todo = todo] = [z EXCEPT !.pc = pc, !.todo = todo]
              /\ [y EXCEPT !.pc = pc, !.todo = todo, !.leftOvers = left]
                   = [z EXCEPT !.pc = pc, !.todo = todo, !.leftOvers = left]
        BY <2>3, <2>4 DEF ScannerState
      <4>3. /\ [y EXCEPT !.pc = "copyNew"] = [z EXCEPT !.pc = "copyNew"]
            /\ [y EXCEPT !.pc = "batch", !.todo = z.leftOvers] = [z EXCEPT !.pc = "batch", !.todo = z.leftOvers]
            /\ [y EXCEPT !.pc = "each", !.todo = z.todo \ z.target, !.leftOvers = z.leftOvers \cup z.target]
                 = [z EXCEPT !.pc = "each", !.todo = z.todo \ z.target, !.leftOvers = z.leftOvers \cup z.target]
        BY <4>2
      <4>4. QED
        BY <4>1, <4>3 DEF NotFound
    <3>4. QED
      BY <3>1, <3>2, <3>3
  <2>8. UNCHANGED recorded
    BY <1>18 DEF List
  <2>9. CASE Becomes(s, ScanIdle)
    BY <1>6, <1>7, <1>8, <1>9, <2>8, <2>9
  <2>10. CASE Becomes(s, z)
    <3>1. JobFits(z)
      BY <1>2, <1>15, <2>1, <2>5, WantedTyped DEF JobFits, Pushing, Searching
    <3>2. JobInOrder(z)'
      BY <1>4, <2>5, <2>6, <3>1, OthersInOrder
    <3>3. QED
      BY <1>6, <1>7, <2>8, <2>10, <3>2
  <2>11. CASE Becomes(s, NotFound(z))
    <3>1. PICK u : u = NotFound(z)
      OBVIOUS
    <3>2. JobInOrder(u)'
      BY <1>4, <1>15, <2>1, <2>5, <2>6, <3>1, NotFoundInOrder
    <3>3. QED
      BY <1>6, <1>7, <2>8, <2>11, <3>1, <3>2
  <2>12. QED
    BY <2>7, <2>9, <2>10, <2>11
<1>19. CASE Copy(s) \/ CopyNew(s)
  <2> DEFINE d == Last(x.stack).commit
             good == TagsOf(s, "good")
  <2>1. x.pc \in {"copy", "copyNew"} /\ CopyCodeIntoCommit(s)
    BY <1>1, <1>19 DEF Copy, CopyNew
  <2>2. /\ TagsOf(s, "good") = {<<y, d>> : y \in {u \in x.target : file[u] = "good"}}
        /\ TagsOf(s, "broken") = {<<y, d>> : y \in {u \in x.target : file[u] = "broken"}}
        /\ TagsOf(s, "missing") = {<<y, d>> : y \in {u \in x.target : file[u] = "missing"}}
    BY <1>1, <1>15, <2>1 DEF TagsOf
  <2>3. RecordedInOrder'
    <3>1. PICK more : more = TagsOf(s, "broken")
      OBVIOUS
    <3>2. recorded' = recorded \cup more /\ more \subseteq delivered'
      BY <2>1, <3>1 DEF CopyCodeIntoCommit
    <3>3. \A t \in more : t[2] = d
      BY <2>2, <3>1
    <3>4. \A t \in more : t[2] \in Nat /\ t[2] <= Len(source) /\ DealtBefore(t[2])
      BY <1>15, <2>1, <3>3 DEF Source
    <3>5. QED
      BY <1>4, <3>2, <3>4, RecordedStays
  <2>4. \A y \in x.target : Dealt(y, d)' \/ <<y, d>> \in good
    <3>1. SUFFICES ASSUME NEW y \in x.target PROVE Dealt(y, d)' \/ <<y, d>> \in good
      OBVIOUS
    <3>2. file[y] \in {"good", "broken", "missing"}
      BY <1>3 DEF CopyTyped, CopyTypeOK
    <3>3. \/ <<y, d>> \in TagsOf(s, "good") \/ <<y, d>> \in TagsOf(s, "broken")
          \/ <<y, d>> \in TagsOf(s, "missing")
      BY <2>2, <3>2
    <3>4. QED
      BY <2>1, <3>3 DEF Dealt, CopyCodeIntoCommit
  <2>5. CASE Becomes(s, Found(x)) /\ \A y \in x.target : Dealt(y, d)'
    <3>1. PICK z : z = Found(x)
      OBVIOUS
    <3>2. JobInOrder(z)'
      BY <1>2, <1>4, <1>15, <2>1, <2>5, <3>1, FoundInOrder DEF Searching
    <3>3. QED
      BY <1>6, <2>3, <2>5, <3>1, <3>2
  <2>6. ASSUME NEW pc \in {"push", "pushNew"}, NEW z, z = [x EXCEPT !.pc = pc, !.tags = good], Becomes(s, z)
        PROVE  CopyInv'
    <3>1. PICK tags : tags = good
      OBVIOUS
    <3>2. /\ z.pc = pc /\ z.phase = x.phase /\ z.target = x.target /\ z.stack = x.stack /\ z.tags = tags
          /\ z.todo = x.todo /\ z.leftOvers = x.leftOvers
      BY <2>6, <3>1 DEF ScannerState
    <3>3. StackInOrder(z)'
      BY <1>4, <1>15, <2>1, <3>2, StackStays
    <3>4. Stage(z) = Stage(x) /\ StillToDo(z) = StillToDo(x)
      BY <2>1, <3>2 DEF Stage, StillToDo, Searching
    <3>5. \A t \in tags : t[2] = d
      BY <2>2, <3>1
    <3>6. \A y \in Last(x.stack).yamls : Dealt(y, d)' \/ y \in StillToDo(z)
      BY <1>5, <1>15, <2>1, <3>4 DEF WorkInHand
    <3>7. x.phase = "rest" => x.target = x.leftOvers
      BY <1>15, <2>1 DEF WorkInHand, Searching
    <3>8. allowed' /\ \A y \in z.target : Dealt(y, d)' \/ <<y, d>> \in z.tags
      BY <1>5, <1>15, <2>1, <2>4, <3>1, <3>2
    <3>9. WorkInHand(z)'
      BY <2>6, <3>2, <3>5, <3>6, <3>7, <3>8 DEF WorkInHand, Stage, StillToDo, Searching, Pushing
    <3>10. QED
      BY <1>6, <2>3, <2>6, <3>3, <3>9 DEF JobInOrder
  <2>7. CASE Copy(s)
    <3>1. CASE good = {} \/ good \cap recorded # {}
      <4>1. Becomes(s, Found(x)) /\ raced' = raced \cup (IF good \cap recorded # {} THEN good \ recorded ELSE {})
        BY <1>1, <2>7, <3>1 DEF Copy
      <4>2. good \subseteq delivered \cup raced'
        BY <3>1, <4>1 DEF CopyInv, RecordedInOrder
      <4>3. \A y \in x.target : Dealt(y, d)'
        BY <1>5, <2>4, <4>2 DEF Dealt
      <4>4. QED
        BY <2>5, <4>1, <4>3
    <3>2. CASE ~(good = {} \/ good \cap recorded # {})
      <4>1. PICK z : z = [x EXCEPT !.pc = "push", !.tags = good] /\ Becomes(s, z)
        BY <1>1, <2>7, <3>2 DEF Copy
      <4>2. QED
        BY <2>6, <4>1
    <3>3. QED
      BY <3>1, <3>2
  <2>8. CASE CopyNew(s)
    <3>1. CASE good = {}
      <4>1. Becomes(s, Found(x)) /\ \A y \in x.target : Dealt(y, d)'
        BY <1>1, <2>4, <2>8, <3>1 DEF CopyNew
      <4>2. QED
        BY <2>5, <4>1
    <3>2. CASE good # {}
      <4>1. PICK z : z = [x EXCEPT !.pc = "pushNew", !.tags = good] /\ Becomes(s, z)
        BY <1>1, <2>8, <3>2 DEF CopyNew
      <4>2. QED
        BY <2>6, <4>1
    <3>3. QED
      BY <3>1, <3>2
  <2>9. QED
    BY <1>19, <2>7, <2>8
<1>20. ASSUME NEW pc \in {"create", "record"}, NEW z, z = [x EXCEPT !.pc = pc], Becomes(s, z), UNCHANGED recorded,
              \/ x.pc \in {"push", "pushNew"} /\ x.tags \subseteq delivered'
              \/ x.pc = "create"
       PROVE  CopyInv'
  <2> DEFINE d == Last(x.stack).commit
  <2>1. /\ z.pc = pc /\ z.phase = x.phase /\ z.target = x.target /\ z.stack = x.stack /\ z.tags = x.tags
        /\ z.todo = x.todo /\ z.leftOvers = x.leftOvers
    BY <1>20 DEF ScannerState
  <2>2. x.pc \in Pushing /\ x.pc \notin {"idle", "scan", "clone"} /\ x.pc \notin Searching
    BY <1>20 DEF Pushing, Searching
  <2>3. StackInOrder(z)'
    BY <1>4, <1>15, <2>1, <2>2, StackStays
  <2>4. Stage(z) = Stage(x) /\ StillToDo(z) = StillToDo(x)
    BY <2>1, <2>2 DEF Stage, StillToDo, Searching
  <2>5. x.tags \subseteq delivered'
    BY <1>5, <1>15, <1>20, <2>2 DEF WorkInHand
  <2>6. \A y \in x.target : Dealt(y, d)'
    <3>1. \A y \in x.target : Dealt(y, d) \/ <<y, d>> \in x.tags
      BY <1>15, <1>20, <2>2 DEF WorkInHand
    <3>2. QED
      BY <1>5, <2>5, <3>1 DEF Dealt
  <2>7. \A y \in Last(x.stack).yamls : Dealt(y, d)' \/ y \in StillToDo(z)
    BY <1>5, <1>15, <2>2, <2>4 DEF WorkInHand
  <2>8. (x.phase = "rest" => x.target = x.leftOvers) /\ \A t \in x.tags : t[2] = d
    BY <1>15, <2>2 DEF WorkInHand
  <2>9. WorkInHand(z)'
    BY <1>5, <1>15, <2>1, <2>2, <2>5, <2>6, <2>7, <2>8 DEF WorkInHand, Stage, StillToDo, Searching, Pushing
  <2>10. QED
    BY <1>6, <1>7, <1>20, <2>3, <2>9 DEF JobInOrder
<1>21. UNCHANGED recorded /\ Becomes(s, ScanIdle) => CopyInv'
  BY <1>6, <1>7, <1>8, <1>9
<1>22. CASE PushToPull(s)
  <2>1. x.pc = "push" /\ UNCHANGED recorded
    BY <1>1, <1>22 DEF PushToPull
  <2>2. Becomes(s, ScanIdle) \/ (Becomes(s, [x EXCEPT !.pc = "record"]) /\ x.tags \subseteq delivered')
    BY <1>1, <1>22 DEF PushToPull, Push
  <2>3. QED
    BY <1>20, <1>21, <2>1, <2>2
<1>23. CASE PushNew(s)
  <2>1. x.pc = "pushNew" /\ UNCHANGED recorded
    BY <1>1, <1>23 DEF PushNew
  <2>2. Becomes(s, [x EXCEPT !.pc = "create"]) /\ x.tags \subseteq delivered'
    BY <1>1, <1>23 DEF PushNew, PushForced
  <2>3. QED
    BY <1>20, <2>1, <2>2
<1>24. CASE CreatePull(s)
  <2>1. x.pc = "create" /\ UNCHANGED recorded
    BY <1>1, <1>24 DEF CreatePull
  <2>2. Becomes(s, ScanIdle) \/ Becomes(s, [x EXCEPT !.pc = "record"])
    BY <1>1, <1>24 DEF CreatePull
  <2>3. QED
    BY <1>20, <1>21, <2>1, <2>2
<1>25. CASE Record(s)
  <2> DEFINE d == Last(x.stack).commit
  <2>1. x.pc = "record" /\ x.tags # {}
    BY <1>1, <1>2, <1>25 DEF Record, JobFits, Pushing
  <2>2. PICK tag \in x.tags :
          /\ recorded' = recorded \cup {tag}
          /\ Becomes(s, IF x.tags = {tag} THEN Found([x EXCEPT !.tags = {}]) ELSE [x EXCEPT !.tags = x.tags \ {tag}])
    <3>1. PICK tag : tag = CHOOSE t \in x.tags : \A u \in x.tags : t[1] <= u[1]
      OBVIOUS
    <3>2. tag \in x.tags
      BY <1>3, <2>1, <3>1, FirstTag
    <3>3. QED
      BY <1>1, <1>25, <3>1, <3>2 DEF Record
  <2>3. tag[2] = d /\ tag \in delivered' /\ x.tags \subseteq delivered /\ \A y \in x.target : Dealt(y, d)
    BY <1>5, <1>15, <2>1, <2>2 DEF WorkInHand, Pushing
  <2>4. RecordedInOrder'
    <3>1. PICK more : more = {tag}
      OBVIOUS
    <3>2. \A t \in more : t[2] \in Nat /\ t[2] <= Len(source) /\ DealtBefore(t[2])
      BY <1>15, <2>1, <2>3, <3>1 DEF Source
    <3>3. recorded' = recorded \cup more /\ more \subseteq delivered'
      BY <2>2, <2>3, <3>1
    <3>4. QED
      BY <1>4, <3>2, <3>3, RecordedStays
  <2>5. PICK tags, z : z = [x EXCEPT !.tags = tags] /\ tags = x.tags \ {tag}
    OBVIOUS
  <2>6. /\ z.pc = "record" /\ z.phase = x.phase /\ z.target = x.target /\ z.stack = x.stack /\ z.tags = tags
        /\ z.todo = x.todo /\ z.leftOvers = x.leftOvers /\ z \in ScannerState
    BY <1>3, <2>1, <2>5 DEF ScannerState
  <2>7. JobInOrder(z)
    <3>1. StackInOrder(z)
      BY <1>15, <2>1, <2>6 DEF StackInOrder, Awaited
    <3>2. Stage(z) = Stage(x) /\ StillToDo(z) = StillToDo(x)
      BY <2>1, <2>6 DEF Stage, StillToDo, Searching
    <3>3. tags \subseteq x.tags
      BY <2>5
    <3>4. WorkInHand(z)
      BY <1>15, <2>1, <2>3, <2>6, <3>2, <3>3 DEF WorkInHand, Searching, Pushing
    <3>5. QED
      BY <3>1, <3>4 DEF JobInOrder
  <2>8. CASE x.tags = {tag}
    <3>1. z = [x EXCEPT !.tags = {}]
      BY <2>5, <2>8
    <3>2. PICK u : u = Found(z) /\ Becomes(s, u)
      BY <2>2, <2>8, <3>1
    <3>3. JobInOrder(u)'
      BY <1>4, <1>5, <1>15, <2>1, <2>3, <2>6, <2>7, <3>2, FoundInOrder DEF Searching
    <3>4. QED
      BY <1>6, <2>4, <3>2, <3>3
  <2>9. CASE x.tags # {tag}
    <3>1. Becomes(s, z)
      BY <2>2, <2>5, <2>9
    <3>2. JobFits(z)
      BY <1>2, <2>1, <2>2, <2>5, <2>6, <2>9 DEF JobFits, Pushing
    <3>3. JobInOrder(z)'
      BY <1>4, <2>6, <2>7, <3>2, OthersInOrder
    <3>4. QED
      BY <1>6, <2>4, <3>1, <3>3
  <2>10. QED
    BY <2>8, <2>9
<1>26. QED
  BY <1>10, <1>11, <1>12, <1>13, <1>14, <1>16, <1>17, <1>18, <1>19, <1>22, <1>23, <1>24, <1>25 DEF ScannerStep

\* What happens outside of the jobs leaves them in order.
LEMMA OutsideInOrder ==
  ASSUME CopyTyped, CopyTyped', CopyInv,
         \/ UNCHANGED copyVars \/ Generate \/ (\E y \in Yaml : EditFile(y)) \/ (\E b \in Branch : ClosePull(b))
         \/ \E g \in Regenerator : RegeneratorStep(g) \/ \E b \in Branch : StartRegenerate(g, b)
  PROVE  CopyInv'
<1>1. source \in Seq(SUBSET Yaml) /\ Len(source) \in Nat
  BY LenProperties DEF CopyTyped, CopyTypeOK
<1>2. UNCHANGED <<scanner, recorded, skipped, raced, begin, allowed>> /\ delivered \subseteq delivered'
  BY DEF copyVars, Generate, EditFile, ClosePull, RegeneratorStep, StartRegenerate, FindPull, FetchAgain,
         PushRegenerated, PushForced, PushAgain, Push, history, github
<1>3. source' \in Seq(SUBSET Yaml) /\ Len(source) <= Len(source') /\ \A c \in 1 .. Len(source) : source'[c] = source[c]
  <2>1. CASE UNCHANGED source
    BY <1>1, <2>1
  <2>2. CASE Generate
    <3>1. PICK ys \in SUBSET Yaml : source' = Append(source, ys)
      BY <2>2 DEF Generate
    <3>2. QED
      BY <1>1, <3>1, AppendProperties
  <2>3. QED
    BY <2>1, <2>2 DEF copyVars, EditFile, ClosePull, RegeneratorStep, StartRegenerate, FindPull, FetchAgain,
       PushRegenerated, PushAgain, github
<1>4. HistoryGrows
  BY <1>2, <1>3 DEF HistoryGrows
<1>5. RecordedInOrder'
  <2>1. PICK none : none = {}
    OBVIOUS
  <2>2. recorded' = recorded \cup none /\ none \subseteq delivered'
    BY <1>2, <2>1
  <2>3. \A t \in none : t[2] \in Nat /\ t[2] <= Len(source) /\ DealtBefore(t[2])
    BY <2>1
  <2>4. QED
    BY <1>4, <2>2, <2>3, RecordedStays
<1>6. ASSUME NEW t \in Scanner PROVE JobInOrder(scanner[t])'
  <2>1. PICK x \in ScannerState : x = scanner[t] /\ x = scanner'[t]
    BY <1>2 DEF CopyTyped, CopyTypeOK
  <2>2. JobFits(x) /\ JobInOrder(x)
    BY <2>1 DEF CopyTyped, CopyInv
  <2>3. JobInOrder(x)'
    BY <1>4, <2>2, OthersInOrder
  <2>4. QED
    BY <2>1, <2>3
<1>7. QED
  BY <1>5, <1>6 DEF CopyInv

\* No commit is passed over.  Whatever jobs overlap or die, and whoever closes or regenerates
\* pull requests: when a commit is recorded for a file, every earlier commit has been copied
\* for every file it affects, or reported, unless the file was missing then or another job
\* had recorded a file of the same pull request.  So the search may stop at a recorded commit.
THEOREM NoCommitIsPassedOver == CopySpec => []NothingIsPassedOver
<1>1. CopyInit => CopyInv
  <2>1. SUFFICES ASSUME CopyInit PROVE CopyInv
    OBVIOUS
  <2>2. recorded = {} /\ \A s \in Scanner : scanner[s] = ScanIdle
    BY <2>1 DEF CopyInit
  <2>3. ScanIdle.stack = <<>> /\ ScanIdle.pc = "idle"
    BY DEF ScanIdle
  <2>4. RecordedInOrder
    BY <2>2 DEF RecordedInOrder
  <2>5. JobInOrder(ScanIdle)
    BY <2>3 DEF JobInOrder, StackInOrder, WorkInHand
  <2>6. QED
    BY <2>2, <2>4, <2>5 DEF CopyInv
<1>2. CopyTyped /\ CopyInv /\ [CopyNext]_copyVars => (CopyTyped /\ CopyInv)'
  <2>1. SUFFICES ASSUME CopyTyped, CopyInv, [CopyNext]_copyVars PROVE CopyTyped' /\ CopyInv'
    OBVIOUS
  <2>2. CopyTyped'
    BY <2>1, CopyStepTyped
  <2>3. CASE \E s \in Scanner : ScannerStep(s) \/ ScannerFails(s)
    BY <2>1, <2>2, <2>3, ScannerStepInOrder
  <2>4. CASE ~ \E s \in Scanner : ScannerStep(s) \/ ScannerFails(s)
    BY <2>1, <2>2, <2>4, OutsideInOrder DEF CopyNext, CopyNextWith
  <2>5. QED
    BY <2>2, <2>3, <2>4
<1>3. CopyTyped /\ CopyInv => NothingIsPassedOver
  <2>1. SUFFICES ASSUME CopyInv, NEW y \in Yaml, NEW c \in Source, NEW d \in Source,
                        c < d, Affects(y, c), <<y, d>> \in recorded
                 PROVE  <<y, c>> \in delivered \cup skipped \cup raced
    BY DEF NothingIsPassedOver
  <2>2. DealtBefore(<<y, d>>[2])
    BY <2>1, Zenon DEF CopyInv, RecordedInOrder
  <2>3. DealtBefore(d)
    BY <2>2
  <2>4. QED
    BY <2>1, <2>3 DEF DealtBefore, Dealt
<1>4. QED
  BY <1>1, <1>2, <1>3, CopyStartsTyped, PTL DEF CopySpec

----------------------------------------------------------------------------
(* Both together. *)

\* All jobs of owl-bot keep their types beside each other.
THEOREM OwlBotTypeCorrect == OwlBotSpec => []OwlBotTypeOK
<1>1. LockUpdateTypeOK /\ CopyTypeOK => OwlBotTypeOK
  BY DEF OwlBotTypeOK
<1>2. QED
  BY <1>1, LockUpdateTypeCorrect, CopyTypeCorrect, PTL DEF OwlBotSpec

=============================================================================
