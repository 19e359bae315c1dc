------------------------- MODULE ReleasePleaseProofs -------------------------
(***************************************************************************)
(* release-please, for any number of branches, components, handlers,       *)
(* commits, pull requests and failing calls.                               *)
(***************************************************************************)
EXTENDS ReleasePlease, SequenceTheorems, WellFoundedInduction, TLAPS

----------------------------------------------------------------------------
(* release-please: the types.                                               *)

ReleaseConfig == [primary : Branch, own : Options, branches : Seq(BranchOptions)]
RunTasks == [kind : {"push", "labeled", "closed", "reopened"}, of : Nat, branch : Branch, released : BOOLEAN,
             merged : BOOLEAN, labels : SUBSET PullLabels, tries : Nat]
RunAts  == {"config", "unlabel", "swap", "end", "next"} \cup Locked
RunOf   == [at : RunAts, task : RunTasks, todo : Seq(BranchOptions), from : Nat, made : SUBSET Nat, fresh : BOOLEAN]
PullOf  == [of : Component, from : Nat, upTo : Nat, state : {"open", "closed", "merged"}, labels : SUBSET PullLabels]

\* A task on a pull request is on one that is there.
OnPull(t) == t.kind \in {"closed", "reopened"} => t.of \in DOMAIN pulls

AtLocked(r) == runner[r] # Lazy /\ runner[r].at \in Locked

LibraryTyped ==
  /\ commits \in [Branch -> Nat]
  /\ pulls \in Seq(PullOf)
  /\ \A i \in DOMAIN pulls : pulls[i].from < pulls[i].upTo /\ pulls[i].upTo <= commits[pulls[i].of[1]]
  /\ releases \subseteq DOMAIN pulls /\ \A i \in releases : pulls[i].state = "merged"

\* A handler in the state s: what is more than the type of its fields.
RunIsSound(s) ==
  s # Lazy =>
    /\ OnPull(s.task)
    /\ s.at \in Locked => s.todo # <<>>
    /\ s.at = "swap" => s.task.kind \in {"closed", "reopened"}

RunnersTyped == runner \in [Runner -> {Lazy} \cup RunOf] /\ \A r \in Runner : RunIsSound(runner[r])
TasksTyped   == runs \subseteq RunTasks /\ \A t \in runs : OnPull(t)

ReleaseTyped ==
  /\ releaseConfig \in ReleaseConfig
  /\ LibraryTyped /\ RunnersTyped /\ TasksTyped
  /\ runActs \in Nat /\ expired \in BOOLEAN /\ hasty \in BOOLEAN

----------------------------------------------------------------------------
(* release-please: releases follow one upon the other.                      *)

Released(of) == {j \in releases : pulls[j].of = of}
IsLast(i) == \A j \in DOMAIN pulls : pulls[j].of = pulls[i].of => j <= i

\* A pull request not released that will be when a run comes to it, or once it is merged.
InPlay(i) == pulls[i].state = "open" \/ (pulls[i].state = "merged" /\ "pending" \in pulls[i].labels)

\* The latest release of a component reaches furthest.
LatestReaches(of) ==
  /\ \A j \in Released(of) : pulls[j].upTo <= LatestRelease(of)
  /\ IF Released(of) = {} THEN LatestRelease(of) = 0 ELSE \E j \in Released(of) : pulls[j].upTo = LatestRelease(of)

LockIsHeld == \A r \in Runner : AtLocked(r) => lock = {r}

\* A run that will propose knows the latest release.
KnowsLatest(r) ==
  RunAt(r, "release") \/ RunAt(r, "propose") \/ ((RunAt(r, "label") \/ RunAt(r, "tag")) /\ runner[r].made = {}) =>
    runner[r].from = LatestRelease(ComponentOf(Current(r)))

\* No label "pending" is on its way to a pull request that is merged.
NoLateLabel ==
  /\ \A t \in runs : t.kind = "reopened" => pulls[t.of].state # "merged"
  /\ \A r \in Runner : runner[r] # Lazy /\ runner[r].task.kind = "reopened" => pulls[runner[r].task.of].state # "merged"

\* Only the last pull request of a component is in play, and it is on the latest release.
OnlyLastInPlay ==
  \A i \in DOMAIN pulls \ releases :
    /\ InPlay(i) => IsLast(i)
    /\ IsLast(i) /\ (InPlay(i) \/ pulls[i].state = "closed") => pulls[i].from = LatestRelease(pulls[i].of)

ReleasesChain ==
  \A i \in releases :
    LET others == {j \in releases \ {i} : pulls[j].of = pulls[i].of}
    IN /\ \A j \in others : pulls[j].upTo <= pulls[i].from \/ pulls[i].upTo <= pulls[j].from
       /\ pulls[i].from = 0 \/ \E j \in others : pulls[j].upTo = pulls[i].from

Orderly ==
  /\ LockIsHeld /\ \A r \in Runner : KnowsLatest(r)
  /\ NoLateLabel
  /\ OnlyLastInPlay
  /\ ReleasesChain

ReleaseInv == (~expired /\ ~hasty) => Orderly

----------------------------------------------------------------------------
(* Lemmas                                                                   *)

\* A handler with a task is not without one.
LEMMA NotLazy ==
  ASSUME NEW s \in RunOf
  PROVE  s # Lazy
BY DEF RunOf, RunAts, Locked, Lazy

\* What is known of a handler with a task.
LEMMA RunTyped ==
  ASSUME ReleaseTyped, NEW r \in Runner, runner[r] # Lazy
  PROVE  /\ runner[r] \in RunOf /\ runner[r].task \in RunTasks /\ OnPull(runner[r].task)
         /\ runner[r].at \in RunAts /\ runner[r].todo \in Seq(BranchOptions)
         /\ runner[r].from \in Nat /\ runner[r].made \in SUBSET Nat
         /\ runner[r].task.branch \in Branch
<1>1. runner[r] \in RunOf
  BY DEF ReleaseTyped, RunnersTyped
<1>2. QED
  BY <1>1 DEF RunOf, RunTasks, ReleaseTyped, RunnersTyped, RunIsSound

\* The configuration a handler is at.
LEMMA CurrentTyped ==
  ASSUME ReleaseTyped, NEW r \in Runner, runner[r] # Lazy, runner[r].todo # <<>>
  PROVE  /\ Current(r) \in BranchOptions /\ ComponentOf(Current(r)) \in Component
         /\ ComponentOf(Current(r))[1] \in Branch /\ Tail(runner[r].todo) \in Seq(BranchOptions)
<1>1. runner[r].todo \in Seq(BranchOptions)
  BY RunTyped
<1>2. Current(r) \in BranchOptions /\ Tail(runner[r].todo) \in Seq(BranchOptions)
  BY <1>1, HeadTailProperties DEF Current
<1>3. Current(r).branch \in Branch /\ Current(r).options.path \in Path
  BY <1>2 DEF BranchOptions, Options
<1>4. QED
  BY <1>2, <1>3 DEF ComponentOf, Component

\* The pull requests and their fields.
LEMMA PullTyped ==
  ASSUME LibraryTyped, NEW i \in DOMAIN pulls
  PROVE  /\ pulls[i] \in PullOf /\ pulls[i].of \in Component /\ pulls[i].of[1] \in Branch
         /\ pulls[i].from \in Nat /\ pulls[i].upTo \in Nat /\ pulls[i].from < pulls[i].upTo
         /\ pulls[i].upTo <= commits[pulls[i].of[1]] /\ commits[pulls[i].of[1]] \in Nat
         /\ pulls[i].state \in {"open", "closed", "merged"} /\ pulls[i].labels \in SUBSET PullLabels /\ i \in Nat
<1>1. pulls[i] \in PullOf /\ i \in Nat
  BY DEF LibraryTyped
<1>2. QED
  BY <1>1 DEF PullOf, Component, LibraryTyped

\* The library's well-founded order of the numbers.
Below == {ss \in Nat \X Nat : ss[1] < ss[2]}

\* The greatest of some numbers that none exceeds: the least of those none exceeds.
LEMMA GreatestExists ==
  ASSUME NEW M \in SUBSET Nat, M # {}, NEW bound \in Nat, \A n \in M : n <= bound
  PROVE  \E m \in M : \A n \in M : n <= m
<1> DEFINE Above == {k \in Nat : \A n \in M : n <= k}
<1>1. bound \in Above /\ Above \subseteq Nat
  OBVIOUS
<1>2. \E k \in Above : \A l \in Above : ~(l < k)
  <2>1. IsWellFoundedOn(Below, Nat)
    BY NatLessThanWellFounded, Zenon DEF OpToRel, Below
  <2>2. \E k \in Above : \A l \in Above : <<l, k>> \notin Below
    <3> HIDE DEF Above
    <3>1. QED
      BY <1>1, <2>1, WFMin
  <2>3. ASSUME NEW k \in Nat, NEW l \in Nat, l < k PROVE <<l, k>> \in Below
    <3>1. <<l, k>> \in Nat \X Nat /\ <<l, k>>[1] = l /\ <<l, k>>[2] = k
      OBVIOUS
    <3>2. QED
      BY <2>3, <3>1, Zenon DEF Below
  <2>4. QED
    BY <1>1, <2>2, <2>3
<1>3. PICK k \in Above : \A l \in Above : ~(l < k)
  BY <1>2
<1>4. k \in M
  <2>1. SUFFICES ASSUME k \notin M PROVE FALSE
    OBVIOUS
  <2>2. PICK m \in M : TRUE
    OBVIOUS
  <2>3. \A n \in M : n < k
    BY <2>1
  <2>4. k - 1 \in Nat /\ \A n \in M : n <= k - 1
    BY <2>2, <2>3
  <2>5. k - 1 \in Above /\ k - 1 < k
    BY <2>4
  <2>6. QED
    BY <1>3, <2>5
<1>5. QED
  BY <1>4

\* The latest release of a component is the one that reaches furthest.
LEMMA LatestReachesFurthest ==
  ASSUME LibraryTyped, NEW of
  PROVE  LatestReaches(of) /\ LatestRelease(of) \in Nat
<1> DEFINE M == {pulls[i].upTo : i \in {j \in releases : pulls[j].of = of}}
<1>1. \A j \in Released(of) : j \in DOMAIN pulls /\ pulls[j].upTo \in Nat /\ pulls[j].of = of
  BY PullTyped DEF LibraryTyped, Released
<1>2. CASE Released(of) = {}
  BY <1>2 DEF LatestRelease, LatestReaches, Released
<1>3. CASE Released(of) # {}
  <2>1. PICK j \in Released(of) : TRUE
    BY <1>3
  <2>2. M \in SUBSET Nat /\ M # {}
    BY <1>1, <2>1 DEF Released
  <2>3. commits[of[1]] \in Nat /\ \A n \in M : n <= commits[of[1]]
    <3>1. \A i \in Released(of) : pulls[i].upTo <= commits[of[1]] /\ commits[of[1]] \in Nat
      BY <1>1, PullTyped
    <3>2. QED
      BY <2>1, <3>1 DEF Released
  <2>4. \E m \in M : \A n \in M : n <= m
    <3> HIDE DEF M
    <3>1. QED
      BY <2>2, <2>3, GreatestExists
  <2>5. LatestRelease(of) = CHOOSE m \in M : \A n \in M : n <= m
    BY <2>2 DEF LatestRelease
  <2>6. LatestRelease(of) \in M /\ \A n \in M : n <= LatestRelease(of)
    <3> HIDE DEF M
    <3>1. QED
      BY <2>4, <2>5
  <2>7. QED
    BY <1>3, <2>2, <2>6 DEF LatestReaches, Released
<1>4. QED
  BY <1>2, <1>3

\* ... so it is what reaches furthest among them.
LEMMA LatestIs ==
  ASSUME LibraryTyped, NEW of, NEW m \in Nat, \A j \in Released(of) : pulls[j].upTo <= m,
         \E j \in Released(of) : pulls[j].upTo = m
  PROVE  LatestRelease(of) = m
<1>1. \A j \in Released(of) : pulls[j].upTo \in Nat
  BY PullTyped DEF LibraryTyped, Released
<1>2. QED
  BY <1>1, LatestReachesFurthest DEF LatestReaches

----------------------------------------------------------------------------
(* What a step leaves alone                                                 *)

\* Of the pull requests only labels change.
OnlyLabels ==
  /\ UNCHANGED releases /\ DOMAIN pulls' = DOMAIN pulls
  /\ \A i \in DOMAIN pulls : /\ pulls'[i].of = pulls[i].of /\ pulls'[i].from = pulls[i].from
                             /\ pulls'[i].upTo = pulls[i].upTo /\ pulls'[i].state = pulls[i].state

\* The latest release of a component depends on how far its releases reach.
LEMMA LatestDepends ==
  ASSUME NEW of, Released(of)' = Released(of), \A j \in Released(of) : pulls'[j].upTo = pulls[j].upTo
  PROVE  LatestRelease(of)' = LatestRelease(of)
<1> DEFINE Furthest(M) == IF M = {} THEN 0 ELSE CHOOSE m \in M : \A n \in M : n <= m
<1>1. {pulls'[i].upTo : i \in {j \in releases' : pulls'[j].of = of}} = {pulls[i].upTo : i \in {j \in releases : pulls[j].of = of}}
  BY DEF Released
<1>2. LatestRelease(of) = Furthest({pulls[i].upTo : i \in {j \in releases : pulls[j].of = of}})
  BY DEF LatestRelease
<1>3. LatestRelease(of)' = Furthest({pulls'[i].upTo : i \in {j \in releases' : pulls'[j].of = of}})
  BY DEF LatestRelease
<1> HIDE DEF Furthest
<1>4. QED
  BY <1>1, <1>2, <1>3

\* As long as the released pull requests stay what they are the latest release does too.
LEMMA ReleasedStay ==
  ASSUME UNCHANGED releases,
         \A i \in releases : /\ pulls'[i].of = pulls[i].of /\ pulls'[i].from = pulls[i].from
                             /\ pulls'[i].upTo = pulls[i].upTo
  PROVE  /\ \A of : LatestRelease(of)' = LatestRelease(of)
         /\ ReleasesChain => ReleasesChain'
<1>1. ASSUME NEW of PROVE LatestRelease(of)' = LatestRelease(of)
  BY LatestDepends DEF Released
<1>2. ASSUME ReleasesChain PROVE ReleasesChain'
  BY <1>2 DEF ReleasesChain
<1>3. QED
  BY <1>1, <1>2

\* A step of a handler that changes only labels, and gives none to a merged pull request.
LEMMA StaysOrderly ==
  ASSUME ReleaseTyped, Orderly, NEW r \in Runner, OnlyLabels,
         \A i \in DOMAIN pulls \ releases :
           pulls[i].state = "merged" /\ "pending" \in pulls'[i].labels => "pending" \in pulls[i].labels,
         \A q \in Runner \ {r} : runner'[q] = runner[q],
         lock' \in {lock, lock \ {r}} \/ lock = {},
         AtLocked(r)' => lock' = {r},
         RunAt(r, "release")' \/ RunAt(r, "propose")' \/ ((RunAt(r, "label")' \/ RunAt(r, "tag")') /\ runner'[r].made = {}) =>
           runner'[r].from = LatestRelease(ComponentOf(Head(runner'[r].todo))),
         \A t \in runs' : t \in runs \/ (runner[r] # Lazy /\ t.kind = runner[r].task.kind /\ t.of = runner[r].task.of),
         runner'[r] # Lazy => runner'[r].task \in runs \/ (runner[r] # Lazy /\ runner'[r].task = runner[r].task)
  PROVE  Orderly'
<1>1. /\ releases \subseteq DOMAIN pulls
      /\ \A of : LatestRelease(of)' = LatestRelease(of)
      /\ ReleasesChain'
  BY ReleasedStay DEF ReleaseTyped, LibraryTyped, OnlyLabels, Orderly
<1>2. LockIsHeld'
  <2>1. SUFFICES ASSUME NEW q \in Runner, AtLocked(q)'
                 PROVE  lock' = {q}
    BY DEF LockIsHeld
  <2>2. CASE q # r
    <3>1. AtLocked(q)
      BY <2>1, <2>2 DEF AtLocked
    <3>2. lock = {q}
      BY <3>1 DEF Orderly, LockIsHeld
    <3>3. QED
      BY <2>2, <3>2
  <2>3. QED
    BY <2>1, <2>2
<1>3. ASSUME NEW q \in Runner PROVE KnowsLatest(q)'
  <2>1. CASE q # r
    <3>1. runner'[q] = runner[q] /\ KnowsLatest(q)
      BY <2>1 DEF Orderly
    <3>2. QED
      BY <1>1, <3>1 DEF KnowsLatest, RunAt, Current
  <2>2. CASE q = r
    BY <1>1, <2>2 DEF KnowsLatest, RunAt, Current
  <2>3. QED
    BY <2>1, <2>2
<1>4. NoLateLabel'
  <2>1. \A t \in runs : OnPull(t) /\ (t.kind = "reopened" => pulls[t.of].state # "merged")
    BY DEF ReleaseTyped, TasksTyped, Orderly, NoLateLabel
  <2>2. \A q \in Runner : runner[q] # Lazy => OnPull(runner[q].task) /\ (runner[q].task.kind = "reopened" => pulls[runner[q].task.of].state # "merged")
    BY DEF ReleaseTyped, RunnersTyped, RunIsSound, Orderly, NoLateLabel
  <2>3. ASSUME NEW t \in runs', t.kind = "reopened" PROVE pulls'[t.of].state # "merged"
    BY <2>1, <2>2, <2>3 DEF OnPull, OnlyLabels
  <2>4. ASSUME NEW q \in Runner, runner'[q] # Lazy, runner'[q].task.kind = "reopened"
        PROVE  pulls'[runner'[q].task.of].state # "merged"
    <3>1. CASE q # r
      BY <2>2, <2>4, <3>1 DEF OnPull, OnlyLabels
    <3>2. CASE q = r
      BY <2>1, <2>2, <2>4, <3>2 DEF OnPull, OnlyLabels
    <3>3. QED
      BY <3>1, <3>2
  <2>5. QED
    BY <2>3, <2>4 DEF NoLateLabel
<1>5. OnlyLastInPlay'
  <2>1. ASSUME NEW i \in DOMAIN pulls \ releases
        PROVE  (InPlay(i)' => InPlay(i)) /\ (IsLast(i)' <=> IsLast(i))
    BY DEF InPlay, IsLast, OnlyLabels
  <2>2. QED
    BY <1>1, <2>1 DEF OnlyLastInPlay, OnlyLabels, Orderly
<1>6. QED
  BY <1>1, <1>2, <1>3, <1>4, <1>5 DEF Orderly

----------------------------------------------------------------------------
(* The steps of a handler                                                   *)

\* A handler that goes to a sound state.
LEMMA RunSetKeeps ==
  ASSUME ReleaseTyped, NEW r \in Runner, NEW s \in {Lazy} \cup RunOf, RunSet(r, s),
         DOMAIN pulls \subseteq DOMAIN pulls', RunIsSound(s)
  PROVE  RunnersTyped' /\ runner'[r] = s /\ \A q \in Runner \ {r} : runner'[q] = runner[q]
<1>1. runner \in [Runner -> {Lazy} \cup RunOf] /\ \A q \in Runner : RunIsSound(runner[q])
  BY DEF ReleaseTyped, RunnersTyped
<1>2. runner' \in [Runner -> {Lazy} \cup RunOf] /\ runner'[r] = s /\ \A q \in Runner \ {r} : runner'[q] = runner[q]
  BY <1>1 DEF RunSet
<1>3. ASSUME NEW q \in Runner
      PROVE  RunIsSound(runner[q])'
  <2>1. PICK u \in {Lazy} \cup RunOf : u = runner'[q] /\ RunIsSound(u)
    BY <1>1, <1>2
  <2>2. RunIsSound(u)'
    BY <2>1 DEF RunIsSound, OnPull
  <2>3. QED
    BY <2>1, <2>2 DEF RunIsSound, OnPull
<1>4. RunnersTyped'
  BY <1>2, <1>3 DEF RunnersTyped, RunIsSound
<1>5. QED
  BY <1>2, <1>4

\* The place of a handler changes, and nothing else of it.
LEMMA AtTyped ==
  ASSUME NEW w \in RunOf, NEW a \in RunAts
  PROVE  LET s == [w EXCEPT !.at = a]
         IN /\ s \in RunOf /\ s # Lazy /\ s.at = a /\ s.task = w.task /\ s.todo = w.todo
            /\ s.from = w.from /\ s.made = w.made /\ s.fresh = w.fresh
<1>1. [w EXCEPT !.at = a] \in RunOf
  BY DEF RunOf
<1>2. QED
  BY <1>1, NotLazy DEF RunOf

\* A handler goes on at another place.
LEMMA RunToKeeps ==
  ASSUME ReleaseTyped, NEW r \in Runner, runner[r] # Lazy, NEW a \in RunAts, a # "swap",
         a \in Locked => runner[r].todo # <<>>, RunTo(r, a), DOMAIN pulls \subseteq DOMAIN pulls'
  PROVE  /\ RunnersTyped'
         /\ runner'[r] # Lazy /\ runner'[r].at = a /\ runner'[r].task = runner[r].task /\ runner'[r].todo = runner[r].todo
         /\ runner'[r].from = runner[r].from /\ runner'[r].made = runner[r].made
         /\ \A q \in Runner \ {r} : runner'[q] = runner[q]
<1>1. PICK w \in RunOf : w = runner[r]
  BY RunTyped
<1>2. PICK s \in RunOf : s = [w EXCEPT !.at = a]
  BY AtTyped
<1>3. s # Lazy /\ s.at = a /\ s.task = w.task /\ s.todo = w.todo /\ s.from = w.from /\ s.made = w.made
  BY <1>2, AtTyped
<1>4. RunIsSound(s)
  BY <1>1, <1>3, RunTyped DEF RunIsSound
<1>5. RunSet(r, s)
  BY <1>1, <1>2 DEF RunTo
<1>6. QED
  BY <1>1, <1>3, <1>4, <1>5, RunSetKeeps

\* A task that is delivered again, or given up.
LEMMA RetriedKeeps ==
  ASSUME ReleaseTyped, NEW r \in Runner, runner[r] # Lazy, Retried(r), DOMAIN pulls' = DOMAIN pulls
  PROVE  /\ RunnersTyped' /\ TasksTyped' /\ runner'[r] = Lazy /\ \A q \in Runner \ {r} : runner'[q] = runner[q]
         /\ \A t \in runs' : t \in runs \/ (t.kind = runner[r].task.kind /\ t.of = runner[r].task.of)
<1>1. RunIsSound(Lazy) /\ RunSet(r, Lazy)
  BY DEF RunIsSound, Retried
<1>2. RunnersTyped' /\ runner'[r] = Lazy /\ \A q \in Runner \ {r} : runner'[q] = runner[q]
  BY <1>1, RunSetKeeps
<1>3. PICK t \in RunTasks : t = runner[r].task /\ OnPull(t)
  BY RunTyped
<1>4. PICK n \in Nat : n = t.tries
  BY <1>3 DEF RunTasks
<1>5. [t EXCEPT !.tries = n + 1] \in RunTasks
  BY <1>3 DEF RunTasks
<1>6. [t EXCEPT !.tries = n + 1].kind = t.kind /\ [t EXCEPT !.tries = n + 1].of = t.of
  BY <1>3 DEF RunTasks
<1>7. runs' = runs \/ runs' = runs \cup {[t EXCEPT !.tries = n + 1]}
  <2>1. [t EXCEPT !.tries = n + 1] = [t EXCEPT !.tries = @ + 1]
    BY <1>4
  <2>2. QED
    BY <1>3, <2>1 DEF Retried
<1>8. runs \subseteq RunTasks /\ \A u \in runs : OnPull(u)
  BY DEF ReleaseTyped, TasksTyped
<1>9. OnPull([t EXCEPT !.tries = n + 1])
  BY <1>3, <1>6 DEF OnPull
<1>10. TasksTyped'
  BY <1>5, <1>7, <1>8, <1>9 DEF TasksTyped, OnPull
<1>11. QED
  BY <1>2, <1>3, <1>6, <1>7, <1>10

\* What a step of a handler shows, for most of the actions.
Kept == ReleaseTyped' /\ (Orderly => Orderly')

\* What the library writes is the same.
LEMMA LibraryKept ==
  ASSUME LibraryTyped, UNCHANGED libraryVars
  PROVE  LibraryTyped' /\ OnlyLabels
BY DEF LibraryTyped, OnlyLabels, libraryVars

\* A handler takes a task.
LEMMA TakeRunKeeps ==
  ASSUME ReleaseTyped, NEW r \in Runner, NEW t \in runs, TakeRun(r, t)
  PROVE  Kept
<1>1. t \in RunTasks /\ OnPull(t)
  BY DEF ReleaseTyped, TasksTyped
<1>2. PICK a \in {"config", "unlabel", "swap", "end"} :
        /\ RunSet(r, [at |-> a, task |-> t, todo |-> <<>>, from |-> 0, made |-> {}, fresh |-> FALSE])
        /\ a = "swap" => t.kind \in {"closed", "reopened"}
  <2>1. t.kind \in {"push", "labeled", "closed", "reopened"}
    BY <1>1 DEF RunTasks
  <2>2. CASE t.kind = "push"
    BY <2>2 DEF TakeRun
  <2>3. CASE t.kind = "labeled"
    BY <2>3 DEF TakeRun
  <2>4. CASE t.kind = "closed"
    BY <2>4 DEF TakeRun
  <2>5. CASE t.kind = "reopened"
    BY <2>5 DEF TakeRun
  <2>6. QED
    BY <2>1, <2>2, <2>3, <2>4, <2>5
<1>3. PICK f \in BOOLEAN : f = FALSE
  OBVIOUS
<1>4. PICK s : s = [at |-> a, task |-> t, todo |-> <<>>, from |-> 0, made |-> {}, fresh |-> f]
  OBVIOUS
<1>5. s \in RunOf
  <2>1. a \in RunAts /\ <<>> \in Seq(BranchOptions) /\ {} \in SUBSET Nat /\ 0 \in Nat
    BY DEF RunAts
  <2>2. QED
    BY <1>1, <1>4, <2>1 DEF RunOf
<1>6. s # Lazy /\ s.at = a /\ s.task = t
  BY <1>4, <1>5, NotLazy
<1>7. RunIsSound(s)
  BY <1>1, <1>2, <1>6 DEF RunIsSound, Locked
<1>8. LibraryTyped' /\ OnlyLabels /\ UNCHANGED <<releaseConfig, pulls, lock, runActs, expired, hasty>> /\ runs' = runs \ {t}
  BY LibraryKept DEF ReleaseTyped, TakeRun, HistoryKept, libraryVars
<1>9. RunnersTyped' /\ runner'[r] = s /\ \A q \in Runner \ {r} : runner'[q] = runner[q]
  BY <1>2, <1>3, <1>4, <1>5, <1>7, <1>8, RunSetKeeps
<1>10. ReleaseTyped'
  BY <1>8, <1>9 DEF ReleaseTyped, TasksTyped, OnPull
<1>11. ASSUME Orderly PROVE Orderly'
  <2>1. ~AtLocked(r)' /\ ~RunAt(r, "release")' /\ ~RunAt(r, "propose")' /\ ~RunAt(r, "label")' /\ ~RunAt(r, "tag")'
    BY <1>6, <1>9 DEF AtLocked, Locked, RunAt
  <2>2. \A i \in DOMAIN pulls : pulls'[i] = pulls[i]
    BY <1>8
  <2>3. QED
    BY <1>6, <1>8, <1>9, <1>11, <2>1, <2>2, StaysOrderly
<1>12. QED
  BY <1>10, <1>11 DEF Kept

\* A step to a place where no lock is needed, or from one where it is held to another, with
\* nothing but labels changed.
LEMMA MoveKeeps ==
  ASSUME ReleaseTyped, NEW r \in Runner, runner[r] # Lazy, NEW s \in {Lazy} \cup RunOf, RunSet(r, s), RunIsSound(s),
         s # Lazy => s.task = runner[r].task,
         LibraryTyped', OnlyLabels, UNCHANGED <<releaseConfig, runs, runActs, expired, hasty>>,
         Orderly => \A i \in DOMAIN pulls \ releases :
                      pulls[i].state = "merged" /\ "pending" \in pulls'[i].labels => "pending" \in pulls[i].labels,
         lock' \in {lock, lock \ {r}} \/ lock = {},
         s # Lazy /\ s.at \in Locked => lock' = {r} \/ (AtLocked(r) /\ lock' = lock),
         s # Lazy /\ (s.at \in {"release", "propose"} \/ (s.at \in {"label", "tag"} /\ s.made = {})) /\ KnowsLatest(r) =>
           s.from = LatestRelease(ComponentOf(Head(s.todo)))
  PROVE  Kept
<1>1. RunnersTyped' /\ runner'[r] = s /\ \A q \in Runner \ {r} : runner'[q] = runner[q]
  BY RunSetKeeps DEF OnlyLabels
<1>2. ReleaseTyped'
  BY <1>1 DEF ReleaseTyped, TasksTyped, OnPull, OnlyLabels
<1>3. ASSUME Orderly PROVE Orderly'
  <2>1. KnowsLatest(r) /\ (AtLocked(r) => lock = {r})
    BY <1>3 DEF Orderly, LockIsHeld
  <2>2. AtLocked(r)' => lock' = {r}
    BY <1>1, <2>1 DEF AtLocked
  <2>3. RunAt(r, "release")' \/ RunAt(r, "propose")' \/ ((RunAt(r, "label")' \/ RunAt(r, "tag")') /\ runner'[r].made = {}) =>
          runner'[r].from = LatestRelease(ComponentOf(Head(runner'[r].todo)))
    BY <1>1, <2>1 DEF RunAt
  <2>4. QED
    BY <1>1, <1>3, <2>2, <2>3, StaysOrderly
<1>4. QED
  BY <1>2, <1>3 DEF Kept

\* The same for a step that changes the place of the handler and nothing else of it.
LEMMA RunToMoves ==
  ASSUME ReleaseTyped, NEW r \in Runner, runner[r] # Lazy, NEW a \in RunAts, a # "swap", RunTo(r, a),
         a \in Locked => runner[r].todo # <<>>,
         LibraryTyped', OnlyLabels, UNCHANGED <<releaseConfig, runs, runActs, expired, hasty>>,
         Orderly => \A i \in DOMAIN pulls \ releases :
                      pulls[i].state = "merged" /\ "pending" \in pulls'[i].labels => "pending" \in pulls[i].labels,
         lock' \in {lock, lock \ {r}} \/ lock = {},
         a \in Locked => lock' = {r} \/ (AtLocked(r) /\ lock' = lock),
         (a \in {"release", "propose"} \/ (a \in {"label", "tag"} /\ runner[r].made = {})) /\ KnowsLatest(r) =>
           runner[r].from = LatestRelease(ComponentOf(Current(r)))
  PROVE  Kept
<1>1. PICK w \in RunOf : w = runner[r]
  BY RunTyped
<1>2. PICK s \in RunOf : s = [w EXCEPT !.at = a]
  BY AtTyped
<1>3. s # Lazy /\ s.at = a /\ s.task = w.task /\ s.todo = w.todo /\ s.from = w.from /\ s.made = w.made
  BY <1>2, AtTyped
<1>4. RunIsSound(s)
  BY <1>1, <1>3, RunTyped DEF RunIsSound
<1>5. RunSet(r, s)
  BY <1>1, <1>2 DEF RunTo
<1>6. (a \in {"release", "propose"} \/ (a \in {"label", "tag"} /\ s.made = {})) /\ KnowsLatest(r) =>
        s.from = LatestRelease(ComponentOf(Head(s.todo)))
  BY <1>1, <1>3 DEF Current
<1>7. QED
  BY <1>1, <1>3, <1>4, <1>5, <1>6, MoveKeeps

\* The configurations found for a branch are of branches.
LEMMA FindTyped ==
  ASSUME ReleaseTyped, NEW b \in Branch
  PROVE  FindBranchConfiguration(b, releaseConfig) \in Seq(BranchOptions)
<1>1. releaseConfig.own \in Options /\ releaseConfig.branches \in Seq(BranchOptions)
  BY DEF ReleaseTyped, ReleaseConfig
<1>2. [branch |-> b, options |-> releaseConfig.own] \in BranchOptions
  BY <1>1 DEF BranchOptions
<1>3. PICK o \in BranchOptions : o = [branch |-> b, options |-> releaseConfig.own]
  BY <1>2
<1>4. <<o>> \in Seq(BranchOptions) /\ <<>> \in Seq(BranchOptions)
  OBVIOUS
<1>5. PICK s \in Seq(BranchOptions) : FindBranchConfiguration(b, releaseConfig) = s \o releaseConfig.branches
  BY <1>3, <1>4 DEF FindBranchConfiguration
<1>6. QED
  BY <1>1, <1>5

\* The steps of a handler that change nothing in the repository but issues, tags and labels.
LEMMA RestingStepsKeep ==
  ASSUME ReleaseTyped, NEW r \in Runner,
         RemoveForceLabel(r) \/ ReadReleaseConfig(r) \/ EndRun(r) \/ SkipConfiguration(r)
  PROVE  Kept
<1>1. runner[r] # Lazy
  BY DEF RemoveForceLabel, ReadReleaseConfig, EndRun, SkipConfiguration, RunAt
<1>2. PICK w \in RunOf : w = runner[r]
  BY <1>1, RunTyped
<1>3. /\ LibraryTyped' /\ OnlyLabels /\ UNCHANGED <<releaseConfig, runs, runActs, expired, hasty, lock, pulls, releases>>
  BY LibraryKept DEF ReleaseTyped, RemoveForceLabel, ReadReleaseConfig, EndRun, SkipConfiguration, Own, HistoryKept, libraryVars
<1>4. CASE RemoveForceLabel(r)
  <2>1. RunTo(r, "config") /\ "config" \in RunAts /\ "config" \notin Locked
    BY <1>4 DEF RemoveForceLabel, RunAts, Locked
  <2>2. QED
    BY <1>1, <1>3, <2>1, RunToMoves
<1>5. CASE ReadReleaseConfig(r)
  <2>1. PICK todo \in Seq(BranchOptions) : todo = FindBranchConfiguration(runner[r].task.branch, releaseConfig)
    BY <1>1, RunTyped, FindTyped
  <2>2. PICK s : s = [w EXCEPT !.at = "next", !.todo = todo]
    OBVIOUS
  <2>3. s \in RunOf
    <3>1. "next" \in RunAts
      BY DEF RunAts
    <3>2. QED
      BY <1>2, <2>2, <3>1 DEF RunOf
  <2>4. s.at = "next" /\ s.task = w.task
    BY <1>2, <2>2 DEF RunOf
  <2>5. RunSet(r, s)
    BY <1>2, <1>5, <2>1, <2>2 DEF ReadReleaseConfig
  <2>6. RunIsSound(s)
    BY <1>1, <1>2, <2>4, RunTyped DEF RunIsSound, Locked
  <2>7. s.at \notin Locked /\ s.at \notin {"release", "propose", "label", "tag"}
    BY <2>4 DEF Locked
  <2>8. QED
    BY <1>1, <1>2, <1>3, <2>3, <2>4, <2>5, <2>6, <2>7, MoveKeeps
<1>6. CASE EndRun(r)
  <2>1. RunSet(r, Lazy) /\ RunIsSound(Lazy)
    BY <1>6 DEF EndRun, RunIsSound
  <2>2. QED
    BY <1>1, <1>3, <2>1, MoveKeeps
<1>7. CASE SkipConfiguration(r)
  <2>1. PICK todo \in Seq(BranchOptions) : todo = Tail(w.todo)
    BY <1>1, <1>2, <1>7, CurrentTyped DEF SkipConfiguration
  <2>2. PICK s : s = [w EXCEPT !.todo = todo]
    OBVIOUS
  <2>3. s \in RunOf /\ s.at = "next" /\ s.task = w.task
    BY <1>2, <1>7, <2>2 DEF RunOf, SkipConfiguration, RunAt
  <2>4. RunSet(r, s)
    BY <1>2, <1>7, <2>1, <2>2 DEF SkipConfiguration
  <2>5. RunIsSound(s)
    BY <1>1, <1>2, <2>3, RunTyped DEF RunIsSound, Locked
  <2>6. s.at \notin Locked /\ s.at \notin {"release", "propose", "label", "tag"}
    BY <2>3 DEF Locked
  <2>7. QED
    BY <1>1, <1>2, <1>3, <2>3, <2>4, <2>5, <2>6, MoveKeeps
<1>8. QED
  BY <1>4, <1>5, <1>6, <1>7

\* The steps under the lock that change nothing in the repository but issues and tags.
LEMMA LockedStepsKeep ==
  ASSUME ReleaseTyped, NEW r \in Runner,
         AcquireRunLock(r) \/ BuildManifest(r) \/ TagPullRequest(r) \/ ReportConfigError(r) \/ ReleaseRunLock(r)
  PROVE  Kept
<1>1. runner[r] # Lazy /\ runner[r].todo # <<>>
  <2>1. (RunAt(r, "next") /\ runner[r].todo # <<>>) \/ \E a \in Locked : RunAt(r, a)
    BY DEF AcquireRunLock, MustLock, BuildManifest, TagPullRequest, ReportConfigError, ReleaseRunLock, Locked
  <2>2. RunIsSound(runner[r])
    BY DEF ReleaseTyped, RunnersTyped
  <2>3. QED
    BY <2>1, <2>2 DEF RunIsSound, RunAt
<1>2. PICK w \in RunOf : w = runner[r]
  BY <1>1, RunTyped
<1>3. /\ OnlyLabels /\ LibraryTyped'
      /\ UNCHANGED <<releaseConfig, runs, runActs, expired, hasty, pulls, releases>>
  BY DEF AcquireRunLock, BuildManifest, TagPullRequest, ReportConfigError, ReleaseRunLock, ReleaseTyped, LibraryTyped,
         OnlyLabels, Own, HistoryKept, libraryVars
<1>4. /\ Locked \subseteq RunAts /\ "swap" \notin Locked
      /\ {"build", "release", "label", "tag", "propose", "report", "unlock"} = Locked
  BY DEF RunAts, Locked
<1>5. CASE AcquireRunLock(r)
  <2>1. RunTo(r, "build") /\ lock = {} /\ lock' = {r}
    BY <1>5 DEF AcquireRunLock
  <2>2. QED
    BY <1>1, <1>3, <1>4, <2>1, RunToMoves
<1>6. CASE BuildManifest(r)
  <2>1. AtLocked(r) /\ lock' = lock
    BY <1>4, <1>6 DEF BuildManifest, AtLocked, RunAt
  <2>2. CASE RunTo(r, "unlock")
    BY <1>1, <1>3, <1>4, <2>1, <2>2, RunToMoves
  <2>3. CASE RunTo(r, "report")
    BY <1>1, <1>3, <1>4, <2>1, <2>3, RunToMoves
  <2>4. CASE \E a \in {"release", "propose"} :
               RunSet(r, [[runner[r] EXCEPT !.from = LatestRelease(ComponentOf(Current(r))), !.fresh = TRUE] EXCEPT !.at = a])
    <3>1. PICK m : m = LatestRelease(ComponentOf(Current(r)))
      OBVIOUS
    <3>2. PICK a \in {"release", "propose"} :
            RunSet(r, [[runner[r] EXCEPT !.from = LatestRelease(ComponentOf(Current(r))), !.fresh = TRUE] EXCEPT !.at = a])
      BY <2>4
    <3>3. m \in Nat
      BY <3>1, LatestReachesFurthest DEF ReleaseTyped
    <3>4. PICK f \in BOOLEAN : f = TRUE
      OBVIOUS
    <3>5. PICK s : s = [[w EXCEPT !.from = m, !.fresh = f] EXCEPT !.at = a]
      OBVIOUS
    <3>6. s \in RunOf /\ s.at = a /\ s.task = w.task /\ s.todo = w.todo /\ s.from = m
      <4>1. a \in RunAts
        BY <1>4
      <4>2. QED
        BY <1>2, <3>3, <3>5, <4>1 DEF RunOf
    <3>7. RunSet(r, s)
      BY <1>2, <3>1, <3>2, <3>4, <3>5
    <3>8. RunIsSound(s)
      BY <1>1, <1>2, <3>6, RunTyped DEF RunIsSound
    <3>9. s.from = LatestRelease(ComponentOf(Head(s.todo)))
      BY <1>2, <3>1, <3>6 DEF Current
    <3>10. QED
      BY <1>1, <1>2, <1>3, <2>1, <3>6, <3>7, <3>8, <3>9, MoveKeeps
  <2>5. QED
    BY <1>6, <2>2, <2>3, <2>4 DEF BuildManifest
<1>7. CASE TagPullRequest(r)
  <2>1. AtLocked(r) /\ lock' = lock
    BY <1>4, <1>7 DEF TagPullRequest, AtLocked, RunAt
  <2>2. CASE runner' = runner
    <3>1. RunSet(r, w)
      BY <1>2, <2>2 DEF RunSet, ReleaseTyped, RunnersTyped
    <3>2. RunIsSound(w)
      BY <1>2 DEF ReleaseTyped, RunnersTyped
    <3>3. (w.at \in {"release", "propose"} \/ (w.at \in {"label", "tag"} /\ w.made = {})) /\ KnowsLatest(r) =>
            w.from = LatestRelease(ComponentOf(Head(w.todo)))
      BY <1>1, <1>2 DEF KnowsLatest, RunAt, Current
    <3>4. QED
      BY <1>1, <1>2, <1>3, <2>1, <3>1, <3>2, <3>3, MoveKeeps
  <2>3. CASE RunTo(r, AfterReleases(r))
    <3>1. PICK a \in Locked : /\ a = AfterReleases(r) /\ a \in {"build", "propose", "unlock"}
                              /\ a = "propose" => runner[r].made = {}
      BY <1>4 DEF AfterReleases
    <3>2. a = "propose" /\ KnowsLatest(r) => runner[r].from = LatestRelease(ComponentOf(Current(r)))
      BY <1>7, <3>1 DEF TagPullRequest, KnowsLatest
    <3>3. QED
      BY <1>1, <1>3, <1>4, <2>1, <2>3, <3>1, <3>2, RunToMoves
  <2>4. QED
    BY <1>7, <2>2, <2>3 DEF TagPullRequest
<1>8. CASE ReportConfigError(r)
  <2>1. AtLocked(r) /\ lock' = lock /\ RunTo(r, "unlock")
    BY <1>4, <1>8 DEF ReportConfigError, AtLocked, RunAt
  <2>2. QED
    BY <1>1, <1>3, <1>4, <2>1, RunToMoves
<1>9. CASE ReleaseRunLock(r)
  <2>1. PICK todo \in Seq(BranchOptions) : todo = Tail(w.todo)
    BY <1>1, <1>2, CurrentTyped
  <2>2. PICK f \in BOOLEAN : f = FALSE
    OBVIOUS
  <2>3. PICK s : s = [w EXCEPT !.at = "next", !.todo = todo, !.made = {}, !.fresh = f]
    OBVIOUS
  <2>4. s \in RunOf /\ s.at = "next" /\ s.task = w.task
    <3>1. "next" \in RunAts /\ {} \in SUBSET Nat
      BY DEF RunAts
    <3>2. QED
      BY <1>2, <2>3, <3>1 DEF RunOf
  <2>5. RunSet(r, s) /\ lock' = lock \ {r}
    BY <1>2, <1>9, <2>1, <2>2, <2>3 DEF ReleaseRunLock
  <2>6. RunIsSound(s)
    BY <1>1, <1>2, <2>4, RunTyped DEF RunIsSound, Locked
  <2>7. s.at \notin Locked /\ s.at \notin {"release", "propose", "label", "tag"}
    BY <2>4 DEF Locked
  <2>8. QED
    BY <1>1, <1>2, <1>3, <2>4, <2>5, <2>6, <2>7, MoveKeeps
<1>10. QED
  BY <1>5, <1>6, <1>7, <1>8, <1>9

\* Pull requests whose labels alone change keep their types.
LEMMA OnlyLabelsTyped ==
  ASSUME LibraryTyped, OnlyLabels, pulls' \in Seq(PullOf), UNCHANGED commits
  PROVE  LibraryTyped'
BY DEF LibraryTyped, OnlyLabels

\* The labels are set right of those of the component that are released.
LEMMA ReleasedAreLabelled ==
  ASSUME ReleaseTyped, NEW r \in Runner, LabelReleases(r)
  PROVE  /\ LibraryTyped' /\ OnlyLabels
         /\ \A i \in DOMAIN pulls :
              IF i \in Untagged(ComponentOf(Current(r))) /\ i \in releases
              THEN "pending" \notin pulls'[i].labels ELSE pulls'[i] = pulls[i]
<1>1. LibraryTyped /\ pulls \in Seq(PullOf)
  BY DEF ReleaseTyped, LibraryTyped
<1>2. \A i \in DOMAIN pulls : pulls[i] \in PullOf
  BY <1>1, PullTyped
<1>3. PICK L : L = Untagged(ComponentOf(Current(r))) \cap releases
  OBVIOUS
<1>4. pulls' = [i \in DOMAIN pulls |->
                 IF i \in L THEN [pulls[i] EXCEPT !.labels = (@ \ {"pending"}) \cup {"tagged"}] ELSE pulls[i]]
  BY <1>3 DEF LabelReleases
<1>5. DOMAIN pulls' = DOMAIN pulls
  BY <1>4
<1>6. ASSUME NEW i \in DOMAIN pulls
      PROVE  /\ pulls'[i] \in PullOf /\ pulls'[i].of = pulls[i].of /\ pulls'[i].from = pulls[i].from
             /\ pulls'[i].upTo = pulls[i].upTo /\ pulls'[i].state = pulls[i].state
             /\ IF i \in L THEN "pending" \notin pulls'[i].labels ELSE pulls'[i] = pulls[i]
  <2>1. PICK p \in PullOf : p = pulls[i]
    BY <1>2
  <2>2. CASE i \in L
    <3>1. PICK labels \in SUBSET PullLabels : labels = (p.labels \ {"pending"}) \cup {"tagged"}
      BY <2>1 DEF PullOf, PullLabels
    <3>2. PICK q : q = [p EXCEPT !.labels = labels]
      OBVIOUS
    <3>3. q \in PullOf /\ q.of = p.of /\ q.from = p.from /\ q.upTo = p.upTo /\ q.state = p.state /\ q.labels = labels
      BY <3>2 DEF PullOf
    <3>4. pulls'[i] = q
      BY <1>4, <2>1, <2>2, <3>1, <3>2
    <3>5. QED
      BY <2>1, <2>2, <3>1, <3>3, <3>4
  <2>3. CASE i \notin L
    BY <1>4, <2>1, <2>3
  <2>4. QED
    BY <2>2, <2>3
<1>7. pulls' \in Seq(PullOf)
  <2>1. DOMAIN pulls = 1 .. Len(pulls) /\ Len(pulls) \in Nat
    BY <1>1
  <2>2. pulls' \in [1 .. Len(pulls) -> PullOf]
    BY <1>4, <1>6, <2>1
  <2>3. QED
    BY <2>1, <2>2
<1>8. OnlyLabels /\ UNCHANGED commits
  BY <1>5, <1>6 DEF OnlyLabels, LabelReleases
<1>9. LibraryTyped'
  BY <1>1, <1>7, <1>8, OnlyLabelsTyped
<1>10. QED
  BY <1>3, <1>6, <1>8, <1>9

\* ... so that nothing that is in play changes.
LEMMA LabelReleasesKeeps ==
  ASSUME ReleaseTyped, NEW r \in Runner, LabelReleases(r)
  PROVE  Kept
<1>1. AtLocked(r) /\ runner[r] # Lazy /\ runner[r].todo # <<>> /\ RunAt(r, "label")
  BY DEF LabelReleases, RunAt, AtLocked, Locked, ReleaseTyped, RunnersTyped, RunIsSound
<1>2. UNCHANGED <<releaseConfig, commits, runs, runActs, expired, hasty, lock>>
  BY DEF LabelReleases, Own, HistoryKept
<1>3. LibraryTyped' /\ OnlyLabels /\ \A i \in DOMAIN pulls \ releases : pulls'[i] = pulls[i]
  BY ReleasedAreLabelled
<1>4. PICK a \in {"tag", "build", "propose", "unlock"} :
        RunTo(r, a) /\ (a \in {"release", "propose"} \/ (a \in {"label", "tag"} /\ runner[r].made = {}) => runner[r].made = {})
  BY DEF LabelReleases, AfterReleases
<1>5. a \in RunAts /\ a # "swap"
  BY DEF RunAts, Locked
<1>6. (a \in {"release", "propose"} \/ (a \in {"label", "tag"} /\ runner[r].made = {})) /\ KnowsLatest(r) =>
        runner[r].from = LatestRelease(ComponentOf(Current(r)))
  BY <1>1, <1>4 DEF KnowsLatest
<1>7. QED
  BY <1>1, <1>2, <1>3, <1>4, <1>5, <1>6, RunToMoves

\* Labels moved on one pull request.
LEMMA RelabelledTyped ==
  ASSUME ReleaseTyped, NEW r \in Runner, RunAt(r, "swap"), NEW gone \in SUBSET PullLabels, NEW put \in SUBSET {NewLabel(r)},
         pulls' = Relabelled(r, gone, put), UNCHANGED <<commits, releases>>
  PROVE  /\ LibraryTyped' /\ OnlyLabels
         /\ Orderly => \A i \in DOMAIN pulls \ releases :
                         pulls[i].state = "merged" /\ "pending" \in pulls'[i].labels => "pending" \in pulls[i].labels
<1>1. runner[r] # Lazy /\ runner[r].task.kind \in {"closed", "reopened"} /\ runner[r].task.of \in DOMAIN pulls
  BY RunTyped DEF RunAt, ReleaseTyped, RunnersTyped, RunIsSound, OnPull
<1>2. PICK n \in DOMAIN pulls : n = runner[r].task.of
  BY <1>1
<1>3. LibraryTyped /\ pulls \in Seq(PullOf)
  BY DEF ReleaseTyped, LibraryTyped
<1>4. PICK p \in PullOf : p = pulls[n]
  BY <1>3, PullTyped
<1>5. PICK labels \in SUBSET PullLabels : labels = (p.labels \ gone) \cup put
  BY <1>4 DEF PullOf, PullLabels, NewLabel
<1>6. PICK q : q = [p EXCEPT !.labels = labels]
  OBVIOUS
<1>7. q \in PullOf /\ q.of = p.of /\ q.from = p.from /\ q.upTo = p.upTo /\ q.state = p.state /\ q.labels = labels
  BY <1>6 DEF PullOf
<1>8. pulls' = [pulls EXCEPT ![n] = q]
  BY <1>2, <1>4, <1>5, <1>6 DEF Relabelled
<1>9. /\ pulls' \in Seq(PullOf) /\ DOMAIN pulls' = DOMAIN pulls /\ pulls'[n] = q
      /\ \A i \in DOMAIN pulls : i # n => pulls'[i] = pulls[i]
  BY <1>3, <1>7, <1>8, ExceptSeq
<1>10. OnlyLabels
  BY <1>4, <1>7, <1>9 DEF OnlyLabels
<1>11. LibraryTyped'
  BY <1>3, <1>9, <1>10, OnlyLabelsTyped
<1>12. ASSUME Orderly, NEW i \in DOMAIN pulls, pulls[i].state = "merged", "pending" \in pulls'[i].labels
       PROVE  "pending" \in pulls[i].labels
  <2>1. CASE i # n
    BY <1>9, <1>12, <2>1
  <2>2. CASE i = n
    <3>1. runner[r].task.kind = "closed"
      BY <1>1, <1>2, <1>12, <2>2 DEF Orderly, NoLateLabel
    <3>2. "pending" \notin put
      BY <3>1 DEF NewLabel
    <3>3. QED
      BY <1>4, <1>5, <1>7, <1>9, <1>12, <2>2, <3>2
  <2>3. QED
    BY <2>1, <2>2
<1>13. QED
  BY <1>10, <1>11, <1>12

\* The label of a closed or reopened pull request is swapped.
LEMMA SwapLabelsKeeps ==
  ASSUME ReleaseTyped, NEW r \in Runner, SwapLabels(r)
  PROVE  Kept
<1>1. RunAt(r, "swap") /\ runner[r] # Lazy /\ pulls' = Relabelled(r, {OldLabel(r)}, {NewLabel(r)}) /\ RunTo(r, "end")
      /\ UNCHANGED <<releaseConfig, commits, releases, runs, runActs, expired, hasty, lock>>
  BY DEF SwapLabels, RunAt, Own, HistoryKept
<1>2. {OldLabel(r)} \in SUBSET PullLabels
  BY DEF OldLabel, PullLabels
<1>3. /\ LibraryTyped' /\ OnlyLabels
      /\ Orderly => \A i \in DOMAIN pulls \ releases :
                      pulls[i].state = "merged" /\ "pending" \in pulls'[i].labels => "pending" \in pulls[i].labels
  BY <1>1, <1>2, RelabelledTyped
<1>4. "end" \in RunAts /\ "end" \notin Locked
  BY DEF RunAts, Locked
<1>5. QED
  BY <1>1, <1>3, <1>4, RunToMoves

\* A task that is delivered again.
LEMMA FailuresKeep ==
  ASSUME ReleaseTyped, NEW r \in Runner, LockTimesOut(r) \/ RunFails(r) \/ SwapFails(r) \/ SwapRefused(r)
  PROVE  Kept
<1>1. runner[r] # Lazy /\ Retried(r) /\ lock' \in {lock, lock \ {r}} /\ UNCHANGED <<releaseConfig, commits, releases, runActs, expired, hasty>>
  BY DEF LockTimesOut, MustLock, RunFails, SwapFails, SwapRefused, RunAt, libraryVars
<1>2. /\ LibraryTyped' /\ OnlyLabels
      /\ Orderly => \A i \in DOMAIN pulls \ releases :
                      pulls[i].state = "merged" /\ "pending" \in pulls'[i].labels => "pending" \in pulls[i].labels
  <2>1. CASE LockTimesOut(r) \/ RunFails(r)
    <3>1. UNCHANGED <<pulls, releases>> /\ UNCHANGED libraryVars
      BY <2>1 DEF LockTimesOut, RunFails, libraryVars
    <3>2. QED
      BY <3>1, LibraryKept DEF ReleaseTyped
  <2>2. CASE SwapFails(r)
    <3>1. PICK gone \in {{OldLabel(r)}, {}}, put \in {{NewLabel(r)}, {}} : pulls' = Relabelled(r, gone, put)
      BY <2>2 DEF SwapFails
    <3>2. gone \in SUBSET PullLabels /\ put \in SUBSET {NewLabel(r)} /\ RunAt(r, "swap")
      BY <2>2 DEF OldLabel, PullLabels, SwapFails
    <3>3. QED
      BY <1>1, <3>1, <3>2, RelabelledTyped
  <2>3. CASE SwapRefused(r)
    <3>1. pulls' = Relabelled(r, {}, {NewLabel(r)}) /\ RunAt(r, "swap")
      BY <2>3 DEF SwapRefused
    <3>2. QED
      BY <1>1, <3>1, RelabelledTyped
  <2>4. QED
    BY <2>1, <2>2, <2>3
<1>3. /\ RunnersTyped' /\ TasksTyped' /\ runner'[r] = Lazy /\ \A q \in Runner \ {r} : runner'[q] = runner[q]
      /\ \A t \in runs' : t \in runs \/ (t.kind = runner[r].task.kind /\ t.of = runner[r].task.of)
  BY <1>1, <1>2, RetriedKeeps DEF OnlyLabels
<1>4. ReleaseTyped'
  BY <1>1, <1>2, <1>3 DEF ReleaseTyped
<1>5. ASSUME Orderly PROVE Orderly'
  <2>1. ~AtLocked(r)' /\ ~RunAt(r, "release")' /\ ~RunAt(r, "propose")' /\ ~RunAt(r, "label")' /\ ~RunAt(r, "tag")'
    BY <1>3 DEF AtLocked, RunAt
  <2>2. QED
    BY <1>1, <1>2, <1>3, <1>5, <2>1, StaysOrderly
<1>6. QED
  BY <1>4, <1>5 DEF Kept

\* Releases are made of the pull requests that were merged: of the last one of the component
\* alone, on what was released before.
LEMMA CreateReleasesKeeps ==
  ASSUME ReleaseTyped, NEW r \in Runner, CreateReleases(r)
  PROVE  Kept
<1>1. AtLocked(r) /\ runner[r] # Lazy /\ runner[r].todo # <<>> /\ RunAt(r, "release")
  BY DEF CreateReleases, RunAt, AtLocked, Locked, ReleaseTyped, RunnersTyped, RunIsSound
<1>2. PICK w \in RunOf : w = runner[r]
  BY <1>1, RunTyped
<1>3. PICK of \in Component : of = ComponentOf(Current(r))
  BY <1>1, CurrentTyped
<1>4. PICK due : due = Untagged(of)
  OBVIOUS
<1>5. LibraryTyped /\ due \subseteq DOMAIN pulls /\ releases \subseteq DOMAIN pulls /\ DOMAIN pulls \subseteq Nat
  BY <1>4 DEF Untagged, ReleaseTyped, LibraryTyped
<1>6. PICK s : s = [w EXCEPT !.at = "label", !.made = due \ releases]
  OBVIOUS
<1>7. s \in RunOf /\ s.at = "label" /\ s.task = w.task /\ s.todo = w.todo /\ s.from = w.from /\ s.made = due \ releases
  <2>1. "label" \in RunAts /\ due \ releases \in SUBSET Nat
    BY <1>5 DEF RunAts, Locked
  <2>2. QED
    BY <1>2, <1>6, <2>1 DEF RunOf
<1>8. /\ RunSet(r, s) /\ releases' = releases \cup due
      /\ UNCHANGED <<releaseConfig, commits, pulls, runs, runActs, expired, hasty, lock>>
  BY <1>2, <1>3, <1>4, <1>6 DEF CreateReleases, Own, HistoryKept
<1>9. RunIsSound(s)
  BY <1>1, <1>2, <1>7, RunTyped DEF RunIsSound
<1>10. LibraryTyped'
  BY <1>4, <1>5, <1>8 DEF LibraryTyped, Untagged
<1>11. RunnersTyped' /\ runner'[r] = s /\ \A q \in Runner \ {r} : runner'[q] = runner[q]
  BY <1>7, <1>8, <1>9, RunSetKeeps
<1>12. ReleaseTyped'
  BY <1>8, <1>10, <1>11 DEF ReleaseTyped, TasksTyped, OnPull
<1>13. ASSUME Orderly, due \subseteq releases PROVE Orderly'
  <2>1. OnlyLabels
    BY <1>8, <1>13 DEF OnlyLabels
  <2>2. KnowsLatest(r) /\ lock = {r}
    BY <1>1, <1>13 DEF Orderly, LockIsHeld
  <2>3. runner'[r].from = LatestRelease(ComponentOf(Head(runner'[r].todo)))
    BY <1>1, <1>2, <1>7, <1>11, <2>2 DEF KnowsLatest, Current
  <2>4. QED
    BY <1>1, <1>2, <1>7, <1>8, <1>11, <1>13, <2>1, <2>2, <2>3, StaysOrderly
<1>14. ASSUME Orderly, NEW n \in due \ releases PROVE Orderly'
  <2>1. pulls[n].of = of /\ InPlay(n) /\ n \in DOMAIN pulls \ releases
    BY <1>4, <1>5, <1>14 DEF Untagged, InPlay
  <2>2. IsLast(n) /\ pulls[n].from = LatestRelease(of)
    BY <1>14, <2>1 DEF Orderly, OnlyLastInPlay
  <2>3. ASSUME NEW i \in DOMAIN pulls, pulls[i].of = of, IsLast(i) PROVE i = n
    BY <1>5, <2>1, <2>2, <2>3 DEF IsLast
  <2>4. \A i \in due \ releases : i = n
    <3>1. \A i \in due \ releases : pulls[i].of = of /\ InPlay(i) /\ i \in DOMAIN pulls \ releases
      BY <1>4, <1>5 DEF Untagged, InPlay
    <3>2. QED
      BY <1>14, <2>3, <3>1 DEF Orderly, OnlyLastInPlay
  <2>5. releases' = releases \cup {n}
    BY <1>8, <1>14, <2>4
  <2>6. LatestReaches(of)
    BY <1>5, LatestReachesFurthest
  <2>7. lock = {r} /\ LockIsHeld'
    <3>1. lock = {r}
      BY <1>1, <1>14 DEF Orderly, LockIsHeld
    <3>2. QED
      BY <1>8, <1>11, <1>14, <3>1 DEF Orderly, LockIsHeld, AtLocked
  <2>8. ASSUME NEW q \in Runner PROVE KnowsLatest(q)'
    <3>1. CASE q = r
      BY <1>7, <1>11, <1>14, <3>1 DEF KnowsLatest, RunAt
    <3>2. CASE q # r
      <4>1. ~AtLocked(q)
        BY <1>14, <2>7, <3>2 DEF Orderly, LockIsHeld
      <4>2. QED
        BY <1>11, <3>2, <4>1 DEF KnowsLatest, RunAt, AtLocked, Locked
    <3>3. QED
      BY <3>1, <3>2
  <2>9. NoLateLabel'
    <3>1. runner'[r] # Lazy /\ runner'[r].task = runner[r].task
      BY <1>2, <1>7, <1>11, NotLazy
    <3>2. QED
      BY <1>1, <1>8, <1>11, <1>14, <3>1 DEF Orderly, NoLateLabel
  <2>10. OnlyLastInPlay'
    <3>1. SUFFICES ASSUME NEW i \in DOMAIN pulls \ releases, i # n
                   PROVE  /\ InPlay(i)' => IsLast(i)'
                          /\ IsLast(i)' /\ (InPlay(i)' \/ pulls[i].state = "closed") => pulls[i].from = LatestRelease(pulls[i].of)'
      BY <1>8, <2>5 DEF OnlyLastInPlay
    <3>2. InPlay(i)' = InPlay(i) /\ IsLast(i)' = IsLast(i)
      BY <1>8 DEF InPlay, IsLast
    <3>3. IsLast(i) => pulls[i].of # of
      BY <2>3, <3>1
    <3>4. pulls[i].of # of => LatestRelease(pulls[i].of)' = LatestRelease(pulls[i].of)
      <4>1. PICK c : c = pulls[i].of
        OBVIOUS
      <4>2. ASSUME c # of PROVE LatestRelease(c)' = LatestRelease(c)
        <5>1. Released(c)' = Released(c)
          BY <1>8, <2>1, <2>5, <4>2 DEF Released
        <5>2. QED
          BY <1>8, <5>1, LatestDepends
      <4>3. QED
        BY <1>8, <4>1, <4>2
    <3>5. QED
      BY <1>14, <3>2, <3>3, <3>4 DEF Orderly, OnlyLastInPlay
  <2>11. ReleasesChain'
    <3>1. \A j \in releases : pulls[j].of = of => pulls[j].upTo <= pulls[n].from
      BY <2>2, <2>6 DEF LatestReaches, Released
    <3>2. pulls[n].from = 0 \/ \E j \in releases : pulls[j].of = of /\ pulls[j].upTo = pulls[n].from
      BY <2>2, <2>6 DEF LatestReaches, Released
    <3>3. ReleasesChain /\ n \notin releases
      BY <1>14 DEF Orderly
    <3>4. ASSUME NEW i \in releases, NEW j \in (releases \cup {n}) \ {i}, pulls[j].of = pulls[i].of
          PROVE  pulls[j].upTo <= pulls[i].from \/ pulls[i].upTo <= pulls[j].from
      <4>1. CASE j = n
        BY <2>1, <3>1, <3>4, <4>1
      <4>2. CASE j # n
        BY <3>3, <3>4, <4>2 DEF ReleasesChain
      <4>3. QED
        BY <4>1, <4>2
    <3>5. \A i \in releases : pulls[i].from = 0 \/ \E j \in (releases \cup {n}) \ {i} : pulls[j].of = pulls[i].of /\ pulls[j].upTo = pulls[i].from
      BY <3>3 DEF ReleasesChain
    <3>6. \A j \in (releases \cup {n}) \ {n} : pulls[j].of = pulls[n].of => pulls[j].upTo <= pulls[n].from
      BY <2>1, <3>1
    <3>7. pulls[n].from = 0 \/ \E j \in (releases \cup {n}) \ {n} : pulls[j].of = pulls[n].of /\ pulls[j].upTo = pulls[n].from
      BY <2>1, <3>2, <3>3
    <3>8. QED
      BY <1>8, <2>5, <3>4, <3>5, <3>6, <3>7 DEF ReleasesChain
  <2>12. QED
    BY <2>7, <2>8, <2>9, <2>10, <2>11 DEF Orderly
<1>15. QED
  BY <1>12, <1>13, <1>14 DEF Kept

\* What a proposal does to the pull requests: nothing, the open one is brought up to date, or
\* there is a new one.
Proposed(of, from, now) ==
  \/ UNCHANGED pulls /\ (Untagged(of) # {} \/ ~(now > from))
  \/ /\ now > from /\ OpenPull(of) # {} /\ DOMAIN pulls' = DOMAIN pulls /\ pulls' \in Seq(PullOf)
     /\ \A i \in DOMAIN pulls :
          /\ pulls'[i] \in PullOf /\ pulls'[i].of = pulls[i].of /\ pulls'[i].state = pulls[i].state
          /\ i \in OpenPull(of) => pulls'[i].from = from /\ pulls'[i].upTo = now /\ "pending" \in pulls'[i].labels
          /\ i \notin OpenPull(of) => pulls'[i] = pulls[i]
  \/ /\ now > from /\ OpenPull(of) = {} /\ Untagged(of) = {}
     /\ \E n \in Nat : /\ DOMAIN pulls' = DOMAIN pulls \cup {n}
                       /\ pulls'[n].of = of /\ pulls'[n].from = from /\ pulls'[n].upTo = now
                       /\ pulls'[n].state = "open" /\ "pending" \in pulls'[n].labels
                       /\ pulls'[n] \in PullOf /\ pulls' \in Seq(PullOf)
                       /\ \A i \in DOMAIN pulls : pulls'[i] = pulls[i] /\ i < n

\* ... as the library has it.
LEMMA PullsProposed ==
  ASSUME ReleaseTyped, NEW r \in Runner, CreatePullRequests(r), NEW of \in Component, of = ComponentOf(Current(r)),
         NEW from \in Nat, from = runner[r].from, NEW now \in Nat, now = commits[of[1]]
  PROVE  Proposed(of, from, now)
<1>1. LibraryTyped /\ pulls \in Seq(PullOf) /\ DOMAIN pulls = 1 .. Len(pulls) /\ Len(pulls) \in Nat
  BY DEF ReleaseTyped, LibraryTyped
<1>2. \/ UNCHANGED pulls /\ (Untagged(of) # {} \/ now <= from)
      \/ /\ ~(now <= from) /\ OpenPull(of) # {}
         /\ pulls' = [i \in DOMAIN pulls |->
                        IF i \in OpenPull(of)
                        THEN [pulls[i] EXCEPT !.from = from, !.upTo = now, !.labels = @ \cup {"pending"}] ELSE pulls[i]]
      \/ /\ ~(now <= from) /\ OpenPull(of) = {} /\ Untagged(of) = {}
         /\ pulls' = Append(pulls, Pull(of, from, now))
  BY Zenon DEF CreatePullRequests
<1>3. ~(now <= from) <=> now > from
  OBVIOUS
<1>4. ASSUME pulls' = [i \in DOMAIN pulls |->
                         IF i \in OpenPull(of)
                         THEN [pulls[i] EXCEPT !.from = from, !.upTo = now, !.labels = @ \cup {"pending"}] ELSE pulls[i]],
             NEW i \in DOMAIN pulls
      PROVE  /\ pulls'[i] \in PullOf /\ pulls'[i].of = pulls[i].of /\ pulls'[i].state = pulls[i].state
             /\ i \in OpenPull(of) => pulls'[i].from = from /\ pulls'[i].upTo = now /\ "pending" \in pulls'[i].labels
             /\ i \notin OpenPull(of) => pulls'[i] = pulls[i]
  <2>1. PICK p \in PullOf : p = pulls[i]
    BY <1>1, PullTyped
  <2>2. CASE i \in OpenPull(of)
    <3>1. PICK labels \in SUBSET PullLabels : labels = p.labels \cup {"pending"}
      BY <2>1 DEF PullOf, PullLabels
    <3>2. PICK q : q = [p EXCEPT !.from = from, !.upTo = now, !.labels = labels]
      OBVIOUS
    <3>3. q \in PullOf /\ q.of = p.of /\ q.state = p.state /\ q.from = from /\ q.upTo = now /\ q.labels = labels
      BY <3>2 DEF PullOf
    <3>4. pulls'[i] = q
      BY <1>4, <2>1, <2>2, <3>1, <3>2
    <3>5. QED
      BY <2>1, <2>2, <3>1, <3>3, <3>4
  <2>3. CASE i \notin OpenPull(of)
    BY <1>4, <2>1, <2>3
  <2>4. QED
    BY <2>2, <2>3
<1>5. ASSUME pulls' = Append(pulls, Pull(of, from, now))
      PROVE  \E n \in Nat : /\ DOMAIN pulls' = DOMAIN pulls \cup {n}
                            /\ pulls'[n].of = of /\ pulls'[n].from = from /\ pulls'[n].upTo = now
                            /\ pulls'[n].state = "open" /\ "pending" \in pulls'[n].labels
                            /\ pulls'[n] \in PullOf /\ pulls' \in Seq(PullOf)
                            /\ \A i \in DOMAIN pulls : pulls'[i] = pulls[i] /\ i < n
  <2>1. PICK p : p = Pull(of, from, now)
    OBVIOUS
  <2>2. p \in PullOf /\ p.of = of /\ p.from = from /\ p.upTo = now /\ p.state = "open" /\ p.labels = {"pending"}
    BY <2>1 DEF Pull, PullOf, PullLabels
  <2>3. PICK n \in Nat : n = Len(pulls) + 1
    BY <1>1
  <2>4. pulls' \in Seq(PullOf) /\ Len(pulls') = Len(pulls) + 1 /\ pulls'[Len(pulls) + 1] = p
        /\ \A i \in 1 .. Len(pulls) : pulls'[i] = pulls[i]
    BY <1>1, <1>5, <2>1, <2>2, AppendProperties
  <2>5. pulls' \in Seq(PullOf) /\ DOMAIN pulls' = DOMAIN pulls \cup {n} /\ pulls'[n] = p
        /\ \A i \in DOMAIN pulls : pulls'[i] = pulls[i] /\ i < n
    BY <1>1, <2>3, <2>4
  <2>6. QED
    BY <2>2, <2>5
<1>6. ASSUME pulls' = [i \in DOMAIN pulls |->
                         IF i \in OpenPull(of)
                         THEN [pulls[i] EXCEPT !.from = from, !.upTo = now, !.labels = @ \cup {"pending"}] ELSE pulls[i]]
      PROVE  DOMAIN pulls' = DOMAIN pulls /\ pulls' \in Seq(PullOf)
  <2>1. DOMAIN pulls' = DOMAIN pulls
    BY <1>6
  <2>2. pulls' \in [1 .. Len(pulls) -> PullOf]
    BY <1>1, <1>4, <1>6
  <2>3. QED
    BY <1>1, <2>1, <2>2
<1>7. QED
  BY <1>2, <1>3, <1>4, <1>5, <1>6 DEF Proposed

\* A proposal is on the latest release, and made only when nothing else of the component is in
\* play.
LEMMA CreatePullRequestsKeeps ==
  ASSUME ReleaseTyped, NEW r \in Runner, CreatePullRequests(r)
  PROVE  Kept
<1>1. AtLocked(r) /\ runner[r] # Lazy /\ runner[r].todo # <<>> /\ RunAt(r, "propose")
  BY DEF CreatePullRequests, RunAt, AtLocked, Locked, ReleaseTyped, RunnersTyped, RunIsSound
<1>2. PICK of \in Component : of = ComponentOf(Current(r))
  BY <1>1, CurrentTyped
<1>3. PICK from \in Nat : from = runner[r].from
  BY <1>1, RunTyped
<1>4. PICK now \in Nat : now = commits[of[1]]
  BY <1>2 DEF ReleaseTyped, LibraryTyped, Component
<1>5. /\ RunTo(r, "unlock")
      /\ UNCHANGED <<releaseConfig, commits, releases, runs, runActs, expired, hasty, lock>>
  BY DEF CreatePullRequests, Own, HistoryKept
<1>6. "unlock" \in RunAts /\ "unlock" \in Locked
  BY DEF RunAts, Locked
<1>7. LibraryTyped /\ pulls \in Seq(PullOf) /\ DOMAIN pulls = 1 .. Len(pulls) /\ Len(pulls) \in Nat /\ releases \subseteq DOMAIN pulls
  BY DEF ReleaseTyped, LibraryTyped
<1>8. Proposed(of, from, now)
  BY <1>2, <1>3, <1>4, PullsProposed
<1>9. CASE UNCHANGED pulls
  <2>1. LibraryTyped' /\ OnlyLabels
    BY <1>5, <1>7, <1>9 DEF LibraryTyped, OnlyLabels
  <2>2. QED
    BY <1>1, <1>5, <1>6, <1>9, <2>1, RunToMoves
<1>10. ASSUME LibraryTyped', DOMAIN pulls \subseteq DOMAIN pulls',
              \A i \in DOMAIN pulls : pulls'[i].of = pulls[i].of /\ pulls'[i].state = pulls[i].state,
              \A i \in releases : pulls'[i] = pulls[i],
              KnowsLatest(r) /\ OnlyLastInPlay => OnlyLastInPlay'
       PROVE  Kept
  <2>1. /\ RunnersTyped' /\ runner'[r] # Lazy /\ runner'[r].at = "unlock" /\ runner'[r].task = runner[r].task
        /\ \A q \in Runner \ {r} : runner'[q] = runner[q]
    BY <1>1, <1>5, <1>6, <1>10, RunToKeeps
  <2>2. ReleaseTyped'
    BY <1>5, <1>10, <2>1 DEF ReleaseTyped, TasksTyped, OnPull
  <2>3. ASSUME Orderly PROVE Orderly'
    <3>1. ReleasesChain'
      BY <1>5, <1>10, <2>3, ReleasedStay DEF Orderly
    <3>2. lock = {r}
      BY <1>1, <2>3 DEF Orderly, LockIsHeld
    <3>3. LockIsHeld'
      BY <1>5, <2>1, <2>3, <3>2 DEF Orderly, LockIsHeld, AtLocked
    <3>4. ASSUME NEW q \in Runner PROVE KnowsLatest(q)'
      <4>1. CASE q = r
        BY <2>1, <4>1 DEF KnowsLatest, RunAt
      <4>2. CASE q # r
        <5>1. ~AtLocked(q)
          BY <2>3, <3>2, <4>2 DEF Orderly, LockIsHeld
        <5>2. QED
          BY <2>1, <4>2, <5>1 DEF KnowsLatest, RunAt, AtLocked, Locked
      <4>3. QED
        BY <4>1, <4>2
    <3>5. NoLateLabel'
      <4>1. \A t \in runs : OnPull(t) /\ (t.kind = "reopened" => pulls[t.of].state # "merged")
        BY <2>3 DEF ReleaseTyped, TasksTyped, Orderly, NoLateLabel
      <4>2. \A q \in Runner : runner[q] # Lazy => OnPull(runner[q].task) /\ (runner[q].task.kind = "reopened" => pulls[runner[q].task.of].state # "merged")
        BY <2>3 DEF ReleaseTyped, RunnersTyped, RunIsSound, Orderly, NoLateLabel
      <4>3. \A t \in runs' : t.kind = "reopened" => pulls'[t.of].state # "merged"
        BY <1>5, <1>10, <4>1 DEF OnPull
      <4>4. \A q \in Runner : runner'[q] # Lazy /\ runner'[q].task.kind = "reopened" => pulls'[runner'[q].task.of].state # "merged"
        <5>1. ASSUME NEW q \in Runner, runner'[q] # Lazy PROVE runner[q] # Lazy /\ runner'[q].task = runner[q].task
          BY <1>1, <2>1, <5>1
        <5>2. QED
          BY <1>10, <4>2, <5>1 DEF OnPull
      <4>5. QED
        BY <4>3, <4>4 DEF NoLateLabel
    <3>6. OnlyLastInPlay'
      BY <1>10, <2>3 DEF Orderly
    <3>7. QED
      BY <3>1, <3>3, <3>4, <3>5, <3>6 DEF Orderly
  <2>4. QED
    BY <2>2, <2>3 DEF Kept
<1>11. KnowsLatest(r) => from = LatestRelease(of)
  BY <1>1, <1>2, <1>3 DEF KnowsLatest
<1>12. CASE /\ now > from /\ DOMAIN pulls' = DOMAIN pulls /\ pulls' \in Seq(PullOf)
            /\ \A i \in DOMAIN pulls :
                 /\ pulls'[i] \in PullOf /\ pulls'[i].of = pulls[i].of /\ pulls'[i].state = pulls[i].state
                 /\ i \in OpenPull(of) => pulls'[i].from = from /\ pulls'[i].upTo = now /\ "pending" \in pulls'[i].labels
                 /\ i \notin OpenPull(of) => pulls'[i] = pulls[i]
  <2>1. /\ \A i \in DOMAIN pulls :
             /\ pulls'[i].of = pulls[i].of /\ pulls'[i].state = pulls[i].state
             /\ i \in OpenPull(of) => pulls'[i].from = from /\ pulls'[i].upTo = now
             /\ i \notin OpenPull(of) => pulls'[i] = pulls[i]
        /\ DOMAIN pulls' = DOMAIN pulls
    BY <1>12
  <2>2. LibraryTyped'
    <3>1. \A i \in DOMAIN pulls : pulls'[i].from < pulls'[i].upTo /\ pulls'[i].upTo <= commits[pulls'[i].of[1]]
      <4>1. ASSUME NEW i \in DOMAIN pulls PROVE pulls'[i].from < pulls'[i].upTo /\ pulls'[i].upTo <= commits[pulls'[i].of[1]]
        <5>1. CASE i \in OpenPull(of)
          <6>1. pulls'[i].of = of /\ pulls'[i].from = from /\ pulls'[i].upTo = now
            BY <2>1, <5>1 DEF OpenPull
          <6>2. from < now /\ now <= commits[of[1]]
            <7>1. now > from
              BY <1>12
            <7>2. QED
              BY <1>3, <1>4, <7>1
          <6>3. QED
            BY <6>1, <6>2
        <5>2. CASE i \notin OpenPull(of)
          BY <1>7, <2>1, <5>2, PullTyped
        <5>3. QED
          BY <5>1, <5>2
      <4>2. QED
        BY <4>1
    <3>2. QED
      BY <1>5, <1>7, <1>12, <2>1, <3>1 DEF LibraryTyped
  <2>3. \A i \in releases : pulls'[i] = pulls[i]
    BY <1>7, <2>1 DEF LibraryTyped, OpenPull
  <2>4. ASSUME KnowsLatest(r), OnlyLastInPlay PROVE OnlyLastInPlay'
    <3>1. SUFFICES ASSUME NEW i \in DOMAIN pulls \ releases
                   PROVE  /\ InPlay(i)' => IsLast(i)'
                          /\ IsLast(i)' /\ (InPlay(i)' \/ pulls'[i].state = "closed") => pulls'[i].from = LatestRelease(pulls[i].of)'
      BY <1>5, <2>1 DEF OnlyLastInPlay
    <3>2. IsLast(i)' = IsLast(i) /\ InPlay(i)' = InPlay(i)
      BY <2>1 DEF IsLast, InPlay, OpenPull
    <3>3. PICK c : c = pulls'[i].of /\ c = pulls[i].of
      BY <2>1
    <3>4. LatestRelease(c)' = LatestRelease(c)
      BY <1>5, <2>3, ReleasedStay
    <3>5. CASE i \in OpenPull(of)
      BY <1>11, <2>1, <2>4, <3>2, <3>3, <3>4, <3>5 DEF OnlyLastInPlay, OpenPull
    <3>6. CASE i \notin OpenPull(of)
      BY <2>1, <2>4, <3>2, <3>3, <3>4, <3>6 DEF OnlyLastInPlay
    <3>7. QED
      BY <3>5, <3>6
  <2>5. QED
    BY <1>10, <2>1, <2>2, <2>3, <2>4
<1>13. CASE /\ now > from /\ OpenPull(of) = {} /\ Untagged(of) = {}
            /\ \E n \in Nat : /\ DOMAIN pulls' = DOMAIN pulls \cup {n}
                              /\ pulls'[n].of = of /\ pulls'[n].from = from /\ pulls'[n].upTo = now
                              /\ pulls'[n].state = "open" /\ "pending" \in pulls'[n].labels
                              /\ pulls'[n] \in PullOf /\ pulls' \in Seq(PullOf)
                              /\ \A i \in DOMAIN pulls : pulls'[i] = pulls[i] /\ i < n
  <2>1. PICK n \in Nat : /\ DOMAIN pulls' = DOMAIN pulls \cup {n} /\ pulls' \in Seq(PullOf)
                         /\ pulls'[n].of = of /\ pulls'[n].from = from /\ pulls'[n].upTo = now /\ pulls'[n].state = "open"
                         /\ \A i \in DOMAIN pulls : pulls'[i] = pulls[i] /\ i < n
    BY <1>13
  <2>2. LibraryTyped'
    <3>1. \A i \in DOMAIN pulls' : pulls'[i].from < pulls'[i].upTo /\ pulls'[i].upTo <= commits[pulls'[i].of[1]]
      BY <1>4, <1>7, <1>13, <2>1, PullTyped
    <3>2. QED
      BY <1>5, <1>7, <2>1, <3>1 DEF LibraryTyped
  <2>3. ASSUME KnowsLatest(r), OnlyLastInPlay PROVE OnlyLastInPlay'
    <3>1. SUFFICES ASSUME NEW i \in DOMAIN pulls' \ releases
                   PROVE  /\ InPlay(i)' => IsLast(i)'
                          /\ IsLast(i)' /\ (InPlay(i)' \/ pulls'[i].state = "closed") => pulls'[i].from = LatestRelease(pulls[i].of)'
      BY <1>5 DEF OnlyLastInPlay
    <3>2. \A c : LatestRelease(c)' = LatestRelease(c)
      BY <1>5, <1>7, <2>1, ReleasedStay
    <3>3. PICK c : c = pulls'[i].of
      OBVIOUS
    <3>4. LatestRelease(c)' = LatestRelease(c)
      BY <3>2
    <3>5. CASE i = n
      <4>1. IsLast(i)'
        BY <2>1, <3>5, <1>7 DEF IsLast
      <4>2. pulls'[i].from = LatestRelease(c) /\ c = of
        BY <1>11, <2>1, <2>3, <3>3, <3>5
      <4>3. QED
        BY <3>3, <3>4, <4>1, <4>2
    <3>6. CASE i # n
      <4>1. i \in DOMAIN pulls \ releases /\ pulls'[i] = pulls[i] /\ InPlay(i)' = InPlay(i)
        BY <2>1, <3>1, <3>6 DEF InPlay
      <4>2. CASE c = of
        <5>1. ~InPlay(i)
          BY <1>13, <3>3, <4>1, <4>2 DEF InPlay, OpenPull, Untagged
        <5>2. ~IsLast(i)'
          BY <1>7, <2>1, <3>3, <4>1, <4>2 DEF IsLast
        <5>3. QED
          BY <4>1, <5>1, <5>2
      <4>3. CASE c # of
        <5>1. IsLast(i)' = IsLast(i)
          BY <2>1, <3>3, <4>1, <4>3 DEF IsLast
        <5>2. QED
          BY <2>3, <3>3, <3>4, <4>1, <5>1 DEF OnlyLastInPlay
      <4>4. QED
        BY <4>2, <4>3
    <3>7. QED
      BY <3>5, <3>6
  <2>4. QED
    BY <1>7, <1>10, <2>1, <2>2, <2>3
<1>14. QED
  BY <1>8, <1>9, <1>12, <1>13 DEF Proposed

----------------------------------------------------------------------------
(* The other steps                                                          *)

\* A new task is sound when its fields are.
LEMMA RunTaskTyped ==
  ASSUME NEW kind \in {"push", "labeled", "closed", "reopened"}, NEW of \in Nat, NEW b \in Branch, NEW released \in BOOLEAN,
         NEW merged \in BOOLEAN, NEW labels \in SUBSET PullLabels
  PROVE  /\ RunTask(kind, of, b, released, merged, labels) \in RunTasks
         /\ RunTask(kind, of, b, released, merged, labels).kind = kind
         /\ RunTask(kind, of, b, released, merged, labels).of = of
BY DEF RunTask, RunTasks

\* A pull request closed, reopened or merged when no task of it is due: what was in play and
\* is open or closed stays on the latest release, and no late label meets it merged.
LEMMA ActOnKeeps ==
  ASSUME ReleaseTyped, ReleaseInv, NEW i \in DOMAIN pulls, NEW state \in {"open", "closed", "merged"}, ActOn(i, state),
         pulls[i].state # "merged",
         state = "open" => pulls[i].state = "closed" /\ IsLast(i),
         state = "merged" => pulls[i].state = "open",
         NEW new \in SUBSET RunTasks, runs' = runs \cup new,
         \A t \in new : OnPull(t) /\ (t.kind = "reopened" => t.of = i /\ state # "merged")
  PROVE  ReleaseTyped' /\ ReleaseInv'
<1>1. /\ LibraryTyped /\ pulls \in Seq(PullOf) /\ releases \subseteq DOMAIN pulls /\ i \notin releases
      /\ runner \in [Runner -> {Lazy} \cup RunOf]
  BY DEF ReleaseTyped, LibraryTyped, RunnersTyped
<1>2. /\ UNCHANGED <<releaseConfig, commits, releases, runner, lock, expired>>
      /\ pulls' = [pulls EXCEPT ![i].state = state]
      /\ runActs' = runActs + 1 /\ hasty' = (hasty \/ IsDue(i))
  BY DEF ActOn, ByOthers
<1>3. PICK p \in PullOf : p = pulls[i]
  BY <1>1, PullTyped
<1>4. PICK q : q = [p EXCEPT !.state = state]
  OBVIOUS
<1>5. q \in PullOf /\ q.of = p.of /\ q.from = p.from /\ q.upTo = p.upTo /\ q.state = state /\ q.labels = p.labels
  BY <1>4 DEF PullOf
<1>6. /\ pulls' \in Seq(PullOf) /\ DOMAIN pulls' = DOMAIN pulls /\ pulls'[i] = q
      /\ \A j \in DOMAIN pulls : j # i => pulls'[j] = pulls[j]
  <2>1. pulls' = [pulls EXCEPT ![i] = q]
    BY <1>2, <1>3, <1>4
  <2>2. QED
    BY <1>1, <1>5, <2>1, ExceptSeq
<1>7. ReleaseTyped'
  <2>1. LibraryTyped'
    <3>1. \A j \in DOMAIN pulls : pulls'[j].from < pulls'[j].upTo /\ pulls'[j].upTo <= commits[pulls'[j].of[1]]
      BY <1>1, <1>3, <1>5, <1>6, PullTyped
    <3>2. QED
      BY <1>1, <1>2, <1>6, <3>1 DEF LibraryTyped
  <2>2. RunnersTyped'
    BY <1>2, <1>6 DEF ReleaseTyped, RunnersTyped, RunIsSound, OnPull
  <2>3. TasksTyped'
    BY <1>6 DEF ReleaseTyped, TasksTyped, OnPull
  <2>4. runActs' \in Nat /\ hasty' \in BOOLEAN
    BY <1>2 DEF ReleaseTyped
  <2>5. QED
    BY <1>2, <2>1, <2>2, <2>3, <2>4 DEF ReleaseTyped
<1>8. ASSUME Orderly, ~IsDue(i) PROVE Orderly'
  <2>1. (\A of : LatestRelease(of)' = LatestRelease(of)) /\ ReleasesChain'
    BY <1>1, <1>2, <1>6, <1>8, ReleasedStay DEF Orderly
  <2>2. LockIsHeld'
    BY <1>2, <1>8 DEF Orderly, LockIsHeld, AtLocked
  <2>3. \A r \in Runner : KnowsLatest(r)'
    BY <1>2, <1>8, <2>1 DEF Orderly, KnowsLatest, RunAt, Current
  <2>4. NoLateLabel'
    <3>1. \A t \in runs : t.kind = "reopened" => t.of \in DOMAIN pulls /\ t.of # i /\ pulls[t.of].state # "merged"
      BY <1>8 DEF ReleaseTyped, TasksTyped, OnPull, Orderly, NoLateLabel, IsDue
    <3>2. \A r \in Runner : runner[r] # Lazy /\ runner[r].task.kind = "reopened" =>
            runner[r].task.of \in DOMAIN pulls /\ runner[r].task.of # i /\ pulls[runner[r].task.of].state # "merged"
      BY <1>8 DEF ReleaseTyped, RunnersTyped, RunIsSound, OnPull, Orderly, NoLateLabel, IsDue
    <3>3. \A t \in new : t.kind = "reopened" => pulls'[t.of].state # "merged"
      BY <1>5, <1>6
    <3>4. QED
      BY <1>2, <1>6, <3>1, <3>2, <3>3 DEF NoLateLabel
  <2>5. OnlyLastInPlay'
    <3>1. SUFFICES ASSUME NEW j \in DOMAIN pulls \ releases
                   PROVE  /\ InPlay(j)' => IsLast(j)'
                          /\ IsLast(j)' /\ (InPlay(j)' \/ pulls'[j].state = "closed") => pulls'[j].from = LatestRelease(pulls[j].of)'
      BY <1>2, <1>6 DEF OnlyLastInPlay
    <3>2. IsLast(j)' = IsLast(j)
      BY <1>3, <1>5, <1>6 DEF IsLast
    <3>3. PICK c : c = pulls[j].of /\ c = pulls'[j].of
      BY <1>3, <1>5, <1>6
    <3>4. LatestRelease(c)' = LatestRelease(c)
      BY <2>1
    <3>5. CASE j # i
      BY <1>6, <1>8, <3>2, <3>3, <3>4, <3>5 DEF Orderly, OnlyLastInPlay, InPlay
    <3>6. CASE j = i
      <4>1. pulls[i].state \in {"open", "closed"}
        BY <1>1, PullTyped
      <4>2. pulls'[i].state = state /\ pulls'[i].labels = pulls[i].labels /\ pulls'[i].from = pulls[i].from
        BY <1>3, <1>5, <1>6
      <4>3. /\ InPlay(i) => IsLast(i)
            /\ IsLast(i) /\ (InPlay(i) \/ pulls[i].state = "closed") => pulls[i].from = LatestRelease(pulls[i].of)
        BY <1>1, <1>8 DEF Orderly, OnlyLastInPlay
      <4>4. QED
        BY <3>2, <3>3, <3>4, <3>6, <4>1, <4>2, <4>3 DEF InPlay
    <3>7. QED
      BY <3>5, <3>6
  <2>6. QED
    BY <2>1, <2>2, <2>3, <2>4, <2>5 DEF Orderly
<1>9. ReleaseInv'
  BY <1>2, <1>8 DEF ReleaseInv
<1>10. QED
  BY <1>7, <1>9

\* People close, reopen and merge a release pull request.
LEMMA PullActsKeep ==
  ASSUME ReleaseTyped, ReleaseInv, NEW i \in DOMAIN pulls, CloseRelease(i) \/ ReopenRelease(i) \/ MergeRelease(i)
  PROVE  ReleaseTyped' /\ ReleaseInv'
<1>1. i \in Nat /\ pulls[i].of[1] \in Branch /\ pulls[i].labels \in SUBSET PullLabels
  BY PullTyped DEF ReleaseTyped
<1>2. PICK b \in Branch, labels \in SUBSET PullLabels : b = pulls[i].of[1] /\ labels = pulls[i].labels
  BY <1>1
<1>3. PICK yes, no \in BOOLEAN : yes = TRUE /\ no = FALSE
  OBVIOUS
<1>4. CASE CloseRelease(i)
  <2>1. PICK t : t = RunTask("closed", i, b, no, no, labels)
    OBVIOUS
  <2>2. t \in RunTasks /\ t.kind = "closed" /\ OnPull(t)
    BY <1>1, <2>1, RunTaskTyped DEF OnPull
  <2>3. pulls[i].state = "open" /\ ActOn(i, "closed") /\ runs' = runs \cup {t}
    BY <1>2, <1>3, <1>4, <2>1 DEF CloseRelease
  <2>4. {t} \in SUBSET RunTasks
    BY <2>2
  <2>5. QED
    BY <2>2, <2>3, <2>4, ActOnKeeps
<1>5. CASE ReopenRelease(i)
  <2>1. PICK t : t = RunTask("reopened", i, b, no, no, labels)
    OBVIOUS
  <2>2. t \in RunTasks /\ t.kind = "reopened" /\ t.of = i /\ OnPull(t)
    BY <1>1, <2>1, RunTaskTyped DEF OnPull
  <2>3. pulls[i].state = "closed" /\ ActOn(i, "open") /\ runs' = runs \cup {t} /\ IsLast(i)
    BY <1>2, <1>3, <1>5, <2>1 DEF ReopenRelease, IsLast
  <2>4. {t} \in SUBSET RunTasks
    BY <2>2
  <2>5. QED
    BY <2>2, <2>3, <2>4, ActOnKeeps
<1>6. CASE MergeRelease(i)
  <2>1. PICK t, u : t = RunTask("closed", i, b, no, yes, labels) /\ u = RunTask("push", i, b, yes, no, {})
    OBVIOUS
  <2>2. t \in RunTasks /\ t.kind = "closed" /\ OnPull(t)
    BY <1>1, <2>1, RunTaskTyped DEF OnPull
  <2>3. u \in RunTasks /\ u.kind = "push" /\ OnPull(u)
    <3>1. PICK none \in SUBSET PullLabels : none = {}
      OBVIOUS
    <3>2. QED
      BY <1>1, <2>1, <3>1, RunTaskTyped DEF OnPull
  <2>4. pulls[i].state = "open" /\ ActOn(i, "merged") /\ runs' = runs \cup {t, u}
    BY <1>2, <1>3, <1>6, <2>1 DEF MergeRelease
  <2>5. {t, u} \in SUBSET RunTasks
    BY <2>2, <2>3
  <2>6. QED
    BY <2>2, <2>3, <2>4, <2>5, ActOnKeeps
<1>7. QED
  BY <1>4, <1>5, <1>6

\* A push, and the label of force-run, call for a run and change no pull request.
LEMMA BranchActsKeep ==
  ASSUME ReleaseTyped, ReleaseInv, NEW b \in Branch, PushCommit(b) \/ ForceRelease(b)
  PROVE  ReleaseTyped' /\ ReleaseInv'
<1>1. PICK no \in BOOLEAN, none \in SUBSET PullLabels : no = FALSE /\ none = {}
  OBVIOUS
<1>2. /\ UNCHANGED <<releaseConfig, pulls, releases, runner, lock, expired, hasty>> /\ runActs' \in Nat
      /\ commits' \in [Branch -> Nat] /\ \A c \in Branch : commits[c] <= commits'[c]
  <2>1. commits \in [Branch -> Nat] /\ runActs \in Nat
    BY DEF ReleaseTyped, LibraryTyped
  <2>2. CASE PushCommit(b)
    <3>1. PICK n \in Nat : n = commits[b]
      BY <2>1
    <3>2. commits' = [commits EXCEPT ![b] = n + 1] /\ UNCHANGED <<releaseConfig, pulls, releases, runner, lock, expired, hasty, runActs>>
      BY <2>2, <3>1 DEF PushCommit, ByOthers
    <3>3. QED
      BY <2>1, <3>1, <3>2
  <2>3. CASE ForceRelease(b)
    <3>1. UNCHANGED <<commits, releaseConfig, pulls, releases, runner, lock, expired, hasty>> /\ runActs' = runActs + 1
      BY <2>3 DEF ForceRelease, ByOthers
    <3>2. QED
      BY <2>1, <3>1
  <2>4. QED
    BY <2>2, <2>3
<1>3. PICK t \in RunTasks : t.kind \in {"push", "labeled"} /\ runs' = runs \cup {t}
  <2>1. CASE PushCommit(b)
    <3>1. commits[b] + 1 \in Nat
      BY DEF ReleaseTyped, LibraryTyped
    <3>2. PICK t : t = RunTask("push", commits[b] + 1, b, no, no, none)
      OBVIOUS
    <3>3. t \in RunTasks /\ t.kind = "push"
      BY <3>1, <3>2, RunTaskTyped
    <3>4. QED
      BY <1>1, <2>1, <3>2, <3>3 DEF PushCommit
  <2>2. CASE ForceRelease(b)
    <3>1. PICK n \in Nat : n = runActs'
      BY <1>2
    <3>2. PICK t : t = RunTask("labeled", n, b, no, no, none)
      OBVIOUS
    <3>3. t \in RunTasks /\ t.kind = "labeled"
      BY <3>2, RunTaskTyped
    <3>4. QED
      BY <1>1, <2>2, <3>1, <3>2, <3>3 DEF ForceRelease
  <2>3. QED
    BY <2>1, <2>2
<1>4. LibraryTyped'
  <2>1. LibraryTyped
    BY DEF ReleaseTyped
  <2>2. \A i \in DOMAIN pulls : pulls[i].upTo <= commits'[pulls[i].of[1]]
    BY <1>2, <2>1, PullTyped
  <2>3. QED
    BY <1>2, <2>1, <2>2 DEF LibraryTyped
<1>5. ReleaseTyped'
  BY <1>2, <1>3, <1>4 DEF ReleaseTyped, TasksTyped, RunnersTyped, RunIsSound, OnPull
<1>6. ASSUME Orderly PROVE Orderly'
  <2>1. (\A of : LatestRelease(of)' = LatestRelease(of)) /\ ReleasesChain'
    BY <1>2, <1>6, ReleasedStay DEF Orderly
  <2>2. LockIsHeld' /\ NoLateLabel'
    BY <1>2, <1>3, <1>6 DEF Orderly, LockIsHeld, AtLocked, NoLateLabel
  <2>3. \A r \in Runner : KnowsLatest(r)'
    BY <1>2, <1>6, <2>1 DEF Orderly, KnowsLatest, RunAt, Current
  <2>4. OnlyLastInPlay'
    <3>1. \A i \in DOMAIN pulls : InPlay(i)' = InPlay(i) /\ IsLast(i)' = IsLast(i) /\ LatestRelease(pulls[i].of)' = LatestRelease(pulls[i].of)
      <4>1. ASSUME NEW i \in DOMAIN pulls PROVE LatestRelease(pulls[i].of)' = LatestRelease(pulls[i].of)
        <5>1. PICK c : c = pulls[i].of
          OBVIOUS
        <5>2. LatestRelease(c)' = LatestRelease(c)
          BY <2>1
        <5>3. QED
          BY <1>2, <5>1, <5>2
      <4>2. QED
        BY <1>2, <4>1 DEF InPlay, IsLast
    <3>2. QED
      BY <1>2, <1>6, <3>1 DEF Orderly, OnlyLastInPlay
  <2>5. QED
    BY <2>1, <2>2, <2>3, <2>4 DEF Orderly
<1>7. QED
  BY <1>2, <1>5, <1>6 DEF ReleaseInv

\* When a lease runs out no holder goes on, or the history has it.
LEMMA LeaseRunsOutKeeps ==
  ASSUME ReleaseTyped, ReleaseInv, LeaseRunsOut
  PROVE  ReleaseTyped' /\ ReleaseInv'
<1>1. /\ UNCHANGED <<releaseConfig, commits, pulls, releases, runs, runner, runActs, hasty>>
      /\ lock' = {} /\ expired' = (expired \/ \E r \in lock : AtLocked(r))
  BY DEF LeaseRunsOut, libraryVars, AtLocked
<1>2. ReleaseTyped'
  BY <1>1 DEF ReleaseTyped, LibraryTyped, RunnersTyped, TasksTyped, RunIsSound, OnPull
<1>3. ASSUME Orderly, \A r \in lock : ~AtLocked(r) PROVE Orderly'
  <2>1. (\A of : LatestRelease(of)' = LatestRelease(of)) /\ ReleasesChain'
    BY <1>1, <1>3, ReleasedStay DEF Orderly
  <2>2. \A r \in Runner : ~AtLocked(r)
    BY <1>3 DEF Orderly, LockIsHeld
  <2>3. LockIsHeld' /\ NoLateLabel'
    BY <1>1, <1>3, <2>2 DEF Orderly, LockIsHeld, AtLocked, NoLateLabel
  <2>4. \A r \in Runner : KnowsLatest(r)'
    BY <1>1, <1>3, <2>1 DEF Orderly, KnowsLatest, RunAt, Current
  <2>5. OnlyLastInPlay'
    <3>1. ASSUME NEW i \in DOMAIN pulls PROVE LatestRelease(pulls[i].of)' = LatestRelease(pulls[i].of)
      <4>1. PICK c : c = pulls[i].of
        OBVIOUS
      <4>2. LatestRelease(c)' = LatestRelease(c)
        BY <2>1
      <4>3. QED
        BY <1>1, <4>1, <4>2
    <3>2. \A i \in DOMAIN pulls : InPlay(i)' = InPlay(i) /\ IsLast(i)' = IsLast(i)
      BY <1>1 DEF InPlay, IsLast
    <3>3. QED
      BY <1>1, <1>3, <3>1, <3>2 DEF Orderly, OnlyLastInPlay
  <2>6. QED
    BY <2>1, <2>3, <2>4, <2>5 DEF Orderly
<1>4. QED
  BY <1>1, <1>2, <1>3 DEF ReleaseInv

\* Nothing moves.
LEMMA ReleaseStutters ==
  ASSUME ReleaseTyped, ReleaseInv, UNCHANGED releaseVars
  PROVE  ReleaseTyped' /\ ReleaseInv'
<1>1. UNCHANGED <<releaseConfig, commits, pulls, releases, runs, runner, lock, runActs, expired, hasty>>
  BY DEF releaseVars, libraryVars
<1>2. ReleaseTyped'
  BY <1>1 DEF ReleaseTyped, LibraryTyped, RunnersTyped, TasksTyped, RunIsSound, OnPull
<1>3. ReleaseInv'
  <2>1. \A of : LatestRelease(of)' = LatestRelease(of)
    BY <1>1, ReleasedStay
  <2>2. ASSUME NEW i \in DOMAIN pulls PROVE LatestRelease(pulls[i].of)' = LatestRelease(pulls[i].of)
    <3>1. PICK c : c = pulls[i].of
      OBVIOUS
    <3>2. LatestRelease(c)' = LatestRelease(c)
      BY <2>1
    <3>3. QED
      BY <1>1, <3>1, <3>2
  <2>3. ASSUME Orderly PROVE Orderly'
    <3>1. LockIsHeld' /\ NoLateLabel' /\ ReleasesChain'
      BY <1>1, <2>3 DEF Orderly, LockIsHeld, AtLocked, NoLateLabel, ReleasesChain
    <3>2. \A r \in Runner : KnowsLatest(r)'
      BY <1>1, <2>1, <2>3 DEF Orderly, KnowsLatest, RunAt, Current
    <3>3. OnlyLastInPlay'
      BY <1>1, <2>2, <2>3 DEF Orderly, OnlyLastInPlay, InPlay, IsLast
    <3>4. QED
      BY <3>1, <3>2, <3>3 DEF Orderly
  <2>4. QED
    BY <1>1, <2>3 DEF ReleaseInv
<1>4. QED
  BY <1>2, <1>3

\* Every step of a handler keeps the invariant.
LEMMA RunStepKeeps ==
  ASSUME ReleaseTyped, ReleaseInv, NEW r \in Runner, RunStep(r)
  PROVE  ReleaseTyped' /\ ReleaseInv'
<1>1. Kept
  BY TakeRunKeeps, RestingStepsKeep, LockedStepsKeep, CreateReleasesKeeps, LabelReleasesKeeps, CreatePullRequestsKeeps,
     SwapLabelsKeeps, FailuresKeep, Zenon DEF RunStep
<1>2. UNCHANGED <<expired, hasty>>
  BY DEF RunStep, TakeRun, RemoveForceLabel, ReadReleaseConfig, EndRun, SkipConfiguration, AcquireRunLock, BuildManifest,
         CreateReleases, LabelReleases, TagPullRequest, CreatePullRequests, ReportConfigError, ReleaseRunLock, SwapLabels,
         SwapRefused, LockTimesOut, RunFails, SwapFails, Own, HistoryKept
<1>3. QED
  BY <1>1, <1>2 DEF Kept, ReleaseInv

\* Every step keeps the invariant.
LEMMA ReleaseStepKeeps ==
  ASSUME ReleaseTyped, ReleaseInv, [ReleaseNext]_releaseVars
  PROVE  ReleaseTyped' /\ ReleaseInv'
<1>1. CASE \E r \in Runner : RunStep(r)
  BY <1>1, RunStepKeeps
<1>2. CASE LeaseRunsOut
  BY <1>2, LeaseRunsOutKeeps
<1>3. CASE \E b \in Branch : PushCommit(b) \/ ForceRelease(b)
  BY <1>3, BranchActsKeep
<1>4. CASE \E i \in DOMAIN pulls : CloseRelease(i) \/ ReopenRelease(i) \/ MergeRelease(i)
  BY <1>4, PullActsKeep
<1>5. CASE UNCHANGED releaseVars
  BY <1>5, ReleaseStutters
<1>6. QED
  BY <1>1, <1>2, <1>3, <1>4, <1>5 DEF ReleaseNext

\* A repository starts with no release.
LEMMA ReleaseInitTyped ==
  ASSUME NEW CONSTANT configs \in SUBSET ReleaseConfig, ReleaseInit(configs)
  PROVE  ReleaseTyped /\ ReleaseInv
<1>1. \A r \in Runner : runner[r] = Lazy
  BY DEF ReleaseInit
<1>2. pulls = <<>> /\ DOMAIN pulls = {} /\ releases = {} /\ runs = {}
  BY DEF ReleaseInit
<1>3. LibraryTyped
  BY <1>2 DEF ReleaseInit, LibraryTyped
<1>4. ReleaseTyped
  <2>1. RunnersTyped /\ TasksTyped
    BY <1>1, <1>2 DEF ReleaseInit, RunnersTyped, RunIsSound, TasksTyped
  <2>2. releaseConfig \in ReleaseConfig /\ runActs \in Nat
    BY DEF ReleaseInit
  <2>3. expired \in BOOLEAN /\ hasty \in BOOLEAN
    BY Zenon DEF ReleaseInit
  <2>4. QED
    BY <1>3, <2>1, <2>2, <2>3 DEF ReleaseTyped
<1>5. Orderly
  BY <1>1, <1>2 DEF Orderly, LockIsHeld, AtLocked, KnowsLatest, RunAt, NoLateLabel, OnlyLastInPlay, ReleasesChain
<1>6. QED
  BY <1>4, <1>5 DEF ReleaseInv

----------------------------------------------------------------------------
(* The releases of a component follow one upon the other, for any number of branches,     *)
(* components, handlers, pushes, failing calls and deliveries, as long as no lease runs   *)
(* out while its holder is at it and no pull request is acted on while a task of it is    *)
(* due: BuildManifest, CreateReleases and CreatePullRequests under the lock, with the     *)
(* labels as the handlers set them, see to it that only the last release pull request of  *)
(* a component can be released, and that it is on the latest release.                     *)
THEOREM NoCommitIsReleasedTwice ==
  ASSUME NEW CONSTANT configs \in SUBSET ReleaseConfig
  PROVE  ReleaseSpec(configs) => []ReleasesFollow
<1>1. ReleaseInit(configs) => ReleaseTyped /\ ReleaseInv
  BY ReleaseInitTyped
<1>2. ReleaseTyped /\ ReleaseInv /\ [ReleaseNext]_releaseVars => (ReleaseTyped /\ ReleaseInv)'
  BY ReleaseStepKeeps
<1>3. ReleaseInv => ReleasesFollow
  BY DEF ReleaseInv, Orderly, ReleasesChain, ReleasesFollow
<1>4. QED
  BY <1>1, <1>2, <1>3, PTL DEF ReleaseSpec

----------------------------------------------------------------------------
(* release-please: what is merged is released, and what is pushed proposed. *)

\* A task is for a configuration if its run comes to it.
Comes(t, o) == t.kind \in {"push", "labeled"} /\ DueConfiguration(t, o)

\* A handler in the state s has the configuration before it, or is at it: about to make its
\* releases, to set the labels right, to propose.
Ahead(s, o) ==
  \/ s.at \in {"unlabel", "config"}
  \/ s.at = "next" /\ o \in ToSet(s.todo)
  \/ s.at \in Locked /\ o \in ToSet(Tail(s.todo))
Before(s, o)    == s # Lazy /\ Comes(s.task, o) /\ Ahead(s, o)
IsAt(s, o)      == s # Lazy /\ Comes(s.task, o) /\ s.at \in Locked /\ Head(s.todo) = o
Releasing(s, o) == IsAt(s, o) /\ (s.at = "release" \/ (s.at = "build" /\ ~s.fresh))
Labelling(s, o) == IsAt(s, o) /\ s.at = "label"
Proposing(s, o) == IsAt(s, o) /\ s.at \notin {"unlock", "report"}
Tagging(s, o, i) ==
  s # Lazy /\ s.at \in {"label", "tag"} /\ i \in s.made /\ ComponentOf(Head(s.todo)) = ComponentOf(o)

TaskFor(o) == \E t \in runs : Comes(t, o)
RunFor(o)  == TaskFor(o) \/ \E r \in Runner : Before(runner[r], o)
Asked      == {o \in Configured : o.options.ok /\ o.options.release}

\* A task that swaps the labels of its pull request.
Relabels(t, kind) ==
  t.kind = kind /\ IF kind = "closed" THEN ~t.merged /\ "pending" \in t.labels ELSE "closed" \in t.labels
SwapDue(i, kind) ==
  \/ \E t \in runs : t.of = i /\ Relabels(t, kind)
  \/ \E r \in Runner : RunAt(r, "swap") /\ runner[r].task.of = i /\ Relabels(runner[r].task, kind)

\* The pull request is as the act left it whose task is due.
Fits(t) == /\ t.kind = "closed" /\ ~t.merged => pulls[t.of].state = "closed"
           /\ t.kind = "reopened" => pulls[t.of].state = "open"
TasksFit == (\A t \in runs : Fits(t)) /\ \A r \in Runner : runner[r] # Lazy => Fits(runner[r].task)

\* Labels tell the state of a pull request, or a task is due that will set them right.
LabelsFollow ==
  \A i \in DOMAIN pulls :
    /\ pulls[i].state = "closed" => "closed"  \in pulls[i].labels \/ SwapDue(i, "closed")
    /\ pulls[i].state = "open"   => "pending" \in pulls[i].labels \/ SwapDue(i, "reopened")
    /\ pulls[i].state = "merged" => "pending" \in pulls[i].labels \/ i \in releases

\* A handler goes through the configurations found for its branch.
GoesThrough(s) ==
  s # Lazy =>
    /\ s.at = "swap" => Relabels(s.task, s.task.kind)
    /\ s.at \in {"unlabel", "config", "next"} => ~s.fresh
    /\ ToSet(s.todo) \subseteq ToSet(FindBranchConfiguration(s.task.branch, releaseConfig))
    /\ s.at \in Locked => Head(s.todo).branch = s.task.branch
InTurn == \A r \in Runner : GoesThrough(runner[r])

MergedAreReleased ==
  \A o \in Asked : \A i \in DOMAIN pulls :
    pulls[i].of = ComponentOf(o) /\ pulls[i].state = "merged" =>
      \/ i \in releases /\ "pending" \notin pulls[i].labels
      \/ RunFor(o)
      \/ \E r \in Runner : Releasing(runner[r], o) \/ (i \in releases /\ Labelling(runner[r], o))

TagsFollow ==
  ~failed => \A o \in Configured : \A i \in releases :
    o.options.tag /\ pulls[i].of = ComponentOf(o) => i \in tags \/ \E r \in Runner : Tagging(runner[r], o, i)

CommitsAreProposed ==
  \A o \in Asked :
    ~o.options.onDemand /\ commits[o.branch] > LatestRelease(ComponentOf(o)) =>
      \/ \E i \in DOMAIN pulls : /\ pulls[i].of = ComponentOf(o) /\ pulls[i].state \in {"open", "closed"}
                                 /\ pulls[i].upTo = commits[o.branch]
      \/ RunFor(o)
      \/ \E r \in Runner : Proposing(runner[r], o)

\* Configurations of one component agree on its tags.
AgreeOnTags(c) ==
  \A o, p \in ToSet(c.branches) : o.branch = p.branch /\ o.options.path = p.options.path => o.options.tag = p.options.tag

Served ==
  /\ TasksFit /\ LabelsFollow /\ InTurn
  /\ MergedAreReleased /\ TagsFollow /\ CommitsAreProposed

ServedInv == AgreeOnTags(releaseConfig) /\ ((~expired /\ ~hasty /\ ~abandoned) => Served)

----------------------------------------------------------------------------
(* Serving what is due                                                      *)

\* What a sequence of configurations holds.
LEMMA ToSetOfSeq ==
  ASSUME NEW S, NEW s \in Seq(S)
  PROVE  /\ ToSet(s) \subseteq S
         /\ s # <<>> => /\ Head(s) \in ToSet(s) /\ ToSet(Tail(s)) \subseteq ToSet(s)
                        /\ ToSet(s) \subseteq ToSet(Tail(s)) \cup {Head(s)}
<1>1. s \in [1 .. Len(s) -> S] /\ Len(s) \in Nat /\ ToSet(s) = {s[i] : i \in 1 .. Len(s)}
  BY DEF ToSet
<1>2. ToSet(s) \subseteq S
  BY <1>1
<1>3. ASSUME s # <<>>
      PROVE  /\ Head(s) \in ToSet(s) /\ ToSet(Tail(s)) \subseteq ToSet(s)
             /\ ToSet(s) \subseteq ToSet(Tail(s)) \cup {Head(s)}
  <2>1. /\ Len(s) >= 1 /\ Tail(s) \in Seq(S) /\ Len(Tail(s)) = Len(s) - 1 /\ Head(s) = s[1]
        /\ \A i \in 1 .. Len(Tail(s)) : Tail(s)[i] = s[i + 1]
    BY <1>1, <1>3, HeadTailProperties
  <2>2. ToSet(Tail(s)) = {Tail(s)[i] : i \in 1 .. Len(s) - 1}
    <3>1. PICK t \in Seq(S) : t = Tail(s) /\ Len(t) = Len(s) - 1
      BY <2>1
    <3>2. ToSet(t) = {t[i] : i \in 1 .. Len(t)}
      BY DEF ToSet
    <3>3. QED
      BY <3>1, <3>2
  <2>3. Head(s) \in ToSet(s)
    BY <1>1, <2>1
  <2>4. ToSet(Tail(s)) \subseteq ToSet(s)
    BY <1>1, <2>1, <2>2
  <2>5. ASSUME NEW i \in 1 .. Len(s), i # 1 PROVE s[i] \in ToSet(Tail(s))
    <3>1. i - 1 \in 1 .. Len(s) - 1 /\ (i - 1) + 1 = i
      BY <1>1, <2>1, <2>5
    <3>2. Tail(s)[i - 1] = s[i]
      BY <2>1, <3>1
    <3>3. QED
      BY <2>2, <3>1, <3>2
  <2>6. QED
    BY <1>1, <2>1, <2>3, <2>4, <2>5
<1>4. QED
  BY <1>2, <1>3

\* A configuration of a branch is among those found for the branch, and of one of its components.
LEMMA ConfiguredTyped ==
  ASSUME ReleaseTyped, NEW o \in Configured
  PROVE  /\ o \in BranchOptions /\ o.branch \in Branch /\ o \in ToSet(FindBranchConfiguration(o.branch, releaseConfig))
         /\ ComponentOf(o) \in Component /\ ComponentOf(o)[1] = o.branch /\ ComponentOf(o)[2] = o.options.path
<1>1. PICK b \in Branch : o \in ToSet(FindBranchConfiguration(b, releaseConfig)) /\ o.branch = b
  BY DEF Configured
<1>2. o \in BranchOptions
  BY <1>1, FindTyped, ToSetOfSeq
<1>3. o.branch \in Branch /\ o.options.path \in Path
  BY <1>2 DEF BranchOptions, Options
<1>4. QED
  BY <1>1, <1>2, <1>3 DEF ComponentOf, Component

\* Conversely, what is found for a branch and is of the branch is configured.
LEMMA FoundIsConfigured ==
  ASSUME NEW b \in Branch, NEW o \in ToSet(FindBranchConfiguration(b, releaseConfig)), o.branch = b
  PROVE  o \in Configured
BY DEF Configured

\* Configurations of one component agree on its tags.
LEMMA ConfiguredAgree ==
  ASSUME ReleaseTyped, AgreeOnTags(releaseConfig), NEW o \in Configured, NEW p \in Configured, ComponentOf(o) = ComponentOf(p)
  PROVE  o.options.tag = p.options.tag
<1>1. PICK b \in Branch : b = o.branch /\ b = p.branch /\ o.options.path = p.options.path
  BY ConfiguredTyped
<1>2. o \in ToSet(FindBranchConfiguration(b, releaseConfig)) /\ p \in ToSet(FindBranchConfiguration(b, releaseConfig))
  BY <1>1, ConfiguredTyped
<1>3. PICK own, more : own = [branch |-> b, options |-> releaseConfig.own] /\ more = releaseConfig.branches
  OBVIOUS
<1>4. own \in BranchOptions /\ more \in Seq(BranchOptions) /\ own.options = releaseConfig.own /\ own.branch = b
  BY <1>3 DEF ReleaseTyped, ReleaseConfig, BranchOptions
<1>5. CASE FindBranchConfiguration(b, releaseConfig) = <<>> \o more
  <2>1. o \in ToSet(more) /\ p \in ToSet(more)
    BY <1>2, <1>4, <1>5, ConcatEmptySeq
  <2>2. QED
    BY <1>1, <1>3, <2>1 DEF AgreeOnTags
<1>6. CASE /\ FindBranchConfiguration(b, releaseConfig) = <<own>> \o more
           /\ ~ \E e \in ToSet(more) : e.branch = b /\ e.options.path = releaseConfig.own.path
  <2>1. \A e \in ToSet(<<own>> \o more) : e = own \/ e \in ToSet(more)
    <3>1. PICK s \in Seq(BranchOptions) : s = <<own>> \o more
      <4>1. PICK e \in BranchOptions : e = own
        BY <1>4
      <4>2. <<e>> \in Seq(BranchOptions)
        OBVIOUS
      <4>3. \A d \in Seq(BranchOptions) : d \o more \in Seq(BranchOptions)
        BY <1>4, ConcatProperties
      <4>4. QED
        BY <4>1, <4>2, <4>3
    <3>2. s # <<>> /\ Head(s) = own /\ Tail(s) = more
      BY <1>4, <3>1, ConcatProperties, HeadTailProperties
    <3>3. QED
      BY <3>1, <3>2, ToSetOfSeq
  <2>2. o = own \/ o \in ToSet(more)
    BY <1>2, <1>6, <2>1
  <2>3. p = own \/ p \in ToSet(more)
    BY <1>2, <1>6, <2>1
  <2>4. CASE o = own /\ p = own
    BY <2>4
  <2>5. CASE o \in ToSet(more) /\ p \in ToSet(more)
    BY <1>1, <1>3, <2>5 DEF AgreeOnTags
  <2>6. CASE (o = own /\ p \in ToSet(more)) \/ (p = own /\ o \in ToSet(more))
    BY <1>1, <1>4, <1>6, <2>6
  <2>7. QED
    BY <2>2, <2>3, <2>4, <2>5, <2>6
<1>7. QED
  BY <1>3, <1>5, <1>6 DEF FindBranchConfiguration

\* A handler with the lock is at a configuration of its branch.
LEMMA CurrentConfigured ==
  ASSUME ReleaseTyped, InTurn, NEW r \in Runner, AtLocked(r)
  PROVE  Current(r) \in Configured /\ Current(r).branch = runner[r].task.branch
<1>1. runner[r] # Lazy /\ runner[r].todo # <<>> /\ runner[r].todo \in Seq(BranchOptions) /\ runner[r].task.branch \in Branch
  BY RunTyped DEF AtLocked, ReleaseTyped, RunnersTyped, RunIsSound
<1>2. Current(r) \in ToSet(runner[r].todo)
  BY <1>1, ToSetOfSeq DEF Current
<1>3. Current(r) \in ToSet(FindBranchConfiguration(runner[r].task.branch, releaseConfig)) /\ Current(r).branch = runner[r].task.branch
  BY <1>1, <1>2 DEF InTurn, GoesThrough, AtLocked, Current
<1>4. QED
  BY <1>1, <1>3, FoundIsConfigured

\* The handlers but r stay where they are.
OthersStay(r) == \A q \in Runner \ {r} : runner'[q] = runner[q]

\* A handler goes on from w to u: what was ahead of it is, or it is at it, and it passes no
\* configuration before it has made the releases, set the labels right and proposed.
GoesOn(w, u) ==
  \A o \in Asked :
    /\ Before(w, o)    => Before(u, o) \/ Releasing(u, o)
    /\ Releasing(w, o) => Releasing(u, o)
    /\ Labelling(w, o) => Labelling(u, o)
    /\ Proposing(w, o) /\ ~o.options.onDemand => Proposing(u, o)

\* A handler goes on at another place.
LEMMA RunToFields ==
  ASSUME ReleaseTyped, NEW r \in Runner, runner[r] # Lazy, NEW a \in RunAts, RunTo(r, a)
  PROVE  \E u \in RunOf : /\ runner'[r] = u /\ u # Lazy /\ u.at = a /\ u.task = runner[r].task /\ u.todo = runner[r].todo
                          /\ u.from = runner[r].from /\ u.made = runner[r].made /\ u.fresh = runner[r].fresh
                          /\ OthersStay(r)
<1>1. PICK w \in RunOf : w = runner[r]
  BY RunTyped
<1>2. PICK u \in RunOf : u = [w EXCEPT !.at = a]
  BY AtTyped
<1>3. /\ u # Lazy /\ u.at = a /\ u.task = w.task /\ u.todo = w.todo
      /\ u.from = w.from /\ u.made = w.made /\ u.fresh = w.fresh
  BY <1>2, AtTyped
<1>4. runner'[r] = u /\ OthersStay(r)
  BY <1>1, <1>2 DEF RunTo, RunSet, OthersStay, ReleaseTyped, RunnersTyped
<1>5. QED
  BY <1>1, <1>3, <1>4

\* A handler is set to what it was with some fields replaced.
LEMMA RunSetFields ==
  ASSUME ReleaseTyped, NEW r \in Runner, NEW u, RunSet(r, u)
  PROVE  runner'[r] = u /\ OthersStay(r)
BY DEF RunSet, OthersStay, ReleaseTyped, RunnersTyped

\* A task comes to configurations of its branch.
LEMMA ComesToBranch ==
  ASSUME NEW t, NEW o, Comes(t, o)
  PROVE  o.branch = t.branch /\ DueConfiguration(t, o)
BY DEF Comes, DueConfiguration

\* Where a handler without the lock goes.
LEMMA UnlockedGoesOn ==
  ASSUME ReleaseTyped, InTurn, NEW r \in Runner,
         RemoveForceLabel(r) \/ ReadReleaseConfig(r) \/ SkipConfiguration(r) \/ AcquireRunLock(r)
  PROVE  \E u \in RunOf : /\ runner'[r] = u /\ u # Lazy /\ u.task = runner[r].task /\ OthersStay(r)
                          /\ GoesThrough(u) /\ GoesOn(runner[r], u)
<1>1. runner[r] # Lazy /\ runner[r].at \in {"unlabel", "config", "next"}
  BY DEF RemoveForceLabel, ReadReleaseConfig, SkipConfiguration, AcquireRunLock, MustLock, RunAt
<1>2. PICK w \in RunOf : w = runner[r]
  BY <1>1, RunTyped
<1>3. /\ w # Lazy /\ w.todo \in Seq(BranchOptions) /\ w.task.branch \in Branch /\ ~w.fresh
      /\ ToSet(w.todo) \subseteq ToSet(FindBranchConfiguration(w.task.branch, releaseConfig))
  BY <1>1, <1>2, RunTyped DEF InTurn, GoesThrough
<1>4. \A o : ~Releasing(w, o) /\ ~Labelling(w, o) /\ ~Proposing(w, o)
  BY <1>1, <1>2 DEF Releasing, Labelling, Proposing, IsAt, Locked
<1>5. {"config", "next", "build"} \subseteq RunAts /\ "build" \in Locked /\ {"config", "next"} \cap Locked = {}
  BY DEF RunAts, Locked
<1>6. SUFFICES \E u \in RunOf : /\ runner'[r] = u /\ u # Lazy /\ u.task = w.task /\ OthersStay(r) /\ GoesThrough(u)
                                /\ \A o \in Asked : Before(w, o) => Before(u, o) \/ Releasing(u, o)
  BY <1>2, <1>4 DEF GoesOn
<1>7. CASE RemoveForceLabel(r)
  <2>1. RunTo(r, "config")
    BY <1>7 DEF RemoveForceLabel
  <2>2. PICK u \in RunOf : /\ runner'[r] = u /\ u # Lazy /\ u.at = "config" /\ u.task = w.task /\ u.todo = w.todo
                           /\ u.fresh = w.fresh /\ OthersStay(r)
    BY <1>1, <1>2, <1>5, <2>1, RunToFields
  <2>3. GoesThrough(u)
    BY <1>3, <1>5, <2>2 DEF GoesThrough
  <2>4. \A o \in Asked : Before(w, o) => Before(u, o)
    BY <2>2 DEF Before, Ahead
  <2>5. QED
    BY <2>2, <2>3, <2>4
<1>8. CASE ReadReleaseConfig(r)
  <2>1. PICK todo \in Seq(BranchOptions) : todo = FindBranchConfiguration(w.task.branch, releaseConfig)
    BY <1>3, FindTyped
  <2>2. PICK u : u = [w EXCEPT !.at = "next", !.todo = todo]
    OBVIOUS
  <2>3. u \in RunOf /\ u.at = "next" /\ u.task = w.task /\ u.todo = todo /\ u.fresh = w.fresh
    BY <1>2, <1>5, <2>2 DEF RunOf
  <2>4. runner'[r] = u /\ OthersStay(r)
    <3>1. RunSet(r, u)
      BY <1>2, <1>8, <2>1, <2>2 DEF ReadReleaseConfig
    <3>2. QED
      BY <3>1, RunSetFields
  <2>5. GoesThrough(u)
    BY <1>3, <1>5, <2>1, <2>3 DEF GoesThrough
  <2>6. ASSUME NEW o \in Asked, Before(w, o) PROVE Before(u, o)
    <3>1. Comes(w.task, o) /\ o.branch = w.task.branch
      BY <2>6, ComesToBranch DEF Before
    <3>2. o \in ToSet(todo)
      BY <2>1, <3>1, ConfiguredTyped DEF Asked
    <3>3. QED
      BY <2>3, <3>1, <3>2, NotLazy DEF Before, Ahead
  <2>7. QED
    BY <2>3, <2>4, <2>5, <2>6, NotLazy
<1>9. CASE SkipConfiguration(r)
  <2>1. w.at = "next" /\ w.todo # <<>> /\ ~DueConfiguration(w.task, Head(w.todo))
    BY <1>2, <1>9 DEF SkipConfiguration, RunAt, Current
  <2>2. PICK todo \in Seq(BranchOptions) : todo = Tail(w.todo)
    BY <1>3, <2>1, HeadTailProperties
  <2>3. PICK u : u = [w EXCEPT !.todo = todo]
    OBVIOUS
  <2>4. u \in RunOf /\ u.at = "next" /\ u.task = w.task /\ u.todo = todo /\ u.fresh = w.fresh
    BY <1>2, <2>1, <2>3 DEF RunOf
  <2>5. runner'[r] = u /\ OthersStay(r)
    <3>1. RunSet(r, u)
      BY <1>2, <1>9, <2>2, <2>3 DEF SkipConfiguration
    <3>2. QED
      BY <3>1, RunSetFields
  <2>6. ToSet(todo) \subseteq ToSet(w.todo) /\ ToSet(w.todo) \subseteq ToSet(todo) \cup {Head(w.todo)}
    BY <1>3, <2>1, <2>2, ToSetOfSeq
  <2>7. GoesThrough(u)
    BY <1>3, <1>5, <2>4, <2>6 DEF GoesThrough
  <2>8. ASSUME NEW o \in Asked, Before(w, o) PROVE Before(u, o)
    <3>1. Comes(w.task, o) /\ o \in ToSet(w.todo)
      BY <1>5, <2>1, <2>8 DEF Before, Ahead
    <3>2. o # Head(w.todo)
      BY <2>1, <3>1, ComesToBranch
    <3>3. QED
      BY <2>4, <2>6, <3>1, <3>2, NotLazy DEF Before, Ahead
  <2>9. QED
    BY <2>4, <2>5, <2>7, <2>8, NotLazy
<1>10. CASE AcquireRunLock(r)
  <2>1. w.at = "next" /\ w.todo # <<>> /\ DueConfiguration(w.task, Head(w.todo)) /\ RunTo(r, "build")
    BY <1>2, <1>10 DEF AcquireRunLock, MustLock, RunAt, Current
  <2>2. PICK u \in RunOf : /\ runner'[r] = u /\ u # Lazy /\ u.at = "build" /\ u.task = w.task /\ u.todo = w.todo
                           /\ u.fresh = w.fresh /\ OthersStay(r)
    BY <1>1, <1>2, <1>5, <2>1, RunToFields
  <2>3. Head(w.todo).branch = w.task.branch
    BY <2>1 DEF DueConfiguration
  <2>4. GoesThrough(u)
    BY <1>3, <2>2, <2>3 DEF GoesThrough
  <2>5. ASSUME NEW o \in Asked, Before(w, o) PROVE Before(u, o) \/ Releasing(u, o)
    <3>1. Comes(w.task, o) /\ o \in ToSet(w.todo)
      BY <1>5, <2>1, <2>5 DEF Before, Ahead
    <3>2. o = Head(w.todo) \/ o \in ToSet(Tail(w.todo))
      BY <1>3, <2>1, <3>1, ToSetOfSeq
    <3>3. QED
      BY <1>3, <1>5, <2>2, <3>1, <3>2 DEF Before, Ahead, Releasing, IsAt
  <2>6. QED
    BY <2>2, <2>4, <2>5
<1>11. QED
  BY <1>7, <1>8, <1>9, <1>10

\* Where a handler with the lock goes that changes nothing in the repository but issues and tags.
LEMMA LockedGoesOn ==
  ASSUME ReleaseTyped, InTurn, NEW r \in Runner,
         BuildManifest(r) \/ TagPullRequest(r) \/ ReportConfigError(r) \/ ReleaseRunLock(r)
  PROVE  \E u \in RunOf : /\ runner'[r] = u /\ u # Lazy /\ u.task = runner[r].task /\ OthersStay(r)
                          /\ GoesThrough(u) /\ GoesOn(runner[r], u)
<1>1. AtLocked(r) /\ runner[r] # Lazy /\ runner[r].todo # <<>>
  BY DEF BuildManifest, TagPullRequest, ReportConfigError, ReleaseRunLock, RunAt, AtLocked, Locked, ReleaseTyped,
         RunnersTyped, RunIsSound
<1>2. PICK w \in RunOf : w = runner[r]
  BY <1>1, RunTyped
<1>3. /\ w # Lazy /\ w.at \in Locked /\ w.todo \in Seq(BranchOptions) /\ w.todo # <<>>
      /\ ToSet(w.todo) \subseteq ToSet(FindBranchConfiguration(w.task.branch, releaseConfig))
      /\ Head(w.todo).branch = w.task.branch
  BY <1>1, <1>2, RunTyped DEF InTurn, GoesThrough, AtLocked
<1>4. /\ Locked \subseteq RunAts /\ "next" \in RunAts \ Locked /\ "swap" \notin Locked
      /\ Locked \cap {"unlabel", "config", "next"} = {} /\ {"build", "release", "propose", "report", "unlock"} \subseteq Locked
  BY DEF RunAts, Locked
\* The handler stays at its configuration.
<1>5. ASSUME NEW u \in RunOf, runner'[r] = u, u # Lazy, u.at \in Locked, u.task = w.task, u.todo = w.todo, OthersStay(r),
             \A o \in Asked : IsAt(w, o) => /\ Releasing(w, o) => Releasing(u, o)
                                            /\ Labelling(w, o) => Labelling(u, o)
                                            /\ Proposing(w, o) /\ ~o.options.onDemand => Proposing(u, o)
      PROVE  \E v \in RunOf : /\ runner'[r] = v /\ v # Lazy /\ v.task = runner[r].task /\ OthersStay(r)
                              /\ GoesThrough(v) /\ GoesOn(runner[r], v)
  <2>1. GoesThrough(u)
    BY <1>3, <1>4, <1>5 DEF GoesThrough
  <2>2. \A o \in Asked : Before(w, o) => Before(u, o)
    BY <1>3, <1>4, <1>5 DEF Before, Ahead
  <2>3. \A o \in Asked : (Releasing(w, o) \/ Labelling(w, o) \/ Proposing(w, o)) => IsAt(w, o)
    BY DEF Releasing, Labelling, Proposing
  <2>4. GoesOn(w, u)
    BY <1>5, <2>2, <2>3 DEF GoesOn
  <2>5. QED
    BY <1>2, <1>5, <2>1, <2>4
\* ... and only its place changes.
<1>6. ASSUME NEW a \in Locked, RunTo(r, a),
             \A o \in Asked : IsAt(w, o) => /\ Releasing(w, o) => a = "release"
                                            /\ ~Labelling(w, o)
                                            /\ Proposing(w, o) /\ ~o.options.onDemand => a \notin {"unlock", "report"}
      PROVE  \E v \in RunOf : /\ runner'[r] = v /\ v # Lazy /\ v.task = runner[r].task /\ OthersStay(r)
                              /\ GoesThrough(v) /\ GoesOn(runner[r], v)
  <2>1. PICK u \in RunOf : /\ runner'[r] = u /\ u # Lazy /\ u.at = a /\ u.task = w.task /\ u.todo = w.todo
                           /\ u.fresh = w.fresh /\ OthersStay(r)
    BY <1>1, <1>2, <1>4, <1>6, RunToFields
  <2>2. \A o \in Asked : IsAt(w, o) => IsAt(u, o)
    BY <2>1 DEF IsAt
  <2>3. \A o \in Asked : IsAt(w, o) => /\ Releasing(w, o) => Releasing(u, o)
                                       /\ Labelling(w, o) => Labelling(u, o)
                                       /\ Proposing(w, o) /\ ~o.options.onDemand => Proposing(u, o)
    BY <1>6, <2>1, <2>2 DEF Releasing, Proposing
  <2>4. QED
    BY <1>5, <2>1, <2>3
<1>7. \A o \in Asked : IsAt(w, o) => Head(w.todo) = o /\ o = Current(r) /\ o.options.ok /\ o.options.release
  BY <1>2 DEF IsAt, Current, Asked
<1>8. CASE BuildManifest(r)
  <2>1. w.at = "build"
    BY <1>2, <1>8 DEF BuildManifest, RunAt
  <2>2. \A o \in Asked : ~Labelling(w, o)
    BY <2>1 DEF Labelling
  <2>3. CASE ~Current(r).options.release /\ RunTo(r, "unlock")
    <3>1. \A o \in Asked : ~IsAt(w, o)
      BY <1>7, <2>3
    <3>2. QED
      BY <1>4, <1>6, <2>3, <3>1
  <2>4. CASE ~Current(r).options.ok /\ RunTo(r, "report")
    <3>1. \A o \in Asked : ~IsAt(w, o)
      BY <1>7, <2>4
    <3>2. QED
      BY <1>4, <1>6, <2>4, <3>1
  <2>5. CASE RunSet(r, [[runner[r] EXCEPT !.from = LatestRelease(ComponentOf(Current(r))), !.fresh = TRUE]
                          EXCEPT !.at = IF Current(r).options.release /\ ~runner[r].fresh THEN "release" ELSE "propose"])
    <3>1. PICK m \in Nat : m = LatestRelease(ComponentOf(Current(r)))
      BY LatestReachesFurthest DEF ReleaseTyped
    <3>2. PICK a \in {"release", "propose"} : a = IF Current(r).options.release /\ ~runner[r].fresh THEN "release" ELSE "propose"
      OBVIOUS
    <3>3. PICK f \in BOOLEAN : f = TRUE
      OBVIOUS
    <3>4. PICK u : u = [[w EXCEPT !.from = m, !.fresh = f] EXCEPT !.at = a]
      OBVIOUS
    <3>5. u \in RunOf /\ u.at = a /\ u.task = w.task /\ u.todo = w.todo
      <4>1. a \in RunAts
        BY <1>4
      <4>2. QED
        BY <1>2, <3>1, <3>4, <4>1 DEF RunOf
    <3>6. runner'[r] = u /\ OthersStay(r)
      <4>1. RunSet(r, u)
        BY <1>2, <2>5, <3>1, <3>2, <3>3, <3>4
      <4>2. QED
        BY <4>1, RunSetFields
    <3>7. u # Lazy /\ u.at \in Locked
      BY <1>4, <3>5, NotLazy
    <3>8. \A o \in Asked : IsAt(w, o) => /\ Releasing(w, o) => Releasing(u, o)
                                         /\ Labelling(w, o) => Labelling(u, o)
                                         /\ Proposing(w, o) /\ ~o.options.onDemand => Proposing(u, o)
      <4>1. \A o \in Asked : IsAt(w, o) => IsAt(u, o)
        BY <3>5, <3>7 DEF IsAt
      <4>2. \A o \in Asked : IsAt(w, o) /\ Releasing(w, o) => u.at = "release"
        BY <1>2, <1>7, <2>1, <3>2, <3>5 DEF Releasing
      <4>3. QED
        BY <2>2, <3>5, <4>1, <4>2 DEF Releasing, Proposing
    <3>9. QED
      BY <1>5, <3>5, <3>6, <3>7, <3>8
  <2>6. QED
    BY <1>8, <2>3, <2>4, <2>5 DEF BuildManifest
<1>9. CASE TagPullRequest(r)
  <2>1. w.at = "tag"
    BY <1>2, <1>9 DEF TagPullRequest, RunAt
  <2>2. \A o \in Asked : ~Labelling(w, o) /\ ~Releasing(w, o)
    BY <2>1 DEF Labelling, Releasing
  <2>3. CASE runner' = runner
    <3>1. runner'[r] = w /\ OthersStay(r)
      BY <1>2, <2>3 DEF OthersStay
    <3>2. QED
      BY <1>3, <1>5, <3>1
  <2>4. CASE RunTo(r, AfterReleases(r))
    <3>1. PICK a \in Locked : a = AfterReleases(r) /\ (a = "unlock" => SkipsPullRequest(r)) /\ a # "report"
      BY <1>4 DEF AfterReleases
    <3>2. \A o \in Asked : IsAt(w, o) /\ ~o.options.onDemand => ~SkipsPullRequest(r)
      BY <1>7 DEF SkipsPullRequest
    <3>3. QED
      BY <1>6, <2>2, <2>4, <3>1, <3>2
  <2>5. QED
    BY <1>9, <2>3, <2>4 DEF TagPullRequest
<1>10. CASE ReportConfigError(r)
  <2>1. w.at = "report" /\ RunTo(r, "unlock")
    BY <1>2, <1>10 DEF ReportConfigError, RunAt
  <2>2. \A o \in Asked : ~Labelling(w, o) /\ ~Releasing(w, o) /\ ~Proposing(w, o)
    BY <2>1 DEF Labelling, Releasing, Proposing
  <2>3. QED
    BY <1>4, <1>6, <2>1, <2>2
<1>11. CASE ReleaseRunLock(r)
  <2>1. w.at = "unlock"
    BY <1>2, <1>11 DEF ReleaseRunLock, RunAt
  <2>2. PICK todo \in Seq(BranchOptions) : todo = Tail(w.todo)
    BY <1>3, HeadTailProperties
  <2>3. PICK f \in BOOLEAN : f = FALSE
    OBVIOUS
  <2>4. PICK u : u = [w EXCEPT !.at = "next", !.todo = todo, !.made = {}, !.fresh = f]
    OBVIOUS
  <2>5. u \in RunOf /\ u.at = "next" /\ u.task = w.task /\ u.todo = todo /\ u.fresh = f
    <3>1. {} \in SUBSET Nat
      OBVIOUS
    <3>2. QED
      BY <1>2, <1>4, <2>4, <3>1 DEF RunOf
  <2>6. runner'[r] = u /\ OthersStay(r)
    <3>1. RunSet(r, u)
      BY <1>2, <1>11, <2>2, <2>3, <2>4 DEF ReleaseRunLock
    <3>2. QED
      BY <3>1, RunSetFields
  <2>7. GoesThrough(u)
    <3>1. ToSet(todo) \subseteq ToSet(w.todo)
      BY <1>3, <2>2, ToSetOfSeq
    <3>2. QED
      BY <1>3, <1>4, <2>3, <2>5, <3>1 DEF GoesThrough
  <2>8. \A o \in Asked : ~Labelling(w, o) /\ ~Releasing(w, o) /\ ~Proposing(w, o)
    BY <2>1 DEF Labelling, Releasing, Proposing
  <2>9. \A o \in Asked : Before(w, o) => Before(u, o)
    BY <1>4, <2>1, <2>2, <2>5, NotLazy DEF Before, Ahead
  <2>10. QED
    BY <1>2, <2>5, <2>6, <2>7, <2>8, <2>9, NotLazy DEF GoesOn
<1>12. QED
  BY <1>8, <1>9, <1>10, <1>11

\* A step of the handler r passes on what is to be done: who is before a configuration stays
\* so, comes to it, or hands the task back.
PassesOn(r) ==
  /\ OthersStay(r)
  /\ \A o \in Asked :
       /\ TaskFor(o) \/ Before(runner[r], o) => (\E t \in runs' : Comes(t, o)) \/ Before(runner'[r], o) \/ Releasing(runner'[r], o)
       /\ Releasing(runner[r], o) => (\E t \in runs' : Comes(t, o)) \/ Releasing(runner'[r], o)
       /\ Labelling(runner[r], o) => (\E t \in runs' : Comes(t, o)) \/ Labelling(runner'[r], o)
       /\ Proposing(runner[r], o) /\ ~o.options.onDemand => (\E t \in runs' : Comes(t, o)) \/ Proposing(runner'[r], o)

\* Which configurations are asked for depends on the configuration alone.
LEMMA AskedStay ==
  ASSUME UNCHANGED releaseConfig
  PROVE  Asked' = Asked /\ Configured' = Configured
BY DEF Asked, Configured

\* What is about to make the releases is about to propose.
LEMMA ReleasingProposes ==
  ASSUME NEW s, NEW o
  PROVE  /\ Releasing(s, o) => Proposing(s, o) /\ IsAt(s, o)
         /\ Labelling(s, o) => Proposing(s, o) /\ IsAt(s, o)
BY DEF Releasing, Labelling, Proposing

\* A pull request that was merged is released as before, or whoever comes to it passes it on.
LEMMA ReleasesPass ==
  ASSUME MergedAreReleased, NEW r \in Runner, OthersStay(r), UNCHANGED <<releaseConfig, releases>>,
         \A i \in DOMAIN pulls' : pulls'[i].state = "merged" =>
           /\ i \in DOMAIN pulls /\ pulls[i].state = "merged" /\ pulls[i].of = pulls'[i].of
           /\ "pending" \in pulls'[i].labels => "pending" \in pulls[i].labels,
         \A o \in Asked :
           /\ TaskFor(o) \/ Before(runner[r], o) => (\E t \in runs' : Comes(t, o)) \/ Before(runner'[r], o) \/ Releasing(runner'[r], o)
           /\ Releasing(runner[r], o) => (\E t \in runs' : Comes(t, o)) \/ Releasing(runner'[r], o)
           /\ Labelling(runner[r], o) => (\E t \in runs' : Comes(t, o)) \/ Labelling(runner'[r], o)
  PROVE  MergedAreReleased'
<1>1. Asked' = Asked /\ \A q \in Runner \ {r} : runner'[q] = runner[q]
  BY AskedStay DEF OthersStay
<1>2. SUFFICES ASSUME NEW o \in Asked, NEW i \in DOMAIN pulls', pulls'[i].of = ComponentOf(o), pulls'[i].state = "merged",
                      ~(i \in releases /\ "pending" \notin pulls'[i].labels)
               PROVE  \/ \E t \in runs' : Comes(t, o)
                      \/ \E q \in Runner : Before(runner'[q], o)
                      \/ \E q \in Runner : Releasing(runner'[q], o) \/ (i \in releases /\ Labelling(runner'[q], o))
  BY <1>1 DEF MergedAreReleased, RunFor, TaskFor
<1>3. i \in DOMAIN pulls /\ pulls[i].state = "merged" /\ pulls[i].of = ComponentOf(o) /\ ~(i \in releases /\ "pending" \notin pulls[i].labels)
  BY <1>2
<1>4. \/ TaskFor(o) \/ \E q \in Runner : Before(runner[q], o)
      \/ \E q \in Runner : Releasing(runner[q], o) \/ (i \in releases /\ Labelling(runner[q], o))
  BY <1>3 DEF MergedAreReleased, RunFor
<1>5. CASE TaskFor(o) \/ \E q \in Runner : Before(runner[q], o)
  BY <1>1, <1>5
<1>6. ASSUME NEW q \in Runner, Releasing(runner[q], o) \/ (i \in releases /\ Labelling(runner[q], o))
      PROVE  \/ \E t \in runs' : Comes(t, o)
             \/ Releasing(runner'[q], o) \/ (i \in releases /\ Labelling(runner'[q], o))
  BY <1>1, <1>6
<1>7. QED
  BY <1>4, <1>5, <1>6

\* A commit is proposed as before, or whoever comes to propose it passes it on.
LEMMA ProposalsPass ==
  ASSUME CommitsAreProposed, NEW r \in Runner, OthersStay(r), UNCHANGED <<releaseConfig, commits>>,
         \A i \in DOMAIN pulls : pulls[i].state \in {"open", "closed"} =>
           /\ i \in DOMAIN pulls' /\ pulls'[i].state = pulls[i].state
           /\ pulls'[i].of = pulls[i].of /\ pulls'[i].upTo = pulls[i].upTo,
         \A o \in Asked : commits[o.branch] > LatestRelease(ComponentOf(o))' => commits[o.branch] > LatestRelease(ComponentOf(o)),
         \A o \in Asked : ~o.options.onDemand =>
           /\ TaskFor(o) \/ Before(runner[r], o) => (\E t \in runs' : Comes(t, o)) \/ Before(runner'[r], o) \/ Releasing(runner'[r], o)
           /\ Proposing(runner[r], o) => (\E t \in runs' : Comes(t, o)) \/ Proposing(runner'[r], o)
  PROVE  CommitsAreProposed'
<1>1. Asked' = Asked /\ \A q \in Runner \ {r} : runner'[q] = runner[q]
  BY AskedStay DEF OthersStay
<1>2. SUFFICES ASSUME NEW o \in Asked, ~o.options.onDemand, commits[o.branch] > LatestRelease(ComponentOf(o))',
                      ~ \E i \in DOMAIN pulls' : /\ pulls'[i].of = ComponentOf(o) /\ pulls'[i].state \in {"open", "closed"}
                                                 /\ pulls'[i].upTo = commits[o.branch]
               PROVE  \/ \E t \in runs' : Comes(t, o)
                      \/ \E q \in Runner : Before(runner'[q], o)
                      \/ \E q \in Runner : Proposing(runner'[q], o)
  BY <1>1 DEF CommitsAreProposed, RunFor, TaskFor
<1>3. commits[o.branch] > LatestRelease(ComponentOf(o))
  BY <1>2
<1>4. ~ \E i \in DOMAIN pulls : /\ pulls[i].of = ComponentOf(o) /\ pulls[i].state \in {"open", "closed"}
                                /\ pulls[i].upTo = commits[o.branch]
  BY <1>2
<1>5. TaskFor(o) \/ (\E q \in Runner : Before(runner[q], o)) \/ \E q \in Runner : Proposing(runner[q], o)
  BY <1>2, <1>3, <1>4 DEF CommitsAreProposed, RunFor
<1>6. CASE TaskFor(o) \/ \E q \in Runner : Before(runner[q], o)
  BY <1>1, <1>2, <1>6, ReleasingProposes
<1>7. ASSUME NEW q \in Runner, Proposing(runner[q], o)
      PROVE  (\E t \in runs' : Comes(t, o)) \/ Proposing(runner'[q], o)
  BY <1>1, <1>2, <1>7
<1>8. QED
  BY <1>5, <1>6, <1>7

\* The latest releases stay when no release is made.
LEMMA LatestStays ==
  ASSUME ReleaseTyped, OnlyLabels, NEW o
  PROVE  LatestRelease(ComponentOf(o))' = LatestRelease(ComponentOf(o))
<1>1. PICK c : c = ComponentOf(o)
  OBVIOUS
<1>2. LatestRelease(c)' = LatestRelease(c)
  BY ReleasedStay DEF OnlyLabels, ReleaseTyped, LibraryTyped
<1>3. QED
  BY <1>1, <1>2

\* A task that is passed on is served.
LEMMA PassesOnServes ==
  ASSUME ReleaseTyped, MergedAreReleased, CommitsAreProposed, NEW r \in Runner, PassesOn(r), OnlyLabels,
         UNCHANGED <<releaseConfig, commits>>,
         \A i \in DOMAIN pulls : pulls[i].state = "merged" /\ "pending" \in pulls'[i].labels => "pending" \in pulls[i].labels
  PROVE  MergedAreReleased' /\ CommitsAreProposed'
<1>1. MergedAreReleased'
  BY ReleasesPass DEF PassesOn, OnlyLabels
<1>2. \A o \in Asked : commits[o.branch] > LatestRelease(ComponentOf(o))' => commits[o.branch] > LatestRelease(ComponentOf(o))
  BY LatestStays
<1>3. CommitsAreProposed'
  BY <1>2, ProposalsPass DEF PassesOn, OnlyLabels
<1>4. QED
  BY <1>1, <1>3

\* Two tasks that differ in how often they were delivered.
Same(t, u) ==
  /\ t.kind = u.kind /\ t.of = u.of /\ t.branch = u.branch /\ t.released = u.released
  /\ t.merged = u.merged /\ t.labels = u.labels

\* No new task on a pull request, so each fits as before.
LEMMA TasksStay ==
  ASSUME ReleaseTyped, TasksFit, \A i \in DOMAIN pulls : pulls'[i].state = pulls[i].state, NEW r \in Runner, OthersStay(r),
         \A t \in runs' : t \in runs \/ (runner[r] # Lazy /\ Same(t, runner[r].task)),
         runner'[r] # Lazy => runner'[r].task \in runs \/ (runner[r] # Lazy /\ runner'[r].task = runner[r].task)
  PROVE  TasksFit'
<1>1. \A t \in runs : OnPull(t) /\ Fits(t)
  BY DEF ReleaseTyped, TasksTyped, TasksFit
<1>2. \A q \in Runner : runner[q] # Lazy => OnPull(runner[q].task) /\ Fits(runner[q].task)
  BY DEF ReleaseTyped, RunnersTyped, RunIsSound, TasksFit
<1>3. ASSUME NEW t, NEW v, OnPull(v), Fits(v), t = v \/ Same(t, v)
      PROVE  /\ t.kind = "closed" /\ ~t.merged => pulls'[t.of].state = "closed"
             /\ t.kind = "reopened" => pulls'[t.of].state = "open"
  BY <1>3 DEF OnPull, Fits, Same
<1>4. ASSUME NEW t \in runs'
      PROVE  /\ t.kind = "closed" /\ ~t.merged => pulls'[t.of].state = "closed"
             /\ t.kind = "reopened" => pulls'[t.of].state = "open"
  <2>1. CASE t \in runs
    BY <1>1, <1>3, <2>1
  <2>2. CASE runner[r] # Lazy /\ Same(t, runner[r].task)
    BY <1>2, <1>3, <2>2
  <2>3. QED
    BY <2>1, <2>2
<1>5. ASSUME NEW q \in Runner, runner'[q] # Lazy
      PROVE  /\ runner'[q].task.kind = "closed" /\ ~runner'[q].task.merged => pulls'[runner'[q].task.of].state = "closed"
             /\ runner'[q].task.kind = "reopened" => pulls'[runner'[q].task.of].state = "open"
  <2>1. \/ runner'[q].task \in runs
        \/ \E p \in Runner : runner[p] # Lazy /\ runner'[q].task = runner[p].task
    BY <1>5 DEF OthersStay
  <2>2. CASE runner'[q].task \in runs
    BY <1>1, <1>3, <2>2
  <2>3. CASE \E p \in Runner : runner[p] # Lazy /\ runner'[q].task = runner[p].task
    BY <1>2, <1>3, <2>3
  <2>4. QED
    BY <2>1, <2>2, <2>3
<1>6. QED
  BY <1>4, <1>5 DEF TasksFit, Fits

\* Who was to swap labels still is.
LEMMA SwapDueStays ==
  ASSUME NEW r \in Runner, OthersStay(r), ~RunAt(r, "swap"),
         \A t \in runs : t \in runs' \/ (t.kind \in {"closed", "reopened"} /\ Relabels(t, t.kind) => RunAt(r, "swap")' /\ runner'[r].task = t)
  PROVE  \A i : \A kind \in {"closed", "reopened"} : SwapDue(i, kind) => SwapDue(i, kind)'
<1>1. SUFFICES ASSUME NEW i, NEW kind \in {"closed", "reopened"}, SwapDue(i, kind)
               PROVE  SwapDue(i, kind)'
  OBVIOUS
<1>2. CASE \E q \in Runner : RunAt(q, "swap") /\ runner[q].task.of = i /\ Relabels(runner[q].task, kind)
  <2>1. PICK q \in Runner : RunAt(q, "swap") /\ runner[q].task.of = i /\ Relabels(runner[q].task, kind)
    BY <1>2
  <2>2. runner'[q] = runner[q]
    BY <2>1 DEF OthersStay
  <2>3. QED
    BY <2>1, <2>2 DEF SwapDue, RunAt
<1>3. ASSUME NEW t \in runs, t.of = i, Relabels(t, kind) PROVE SwapDue(i, kind)'
  <2>1. kind = t.kind
    BY <1>3 DEF Relabels
  <2>2. QED
    BY <1>3, <2>1 DEF SwapDue
<1>4. QED
  BY <1>1, <1>2, <1>3 DEF SwapDue

\* No label changes, and who was to swap them still is.
LEMMA SwapsStay ==
  ASSUME LabelsFollow, UNCHANGED pulls, releases \subseteq releases', NEW r \in Runner, OthersStay(r), ~RunAt(r, "swap"),
         \A t \in runs : t \in runs' \/ (t.kind \in {"closed", "reopened"} /\ Relabels(t, t.kind) => RunAt(r, "swap")' /\ runner'[r].task = t)
  PROVE  LabelsFollow'
BY SwapDueStays DEF LabelsFollow

\* Each handler goes through its configurations as before.
LEMMA InTurnStays ==
  ASSUME InTurn, UNCHANGED releaseConfig, NEW r \in Runner, NEW u, runner'[r] = u, OthersStay(r), GoesThrough(u)
  PROVE  InTurn'
<1>1. ASSUME NEW q \in Runner PROVE GoesThrough(runner[q])'
  <2>1. PICK v : v = runner'[q] /\ GoesThrough(v)
    BY DEF InTurn, OthersStay
  <2>2. GoesThrough(v)'
    BY <2>1 DEF GoesThrough
  <2>3. QED
    BY <2>1, <2>2 DEF GoesThrough
<1>2. QED
  BY <1>1 DEF InTurn

\* A tag that was to be set is set or still to be.
LEMMA TagsStay ==
  ASSUME TagsFollow, UNCHANGED <<releaseConfig, releases>>, \A i \in releases : pulls'[i].of = pulls[i].of,
         ~failed' => ~failed, tags \subseteq tags', NEW r \in Runner, OthersStay(r),
         ~failed' => \A o \in Configured : \A i \in releases :
           o.options.tag /\ pulls[i].of = ComponentOf(o) /\ Tagging(runner[r], o, i) => i \in tags' \/ Tagging(runner'[r], o, i)
  PROVE  TagsFollow'
<1>1. SUFFICES ASSUME ~failed', NEW o \in Configured, NEW i \in releases, o.options.tag, pulls[i].of = ComponentOf(o), i \notin tags'
               PROVE  \E q \in Runner : Tagging(runner'[q], o, i)
  BY AskedStay DEF TagsFollow
<1>2. PICK q \in Runner : Tagging(runner[q], o, i)
  BY <1>1 DEF TagsFollow
<1>3. CASE q = r
  BY <1>1, <1>2, <1>3
<1>4. CASE q # r
  BY <1>2, <1>4 DEF OthersStay
<1>5. QED
  BY <1>3, <1>4

\* A handler goes on with its task.
LEMMA GoingOnServes ==
  ASSUME ReleaseTyped, Served, NEW r \in Runner, runner[r] # Lazy, ~RunAt(r, "swap"), NEW u, runner'[r] = u, u # Lazy,
         u.task = runner[r].task, OthersStay(r), GoesThrough(u), GoesOn(runner[r], u),
         UNCHANGED <<releaseConfig, commits, pulls, releases, runs, failed>>, tags \subseteq tags',
         \A o \in Configured : \A i \in releases : Tagging(runner[r], o, i) => i \in tags' \/ Tagging(u, o, i)
  PROVE  Served'
<1>1. OnlyLabels /\ releases \subseteq DOMAIN pulls
  BY DEF OnlyLabels, ReleaseTyped, LibraryTyped
<1>2. TasksFit'
  BY <1>1, TasksStay DEF Served, OnlyLabels
<1>3. LabelsFollow'
  BY SwapsStay DEF Served
<1>4. InTurn'
  BY InTurnStays DEF Served
<1>5. PassesOn(r)
  BY DEF PassesOn, GoesOn, TaskFor
<1>6. MergedAreReleased' /\ CommitsAreProposed'
  BY <1>1, <1>5, PassesOnServes DEF Served
<1>7. TagsFollow'
  BY <1>1, TagsStay DEF Served, OnlyLabels
<1>8. QED
  BY <1>2, <1>3, <1>4, <1>6, <1>7 DEF Served

\* The steps of a handler that keep its task and change nothing but issues and tags.
LEMMA KeptTaskServes ==
  ASSUME ReleaseTyped, Served, NEW r \in Runner,
         \/ RemoveForceLabel(r) \/ ReadReleaseConfig(r) \/ SkipConfiguration(r) \/ AcquireRunLock(r)
         \/ BuildManifest(r) \/ TagPullRequest(r) \/ ReportConfigError(r) \/ ReleaseRunLock(r)
  PROVE  Served'
<1>1. /\ runner[r] # Lazy /\ ~RunAt(r, "swap")
      /\ UNCHANGED <<releaseConfig, commits, pulls, releases, runs, failed>>
      /\ tags \subseteq tags'
  BY DEF RemoveForceLabel, ReadReleaseConfig, SkipConfiguration, AcquireRunLock, MustLock, BuildManifest, TagPullRequest,
         ReportConfigError, ReleaseRunLock, RunAt, Own, HistoryKept, libraryVars
<1>2. PICK u \in RunOf : /\ runner'[r] = u /\ u # Lazy /\ u.task = runner[r].task /\ OthersStay(r)
                         /\ GoesThrough(u) /\ GoesOn(runner[r], u)
  BY UnlockedGoesOn, LockedGoesOn DEF Served
<1>3. ASSUME NEW o, NEW i, Tagging(runner[r], o, i)
      PROVE  i \in tags' \/ Tagging(u, o, i)
  <2>1. runner[r].at \in {"label", "tag"} /\ i \in runner[r].made
    BY <1>3 DEF Tagging
  <2>2. TagPullRequest(r)
    BY <2>1 DEF RemoveForceLabel, ReadReleaseConfig, SkipConfiguration, AcquireRunLock, MustLock, BuildManifest,
                ReportConfigError, ReleaseRunLock, RunAt
  <2>3. CASE runner[r].made \ tags = {}
    BY <1>1, <2>1, <2>3
  <2>4. CASE runner[r].made \ tags # {}
    <3>1. UNCHANGED runner
      BY <2>2, <2>4 DEF TagPullRequest
    <3>2. QED
      BY <1>2, <1>3, <3>1
  <2>5. QED
    BY <2>3, <2>4
<1>4. QED
  BY <1>1, <1>2, <1>3, GoingOnServes

\* A handler takes a task.
LEMMA TakeRunServes ==
  ASSUME ReleaseTyped, Served, NEW r \in Runner, NEW t \in runs, TakeRun(r, t)
  PROVE  Served'
<1>1. t \in RunTasks /\ runner[r] = Lazy
  BY DEF ReleaseTyped, TasksTyped, TakeRun
<1>2. PICK a \in {"config", "unlabel", "swap", "end"} :
        /\ RunSet(r, [at |-> a, task |-> t, todo |-> <<>>, from |-> 0, made |-> {}, fresh |-> FALSE])
        /\ t.kind = "push" => a = "config"
        /\ t.kind = "labeled" => a = "unlabel"
        /\ t.kind \in {"closed", "reopened"} => (a = "swap" <=> Relabels(t, t.kind))
        /\ a = "swap" => t.kind \in {"closed", "reopened"}
  <2>1. t.kind \in {"push", "labeled", "closed", "reopened"}
    BY <1>1 DEF RunTasks
  <2>2. CASE t.kind = "push"
    BY <2>2 DEF TakeRun
  <2>3. CASE t.kind = "labeled"
    BY <2>3 DEF TakeRun
  <2>4. CASE t.kind = "closed"
    BY <2>4 DEF TakeRun, Relabels
  <2>5. CASE t.kind = "reopened"
    BY <2>5 DEF TakeRun, Relabels
  <2>6. QED
    BY <2>1, <2>2, <2>3, <2>4, <2>5
<1>3. PICK f \in BOOLEAN : f = FALSE
  OBVIOUS
<1>4. PICK u : u = [at |-> a, task |-> t, todo |-> <<>>, from |-> 0, made |-> {}, fresh |-> f]
  OBVIOUS
<1>5. u \in RunOf /\ u.at = a /\ u.task = t /\ u.todo = <<>> /\ u.fresh = f
  <2>1. a \in RunAts /\ <<>> \in Seq(BranchOptions) /\ {} \in SUBSET Nat /\ 0 \in Nat
    BY DEF RunAts
  <2>2. QED
    BY <1>1, <1>4, <2>1 DEF RunOf
<1>6. u # Lazy /\ u.at \notin Locked
  BY <1>5, NotLazy DEF Locked
<1>7. runner'[r] = u /\ OthersStay(r)
  BY <1>2, <1>3, <1>4, RunSetFields
<1>8. UNCHANGED <<releaseConfig, commits, pulls, releases, tags, failed>> /\ runs' = runs \ {t}
  BY DEF TakeRun, libraryVars, HistoryKept
<1>9. OnlyLabels /\ releases \subseteq DOMAIN pulls
  BY <1>8 DEF OnlyLabels, ReleaseTyped, LibraryTyped
<1>10. TasksFit'
  BY <1>1, <1>5, <1>7, <1>8, <1>9, TasksStay DEF Served, OnlyLabels
<1>11. LabelsFollow'
  <2>1. ~RunAt(r, "swap")
    BY <1>1 DEF RunAt
  <2>2. t.kind \in {"closed", "reopened"} /\ Relabels(t, t.kind) => RunAt(r, "swap")' /\ runner'[r].task = t
    BY <1>2, <1>5, <1>6, <1>7 DEF RunAt
  <2>3. QED
    BY <1>7, <1>8, <2>1, <2>2, SwapsStay DEF Served
<1>12. InTurn'
  <2>1. ToSet(u.todo) = {}
    BY <1>5 DEF ToSet
  <2>2. GoesThrough(u)
    BY <1>2, <1>3, <1>5, <1>6, <2>1 DEF GoesThrough
  <2>3. QED
    BY <1>7, <1>8, <2>2, InTurnStays DEF Served
<1>13. PassesOn(r)
  <2>1. \A o : ~Before(runner[r], o) /\ ~Releasing(runner[r], o) /\ ~Labelling(runner[r], o) /\ ~Proposing(runner[r], o)
    BY <1>1 DEF Before, Releasing, Labelling, Proposing, IsAt
  <2>2. ASSUME NEW o \in Asked, TaskFor(o) PROVE (\E v \in runs' : Comes(v, o)) \/ Before(runner'[r], o)
    <3>1. PICK v \in runs : Comes(v, o)
      BY <2>2 DEF TaskFor
    <3>2. CASE v = t
      <4>1. a \in {"config", "unlabel"}
        BY <1>2, <3>1, <3>2 DEF Comes
      <4>2. QED
        BY <1>5, <1>6, <1>7, <3>1, <3>2, <4>1 DEF Before, Ahead
    <3>3. CASE v # t
      BY <1>8, <3>1, <3>3
    <3>4. QED
      BY <3>2, <3>3
  <2>3. QED
    BY <1>7, <2>1, <2>2 DEF PassesOn
<1>14. MergedAreReleased' /\ CommitsAreProposed'
  BY <1>8, <1>9, <1>13, PassesOnServes DEF Served
<1>15. TagsFollow'
  <2>1. \A o, i : ~Tagging(runner[r], o, i)
    BY <1>1 DEF Tagging
  <2>2. QED
    BY <1>7, <1>8, <1>9, <2>1, TagsStay DEF Served, OnlyLabels
<1>16. QED
  BY <1>10, <1>11, <1>12, <1>14, <1>15 DEF Served

\* A handler that ends its task has nothing before it.
LEMMA EndRunServes ==
  ASSUME ReleaseTyped, Served, NEW r \in Runner, EndRun(r)
  PROVE  Served'
<1>1. /\ runner[r] # Lazy /\ runner[r].at \in {"end", "next"} /\ (runner[r].at = "next" => runner[r].todo = <<>>)
      /\ RunSet(r, Lazy) /\ UNCHANGED <<releaseConfig, commits, pulls, releases, tags, runs, failed>>
  BY DEF EndRun, RunAt, Own, HistoryKept, libraryVars
<1>2. runner'[r] = Lazy /\ OthersStay(r)
  BY <1>1, RunSetFields
<1>3. OnlyLabels /\ releases \subseteq DOMAIN pulls
  BY <1>1 DEF OnlyLabels, ReleaseTyped, LibraryTyped
<1>4. TasksFit'
  BY <1>1, <1>2, <1>3, TasksStay DEF Served, OnlyLabels
<1>5. LabelsFollow'
  <2>1. ~RunAt(r, "swap")
    BY <1>1 DEF RunAt
  <2>2. QED
    BY <1>1, <1>2, <2>1, SwapsStay DEF Served
<1>6. InTurn'
  <2>1. GoesThrough(Lazy)
    BY DEF GoesThrough
  <2>2. QED
    BY <1>1, <1>2, <2>1, InTurnStays DEF Served
<1>7. PassesOn(r)
  <2>1. \A o : ~Releasing(runner[r], o) /\ ~Labelling(runner[r], o) /\ ~Proposing(runner[r], o)
    BY <1>1 DEF Releasing, Labelling, Proposing, IsAt, Locked
  <2>2. \A o : ~Before(runner[r], o)
    <3>1. ToSet(<<>>) = {}
      BY DEF ToSet
    <3>2. QED
      BY <1>1, <3>1 DEF Before, Ahead, Locked
  <2>3. QED
    BY <1>1, <1>2, <2>1, <2>2 DEF PassesOn, TaskFor
<1>8. MergedAreReleased' /\ CommitsAreProposed'
  BY <1>1, <1>3, <1>7, PassesOnServes DEF Served
<1>9. TagsFollow'
  <2>1. \A o, i : ~Tagging(runner[r], o, i)
    BY <1>1 DEF Tagging
  <2>2. QED
    BY <1>1, <1>2, <1>3, <2>1, TagsStay DEF Served, OnlyLabels
<1>10. QED
  BY <1>4, <1>5, <1>6, <1>8, <1>9 DEF Served

\* Two tasks that differ in their deliveries alone come to the same configurations.
LEMMA SameComes ==
  ASSUME NEW t, NEW u, Same(t, u)
  PROVE  (\A o : Comes(u, o) => Comes(t, o)) /\ (\A kind : Relabels(u, kind) => Relabels(t, kind)) /\ t.of = u.of
BY DEF Same, Comes, DueConfiguration, Relabels

\* A task that is not given up is there again.
LEMMA RetriedGives ==
  ASSUME ReleaseTyped, NEW r \in Runner, runner[r] # Lazy, Retried(r), ~abandoned'
  PROVE  runner'[r] = Lazy /\ OthersStay(r) /\ \E v : Same(v, runner[r].task) /\ runs' = runs \cup {v}
<1>1. RunSet(r, Lazy)
  BY DEF Retried
<1>2. PICK t \in RunTasks : t = runner[r].task
  BY RunTyped
<1>3. PICK n \in Nat : n = t.tries
  BY <1>2 DEF RunTasks
<1>4. PICK v : v = [t EXCEPT !.tries = n + 1]
  OBVIOUS
<1>5. Same(v, t)
  BY <1>2, <1>4 DEF RunTasks, Same
<1>6. [t EXCEPT !.tries = @ + 1] = v
  BY <1>3, <1>4
<1>7. runs' = runs \cup {v}
  BY <1>2, <1>6 DEF Retried
<1>8. QED
  BY <1>1, <1>2, <1>5, <1>7, RunSetFields

\* A task that is delivered again is served, whatever was failing.
LEMMA RetriedServes ==
  ASSUME ReleaseTyped, Served, NEW r \in Runner, runner[r] # Lazy, Retried(r), ~abandoned',
         UNCHANGED <<releaseConfig, commits, releases, tags>>, OnlyLabels, ~failed' => ~failed,
         \A i \in DOMAIN pulls : pulls[i].state = "merged" /\ "pending" \in pulls'[i].labels => "pending" \in pulls[i].labels,
         LabelsFollow',
         ~failed' => runner[r].at \notin {"label", "tag"}
  PROVE  Served'
<1>1. PICK v : Same(v, runner[r].task) /\ runs' = runs \cup {v}
  BY RetriedGives
<1>2. runner'[r] = Lazy /\ OthersStay(r)
  BY RetriedGives
<1>3. TasksFit'
  BY <1>1, <1>2, TasksStay DEF Served, OnlyLabels
<1>4. InTurn'
  <2>1. GoesThrough(Lazy)
    BY DEF GoesThrough
  <2>2. QED
    BY <1>2, <2>1, InTurnStays DEF Served
<1>5. PassesOn(r)
  <2>1. ASSUME NEW o, Before(runner[r], o) \/ Releasing(runner[r], o) \/ Labelling(runner[r], o) \/ Proposing(runner[r], o)
        PROVE  \E t \in runs' : Comes(t, o)
    <3>1. Comes(runner[r].task, o)
      BY <2>1 DEF Before, Releasing, Labelling, Proposing, IsAt
    <3>2. QED
      BY <1>1, <3>1, SameComes
  <2>2. QED
    BY <1>1, <1>2, <2>1 DEF PassesOn, TaskFor
<1>6. MergedAreReleased' /\ CommitsAreProposed'
  BY <1>5, PassesOnServes DEF Served
<1>7. TagsFollow'
  <2>1. ~failed' => \A o, i : ~Tagging(runner[r], o, i)
    BY DEF Tagging
  <2>2. releases \subseteq DOMAIN pulls
    BY DEF ReleaseTyped, LibraryTyped
  <2>3. QED
    BY <1>2, <2>1, <2>2, TagsStay DEF Served, OnlyLabels
<1>8. QED
  BY <1>3, <1>4, <1>6, <1>7 DEF Served

\* A handler swaps a label, or one of its two calls fails: the label says the state, or the task
\* is there again that will see to it.
LEMMA RelabelledFollows ==
  ASSUME ReleaseTyped, Served, NEW r \in Runner, RunAt(r, "swap"),
         NEW gone \in SUBSET {OldLabel(r)}, NEW put \in SUBSET {NewLabel(r)},
         pulls' = Relabelled(r, gone, put), UNCHANGED <<commits, releases>>, OthersStay(r), runs \subseteq runs',
         put = {NewLabel(r)} \/ \E v \in runs' : Same(v, runner[r].task)
  PROVE  /\ LabelsFollow' /\ OnlyLabels
         /\ \A i \in DOMAIN pulls : pulls[i].state = "merged" /\ "pending" \in pulls'[i].labels => "pending" \in pulls[i].labels
<1>1. /\ runner[r] # Lazy /\ runner[r].task.kind \in {"closed", "reopened"} /\ runner[r].task.of \in DOMAIN pulls
      /\ Relabels(runner[r].task, runner[r].task.kind)
  BY RunTyped DEF RunAt, ReleaseTyped, RunnersTyped, RunIsSound, OnPull, Served, InTurn, GoesThrough
<1>2. PICK n \in DOMAIN pulls : n = runner[r].task.of
  BY <1>1
<1>3. PICK kind \in {"closed", "reopened"} : kind = runner[r].task.kind
  BY <1>1
<1>4. pulls[n].state = IF kind = "closed" THEN "closed" ELSE "open"
  <2>1. Fits(runner[r].task)
    BY <1>1 DEF Served, TasksFit
  <2>2. QED
    BY <1>1, <1>2, <1>3, <2>1 DEF Fits, Relabels
<1>5. gone \in SUBSET PullLabels
  BY DEF OldLabel, PullLabels
<1>6. OnlyLabels
  BY <1>5, RelabelledTyped
<1>7. /\ \A i \in DOMAIN pulls : i # n => pulls'[i] = pulls[i]
      /\ put \subseteq pulls'[n].labels
  <2>1. LibraryTyped /\ pulls \in Seq(PullOf)
    BY DEF ReleaseTyped, LibraryTyped
  <2>2. PICK p \in PullOf : p = pulls[n]
    BY <2>1, PullTyped
  <2>3. PICK labels \in SUBSET PullLabels : labels = (p.labels \ gone) \cup put
    BY <2>2 DEF PullOf, PullLabels, NewLabel
  <2>4. PICK q : q = [p EXCEPT !.labels = labels]
    OBVIOUS
  <2>5. q \in PullOf /\ q.labels = labels
    BY <2>2, <2>4 DEF PullOf
  <2>6. pulls' = [pulls EXCEPT ![n] = q]
    BY <1>2, <2>2, <2>3, <2>4 DEF Relabelled
  <2>7. pulls'[n] = q /\ \A i \in DOMAIN pulls : i # n => pulls'[i] = pulls[i]
    BY <2>1, <2>5, <2>6, ExceptSeq
  <2>8. QED
    BY <2>3, <2>5, <2>7
<1>8. ASSUME NEW i, NEW k, SwapDue(i, k), i # n PROVE SwapDue(i, k)'
  <2>1. CASE \E t \in runs : t.of = i /\ Relabels(t, k)
    BY <2>1 DEF SwapDue
  <2>2. ASSUME NEW q \in Runner, RunAt(q, "swap"), runner[q].task.of = i, Relabels(runner[q].task, k)
        PROVE  SwapDue(i, k)'
    <3>1. runner'[q] = runner[q]
      BY <1>2, <1>8, <2>2 DEF OthersStay
    <3>2. QED
      BY <2>2, <3>1 DEF SwapDue, RunAt
  <2>3. QED
    BY <1>8, <2>1, <2>2 DEF SwapDue
<1>9. NewLabel(r) \in pulls'[n].labels \/ SwapDue(n, kind)'
  <2>1. ASSUME NEW v \in runs', Same(v, runner[r].task) PROVE SwapDue(n, kind)'
    <3>1. v.of = n /\ Relabels(v, kind)
      BY <1>1, <1>2, <1>3, <2>1, SameComes
    <3>2. QED
      BY <3>1 DEF SwapDue
  <2>2. QED
    BY <1>7, <2>1
<1>10. NewLabel(r) = IF kind = "closed" THEN "closed" ELSE "pending"
  BY <1>3 DEF NewLabel
<1>11. LabelsFollow'
  <2>1. SUFFICES ASSUME NEW i \in DOMAIN pulls
                 PROVE  /\ pulls[i].state = "closed" => "closed"  \in pulls'[i].labels \/ SwapDue(i, "closed")'
                        /\ pulls[i].state = "open"   => "pending" \in pulls'[i].labels \/ SwapDue(i, "reopened")'
                        /\ pulls[i].state = "merged" => "pending" \in pulls'[i].labels \/ i \in releases
    BY <1>6 DEF LabelsFollow, OnlyLabels
  <2>2. CASE i = n
    BY <1>4, <1>9, <1>10, <2>2
  <2>3. CASE i # n
    BY <1>7, <1>8, <2>3 DEF Served, LabelsFollow
  <2>4. QED
    BY <2>2, <2>3
<1>12. QED
  BY <1>4, <1>6, <1>7, <1>11

\* A task fails, or the lock is not free.
LEMMA FailuresServe ==
  ASSUME ReleaseTyped, Served, NEW r \in Runner, ~abandoned',
         LockTimesOut(r) \/ RunFails(r) \/ SwapFails(r) \/ SwapRefused(r)
  PROVE  Served'
<1>1. /\ runner[r] # Lazy /\ Retried(r) /\ UNCHANGED <<releaseConfig, commits, releases, tags>>
      /\ ~failed' => ~failed
      /\ ~failed' => runner[r].at \notin {"label", "tag"}
  BY DEF LockTimesOut, MustLock, RunFails, SwapFails, SwapRefused, RunAt, libraryVars
<1>2. OthersStay(r) /\ runs \subseteq runs' /\ \E v \in runs' : Same(v, runner[r].task)
  BY <1>1, RetriedGives
<1>3. /\ LabelsFollow' /\ OnlyLabels
      /\ \A i \in DOMAIN pulls : pulls[i].state = "merged" /\ "pending" \in pulls'[i].labels => "pending" \in pulls[i].labels
  <2>1. CASE LockTimesOut(r) \/ RunFails(r)
    <3>1. UNCHANGED <<pulls, releases>> /\ ~RunAt(r, "swap")
      BY <2>1 DEF LockTimesOut, MustLock, RunFails, RunAt, libraryVars
    <3>2. LabelsFollow'
      BY <1>2, <3>1, SwapsStay DEF Served
    <3>3. QED
      BY <3>1, <3>2 DEF OnlyLabels
  <2>2. CASE SwapFails(r)
    <3>1. PICK gone \in {{OldLabel(r)}, {}}, put \in {{NewLabel(r)}, {}} : pulls' = Relabelled(r, gone, put)
      BY <2>2 DEF SwapFails
    <3>2. gone \in SUBSET {OldLabel(r)} /\ put \in SUBSET {NewLabel(r)} /\ RunAt(r, "swap")
      BY <2>2 DEF SwapFails
    <3>3. QED
      BY <1>1, <1>2, <3>1, <3>2, RelabelledFollows
  <2>3. CASE SwapRefused(r)
    <3>1. pulls' = Relabelled(r, {}, {NewLabel(r)}) /\ RunAt(r, "swap")
      BY <2>3 DEF SwapRefused
    <3>2. QED
      BY <1>1, <1>2, <3>1, RelabelledFollows
  <2>4. QED
    BY <2>1, <2>2, <2>3
<1>4. QED
  BY <1>1, <1>3, RetriedServes

\* The labels are swapped and the task ends.
LEMMA SwapLabelsServes ==
  ASSUME ReleaseTyped, Served, NEW r \in Runner, SwapLabels(r)
  PROVE  Served'
<1>1. /\ RunAt(r, "swap") /\ runner[r] # Lazy /\ pulls' = Relabelled(r, {OldLabel(r)}, {NewLabel(r)}) /\ RunTo(r, "end")
      /\ UNCHANGED <<releaseConfig, commits, releases, tags, runs, failed>>
  BY DEF SwapLabels, RunAt, Own, HistoryKept
<1>2. "end" \in RunAts /\ "end" \notin Locked /\ "swap" \notin Locked
  BY DEF RunAts, Locked
<1>3. PICK u \in RunOf : /\ runner'[r] = u /\ u # Lazy /\ u.at = "end" /\ u.task = runner[r].task /\ u.todo = runner[r].todo
                         /\ OthersStay(r)
  BY <1>1, <1>2, RunToFields
<1>4. /\ LabelsFollow' /\ OnlyLabels
      /\ \A i \in DOMAIN pulls : pulls[i].state = "merged" /\ "pending" \in pulls'[i].labels => "pending" \in pulls[i].labels
  BY <1>1, <1>3, RelabelledFollows
<1>5. TasksFit'
  BY <1>1, <1>3, <1>4, TasksStay DEF Served, OnlyLabels
<1>6. InTurn'
  <2>1. GoesThrough(u)
    BY <1>1, <1>2, <1>3 DEF GoesThrough, Served, InTurn
  <2>2. QED
    BY <1>1, <1>3, <2>1, InTurnStays DEF Served
<1>7. PassesOn(r)
  <2>1. \A o : ~Before(runner[r], o) /\ ~Releasing(runner[r], o) /\ ~Labelling(runner[r], o) /\ ~Proposing(runner[r], o)
    BY <1>1, <1>2 DEF RunAt, Before, Ahead, Releasing, Labelling, Proposing, IsAt
  <2>2. QED
    BY <1>1, <1>3, <2>1 DEF PassesOn, TaskFor
<1>8. MergedAreReleased' /\ CommitsAreProposed'
  BY <1>1, <1>4, <1>7, PassesOnServes DEF Served
<1>9. TagsFollow'
  <2>1. \A o, i : ~Tagging(runner[r], o, i)
    BY <1>1 DEF RunAt, Tagging
  <2>2. releases \subseteq DOMAIN pulls
    BY DEF ReleaseTyped, LibraryTyped
  <2>3. QED
    BY <1>1, <1>3, <1>4, <2>1, <2>2, TagsStay DEF Served, OnlyLabels
<1>10. QED
  BY <1>4, <1>5, <1>6, <1>8, <1>9 DEF Served

\* More releases reach as far.
LEMMA FurthestGrows ==
  ASSUME NEW N \in SUBSET Nat, NEW M \in SUBSET N, NEW bound \in Nat, \A n \in N : n <= bound
  PROVE  (IF M = {} THEN 0 ELSE CHOOSE m \in M : \A n \in M : n <= m)
           <= (IF N = {} THEN 0 ELSE CHOOSE m \in N : \A n \in N : n <= m)
<1> DEFINE Furthest(S) == CHOOSE m \in S : \A n \in S : n <= m
<1>1. ASSUME NEW S \in SUBSET N, S # {} PROVE Furthest(S) \in S /\ \A n \in S : n <= Furthest(S)
  <2>1. \E m \in S : \A n \in S : n <= m
    BY <1>1, GreatestExists
  <2>2. QED
    BY <2>1
<1> HIDE DEF Furthest
<1>2. (IF M = {} THEN 0 ELSE Furthest(M)) <= (IF N = {} THEN 0 ELSE Furthest(N))
  <2>1. CASE M = {}
    <3>1. (IF N = {} THEN 0 ELSE Furthest(N)) \in Nat
      BY <1>1
    <3>2. QED
      BY <2>1, <3>1
  <2>2. CASE M # {}
    <3>1. N # {} /\ Furthest(M) \in N /\ Furthest(M) <= Furthest(N)
      BY <1>1, <2>2
    <3>2. QED
      BY <2>2, <3>1
  <2>3. QED
    BY <2>1, <2>2
<1>3. QED
  BY <1>2 DEF Furthest

\* With more releases the latest of a component is no earlier.
LEMMA LatestGrows ==
  ASSUME LibraryTyped, LibraryTyped', UNCHANGED <<commits, pulls>>, releases \subseteq releases', NEW c, c[1] \in Branch
  PROVE  LatestRelease(c) <= LatestRelease(c)' /\ LatestRelease(c) \in Nat /\ LatestRelease(c)' \in Nat
<1>1. PICK M : M = {pulls[i].upTo : i \in {j \in releases : pulls[j].of = c}}
  OBVIOUS
<1>2. PICK N : N = {pulls'[i].upTo : i \in {j \in releases' : pulls'[j].of = c}}
  OBVIOUS
<1>3. PICK bound \in Nat : bound = commits[c[1]]
  BY DEF LibraryTyped
<1>4. N \in SUBSET Nat /\ \A n \in N : n <= bound
  <2>1. releases' \subseteq DOMAIN pulls
    BY DEF LibraryTyped
  <2>2. \A j \in DOMAIN pulls : pulls[j].upTo \in Nat /\ pulls[j].upTo <= commits[pulls[j].of[1]]
    BY PullTyped
  <2>3. QED
    BY <1>2, <1>3, <2>1, <2>2
<1>5. M \in SUBSET N
  BY <1>1, <1>2
<1>6. LatestRelease(c) = IF M = {} THEN 0 ELSE CHOOSE m \in M : \A n \in M : n <= m
  BY <1>1 DEF LatestRelease
<1>7. LatestRelease(c)' = IF N = {} THEN 0 ELSE CHOOSE m \in N : \A n \in N : n <= m
  BY <1>2 DEF LatestRelease
<1>8. LatestRelease(c) <= LatestRelease(c)'
  BY <1>4, <1>5, <1>6, <1>7, FurthestGrows
<1>9. \A S \in SUBSET N : (IF S = {} THEN 0 ELSE CHOOSE m \in S : \A n \in S : n <= m) \in Nat
  <2>1. ASSUME NEW S \in SUBSET N, S # {} PROVE (CHOOSE m \in S : \A n \in S : n <= m) \in Nat
    <3>1. \E m \in S : \A n \in S : n <= m
      BY <1>4, <2>1, GreatestExists
    <3>2. QED
      BY <1>4, <3>1
  <2>2. QED
    BY <2>1
<1>10. QED
  BY <1>5, <1>6, <1>7, <1>8, <1>9

\* The releases of the pull requests that were merged are made; their labels are to be set.
LEMMA CreateReleasesServes ==
  ASSUME ReleaseTyped, Served, NEW r \in Runner, CreateReleases(r)
  PROVE  Served'
<1>1. AtLocked(r) /\ runner[r] # Lazy /\ runner[r].at = "release" /\ ~RunAt(r, "swap")
  BY DEF CreateReleases, RunAt, AtLocked, Locked
<1>2. PICK w \in RunOf : w = runner[r]
  BY <1>1, RunTyped
<1>3. PICK due : due = Untagged(ComponentOf(Head(w.todo)))
  OBVIOUS
<1>4. due \subseteq DOMAIN pulls /\ releases \subseteq DOMAIN pulls /\ DOMAIN pulls \subseteq Nat
  BY <1>3 DEF Untagged, ReleaseTyped, LibraryTyped
<1>5. PICK made \in SUBSET Nat : made = due \ releases
  BY <1>4
<1>6. PICK u : u = [w EXCEPT !.at = "label", !.made = made]
  OBVIOUS
<1>7. "label" \in RunAts /\ "label" \in Locked /\ "release" \in Locked /\ "label" \notin {"swap", "unlabel", "config", "next"}
  BY DEF RunAts, Locked
<1>8. u \in RunOf /\ u # Lazy /\ u.at = "label" /\ u.task = w.task /\ u.todo = w.todo /\ u.made = made
  <2>1. u \in RunOf /\ u.at = "label" /\ u.task = w.task /\ u.todo = w.todo /\ u.made = made
    BY <1>2, <1>6, <1>7 DEF RunOf
  <2>2. QED
    BY <2>1, NotLazy
<1>9. /\ runner'[r] = u /\ OthersStay(r) /\ releases' = releases \cup due
      /\ UNCHANGED <<releaseConfig, commits, pulls, tags, runs, failed>>
  <2>1. RunSet(r, u)
    BY <1>2, <1>3, <1>5, <1>6 DEF CreateReleases, Current
  <2>2. QED
    BY <1>2, <1>3, <2>1, RunSetFields DEF CreateReleases, Current, Own, HistoryKept
<1>10. TasksFit'
  BY <1>1, <1>2, <1>8, <1>9, TasksStay DEF Served
<1>11. LabelsFollow'
  BY <1>1, <1>9, SwapsStay DEF Served
<1>12. InTurn'
  <2>1. GoesThrough(u)
    BY <1>1, <1>2, <1>7, <1>8 DEF GoesThrough, Served, InTurn, AtLocked
  <2>2. QED
    BY <1>8, <1>9, <2>1, InTurnStays DEF Served
<1>13. ASSUME NEW o
       PROVE  /\ Before(w, o) => Before(u, o)
              /\ Proposing(w, o) => Proposing(u, o)
              /\ Releasing(w, o) => Labelling(u, o) /\ ComponentOf(o) = ComponentOf(Head(w.todo))
              /\ ~Labelling(w, o)
  BY <1>1, <1>2, <1>7, <1>8 DEF Before, Ahead, Proposing, Releasing, Labelling, IsAt
<1>14. MergedAreReleased'
  <2>1. SUFFICES ASSUME NEW o \in Asked, NEW i \in DOMAIN pulls, pulls[i].of = ComponentOf(o), pulls[i].state = "merged",
                        ~(i \in releases' /\ "pending" \notin pulls[i].labels)
                 PROVE  \/ \E t \in runs : Comes(t, o)
                        \/ \E q \in Runner : Before(runner'[q], o)
                        \/ \E q \in Runner : Releasing(runner'[q], o) \/ (i \in releases' /\ Labelling(runner'[q], o))
    BY <1>9, AskedStay DEF MergedAreReleased, RunFor, TaskFor
  <2>2. ~(i \in releases /\ "pending" \notin pulls[i].labels)
    BY <1>9, <2>1
  <2>3. \/ TaskFor(o) \/ \E q \in Runner : Before(runner[q], o)
        \/ \E q \in Runner : Releasing(runner[q], o) \/ (i \in releases /\ Labelling(runner[q], o))
    BY <2>1, <2>2 DEF Served, MergedAreReleased, RunFor
  <2>4. CASE TaskFor(o) \/ \E q \in Runner : Before(runner[q], o)
    BY <1>2, <1>9, <1>13, <2>4 DEF OthersStay, TaskFor
  <2>5. ASSUME NEW q \in Runner, Releasing(runner[q], o) \/ (i \in releases /\ Labelling(runner[q], o))
        PROVE  Releasing(runner'[q], o) \/ (i \in releases' /\ Labelling(runner'[q], o))
    <3>1. CASE q = r
      <4>1. Releasing(w, o)
        BY <1>2, <1>13, <2>5, <3>1
      <4>2. Labelling(u, o) /\ ComponentOf(o) = ComponentOf(Head(w.todo))
        BY <1>13, <4>1
      <4>3. i \in releases'
        <5>1. CASE "pending" \in pulls[i].labels
          BY <1>3, <1>9, <2>1, <4>2, <5>1 DEF Untagged
        <5>2. CASE "pending" \notin pulls[i].labels
          BY <1>9, <2>1, <5>2 DEF Served, LabelsFollow
        <5>3. QED
          BY <5>1, <5>2
      <4>4. QED
        BY <1>9, <3>1, <4>2, <4>3
    <3>2. CASE q # r
      BY <1>9, <2>5, <3>2 DEF OthersStay
    <3>3. QED
      BY <3>1, <3>2
  <2>6. QED
    BY <2>3, <2>4, <2>5
<1>15. CommitsAreProposed'
  <2>1. LibraryTyped /\ LibraryTyped'
    BY CreateReleasesKeeps DEF Kept, ReleaseTyped
  <2>2. ASSUME NEW o \in Asked, commits[o.branch] > LatestRelease(ComponentOf(o))'
        PROVE  commits[o.branch] > LatestRelease(ComponentOf(o))
    <3>1. PICK c : c = ComponentOf(o) /\ c[1] \in Branch
      BY ConfiguredTyped DEF Asked
    <3>2. LatestRelease(c) <= LatestRelease(c)' /\ LatestRelease(c) \in Nat /\ LatestRelease(c)' \in Nat
      BY <1>9, <2>1, <3>1, LatestGrows
    <3>3. PICK n \in Nat : n = commits[o.branch]
      BY <2>1, ConfiguredTyped DEF LibraryTyped, Asked
    <3>4. n > LatestRelease(c)'
      BY <2>2, <3>1, <3>3
    <3>5. n > LatestRelease(c)
      BY <3>2, <3>4
    <3>6. QED
      BY <3>1, <3>3, <3>5
  <2>3. QED
    BY <1>2, <1>9, <1>13, <2>2, ProposalsPass DEF Served, TaskFor
<1>16. TagsFollow'
  <2>1. SUFFICES ASSUME ~failed, NEW o \in Configured, NEW i \in releases', o.options.tag, pulls[i].of = ComponentOf(o), i \notin tags
                 PROVE  \E q \in Runner : Tagging(runner'[q], o, i)
    BY <1>9, AskedStay DEF TagsFollow
  <2>2. CASE i \in releases
    <3>1. PICK q \in Runner : Tagging(runner[q], o, i)
      BY <2>1, <2>2 DEF Served, TagsFollow
    <3>2. q # r
      BY <1>1, <3>1 DEF Tagging
    <3>3. QED
      BY <1>9, <3>1, <3>2 DEF OthersStay
  <2>3. CASE i \notin releases
    <3>1. i \in made /\ pulls[i].of = ComponentOf(Head(w.todo))
      BY <1>3, <1>5, <1>9, <2>1, <2>3 DEF Untagged
    <3>2. Tagging(u, o, i)
      BY <1>8, <2>1, <3>1 DEF Tagging
    <3>3. QED
      BY <1>9, <3>2
  <2>4. QED
    BY <2>2, <2>3
<1>17. QED
  BY <1>10, <1>11, <1>12, <1>14, <1>15, <1>16 DEF Served

\* The labels are set right of what was released.
LEMMA LabelReleasesServes ==
  ASSUME ReleaseTyped, Served, AgreeOnTags(releaseConfig), NEW r \in Runner, LabelReleases(r)
  PROVE  Served'
<1>1. AtLocked(r) /\ runner[r] # Lazy /\ runner[r].at = "label" /\ ~RunAt(r, "swap")
  BY DEF LabelReleases, RunAt, AtLocked, Locked
<1>2. PICK w \in RunOf : w = runner[r]
  BY <1>1, RunTyped
<1>3. PICK a \in {"tag", "build", "propose", "unlock"} :
        /\ RunTo(r, a)
        /\ Current(r).options.tag /\ w.made # {} => a = "tag"
        /\ a = "unlock" => SkipsPullRequest(r)
  BY <1>2 DEF LabelReleases, AfterReleases
<1>4. {"tag", "build", "propose", "unlock"} \subseteq Locked /\ Locked \subseteq RunAts /\ "label" \in Locked
      /\ Locked \cap {"swap", "unlabel", "config", "next"} = {}
  BY DEF RunAts, Locked
<1>5. PICK u \in RunOf : /\ runner'[r] = u /\ u # Lazy /\ u.at = a /\ u.task = w.task /\ u.todo = w.todo
                         /\ u.made = w.made /\ u.fresh = w.fresh /\ OthersStay(r)
  BY <1>1, <1>2, <1>3, <1>4, RunToFields
<1>6. UNCHANGED <<releaseConfig, commits, releases, tags, runs, failed>>
  BY DEF LabelReleases, Own, HistoryKept
<1>7. OnlyLabels /\ \A i \in DOMAIN pulls :
        IF i \in Untagged(ComponentOf(Current(r))) /\ i \in releases
        THEN "pending" \notin pulls'[i].labels ELSE pulls'[i] = pulls[i]
  BY ReleasedAreLabelled
<1>8. TasksFit'
  BY <1>1, <1>2, <1>5, <1>6, <1>7, TasksStay DEF Served, OnlyLabels
<1>9. LabelsFollow'
  <2>1. \A i : \A kind \in {"closed", "reopened"} : SwapDue(i, kind) => SwapDue(i, kind)'
    BY <1>1, <1>5, <1>6, SwapDueStays
  <2>2. SUFFICES ASSUME NEW i \in DOMAIN pulls
                 PROVE  /\ pulls[i].state = "closed" => "closed"  \in pulls'[i].labels \/ SwapDue(i, "closed")'
                        /\ pulls[i].state = "open"   => "pending" \in pulls'[i].labels \/ SwapDue(i, "reopened")'
                        /\ pulls[i].state = "merged" => "pending" \in pulls'[i].labels \/ i \in releases
    BY <1>6, <1>7 DEF LabelsFollow, OnlyLabels
  <2>3. CASE i \in Untagged(ComponentOf(Current(r))) /\ i \in releases
    BY <2>3 DEF Untagged
  <2>4. CASE pulls'[i] = pulls[i]
    BY <2>1, <2>4 DEF Served, LabelsFollow
  <2>5. QED
    BY <1>7, <2>3, <2>4
<1>10. InTurn'
  <2>1. GoesThrough(u)
    BY <1>1, <1>2, <1>4, <1>5 DEF GoesThrough, Served, InTurn, AtLocked
  <2>2. QED
    BY <1>5, <1>6, <2>1, InTurnStays DEF Served
<1>11. ASSUME NEW o
       PROVE  /\ Before(w, o) => Before(u, o)
              /\ Proposing(w, o) /\ ~o.options.onDemand => Proposing(u, o)
              /\ ~Releasing(w, o)
              /\ Labelling(w, o) => o = Current(r)
  <2>1. Before(w, o) => Before(u, o)
    BY <1>1, <1>2, <1>4, <1>5 DEF Before, Ahead
  <2>2. ~Releasing(w, o) /\ (Labelling(w, o) => o = Current(r))
    BY <1>1, <1>2 DEF Releasing, Labelling, IsAt, Current
  <2>3. ASSUME Proposing(w, o), ~o.options.onDemand PROVE Proposing(u, o)
    <3>1. o = Current(r) /\ IsAt(w, o)
      BY <1>2, <2>3 DEF Proposing, IsAt, Current
    <3>2. a \in {"tag", "build", "propose"}
      BY <1>3, <2>3, <3>1 DEF SkipsPullRequest
    <3>3. QED
      BY <1>4, <1>5, <3>1, <3>2 DEF Proposing, IsAt
  <2>4. QED
    BY <2>1, <2>2, <2>3
<1>12. MergedAreReleased'
  <2>1. SUFFICES ASSUME NEW o \in Asked, NEW i \in DOMAIN pulls, pulls[i].of = ComponentOf(o), pulls[i].state = "merged",
                        ~(i \in releases /\ "pending" \notin pulls'[i].labels)
                 PROVE  \/ \E t \in runs : Comes(t, o)
                        \/ \E q \in Runner : Before(runner'[q], o)
                        \/ \E q \in Runner : Releasing(runner'[q], o) \/ (i \in releases /\ Labelling(runner'[q], o))
    BY <1>6, <1>7, AskedStay DEF MergedAreReleased, RunFor, TaskFor, OnlyLabels
  <2>2. pulls'[i] = pulls[i]
    BY <1>7, <2>1
  <2>3. \/ TaskFor(o) \/ \E q \in Runner : Before(runner[q], o)
        \/ \E q \in Runner : Releasing(runner[q], o) \/ (i \in releases /\ Labelling(runner[q], o))
    BY <2>1, <2>2 DEF Served, MergedAreReleased, RunFor
  <2>4. CASE TaskFor(o) \/ \E q \in Runner : Before(runner[q], o)
    BY <1>2, <1>5, <1>11, <2>4 DEF OthersStay, TaskFor
  <2>5. ASSUME NEW q \in Runner, Releasing(runner[q], o) \/ (i \in releases /\ Labelling(runner[q], o))
        PROVE  Releasing(runner'[q], o) \/ (i \in releases /\ Labelling(runner'[q], o))
    <3>1. q # r
      <4>1. SUFFICES ASSUME q = r PROVE FALSE
        OBVIOUS
      <4>2. i \in releases /\ o = Current(r)
        BY <1>2, <1>11, <2>5, <4>1
      <4>3. i \in Untagged(ComponentOf(Current(r)))
        BY <2>1, <2>2, <4>2 DEF Untagged
      <4>4. QED
        BY <1>7, <2>1, <4>2, <4>3
    <3>2. QED
      BY <1>5, <2>5, <3>1 DEF OthersStay
  <2>6. QED
    BY <2>3, <2>4, <2>5
<1>13. CommitsAreProposed'
  <2>1. \A o \in Asked : commits[o.branch] > LatestRelease(ComponentOf(o))' => commits[o.branch] > LatestRelease(ComponentOf(o))
    BY <1>7, LatestStays
  <2>2. QED
    BY <1>2, <1>5, <1>6, <1>7, <1>11, <2>1, ProposalsPass DEF Served, TaskFor, OnlyLabels
<1>14. TagsFollow'
  <2>1. ASSUME NEW o \in Configured, NEW i \in releases, o.options.tag, Tagging(runner[r], o, i)
        PROVE  Tagging(runner'[r], o, i)
    <3>1. w.made # {} /\ i \in w.made /\ ComponentOf(Head(w.todo)) = ComponentOf(o)
      BY <1>2, <2>1 DEF Tagging
    <3>2. Current(r) \in Configured /\ ComponentOf(Current(r)) = ComponentOf(o)
      BY <1>1, <1>2, <3>1, CurrentConfigured DEF Served, Current
    <3>3. PICK c \in Configured : c = Current(r)
      BY <3>2
    <3>4. c.options.tag = o.options.tag
      BY <3>2, <3>3, ConfiguredAgree
    <3>5. a = "tag"
      BY <1>3, <2>1, <3>1, <3>3, <3>4
    <3>6. QED
      BY <1>5, <3>1, <3>5 DEF Tagging
  <2>2. releases \subseteq DOMAIN pulls
    BY DEF ReleaseTyped, LibraryTyped
  <2>3. QED
    BY <1>5, <1>6, <1>7, <2>1, <2>2, TagsStay DEF Served, OnlyLabels
<1>15. QED
  BY <1>8, <1>9, <1>10, <1>12, <1>13, <1>14 DEF Served

\* The commits are proposed, unless one that was merged awaits its release.
LEMMA CreatePullRequestsServes ==
  ASSUME ReleaseTyped, Served, Orderly, NEW r \in Runner, CreatePullRequests(r)
  PROVE  Served'
<1>1. AtLocked(r) /\ runner[r] # Lazy /\ runner[r].todo # <<>> /\ RunAt(r, "propose") /\ ~RunAt(r, "swap")
  BY DEF CreatePullRequests, RunAt, AtLocked, Locked, ReleaseTyped, RunnersTyped, RunIsSound
<1>2. PICK w \in RunOf : w = runner[r] /\ w.at = "propose"
  BY <1>1, RunTyped DEF RunAt
<1>3. PICK of \in Component : of = ComponentOf(Current(r))
  BY <1>1, CurrentTyped
<1>4. PICK from \in Nat : from = runner[r].from
  BY <1>1, RunTyped
<1>5. PICK now \in Nat : now = commits[of[1]]
  BY <1>3 DEF ReleaseTyped, LibraryTyped, Component
<1>6. from = LatestRelease(of)
  BY <1>1, <1>3, <1>4 DEF Orderly, KnowsLatest
<1>7. {"unlock", "propose"} \subseteq Locked /\ Locked \subseteq RunAts /\ Locked \cap {"swap", "unlabel", "config", "next"} = {}
  BY DEF RunAts, Locked
<1>8. RunTo(r, "unlock") /\ UNCHANGED <<releaseConfig, commits, releases, tags, runs, failed>>
  BY DEF CreatePullRequests, Own, HistoryKept
<1>9. PICK u \in RunOf : /\ runner'[r] = u /\ u # Lazy /\ u.at = "unlock" /\ u.task = w.task /\ u.todo = w.todo
                         /\ u.fresh = w.fresh /\ OthersStay(r)
  BY <1>1, <1>2, <1>7, <1>8, RunToFields
<1>10. \/ UNCHANGED pulls /\ (Untagged(of) # {} \/ ~(now > from))
       \/ /\ OpenPull(of) # {} /\ DOMAIN pulls' = DOMAIN pulls
          /\ \A i \in DOMAIN pulls :
               /\ pulls'[i].of = pulls[i].of /\ pulls'[i].state = pulls[i].state
               /\ i \in OpenPull(of) => pulls'[i].upTo = now /\ "pending" \in pulls'[i].labels
               /\ i \notin OpenPull(of) => pulls'[i] = pulls[i]
       \/ \E n \in Nat : /\ DOMAIN pulls' = DOMAIN pulls \cup {n}
                         /\ pulls'[n].of = of /\ pulls'[n].upTo = now /\ pulls'[n].state = "open" /\ "pending" \in pulls'[n].labels
                         /\ \A i \in DOMAIN pulls : pulls'[i] = pulls[i]
  <2>1. Proposed(of, from, now)
    BY <1>3, <1>4, <1>5, PullsProposed
  <2>2. QED
    BY <2>1 DEF Proposed
\* What is true of the pull requests in each of the three cases.
<1>11. /\ DOMAIN pulls \subseteq DOMAIN pulls'
       /\ \A i \in DOMAIN pulls :
            /\ pulls'[i].of = pulls[i].of /\ pulls'[i].state = pulls[i].state
            /\ pulls'[i] = pulls[i] \/ (i \in OpenPull(of) /\ pulls'[i].upTo = now /\ "pending" \in pulls'[i].labels)
       /\ \A i \in DOMAIN pulls' \ DOMAIN pulls : pulls'[i].state = "open" /\ "pending" \in pulls'[i].labels
       /\ now > from /\ Untagged(of) = {} =>
            \E i \in DOMAIN pulls' : pulls'[i].of = of /\ pulls'[i].state = "open" /\ pulls'[i].upTo = now
  <2>1. CASE UNCHANGED pulls /\ (Untagged(of) # {} \/ ~(now > from))
    BY <2>1
  <2>2. CASE /\ OpenPull(of) # {} /\ DOMAIN pulls' = DOMAIN pulls
             /\ \A i \in DOMAIN pulls :
                  /\ pulls'[i].of = pulls[i].of /\ pulls'[i].state = pulls[i].state
                  /\ i \in OpenPull(of) => pulls'[i].upTo = now /\ "pending" \in pulls'[i].labels
                  /\ i \notin OpenPull(of) => pulls'[i] = pulls[i]
    BY <2>2 DEF OpenPull
  <2>3. CASE \E n \in Nat : /\ DOMAIN pulls' = DOMAIN pulls \cup {n}
                            /\ pulls'[n].of = of /\ pulls'[n].upTo = now /\ pulls'[n].state = "open" /\ "pending" \in pulls'[n].labels
                            /\ \A i \in DOMAIN pulls : pulls'[i] = pulls[i]
    BY <2>3
  <2>4. QED
    BY <1>10, <2>1, <2>2, <2>3
<1>12. releases \subseteq DOMAIN pulls
  BY DEF ReleaseTyped, LibraryTyped
<1>13. TasksFit'
  BY <1>1, <1>2, <1>8, <1>9, <1>11, TasksStay DEF Served
<1>14. LabelsFollow'
  <2>1. \A i : \A kind \in {"closed", "reopened"} : SwapDue(i, kind) => SwapDue(i, kind)'
    BY <1>1, <1>8, <1>9, SwapDueStays
  <2>2. ASSUME NEW i \in DOMAIN pulls
        PROVE  /\ pulls'[i].state = "closed" => "closed"  \in pulls'[i].labels \/ SwapDue(i, "closed")'
               /\ pulls'[i].state = "open"   => "pending" \in pulls'[i].labels \/ SwapDue(i, "reopened")'
               /\ pulls'[i].state = "merged" => "pending" \in pulls'[i].labels \/ i \in releases
    <3>1. CASE pulls'[i] = pulls[i]
      BY <2>1, <3>1 DEF Served, LabelsFollow
    <3>2. CASE i \in OpenPull(of) /\ "pending" \in pulls'[i].labels
      BY <1>11, <3>2 DEF OpenPull
    <3>3. QED
      BY <1>11, <3>1, <3>2
  <2>3. QED
    BY <1>8, <1>11, <2>2 DEF LabelsFollow
<1>15. InTurn'
  <2>1. GoesThrough(u)
    BY <1>1, <1>2, <1>7, <1>9 DEF GoesThrough, Served, InTurn, AtLocked
  <2>2. QED
    BY <1>8, <1>9, <2>1, InTurnStays DEF Served
<1>16. ASSUME NEW o
       PROVE  /\ Before(w, o) => Before(u, o)
              /\ ~Releasing(w, o) /\ ~Labelling(w, o)
              /\ Proposing(w, o) => o = Current(r)
  BY <1>2, <1>7, <1>9 DEF Before, Ahead, Proposing, Releasing, Labelling, IsAt, Current
<1>17. MergedAreReleased'
  <2>1. \A i \in DOMAIN pulls' : pulls'[i].state = "merged" =>
          /\ i \in DOMAIN pulls /\ pulls[i].state = "merged" /\ pulls[i].of = pulls'[i].of
          /\ "pending" \in pulls'[i].labels => "pending" \in pulls[i].labels
    BY <1>11 DEF OpenPull
  <2>2. QED
    BY <1>2, <1>8, <1>9, <1>16, <2>1, ReleasesPass DEF Served, TaskFor
<1>18. CommitsAreProposed'
  <2>1. SUFFICES ASSUME NEW o \in Asked, ~o.options.onDemand, commits[o.branch] > LatestRelease(ComponentOf(o))',
                        ~ \E i \in DOMAIN pulls' : /\ pulls'[i].of = ComponentOf(o) /\ pulls'[i].state \in {"open", "closed"}
                                                   /\ pulls'[i].upTo = commits[o.branch]
                 PROVE  \/ \E t \in runs : Comes(t, o)
                        \/ \E q \in Runner : Before(runner'[q], o)
                        \/ \E q \in Runner : Proposing(runner'[q], o)
    BY <1>8, AskedStay DEF CommitsAreProposed, RunFor, TaskFor
  <2>2. PICK c : c = ComponentOf(o) /\ c[1] = o.branch
    BY ConfiguredTyped DEF Asked
  <2>3. LatestRelease(c)' = LatestRelease(c)
    <3>1. \A i \in releases : pulls'[i] = pulls[i]
      BY <1>11, <1>12 DEF ReleaseTyped, LibraryTyped, OpenPull
    <3>2. QED
      BY <1>8, <3>1, ReleasedStay
  <2>4. commits[o.branch] > LatestRelease(ComponentOf(o))
    BY <2>1, <2>2, <2>3
  <2>5. ~ \E i \in DOMAIN pulls : /\ pulls[i].of = ComponentOf(o) /\ pulls[i].state \in {"open", "closed"}
                                  /\ pulls[i].upTo = commits[o.branch]
    <3>1. SUFFICES ASSUME NEW i \in DOMAIN pulls, pulls[i].of = c, pulls[i].state \in {"open", "closed"}, pulls[i].upTo = commits[o.branch]
                   PROVE  pulls'[i].upTo = commits[o.branch]
      BY <1>11, <2>1, <2>2
    <3>2. CASE pulls'[i] = pulls[i]
      BY <3>1, <3>2
    <3>3. CASE i \in OpenPull(of) /\ pulls'[i].upTo = now
      BY <1>5, <2>2, <3>1, <3>3 DEF OpenPull
    <3>4. QED
      BY <1>11, <3>2, <3>3
  <2>6. TaskFor(o) \/ (\E q \in Runner : Before(runner[q], o)) \/ \E q \in Runner : Proposing(runner[q], o)
    BY <2>1, <2>4, <2>5 DEF Served, CommitsAreProposed, RunFor
  <2>7. CASE TaskFor(o) \/ \E q \in Runner : Before(runner[q], o)
    BY <1>2, <1>9, <1>16, <2>7 DEF OthersStay, TaskFor
  <2>8. ASSUME NEW q \in Runner, Proposing(runner[q], o)
        PROVE  \/ \E t \in runs : Comes(t, o)
               \/ \E p \in Runner : Before(runner'[p], o)
               \/ \E p \in Runner : Proposing(runner'[p], o)
    <3>1. CASE q # r
      BY <1>9, <2>8, <3>1 DEF OthersStay
    <3>2. CASE q = r
      <4>1. c = of
        BY <1>2, <1>3, <1>16, <2>2, <2>8, <3>2
      <4>2. now > from
        BY <1>5, <1>6, <2>2, <2>4, <4>1
      <4>3. Untagged(of) # {}
        BY <1>5, <1>11, <2>1, <2>2, <4>1, <4>2
      <4>4. PICK i \in DOMAIN pulls : pulls[i].of = ComponentOf(o) /\ pulls[i].state = "merged" /\ "pending" \in pulls[i].labels
        BY <2>2, <4>1, <4>3 DEF Untagged
      <4>5. TaskFor(o) \/ \E p \in Runner : Before(runner[p], o) \/ Releasing(runner[p], o) \/ Labelling(runner[p], o)
        BY <4>4 DEF Served, MergedAreReleased, RunFor
      <4>6. ASSUME NEW p \in Runner, Before(runner[p], o) \/ Releasing(runner[p], o) \/ Labelling(runner[p], o)
            PROVE  Before(runner'[p], o) \/ Proposing(runner'[p], o)
        <5>1. CASE p = r
          BY <1>2, <1>9, <1>16, <4>6, <5>1
        <5>2. CASE p # r
          BY <1>9, <4>6, <5>2, ReleasingProposes DEF OthersStay
        <5>3. QED
          BY <5>1, <5>2
      <4>7. QED
        BY <4>5, <4>6 DEF TaskFor
    <3>3. QED
      BY <3>1, <3>2
  <2>9. QED
    BY <2>6, <2>7, <2>8
<1>19. TagsFollow'
  <2>1. \A o, i : ~Tagging(runner[r], o, i)
    BY <1>2 DEF Tagging
  <2>2. QED
    BY <1>8, <1>9, <1>11, <1>12, <2>1, TagsStay DEF Served
<1>20. QED
  BY <1>13, <1>14, <1>15, <1>17, <1>18, <1>19 DEF Served

\* More tasks come to as many configurations, and swap as many labels.
LEMMA TasksGrow ==
  ASSUME runs \subseteq runs', UNCHANGED runner
  PROVE  /\ \A o : RunFor(o) => (\E t \in runs' : Comes(t, o)) \/ \E r \in Runner : Before(runner'[r], o)
         /\ \A i, kind : SwapDue(i, kind) => SwapDue(i, kind)'
<1>1. \A o : RunFor(o) => (\E t \in runs' : Comes(t, o)) \/ \E r \in Runner : Before(runner'[r], o)
  BY DEF RunFor, TaskFor
<1>2. \A i, kind : SwapDue(i, kind) => SwapDue(i, kind)'
  BY DEF SwapDue, RunAt
<1>3. QED
  BY <1>1, <1>2

\* No handler moves, so each goes through its configurations.
LEMMA NobodyMoves ==
  ASSUME InTurn, UNCHANGED <<releaseConfig, runner>>
  PROVE  InTurn'
BY DEF InTurn, GoesThrough

\* A pull request closed, reopened or merged when no task of it is due: its label tells what it
\* was, so the task sets it right; a merge calls for a run of every configuration of its branch.
LEMMA ActOnServes ==
  ASSUME ReleaseTyped, Served, NEW i \in DOMAIN pulls, NEW state \in {"open", "closed", "merged"}, ActOn(i, state), ~IsDue(i),
         state = "open" => pulls[i].state = "closed",
         state # "open" => pulls[i].state = "open",
         NEW new \in SUBSET RunTasks, runs' = runs \cup new,
         \A t \in new : (t.kind = "closed" /\ ~t.merged => t.of = i /\ state = "closed") /\ (t.kind = "reopened" => t.of = i /\ state = "open"),
         state = "closed" => \E t \in new : t.kind = "closed" /\ ~t.merged /\ t.of = i /\ t.labels = pulls[i].labels,
         state = "open"   => \E t \in new : t.kind = "reopened" /\ t.of = i /\ t.labels = pulls[i].labels,
         state = "merged" => \E t \in new : t.kind = "push" /\ t.branch = pulls[i].of[1] /\ t.released
  PROVE  Served'
<1>1. /\ LibraryTyped /\ pulls \in Seq(PullOf) /\ releases \subseteq DOMAIN pulls /\ i \notin releases
  BY DEF ReleaseTyped, LibraryTyped
<1>2. UNCHANGED <<releaseConfig, commits, releases, tags, runner, failed>> /\ runs \subseteq runs'
  BY DEF ActOn, ByOthers
<1>3. PICK p \in PullOf : p = pulls[i]
  BY <1>1, PullTyped
<1>4. PICK q : q = [p EXCEPT !.state = state]
  OBVIOUS
<1>5. q \in PullOf /\ q.of = p.of /\ q.upTo = p.upTo /\ q.from = p.from /\ q.state = state /\ q.labels = p.labels
  BY <1>4 DEF PullOf
<1>6. /\ DOMAIN pulls' = DOMAIN pulls /\ \A j \in DOMAIN pulls : j # i => pulls'[j] = pulls[j]
      /\ pulls'[i].of = pulls[i].of /\ pulls'[i].upTo = pulls[i].upTo /\ pulls'[i].state = state /\ pulls'[i].labels = pulls[i].labels
  <2>1. pulls' = [pulls EXCEPT ![i] = q]
    BY <1>3, <1>4 DEF ActOn
  <2>2. DOMAIN pulls' = DOMAIN pulls /\ pulls'[i] = q /\ \A j \in DOMAIN pulls : j # i => pulls'[j] = pulls[j]
    BY <1>1, <1>5, <2>1, ExceptSeq
  <2>3. QED
    BY <1>3, <1>5, <2>2
<1>7. \A j \in releases : pulls'[j] = pulls[j]
  BY <1>1, <1>6
<1>8. TasksFit'
  <2>1. \A t \in runs : t.kind \in {"closed", "reopened"} => t.of \in DOMAIN pulls /\ t.of # i
    BY DEF IsDue, ReleaseTyped, TasksTyped, OnPull
  <2>2. \A r \in Runner : runner[r] # Lazy /\ runner[r].task.kind \in {"closed", "reopened"} =>
                            runner[r].task.of \in DOMAIN pulls /\ runner[r].task.of # i
    BY DEF IsDue, ReleaseTyped, RunnersTyped, RunIsSound, OnPull
  <2>3. ASSUME NEW t \in runs'
        PROVE  /\ t.kind = "closed" /\ ~t.merged => pulls'[t.of].state = "closed"
               /\ t.kind = "reopened" => pulls'[t.of].state = "open"
    <3>1. CASE t \in runs
      BY <1>6, <2>1, <3>1 DEF Served, TasksFit, Fits
    <3>2. CASE t \in new
      BY <1>6, <3>2
    <3>3. QED
      BY <3>1, <3>2
  <2>4. ASSUME NEW r \in Runner, runner[r] # Lazy
        PROVE  /\ runner[r].task.kind = "closed" /\ ~runner[r].task.merged => pulls'[runner[r].task.of].state = "closed"
               /\ runner[r].task.kind = "reopened" => pulls'[runner[r].task.of].state = "open"
    BY <1>6, <2>2, <2>4 DEF Served, TasksFit, Fits
  <2>5. QED
    BY <1>2, <2>3, <2>4 DEF TasksFit, Fits
<1>9. LabelsFollow'
  <2>1. \A kind \in {"closed", "reopened"} : ~SwapDue(i, kind)
    BY DEF SwapDue, IsDue, Relabels, RunAt
  <2>2. SUFFICES ASSUME NEW j \in DOMAIN pulls
                 PROVE  /\ pulls'[j].state = "closed" => "closed"  \in pulls'[j].labels \/ SwapDue(j, "closed")'
                        /\ pulls'[j].state = "open"   => "pending" \in pulls'[j].labels \/ SwapDue(j, "reopened")'
                        /\ pulls'[j].state = "merged" => "pending" \in pulls'[j].labels \/ j \in releases
    BY <1>2, <1>6 DEF LabelsFollow
  <2>3. CASE j # i
    BY <1>2, <1>6, <2>3, TasksGrow DEF Served, LabelsFollow
  <2>4. CASE j = i /\ state = "closed"
    <3>1. "pending" \in pulls[i].labels
      BY <2>1, <2>4 DEF Served, LabelsFollow
    <3>2. \E t \in runs' : t.of = i /\ Relabels(t, "closed")
      BY <2>4, <3>1 DEF Relabels
    <3>3. QED
      BY <1>6, <2>4, <3>2 DEF SwapDue
  <2>5. CASE j = i /\ state = "open"
    <3>1. "closed" \in pulls[i].labels
      BY <2>1, <2>5 DEF Served, LabelsFollow
    <3>2. \E t \in runs' : t.of = i /\ Relabels(t, "reopened")
      BY <2>5, <3>1 DEF Relabels
    <3>3. QED
      BY <1>6, <2>5, <3>2 DEF SwapDue
  <2>6. CASE j = i /\ state = "merged"
    <3>1. "pending" \in pulls[i].labels
      BY <2>1, <2>6 DEF Served, LabelsFollow
    <3>2. QED
      BY <1>6, <2>6, <3>1
  <2>7. QED
    BY <2>3, <2>4, <2>5, <2>6
<1>10. InTurn'
  BY <1>2, NobodyMoves DEF Served
<1>11. ASSUME NEW o \in Asked, ComponentOf(o) = pulls[i].of, state = "merged" PROVE \E t \in runs' : Comes(t, o)
  <2>1. PICK t \in new : t.kind = "push" /\ t.branch = pulls[i].of[1] /\ t.released
    BY <1>11
  <2>2. t.branch = o.branch
    BY <1>11, <2>1, ConfiguredTyped DEF Asked
  <2>3. QED
    BY <2>1, <2>2 DEF Comes, DueConfiguration
<1>12. MergedAreReleased'
  <2>1. SUFFICES ASSUME NEW o \in Asked, NEW j \in DOMAIN pulls, pulls'[j].of = ComponentOf(o), pulls'[j].state = "merged",
                        ~(j \in releases /\ "pending" \notin pulls'[j].labels)
                 PROVE  \/ \E t \in runs' : Comes(t, o)
                        \/ \E r \in Runner : Before(runner'[r], o)
                        \/ \E r \in Runner : Releasing(runner'[r], o) \/ (j \in releases /\ Labelling(runner'[r], o))
    BY <1>2, <1>6, AskedStay DEF MergedAreReleased, RunFor, TaskFor
  <2>2. CASE j = i
    BY <1>6, <1>11, <2>1, <2>2
  <2>3. CASE j # i
    <3>1. RunFor(o) \/ \E r \in Runner : Releasing(runner[r], o) \/ (j \in releases /\ Labelling(runner[r], o))
      BY <1>6, <2>1, <2>3 DEF Served, MergedAreReleased
    <3>2. QED
      BY <1>2, <3>1, TasksGrow
  <2>4. QED
    BY <2>2, <2>3
<1>13. TagsFollow'
  BY <1>2, <1>7, AskedStay DEF Served, TagsFollow
<1>14. CommitsAreProposed'
  <2>1. SUFFICES ASSUME NEW o \in Asked, ~o.options.onDemand, commits[o.branch] > LatestRelease(ComponentOf(o))',
                        ~ \E j \in DOMAIN pulls : /\ pulls'[j].of = ComponentOf(o) /\ pulls'[j].state \in {"open", "closed"}
                                                  /\ pulls'[j].upTo = commits[o.branch]
                 PROVE  \/ \E t \in runs' : Comes(t, o)
                        \/ \E r \in Runner : Before(runner'[r], o)
                        \/ \E r \in Runner : Proposing(runner'[r], o)
    BY <1>2, <1>6, AskedStay DEF CommitsAreProposed, RunFor, TaskFor
  <2>2. PICK c : c = ComponentOf(o)
    OBVIOUS
  <2>3. LatestRelease(c)' = LatestRelease(c)
    BY <1>2, <1>7, ReleasedStay
  <2>4. \/ \E j \in DOMAIN pulls : /\ pulls[j].of = ComponentOf(o) /\ pulls[j].state \in {"open", "closed"}
                                   /\ pulls[j].upTo = commits[o.branch]
        \/ RunFor(o) \/ \E r \in Runner : Proposing(runner[r], o)
    BY <2>1, <2>2, <2>3 DEF Served, CommitsAreProposed
  <2>5. ASSUME NEW j \in DOMAIN pulls, pulls[j].of = ComponentOf(o), pulls[j].state \in {"open", "closed"}, pulls[j].upTo = commits[o.branch]
        PROVE  \E t \in runs' : Comes(t, o)
    <3>1. j = i /\ state = "merged"
      BY <1>6, <2>1, <2>5
    <3>2. QED
      BY <1>11, <2>5, <3>1
  <2>6. QED
    BY <1>2, <2>4, <2>5, TasksGrow
<1>15. QED
  BY <1>8, <1>9, <1>10, <1>12, <1>13, <1>14 DEF Served

\* People close, reopen and merge a release pull request.
LEMMA PullActsServe ==
  ASSUME ReleaseTyped, Served, NEW i \in DOMAIN pulls, CloseRelease(i) \/ ReopenRelease(i) \/ MergeRelease(i), ~hasty'
  PROVE  Served'
<1>1. i \in Nat /\ pulls[i].of[1] \in Branch /\ pulls[i].labels \in SUBSET PullLabels
  BY PullTyped DEF ReleaseTyped
<1>2. PICK b \in Branch, labels \in SUBSET PullLabels : b = pulls[i].of[1] /\ labels = pulls[i].labels
  BY <1>1
<1>3. PICK yes, no \in BOOLEAN : yes = TRUE /\ no = FALSE
  OBVIOUS
<1>4. ~IsDue(i)
  BY DEF CloseRelease, ReopenRelease, MergeRelease, ActOn
<1>5. CASE CloseRelease(i)
  <2>1. PICK t : t = RunTask("closed", i, b, no, no, labels)
    OBVIOUS
  <2>2. t \in RunTasks /\ t.kind = "closed" /\ t.of = i /\ t.merged = no /\ t.labels = labels
    BY <1>1, <2>1, RunTaskTyped DEF RunTask
  <2>3. pulls[i].state = "open" /\ ActOn(i, "closed") /\ runs' = runs \cup {t}
    BY <1>2, <1>3, <1>5, <2>1 DEF CloseRelease
  <2>4. {t} \in SUBSET RunTasks
    BY <2>2
  <2>5. ~t.merged
    BY <1>3, <2>2, Zenon
  <2>6. PICK new \in SUBSET RunTasks : new = {t}
    BY <2>4
  <2>7. PICK state \in {"open", "closed", "merged"} : state = "closed"
    OBVIOUS
  <2>8. \A v \in new : (v.kind = "closed" /\ ~v.merged => v.of = i /\ state = "closed") /\ (v.kind = "reopened" => v.of = i /\ state = "open")
    BY <2>2, <2>6, <2>7
  <2>9. \E v \in new : v.kind = "closed" /\ ~v.merged /\ v.of = i /\ v.labels = pulls[i].labels
    BY <1>2, <2>2, <2>5, <2>6
  <2>10. ActOn(i, state) /\ runs' = runs \cup new
    BY <2>3, <2>6, <2>7
  <2>11. QED
    BY <1>4, <2>3, <2>7, <2>8, <2>9, <2>10, ActOnServes
<1>6. CASE ReopenRelease(i)
  <2>1. PICK t : t = RunTask("reopened", i, b, no, no, labels)
    OBVIOUS
  <2>2. t \in RunTasks /\ t.kind = "reopened" /\ t.of = i /\ t.labels = labels
    BY <1>1, <2>1, RunTaskTyped DEF RunTask
  <2>3. pulls[i].state = "closed" /\ ActOn(i, "open") /\ runs' = runs \cup {t}
    BY <1>2, <1>3, <1>6, <2>1 DEF ReopenRelease
  <2>4. {t} \in SUBSET RunTasks
    BY <2>2
  <2>5. QED
    BY <1>2, <1>4, <2>2, <2>3, <2>4, ActOnServes
<1>7. CASE MergeRelease(i)
  <2>1. PICK t, u : t = RunTask("closed", i, b, no, yes, labels) /\ u = RunTask("push", i, b, yes, no, {})
    OBVIOUS
  <2>2. t \in RunTasks /\ t.kind = "closed" /\ t.merged = yes
    BY <1>1, <2>1, RunTaskTyped DEF RunTask
  <2>3. u \in RunTasks /\ u.kind = "push" /\ u.branch = b /\ u.released = yes
    <3>1. PICK none \in SUBSET PullLabels : none = {}
      OBVIOUS
    <3>2. QED
      BY <1>1, <2>1, <3>1, RunTaskTyped DEF RunTask
  <2>4. pulls[i].state = "open" /\ ActOn(i, "merged") /\ runs' = runs \cup {t, u}
    BY <1>2, <1>3, <1>7, <2>1 DEF MergeRelease
  <2>5. {t, u} \in SUBSET RunTasks
    BY <2>2, <2>3
  <2>6. t.merged /\ u.released
    BY <1>3, <2>2, <2>3, Zenon
  <2>7. PICK new \in SUBSET RunTasks : new = {t, u}
    BY <2>5
  <2>8. PICK state \in {"open", "closed", "merged"} : state = "merged"
    OBVIOUS
  <2>9. \A v \in new : (v.kind = "closed" /\ ~v.merged => v.of = i /\ state = "closed") /\ (v.kind = "reopened" => v.of = i /\ state = "open")
    BY <2>2, <2>3, <2>6, <2>7
  <2>10. \E v \in new : v.kind = "push" /\ v.branch = pulls[i].of[1] /\ v.released
    BY <1>2, <2>3, <2>6, <2>7
  <2>11. ActOn(i, state) /\ runs' = runs \cup new
    BY <2>4, <2>7, <2>8
  <2>12. QED
    BY <1>4, <2>4, <2>8, <2>9, <2>10, <2>11, ActOnServes
<1>8. QED
  BY <1>5, <1>6, <1>7

\* Tasks that run a branch come, and for every commit pushed there is one.
LEMMA CalledRunsServe ==
  ASSUME ReleaseTyped, Served, UNCHANGED <<releaseConfig, pulls, releases, tags, runner, failed>>,
         runs \subseteq runs', \A t \in runs' \ runs : t.kind \in {"push", "labeled"},
         \A b \in Branch : commits'[b] = commits[b] \/ \E t \in runs' : t.kind = "push" /\ t.branch = b
  PROVE  Served'
<1>1. TasksFit'
  BY DEF Served, TasksFit, Fits
<1>2. LabelsFollow'
  BY TasksGrow DEF Served, LabelsFollow
<1>3. InTurn'
  BY NobodyMoves DEF Served
<1>4. MergedAreReleased'
  <2>1. SUFFICES ASSUME NEW o \in Asked, NEW i \in DOMAIN pulls, pulls[i].of = ComponentOf(o), pulls[i].state = "merged",
                        ~(i \in releases /\ "pending" \notin pulls[i].labels)
                 PROVE  \/ \E t \in runs' : Comes(t, o)
                        \/ \E r \in Runner : Before(runner'[r], o)
                        \/ \E r \in Runner : Releasing(runner'[r], o) \/ (i \in releases /\ Labelling(runner'[r], o))
    BY AskedStay DEF MergedAreReleased, RunFor, TaskFor
  <2>2. RunFor(o) \/ \E r \in Runner : Releasing(runner[r], o) \/ (i \in releases /\ Labelling(runner[r], o))
    BY <2>1 DEF Served, MergedAreReleased
  <2>3. QED
    BY <2>2, TasksGrow
<1>5. TagsFollow'
  BY AskedStay DEF Served, TagsFollow
<1>6. CommitsAreProposed'
  <2>1. SUFFICES ASSUME NEW o \in Asked, ~o.options.onDemand, commits'[o.branch] > LatestRelease(ComponentOf(o))',
                        ~ \E i \in DOMAIN pulls : /\ pulls[i].of = ComponentOf(o) /\ pulls[i].state \in {"open", "closed"}
                                                  /\ pulls[i].upTo = commits'[o.branch],
                        ~ \E t \in runs' : Comes(t, o)
                 PROVE  \/ \E r \in Runner : Before(runner'[r], o)
                        \/ \E r \in Runner : Proposing(runner'[r], o)
    BY AskedStay DEF CommitsAreProposed, RunFor, TaskFor
  <2>2. PICK b \in Branch : b = o.branch
    BY ConfiguredTyped DEF Asked
  <2>3. commits'[b] = commits[b]
    BY <2>1, <2>2 DEF Comes, DueConfiguration
  <2>4. PICK c : c = ComponentOf(o)
    OBVIOUS
  <2>5. LatestRelease(c)' = LatestRelease(c)
    BY ReleasedStay
  <2>6. RunFor(o) \/ \E r \in Runner : Proposing(runner[r], o)
    BY <2>1, <2>2, <2>3, <2>4, <2>5 DEF Served, CommitsAreProposed
  <2>7. QED
    BY <2>1, <2>6, TasksGrow
<1>7. QED
  BY <1>1, <1>2, <1>3, <1>4, <1>5, <1>6 DEF Served

\* A push and the label of force-run call for runs; that a lease runs out, or nothing happens, calls for none.
LEMMA OtherStepsServe ==
  ASSUME ReleaseTyped, Served,
         (\E b \in Branch : PushCommit(b) \/ ForceRelease(b)) \/ LeaseRunsOut \/ UNCHANGED releaseVars
  PROVE  Served'
<1>1. UNCHANGED <<releaseConfig, pulls, releases, tags, runner, failed>>
  BY DEF PushCommit, ForceRelease, ByOthers, LeaseRunsOut, releaseVars, libraryVars
<1>2. ASSUME NEW b \in Branch, PushCommit(b) PROVE Served'
  <2>1. PICK t : t = RunTask("push", commits[b] + 1, b, FALSE, FALSE, {})
    OBVIOUS
  <2>2. t.kind = "push" /\ t.branch = b
    BY <2>1 DEF RunTask
  <2>3. runs' = runs \cup {t} /\ \A c \in Branch : c # b => commits'[c] = commits[c]
    BY <1>2, <2>1 DEF PushCommit, ReleaseTyped, LibraryTyped
  <2>4. QED
    BY <1>1, <2>2, <2>3, CalledRunsServe
<1>3. ASSUME NEW b \in Branch, ForceRelease(b) PROVE Served'
  <2>1. PICK t : t = RunTask("labeled", runActs', b, FALSE, FALSE, {})
    OBVIOUS
  <2>2. t.kind = "labeled"
    BY <2>1 DEF RunTask
  <2>3. runs' = runs \cup {t} /\ UNCHANGED commits
    BY <1>3, <2>1 DEF ForceRelease
  <2>4. QED
    BY <1>1, <2>2, <2>3, CalledRunsServe
<1>4. CASE LeaseRunsOut \/ UNCHANGED releaseVars
  <2>1. UNCHANGED <<runs, commits>>
    BY <1>4 DEF LeaseRunsOut, releaseVars, libraryVars
  <2>2. QED
    BY <1>1, <2>1, CalledRunsServe
<1>5. QED
  BY <1>2, <1>3, <1>4

\* The histories and the configuration: what was given up stays so.
LEMMA HistoryOfServed ==
  ASSUME [ReleaseNext]_releaseVars
  PROVE  /\ UNCHANGED releaseConfig
         /\ ~abandoned' => ~abandoned
         /\ ~expired' => ~expired
         /\ ~hasty' => ~hasty
<1>1. ASSUME NEW r \in Runner, RunStep(r)
      PROVE  UNCHANGED <<releaseConfig, expired, hasty>> /\ (~abandoned' => ~abandoned)
  <2>1. CASE LockTimesOut(r) \/ RunFails(r) \/ SwapFails(r) \/ SwapRefused(r)
    BY <2>1 DEF LockTimesOut, RunFails, SwapFails, SwapRefused, Retried
  <2>2. CASE Own
    BY <2>2 DEF Own, HistoryKept
  <2>3. CASE \E t \in runs : TakeRun(r, t)
    BY <2>3 DEF TakeRun, HistoryKept
  <2>4. \/ Own \/ (\E t \in runs : TakeRun(r, t))
        \/ LockTimesOut(r) \/ RunFails(r) \/ SwapFails(r) \/ SwapRefused(r)
    BY <1>1, Zenon DEF RunStep, RemoveForceLabel, ReadReleaseConfig, EndRun, SkipConfiguration, AcquireRunLock, BuildManifest,
       CreateReleases, LabelReleases, TagPullRequest, CreatePullRequests, ReportConfigError, ReleaseRunLock, SwapLabels
  <2>5. QED
    BY <2>1, <2>2, <2>3, <2>4
<1>2. CASE LeaseRunsOut
  BY <1>2 DEF LeaseRunsOut
<1>3. ASSUME NEW b \in Branch, PushCommit(b) \/ ForceRelease(b) PROVE UNCHANGED <<releaseConfig, expired, hasty, abandoned>>
  BY <1>3 DEF PushCommit, ForceRelease, ByOthers
<1>4. ASSUME NEW i \in DOMAIN pulls, CloseRelease(i) \/ ReopenRelease(i) \/ MergeRelease(i)
      PROVE  UNCHANGED <<releaseConfig, expired, abandoned>> /\ (~hasty' => ~hasty)
  BY <1>4 DEF CloseRelease, ReopenRelease, MergeRelease, ActOn, ByOthers
<1>5. CASE UNCHANGED releaseVars
  BY <1>5 DEF releaseVars
<1>6. QED
  BY <1>1, <1>2, <1>3, <1>4, <1>5 DEF ReleaseNext

\* Every step of a handler serves what is due.
LEMMA RunStepServes ==
  ASSUME ReleaseTyped, Orderly, Served, AgreeOnTags(releaseConfig), NEW r \in Runner, RunStep(r), ~abandoned'
  PROVE  Served'
BY TakeRunServes, KeptTaskServes, EndRunServes, CreateReleasesServes, LabelReleasesServes, CreatePullRequestsServes,
   SwapLabelsServes, FailuresServe, Zenon DEF RunStep

\* A repository starts with nothing due.
LEMMA ServedAtFirst ==
  ASSUME NEW CONSTANT configs \in SUBSET {c \in ReleaseConfig : AgreeOnTags(c)}, ReleaseInit(configs)
  PROVE  ServedInv
<1>1. runs = {} /\ DOMAIN pulls = {} /\ releases = {} /\ \A r \in Runner : runner[r] = Lazy
  BY DEF ReleaseInit
<1>2. AgreeOnTags(releaseConfig)
  BY DEF ReleaseInit
<1>3. CommitsAreProposed
  <2>1. ASSUME NEW o \in Configured PROVE ~(commits[o.branch] > LatestRelease(ComponentOf(o)))
    <3>1. o.branch \in Branch
      BY <2>1 DEF Configured
    <3>2. PICK c : c = ComponentOf(o)
      OBVIOUS
    <3>3. commits[o.branch] = 0 /\ LatestRelease(c) = 0
      BY <1>1, <3>1 DEF ReleaseInit, LatestRelease
    <3>4. QED
      BY <3>2, <3>3
  <2>2. QED
    BY <2>1 DEF CommitsAreProposed, Asked
<1>4. TasksFit /\ LabelsFollow /\ InTurn /\ MergedAreReleased /\ TagsFollow
  BY <1>1 DEF TasksFit, LabelsFollow, InTurn, GoesThrough, MergedAreReleased, TagsFollow
<1>5. QED
  BY <1>2, <1>3, <1>4 DEF ServedInv, Served

\* When nobody has a task, nobody is before a configuration or at one.
LEMMA RestIsServed ==
  ASSUME ReleaseTyped, Served, Resting, NEW o \in Configured, o.options.ok
  PROVE  LET of == ComponentOf(o)
             own == {i \in DOMAIN pulls : pulls[i].of = of}
         IN /\ \A i \in own :
                 /\ pulls[i].state = "closed" => "closed" \in pulls[i].labels
                 /\ pulls[i].state = "open"   => "pending" \in pulls[i].labels
                 /\ (pulls[i].state = "merged" /\ o.options.release) => i \in releases /\ Untagged(of) = {}
                 /\ (i \in releases /\ o.options.tag /\ ~failed) => i \in tags
            /\ (~o.options.onDemand /\ o.options.release /\ commits[of[1]] > LatestRelease(of)) =>
                 \E i \in own : pulls[i].state \in {"open", "closed"} /\ (pulls[i].state = "open" => pulls[i].upTo = commits[of[1]])
<1>1. runs = {} /\ \A r \in Runner : runner[r] = Lazy
  BY DEF Resting
<1>2. /\ ~RunFor(o)
      /\ \A r \in Runner : /\ ~Releasing(runner[r], o) /\ ~Labelling(runner[r], o) /\ ~Proposing(runner[r], o)
                           /\ \A i : ~Tagging(runner[r], o, i)
      /\ \A i, kind : ~SwapDue(i, kind)
  BY <1>1 DEF RunFor, TaskFor, Before, Releasing, Labelling, Proposing, IsAt, Tagging, SwapDue, RunAt
<1>3. PICK of : of = ComponentOf(o) /\ of[1] = o.branch
  BY ConfiguredTyped
<1>4. ASSUME NEW i \in DOMAIN pulls, pulls[i].of = of
      PROVE  /\ pulls[i].state = "closed" => "closed" \in pulls[i].labels
             /\ pulls[i].state = "open"   => "pending" \in pulls[i].labels
             /\ (pulls[i].state = "merged" /\ o.options.release) => i \in releases /\ "pending" \notin pulls[i].labels
             /\ (i \in releases /\ o.options.tag /\ ~failed) => i \in tags
  <2>1. /\ pulls[i].state = "closed" => "closed" \in pulls[i].labels
        /\ pulls[i].state = "open"   => "pending" \in pulls[i].labels
    BY <1>2 DEF Served, LabelsFollow
  <2>2. (pulls[i].state = "merged" /\ o.options.release) => i \in releases /\ "pending" \notin pulls[i].labels
    BY <1>2, <1>3, <1>4 DEF Served, MergedAreReleased, Asked
  <2>3. (i \in releases /\ o.options.tag /\ ~failed) => i \in tags
    BY <1>2, <1>3, <1>4 DEF Served, TagsFollow
  <2>4. QED
    BY <2>1, <2>2, <2>3
<1>5. o.options.release => Untagged(of) = {}
  BY <1>4 DEF Untagged
<1>6. ASSUME ~o.options.onDemand, o.options.release, commits[of[1]] > LatestRelease(of)
      PROVE  \E i \in DOMAIN pulls : pulls[i].of = of /\ pulls[i].state \in {"open", "closed"} /\ pulls[i].upTo = commits[of[1]]
  BY <1>2, <1>3, <1>6 DEF Served, CommitsAreProposed, Asked
<1>7. QED
  BY <1>3, <1>4, <1>5, <1>6

----------------------------------------------------------------------------
(* When all is done, and no task was given up, what was merged is released, labelled and  *)
(* tagged, and what was pushed is in a pull request that is open under its label, or was  *)
(* closed by somebody, for any number of branches, configurations, handlers, pushes,      *)
(* failing calls and deliveries, as long as no lease runs out while its holder is at it   *)
(* and no pull request is acted on while a task of it is due.  Configurations of one      *)
(* component agree on whether its releases are tagged: where they do not, the one that    *)
(* makes the release need not be the one that asks for the tag.                           *)
THEOREM EverythingIsReleased ==
  ASSUME NEW CONSTANT configs \in SUBSET {c \in ReleaseConfig : AgreeOnTags(c)}
  PROVE  ReleaseSpec(configs) => []AllIsReleased
<1>1. ReleaseInit(configs) => ReleaseTyped /\ ReleaseInv /\ ServedInv
  <2>1. configs \in SUBSET ReleaseConfig
    OBVIOUS
  <2>2. QED
    BY <2>1, ReleaseInitTyped, ServedAtFirst
<1>2. ReleaseTyped /\ ReleaseInv /\ ServedInv /\ [ReleaseNext]_releaseVars => (ReleaseTyped /\ ReleaseInv /\ ServedInv)'
  <2>1. SUFFICES ASSUME ReleaseTyped, ReleaseInv, ServedInv, [ReleaseNext]_releaseVars
                 PROVE  ReleaseTyped' /\ ReleaseInv' /\ ServedInv'
    OBVIOUS
  <2>2. ReleaseTyped' /\ ReleaseInv'
    BY <2>1, ReleaseStepKeeps
  <2>3. AgreeOnTags(releaseConfig)'
    BY <2>1, HistoryOfServed DEF ServedInv
  <2>4. ASSUME ~expired', ~hasty', ~abandoned' PROVE Served'
    <3>1. Served /\ Orderly /\ AgreeOnTags(releaseConfig)
      BY <2>1, <2>4, HistoryOfServed DEF ServedInv, ReleaseInv
    <3>2. CASE \E r \in Runner : RunStep(r)
      BY <2>1, <2>4, <3>1, <3>2, RunStepServes
    <3>3. CASE \E i \in DOMAIN pulls : CloseRelease(i) \/ ReopenRelease(i) \/ MergeRelease(i)
      BY <2>1, <2>4, <3>1, <3>3, PullActsServe
    <3>4. CASE (\E b \in Branch : PushCommit(b) \/ ForceRelease(b)) \/ LeaseRunsOut \/ UNCHANGED releaseVars
      BY <2>1, <3>1, <3>4, OtherStepsServe
    <3>5. QED
      BY <2>1, <3>2, <3>3, <3>4 DEF ReleaseNext
  <2>5. QED
    BY <2>2, <2>3, <2>4 DEF ServedInv
<1>3. ReleaseTyped /\ ServedInv => AllIsReleased
  BY RestIsServed DEF ServedInv, AllIsReleased
<1>4. QED
  BY <1>1, <1>2, <1>3, PTL DEF ReleaseSpec

=============================================================================
