------------------------- MODULE AutoApproveProofs -------------------------
(***************************************************************************)
(* What auto-approve guarantees for any pull request, any configuration,   *)
(* any number of passes, and any pushes, edits and failures between their  *)
(* reads: whichever of the twenty-one processes, or the rule of the first  *)
(* generation, said yes, each file of a renovate pull request is about the *)
(* dependency of the title.                                                *)
(***************************************************************************)
EXTENDS AutoApprove, FiniteSetTheorems, WellFoundedInduction, TLAPS

USE BoundsAssumption

-----------------------------------------------------------------------------
(* Every variable keeps its type.                                          *)

Review == [user : {Approver, "human"}, state : {"APPROVED", "DISMISSED", "COMMENTED"}]

WorkTyped(number) ==
    /\ DOMAIN work = Workers
    /\ \A w \in Workers : work[w] = Idle \/ IsPass(work[w], number)

\* A pass that ends, or goes on at another place, is a pass.
LEMMA GoesOn ==
  ASSUME NEW number, WorkTyped(number), NEW w \in Workers, NEW x,
         x = Idle \/ IsPass(x, number), work' = [work EXCEPT ![w] = x]
  PROVE  WorkTyped(number)'
<1>1. DOMAIN work' = Workers /\ work'[w] = x
      /\ \A v \in Workers : v # w => work'[v] = work[v]
  BY DEF WorkTyped
<1>2. QED
  BY <1>1 DEF WorkTyped

\* A place of the handler, and what a pass at it keeps.
LEMMA PassAt ==
  ASSUME NEW number, NEW x, x = Idle \/ IsPass(x, number), x.at # "idle", NEW at
  PROVE  /\ IsPass(x, number)
         /\ [x EXCEPT !.at = at].at = at
         /\ at \in {"files", "prConfig", "config", "again", "decide", "reviews",
                    "approve", "label"} => IsPass([x EXCEPT !.at = at], number)
<1>1. IsPass(x, number)
  BY DEF Idle
<1>2. PICK a, d, f, r : x = [at |-> a, delivery |-> d, files |-> f, retries |-> r]
  BY <1>1 DEF IsPass
<1>3. [x EXCEPT !.at = at] = [at |-> at, delivery |-> d, files |-> f, retries |-> r]
  BY <1>2
<1>4. QED
  BY <1>1, <1>2, <1>3 DEF IsPass

\* Going on to another place of the handler.
LEMMA ToTyped ==
  ASSUME NEW number, WorkTyped(number), NEW w \in Workers, work[w].at # "idle", NEW at,
         at \in {"files", "prConfig", "config", "again", "decide", "reviews",
                 "approve", "label"},
         To(w, at)
  PROVE  WorkTyped(number)'
<1>1. PICK y : y = work[w]
  OBVIOUS
<1>2. y = Idle \/ IsPass(y, number)
  BY <1>1 DEF WorkTyped
<1>3. work' = [work EXCEPT ![w] = [y EXCEPT !.at = at]]
  BY <1>1 DEF To, WorkTyped
<1>4. IsPass([y EXCEPT !.at = at], number)
  BY <1>1, <1>2, PassAt
<1>5. QED
  BY <1>3, <1>4, GoesOn

\* Ending.
LEMMA DoneTyped ==
  ASSUME NEW number, WorkTyped(number), NEW w \in Workers, Done(w)
  PROVE  WorkTyped(number)'
BY GoesOn DEF Done

\* A pass whose call throws goes back to the queue with one try less, or is given up.
LEMMA RetryTyped ==
  ASSUME NEW number, WorkTyped(number), NEW w \in Workers, work[w].at # "idle",
         \A d \in queue : IsDelivery(d, number), Retry(w)
  PROVE  WorkTyped(number)' /\ \A d \in queue' : IsDelivery(d, number)
<1>1. WorkTyped(number)'
  BY DoneTyped DEF Retry
<1>2. PICK y : y = work[w]
  OBVIOUS
<1>3. IsDelivery(y.delivery, number)
  BY <1>2 DEF WorkTyped, IsPass, Idle
<1>4. PICK e : e = y.delivery
  OBVIOUS
<1>5. PICK n, a, t, b, c, k :
        e = [number |-> n, author |-> a, title |-> t, body |-> b, count |-> c, tries |-> k]
        /\ n \in {number, Undefined} /\ k \in 1 .. MaxTries
  BY <1>3, <1>4 DEF IsDelivery
<1>6. [e EXCEPT !.tries = @ - 1] =
        [number |-> n, author |-> a, title |-> t, body |-> b, count |-> c, tries |-> k - 1]
  BY <1>5
<1>7. e.tries > 1 => IsDelivery([e EXCEPT !.tries = @ - 1], number)
  BY <1>5, <1>6 DEF IsDelivery
<1>8. queue' = IF e.tries > 1 THEN queue \cup {[e EXCEPT !.tries = @ - 1]} ELSE queue
  BY <1>2, <1>4 DEF Retry
<1>9. QED
  BY <1>1, <1>7, <1>8

\* What is delivered of a pull request, and of a dismissal.
LEMMA DeliveryTyped ==
  ASSUME NEW p
  PROVE  IsDelivery(Delivery(p), p.number) /\ IsDelivery(DismissedDelivery(p), p.number)
<1>1. PICK n, a, t, b, c :
        n = p.number /\ a = p.author /\ t = p.title /\ b = p.body /\ c = p.count
  OBVIOUS
<1>2. PICK e : e = Delivery(p)
  OBVIOUS
<1>3. e = [number |-> n, author |-> a, title |-> t, body |-> b, count |-> c, tries |-> MaxTries]
  BY <1>1, <1>2 DEF Delivery
<1>4. PICK d : d = [e EXCEPT !.number = Undefined, !.count = Undefined]
  OBVIOUS
<1>5. d = [number |-> Undefined, author |-> a, title |-> t, body |-> b, count |-> Undefined,
           tries |-> MaxTries]
  BY <1>3, <1>4
<1>6. d = DismissedDelivery(p)
  BY <1>2, <1>4 DEF DismissedDelivery
<1>7. MaxTries \in 1 .. MaxTries
  OBVIOUS
<1>8. IsDelivery(e, n) /\ IsDelivery(d, n)
  BY <1>3, <1>5, <1>7 DEF IsDelivery
<1>9. QED
  BY <1>1, <1>2, <1>6, <1>8

\* What the people do delivers what is of this pull request.
LEMMA MoveTyped ==
  ASSUME AutoApproveTypeOK, NEW p, IsPullRequest(p), p.number = pr.number, NEW r,
         NEW day \in BOOLEAN, NEW news, NEW since \in BOOLEAN, Move(p, r, day, news, since),
         news \in SUBSET {Delivery(p), DismissedDelivery(p)}, reviews' \in Seq(Review)
  PROVE  AutoApproveTypeOK'
<1>1. \A d \in news : IsDelivery(d, pr.number)
  BY DeliveryTyped
<1>2. pr' = p /\ weekday' = day /\ pr'.number = pr.number /\ UNCHANGED <<exact, check, work>>
  BY DEF Move
<1>3. \A d \in queue' : IsDelivery(d, pr.number)
  BY <1>1 DEF Move, AutoApproveTypeOK
<1>4. settled' \in BOOLEAN
  BY DEF Move
<1>5. budget' \in [changes : Nat, faults : Nat, missed : BOOLEAN]
  BY DEF Move, AutoApproveTypeOK
<1>6. IsPullRequest(pr)'
  BY <1>2 DEF IsPullRequest
<1>7. QED
  BY <1>2, <1>3, <1>4, <1>5, <1>6 DEF AutoApproveTypeOK, Review

\* What the handler does leaves the pull request and the calendar alone.
LEMMA StillTyped ==
  ASSUME AutoApproveTypeOK, Still, NEW n, n = pr.number, WorkTyped(n)',
         \A d \in queue' : IsDelivery(d, n),
         exact' \in BOOLEAN, check' \in {"none", "success", "failure"},
         reviews' \in Seq(Review),
         budget' \in [changes : Nat, faults : Nat, missed : BOOLEAN]
  PROVE  AutoApproveTypeOK'
<1>1. pr' = pr /\ weekday' = weekday /\ settled' = settled
  BY DEF Still
<1>2. IsPullRequest(pr)'
  BY <1>1 DEF AutoApproveTypeOK, IsPullRequest
<1>3. DOMAIN work' = Workers /\ \A w \in Workers : work'[w] = Idle \/ IsPass(work'[w], n)
  BY DEF WorkTyped
<1>4. QED
  BY <1>1, <1>2, <1>3 DEF AutoApproveTypeOK, WorkTyped, Review

\* The pull request after an edit is one, and the same one.
LEMMA EditedPullRequest ==
  ASSUME NEW p, IsPullRequest(p), NEW title, NEW q, q = [p EXCEPT !.title = title]
  PROVE  IsPullRequest(q) /\ q.number = p.number
<1>1. PICK n, a, t, b, f, c :
        p = [number |-> n, author |-> a, title |-> t, body |-> b, files |-> f, count |-> c]
  BY DEF IsPullRequest
<1>2. q = [number |-> n, author |-> a, title |-> title, body |-> b, files |-> f,
           count |-> c]
  BY <1>1
<1>3. QED
  BY <1>1, <1>2 DEF IsPullRequest

\* One review more, or one dismissed.
LEMMA ReviewsTyped ==
  ASSUME reviews \in Seq(Review)
  PROVE  /\ \A r \in Review : Append(reviews, r) \in Seq(Review)
         /\ \A i \in DOMAIN reviews : [reviews EXCEPT ![i].state = "DISMISSED"] \in Seq(Review)
<1>1. ASSUME NEW i \in DOMAIN reviews
      PROVE [reviews EXCEPT ![i].state = "DISMISSED"] \in Seq(Review)
  <2>1. PICK r : r = reviews[i]
    OBVIOUS
  <2>7. r \in Review
    BY <2>1
  <2>2. PICK u \in {Approver, "human"}, s \in {"APPROVED", "DISMISSED", "COMMENTED"} :
          r = [user |-> u, state |-> s]
    BY <2>7 DEF Review
  <2>3. [r EXCEPT !.state = "DISMISSED"] = [user |-> u, state |-> "DISMISSED"]
    BY <2>2
  <2>4. [r EXCEPT !.state = "DISMISSED"] \in Review
    BY <2>3 DEF Review
  <2>5. [reviews EXCEPT ![i].state = "DISMISSED"] =
          [reviews EXCEPT ![i] = [r EXCEPT !.state = "DISMISSED"]]
    BY <2>1
  <2>6. QED
    BY <2>4, <2>5
<1>2. QED
  BY <1>1

\* The budget of faults and of changes.
LEMMA BudgetTyped ==
  ASSUME budget \in [changes : Nat, faults : Nat, missed : BOOLEAN], budget.faults > 0
  PROVE  /\ [budget EXCEPT !.faults = @ - 1] \in [changes : Nat, faults : Nat, missed : BOOLEAN]
         /\ \A yes \in BOOLEAN : [budget EXCEPT !.faults = @ - 1, !.missed = yes]
              \in [changes : Nat, faults : Nat, missed : BOOLEAN]
         /\ \A yes \in BOOLEAN : [budget EXCEPT !.faults = @ - 1, !.missed = @ \/ yes]
              \in [changes : Nat, faults : Nat, missed : BOOLEAN]
<1>1. PICK n \in Nat : n = budget.faults - 1
  OBVIOUS
<1>2. ASSUME NEW yes \in BOOLEAN
      PROVE (budget.missed \/ yes) \in BOOLEAN
  OBVIOUS
<1>3. [budget EXCEPT !.faults = n] \in [changes : Nat, faults : Nat, missed : BOOLEAN]
  OBVIOUS
<1>4. ASSUME NEW yes \in BOOLEAN
      PROVE [budget EXCEPT !.faults = n, !.missed = yes]
              \in [changes : Nat, faults : Nat, missed : BOOLEAN]
  OBVIOUS
<1>5. ASSUME NEW yes \in BOOLEAN
      PROVE [budget EXCEPT !.faults = @ - 1, !.missed = @ \/ yes]
              \in [changes : Nat, faults : Nat, missed : BOOLEAN]
  <2>1. PICK either \in BOOLEAN : either = (budget.missed \/ yes)
    BY <1>2, Zenon
  <2>2. [budget EXCEPT !.faults = @ - 1, !.missed = @ \/ yes] =
          [budget EXCEPT !.faults = n, !.missed = either]
    BY <1>1, <2>1, Zenon
  <2>3. QED
    BY <1>4, <2>2
<1>6. QED
  BY <1>1, <1>3, <1>4, <1>5

\* The handler of a pass.
LEMMA StepTyped ==
  ASSUME AutoApproveTypeOK, NEW w \in Workers, Step(w)
  PROVE  AutoApproveTypeOK'
<1>0. PICK n : n = pr.number
  OBVIOUS
<1>1. WorkTyped(n) /\ \A d \in queue : IsDelivery(d, n)
  BY <1>0 DEF AutoApproveTypeOK, WorkTyped
<1>2. /\ exact \in BOOLEAN /\ check \in {"none", "success", "failure"}
      /\ reviews \in Seq(Review)
      /\ budget \in [changes : Nat, faults : Nat, missed : BOOLEAN]
  BY DEF AutoApproveTypeOK, Review
<1>3. CASE Take(w)
  <2>1. PICK d \in queue :
          /\ queue' = queue \ {d}
          /\ work' = [work EXCEPT ![w] =
                        IF IsFrozen(d, repo) THEN Idle
                        ELSE [at |-> "files", delivery |-> d, files |-> {},
                              retries |-> LabelTries]]
          /\ UNCHANGED <<reviews, exact, check, budget>> /\ Still
    BY <1>3 DEF Take
  <2>2. PICK x : x = IF IsFrozen(d, repo) THEN Idle
                     ELSE [at |-> "files", delivery |-> d, files |-> {},
                           retries |-> LabelTries]
    OBVIOUS
  <2>3. x = Idle \/ IsPass(x, n)
    BY <1>1, <2>2 DEF IsPass
  <2>4. WorkTyped(n)'
    BY <1>1, <2>1, <2>2, <2>3, GoesOn
  <2>5. QED
    BY <1>1, <1>2, <2>1, <2>4, StillTyped, <1>0
<1>4. CASE ReadFiles(w)
  <2>1. WorkTyped(n)'
    <3>1. work[w].at # "idle" /\ (To(w, "prConfig") \/ To(w, "config"))
      BY <1>4 DEF ReadFiles
    <3>2. QED
      BY <1>1, <3>1, ToTyped
  <2>2. QED
    BY <1>1, <1>2, <1>4, <2>1, StillTyped, <1>0 DEF ReadFiles
<1>5. CASE CheckPRConfig(w)
  <2>1. PICK outcome \in ConfigOutcomes :
          IF outcome = "throws" THEN Retry(w) /\ UNCHANGED check
          ELSE Done(w) /\ SubmitCheck(outcome) /\ UNCHANGED queue
    BY <1>5 DEF CheckPRConfig
  <2>2. work[w].at # "idle" /\ UNCHANGED <<reviews, exact, budget>> /\ Still
    BY <1>5 DEF CheckPRConfig
  <2>3. WorkTyped(n)' /\ \A d \in queue' : IsDelivery(d, n)
    BY <1>1, <2>1, <2>2, RetryTyped, DoneTyped
  <2>4. check' \in {"none", "success", "failure"}
    BY <1>2, <2>1 DEF ConfigOutcomes, SubmitCheck
  <2>5. QED
    BY <1>2, <2>2, <2>3, <2>4, StillTyped, <1>0
<1>6. CASE ReadConfig(w)
  <2>1. /\ work[w].at # "idle" /\ UNCHANGED <<reviews, exact, queue, budget>> /\ Still
        /\ Done(w) \/ To(w, "again")
        /\ check' \in {check, "failure", "success"}
    BY <1>6 DEF ReadConfig, SubmitCheck
  <2>2. WorkTyped(n)'
    BY <1>1, <2>1, ToTyped, DoneTyped
  <2>3. QED
    BY <1>1, <1>2, <2>1, <2>2, StillTyped, <1>0
<1>7. CASE ReadFilesAgain(w)
  <2>1. PICK y : y = work[w]
    OBVIOUS
  <2>2. y.at = "again"
    BY <1>7, <2>1 DEF ReadFilesAgain
  <2>3. IsPass(y, n)
    BY <1>1, <2>1, <2>2 DEF WorkTyped, Idle
  <2>4. PICK a, d, f, r : y = [at |-> a, delivery |-> d, files |-> f, retries |-> r]
    BY <2>3 DEF IsPass
  <2>10. PICK files : files = pr.files
    OBVIOUS
  <2>5. PICK x : x = [at |-> "decide", delivery |-> d, files |-> files, retries |-> r]
    OBVIOUS
  <2>6. work' = [work EXCEPT ![w] = x] \/ Done(w)
    <3>5. PICK at : at = "decide"
      OBVIOUS
    <3>1. PICK z : z = [y EXCEPT !.files = files, !.at = at]
      OBVIOUS
    <3>6. z = [at |-> at, delivery |-> d, files |-> files, retries |-> r]
      BY <3>1, <2>4
    <3>2. z = x
      BY <3>5, <3>6, <2>5
    <3>3. work' = [work EXCEPT ![w] = z] \/ Done(w)
      BY <1>1, <1>7, <2>1, <2>10, <3>1, <3>5 DEF ReadFilesAgain, WorkTyped
    <3>4. QED
      BY <3>2, <3>3
  <2>7. IsPass(x, n)
    BY <2>3, <2>4, <2>5 DEF IsPass
  <2>8. WorkTyped(n)'
    BY <1>1, <2>6, <2>7, GoesOn, DoneTyped
  <2>9. QED
    BY <1>1, <1>2, <1>7, <2>8, StillTyped, <1>0 DEF ReadFilesAgain
<1>8. CASE Decide(w)
  <2>1. /\ work[w].at # "idle" /\ UNCHANGED <<reviews, exact, check, budget>> /\ Still
        /\ \/ To(w, "reviews") /\ UNCHANGED queue
           \/ Done(w) /\ UNCHANGED queue
           \/ Retry(w)
    BY <1>8 DEF Decide
  <2>2. WorkTyped(n)' /\ \A d \in queue' : IsDelivery(d, n)
    BY <1>1, <2>1, ToTyped, DoneTyped, RetryTyped
  <2>3. QED
    BY <1>2, <2>1, <2>2, StillTyped, <1>0
<1>9. CASE ReadReviews(w)
  <2>1. WorkTyped(n)'
    <3>1. work[w].at # "idle" /\ (To(w, "label") \/ To(w, "approve"))
      BY <1>9 DEF ReadReviews
    <3>2. QED
      BY <1>1, <3>1, ToTyped
  <2>2. QED
    BY <1>1, <1>2, <1>9, <2>1, StillTyped, <1>0 DEF ReadReviews
<1>10. CASE Approve(w)
  <2>1. WorkTyped(n)'
    BY <1>1, <1>10, ToTyped DEF Approve
  <2>2. reviews' \in Seq(Review)
    BY <1>2, <1>10, ReviewsTyped DEF Approve, Review
  <2>3. QED
    BY <1>1, <1>2, <1>10, <2>1, <2>2, StillTyped, <1>0 DEF Approve
<1>11. CASE AddLabel(w)
  <2>1. WorkTyped(n)'
    BY <1>1, <1>11, DoneTyped DEF AddLabel
  <2>2. exact' \in BOOLEAN
    BY <1>11 DEF AddLabel
  <2>3. QED
    BY <1>1, <1>2, <1>11, <2>1, <2>2, StillTyped, <1>0 DEF AddLabel
<1>12. QED
  BY <1>3, <1>4, <1>5, <1>6, <1>7, <1>8, <1>9, <1>10, <1>11 DEF Step

\* A call that fails.
LEMMA FaultTyped ==
  ASSUME AutoApproveTypeOK, NEW w \in Workers,
         Fail(w) \/ NotFound(w) \/ ConfigUnreadable(w) \/ LabelsChanged(w)
  PROVE  AutoApproveTypeOK'
<1>0. PICK n : n = pr.number
  OBVIOUS
<1>1. WorkTyped(n) /\ \A d \in queue : IsDelivery(d, n)
  BY <1>0 DEF AutoApproveTypeOK, WorkTyped
<1>2. /\ exact \in BOOLEAN /\ check \in {"none", "success", "failure"}
      /\ reviews \in Seq(Review)
      /\ budget \in [changes : Nat, faults : Nat, missed : BOOLEAN]
  BY DEF AutoApproveTypeOK, Review
<1>3. /\ work[w].at # "idle" /\ UNCHANGED <<reviews, exact, check>> /\ Still
      /\ budget.faults > 0
      /\ budget' \in {[budget EXCEPT !.faults = @ - 1],
                      [budget EXCEPT !.faults = @ - 1, !.missed = TRUE],
                      [budget EXCEPT !.faults = @ - 1, !.missed = @ \/ LastTry(w)]}
  BY Zenon DEF Fail, NotFound, ConfigUnreadable, LabelsChanged
<1>4. budget' \in [changes : Nat, faults : Nat, missed : BOOLEAN]
  <2>1. LastTry(w) \in BOOLEAN
    BY DEF LastTry
  <2>2. QED
    BY <1>2, <1>3, <2>1, BudgetTyped, Zenon
<1>5. WorkTyped(n)' /\ \A d \in queue' : IsDelivery(d, n)
  <2>1. CASE Retry(w)
    BY <1>1, <1>3, <2>1, RetryTyped
  <2>2. CASE Done(w) /\ UNCHANGED queue
    BY <1>1, <2>2, DoneTyped
  <2>3. CASE /\ work[w].retries > 0 /\ UNCHANGED queue
             /\ work' = [work EXCEPT ![w].retries = @ - 1]
    <3>1. PICK y : y = work[w]
      OBVIOUS
    <3>2. IsPass(y, n)
      BY <1>1, <1>3, <3>1 DEF WorkTyped, Idle
    <3>3. PICK a, d, f, r : y = [at |-> a, delivery |-> d, files |-> f, retries |-> r]
      BY <3>2 DEF IsPass
    <3>4. PICK x : x = [at |-> a, delivery |-> d, files |-> f, retries |-> r - 1]
      OBVIOUS
    <3>5. work' = [work EXCEPT ![w] = x]
      <4>1. PICK z : z = [y EXCEPT !.retries = @ - 1]
        OBVIOUS
      <4>2. z = x
        BY <4>1, <3>3, <3>4
      <4>3. work' = [work EXCEPT ![w] = z]
        BY <1>1, <2>3, <3>1, <4>1 DEF WorkTyped
      <4>4. QED
        BY <4>2, <4>3
    <3>6. IsPass(x, n)
      <4>1. r \in 0 .. LabelTries /\ r > 0
        BY <2>3, <3>1, <3>2, <3>3 DEF IsPass
      <4>2. r - 1 \in 0 .. LabelTries
        BY <4>1
      <4>3. QED
        BY <3>2, <3>3, <3>4, <4>2 DEF IsPass
    <3>7. QED
      BY <1>1, <2>3, <3>5, <3>6, GoesOn
  <2>4. QED
    BY <2>1, <2>2, <2>3 DEF Fail, NotFound, ConfigUnreadable, LabelsChanged
<1>6. QED
  BY <1>2, <1>3, <1>4, <1>5, StillTyped, <1>0

\* The people and the calendar.
LEMMA WorldTyped ==
  ASSUME AutoApproveTypeOK,
         \/ \E files \in Contents, author \in {pr.author, "human"} : Push(files, author)
         \/ \E title \in Titles : Edit(title)
         \/ Dismiss \/ Comment \/ OtherCloses \/ DayChanges
  PROVE  AutoApproveTypeOK'
<1>1. IsPullRequest(pr) /\ reviews \in Seq(Review) /\ weekday \in BOOLEAN
      /\ settled \in BOOLEAN
  BY DEF AutoApproveTypeOK, Review
<1>2. ASSUME NEW files \in Contents, NEW author, Push(files, author) PROVE AutoApproveTypeOK'
  <2>1. PICK p : p = [pr EXCEPT !.files = files, !.count = Cardinality(files)]
    OBVIOUS
  <2>2. PICK r : r = [repo EXCEPT !.commits = @ \cup {author}]
    OBVIOUS
  <2>3. IsPullRequest(p) /\ p.number = pr.number
    <3>1. PICK c : c = Cardinality(files)
      OBVIOUS
    <3>2. p = [pr EXCEPT !.files = files, !.count = c]
      BY <2>1, <3>1, Zenon
    <3>3. PICK old : old = pr
      OBVIOUS
    <3>4. PICK n, a, t, b, f, k :
            old = [number |-> n, author |-> a, title |-> t, body |-> b, files |-> f, count |-> k]
      BY <1>1, <3>3 DEF IsPullRequest
    <3>5. p = [old EXCEPT !.files = files, !.count = c]
      BY <3>2, <3>3, Zenon
    <3>6. p = [number |-> n, author |-> a, title |-> t, body |-> b, files |-> files, count |-> c]
      BY <3>4, <3>5
    <3>7. QED
      BY <3>3, <3>4, <3>6 DEF IsPullRequest
  <2>4. Move(p, r, weekday, {Delivery(p)}, TRUE) /\ UNCHANGED reviews
    BY <1>2, <2>1, <2>2, Zenon DEF Push
  <2>5. QED
    BY <1>1, <2>3, <2>4, MoveTyped
<1>3. ASSUME NEW title \in Titles, Edit(title) PROVE AutoApproveTypeOK'
  <2>1. PICK p : p = [pr EXCEPT !.title = title]
    OBVIOUS
  <2>2. IsPullRequest(p) /\ p.number = pr.number
    BY <1>1, <2>1, EditedPullRequest
  <2>3. Move(p, repo, weekday, {Delivery(p)}, TRUE) /\ UNCHANGED reviews
    BY <1>3, <2>1, Zenon DEF Edit
  <2>4. QED
    BY <1>1, <2>2, <2>3, MoveTyped
<1>4. CASE Dismiss
  <2>1. reviews' \in Seq(Review) /\ Move(pr, repo, weekday, {DismissedDelivery(pr)}, FALSE)
    BY <1>1, <1>4, ReviewsTyped DEF Dismiss
  <2>2. QED
    BY <1>1, <2>1, MoveTyped
<1>5. CASE Comment
  <2>1. reviews' \in Seq(Review) /\ Move(pr, repo, weekday, {}, settled)
    BY <1>1, <1>5, ReviewsTyped DEF Comment, Review
  <2>2. QED
    BY <1>1, <2>1, MoveTyped
<1>6. CASE OtherCloses
  <2>1. PICK r : Move(pr, r, weekday, {}, settled)
    BY <1>6 DEF OtherCloses
  <2>2. UNCHANGED reviews
    BY <1>6 DEF OtherCloses
  <2>3. QED
    BY <1>1, <2>1, <2>2, MoveTyped
<1>7. CASE DayChanges
  <2>1. Move(pr, repo, ~weekday, {}, settled) /\ UNCHANGED reviews
    BY <1>7 DEF DayChanges
  <2>2. (~weekday) \in BOOLEAN
    OBVIOUS
  <2>3. QED
    BY <1>1, <2>1, <2>2, MoveTyped
<1>8. QED
  BY <1>2, <1>3, <1>4, <1>5, <1>6, <1>7

\* Whatever happens, a delivery is of this pull request and has tries left, a label is
\* retried at most LabelTries times, and the other variables keep their types.
THEOREM AutoApproveTypeCorrect == AutoApproveSpec => []AutoApproveTypeOK
<1>1. AutoApproveInit => AutoApproveTypeOK
  <2> SUFFICES ASSUME AutoApproveInit PROVE AutoApproveTypeOK
    OBVIOUS
  <2>1. IsDelivery(Delivery(pr), pr.number)
    BY DeliveryTyped
  <2>2. settled \in BOOLEAN
    BY DEF AutoApproveInit, Fits
  <2>3. DOMAIN work = Workers /\ \A w \in Workers : work[w] = Idle
    BY DEF AutoApproveInit
  <2>4. reviews \in Seq([user : {Approver, "human"},
                          state : {"APPROVED", "DISMISSED", "COMMENTED"}])
    BY DEF AutoApproveInit
  <2>5. \A d \in queue : IsDelivery(d, pr.number)
    BY <2>1 DEF AutoApproveInit
  <2>6. QED
    BY <2>2, <2>3, <2>4, <2>5 DEF AutoApproveInit, AutoApproveTypeOK
<1>2. AutoApproveTypeOK /\ [AutoApproveNext]_vars => AutoApproveTypeOK'
  <2> SUFFICES ASSUME AutoApproveTypeOK, [AutoApproveNext]_vars PROVE AutoApproveTypeOK'
    OBVIOUS
  <2>1. CASE AutoApproveNext
    BY <2>1, StepTyped, FaultTyped, WorldTyped DEF AutoApproveNext
  <2>2. CASE UNCHANGED vars
    BY <2>2 DEF vars, AutoApproveTypeOK
  <2>3. QED
    BY <2>1, <2>2
<1>3. QED
  BY <1>1, <1>2, PTL DEF AutoApproveSpec

-----------------------------------------------------------------------------
(* What a yes says of a renovate pull request.                             *)

\* The file is a lock file, or was read and is about the dependency of the title.
IsAbout(f, title) ==
    \/ f.name \in LockFiles \cup {"go.sum"}
    \/ /\ f.readable
       /\ LET deps == {f.old.dep, f.new.dep, title.dep}
          IN  Cardinality(deps) = 1 \/ deps \subseteq Grpc

\* The library's well-founded order of the numbers.
Below == {ss \in Nat \X Nat : ss[1] < ss[2]}

\* Of some numbers there is a least.
LEMMA SomeLeast ==
  ASSUME NEW S \in SUBSET Nat, S # {}
  PROVE  \E i \in S : \A j \in S : i <= j
<1>1. IsWellFoundedOn(Below, Nat)
  BY NatLessThanWellFounded, Zenon DEF OpToRel, Below
<1>2. PICK m \in S : \A n \in S : <<n, m>> \notin Below
  BY <1>1, WFMin
<1>3. ASSUME NEW n \in S PROVE m <= n
  <2>1. n \in Nat /\ m \in Nat /\ <<n, m>> \notin Below
    BY <1>2
  <2>2. <<n, m>> \in Nat \X Nat /\ <<n, m>>[1] = n /\ <<n, m>>[2] = m
    BY <2>1
  <2>3. ~(n < m)
    BY <2>1, <2>2, Zenon DEF Below
  <2>4. QED
    BY <2>1, <2>3
<1>4. QED
  BY <1>3

\* A file that was read, and whose replaced line and title name one dependency.
LEMMA OneDependency ==
  ASSUME NEW p, NEW f, f.readable, SameDependency(p, f)
  PROVE  IsAbout(f, p.title)
<1>1. {f.old.dep, f.new.dep, p.title.dep} = {f.new.dep}
  BY DEF SameDependency
<1>2. Cardinality({f.new.dep}) = 1
  BY FS_Singleton
<1>3. QED
  BY <1>1, <1>2 DEF IsAbout

\* The processes that approve a renovate pull request check each file.
LEMMA ProcessNames ==
  ASSUME NEW process \in Process, NEW p, p.author = "renovate-bot", NEW r,
         NEW day \in BOOLEAN, CheckPR(process, p, r, day), NEW f \in p.files
  PROVE  IsAbout(f, p.title)
<1>1. CASE process = "NodeDependency"
  <2>1. NodeDependency(p)
    BY <1>1 DEF CheckPR
  <2>2. QED
    BY <2>1, OneDependency DEF NodeDependency, DoesDependencyChangeMatchPRTitleV2
<1>2. CASE process = "NodeGeneratorDependency"
  <2>1. NodeGeneratorDependency(p)
    BY <1>2 DEF CheckPR
  <2>2. CASE f.name \in LockFiles
    BY <2>2 DEF IsAbout
  <2>3. CASE f.name \notin LockFiles
    BY <2>1, <2>3, OneDependency
       DEF NodeGeneratorDependency, DoesDependencyChangeMatchPRTitleV2
  <2>4. QED
    BY <2>2, <2>3
<1>3. CASE process = "JavaDependency"
  <2>1. JavaDependency(p)
    BY <1>3 DEF CheckPR
  <2>2. /\ f.readable
        /\ SameDependency(p, f) \/ {f.new.dep, f.old.dep, p.title.dep} \subseteq Grpc
    BY <2>1 DEF JavaDependency, JavaFile, DoesDependencyChangeMatchPRTitleJava
  <2>3. CASE SameDependency(p, f)
    BY <2>2, <2>3, OneDependency
  <2>4. CASE {f.new.dep, f.old.dep, p.title.dep} \subseteq Grpc
    BY <2>2, <2>4 DEF IsAbout
  <2>5. QED
    BY <2>2, <2>3, <2>4
<1>4. CASE process = "JavaSampleAppDependency"
  <2>1. JavaSampleAppDependency(p)
    BY <1>4 DEF CheckPR
  <2>2. QED
    BY <2>1, OneDependency
       DEF JavaSampleAppDependency, JavaFile, DoesDependencyChangeMatchPRTitleV2
<1>5. CASE process = "PythonDependency"
  <2>1. PythonDependency(p)
    BY <1>5 DEF CheckPR
  <2>2. QED
    BY <2>1, OneDependency
       DEF PythonDependency, BumpedFile, DoesDependencyChangeMatchPRTitleV2
<1>6. CASE process = "PythonSampleAppDependency"
  <2>1. PythonSampleAppDependency(p)
    BY <1>6 DEF CheckPR
  <2>2. QED
    BY <2>1, OneDependency
       DEF PythonSampleAppDependency, BumpedFile, DoesDependencyChangeMatchPRTitleV2
<1>7. CASE process = "PythonSampleDependency"
  <2>1. PythonSampleDependency(p)
    BY <1>7 DEF CheckPR
  <2>2. QED
    BY <2>1, OneDependency
       DEF PythonSampleDependency, DoesDependencyChangeMatchPRTitleV2
<1>8. CASE process = "DockerDependency"
  <2>1. DockerDependency(p)
    BY <1>8 DEF CheckPR
  <2>2. QED
    BY <2>1, OneDependency DEF DockerDependency, DoesDependencyChangeMatchPRTitleV2
<1>9. CASE process = "GoDependency"
  <2>1. GoDependency(p)
    BY <1>9 DEF CheckPR
  <2>2. CASE f.name = "go.sum"
    BY <2>2 DEF IsAbout
  <2>3. CASE f.name # "go.sum"
    BY <2>1, <2>3, OneDependency DEF GoDependency, DoesDependencyChangeMatchPRTitleV2
  <2>4. QED
    BY <2>2, <2>3
<1>10. CASE process \in {"UpdateDiscoveryArtifacts", "RegenerateReadme",
                         "DiscoveryDocUpdate", "NodeRelease", "JavaApiaryCodegen",
                         "PHPApiaryCodegen", "GoApiaryCodegen", "RubyApiaryCodegen"}
  <2>1. \/ UpdateDiscoveryArtifacts(p) \/ RegenerateReadme(p) \/ DiscoveryDocUpdate(p)
        \/ NodeRelease(p, day) \/ JavaApiaryCodegen(p) \/ PHPApiaryCodegen(p)
        \/ GoApiaryCodegen(p) \/ RubyApiaryCodegen(p)
    BY <1>10 DEF CheckPR
  <2>2. \E authors \in SUBSET (STRING \ {"renovate-bot"}) : p.author \in authors
    BY <2>1 DEF UpdateDiscoveryArtifacts, RegenerateReadme, DiscoveryDocUpdate, NodeRelease,
                JavaApiaryCodegen, PHPApiaryCodegen, GoApiaryCodegen, RubyApiaryCodegen,
                ClassRule
  <2>3. QED
    BY <2>2
<1>11. CASE process \in {"OwlBotTemplateChangesNode", "OwlBotPRsNode",
                         "OwlBotTemplateChanges", "OwlBotAPIChanges"}
  <2>1. \/ OwlBotTemplateChangesNode(p, r) \/ OwlBotPRsNode(p, r)
        \/ OwlBotTemplateChanges(p, r) \/ OwlBotAPIChanges(p, r)
    BY <1>11 DEF CheckPR
  <2>2. p.author = Owl
    BY <2>1 DEF OwlBotTemplateChangesNode, OwlBotPRsNode, OwlBotTemplateChanges,
                OwlBotAPIChanges
  <2>3. QED
    BY <2>2 DEF Owl
<1>12. QED
  BY <1>1, <1>2, <1>3, <1>4, <1>5, <1>6, <1>7, <1>8, <1>9, <1>10, <1>11 DEF Process

\* So does the rule of the first generation, and of a list of processes the first one
\* that says yes.
LEMMA RuleNames ==
  ASSUME NEW rules, NEW p, p.author = "renovate-bot", NEW day \in BOOLEAN,
         CheckPRAgainstConfig(rules, p, day), NEW f \in p.files
  PROVE  IsAbout(f, p.title)
<1>1. f.readable /\ LanguageVersioningRule(p.author, f.name) # "none"
  BY DEF CheckPRAgainstConfig
<1>2. LanguageVersioningRule(p.author, f.name) # "release"
  BY DEF LanguageVersioningRule
<1>3. SameDependency(p, f)
  BY <1>1, <1>2
     DEF CheckPRAgainstConfig, AdditionalRules, DoesDependencyChangeMatchPRTitle
<1>4. QED
  BY <1>1, <1>3, OneDependency

LEMMA ListNames ==
  ASSUME NEW processes \in Seq(Process), NEW p, p.author = "renovate-bot", NEW r,
         NEW day \in BOOLEAN, CheckPRAgainstConfigV2(processes, p, r, day) = "yes",
         NEW f \in p.files
  PROVE  IsAbout(f, p.title)
<1> DEFINE stop == {i \in DOMAIN processes :
                       Throws(processes[i], r) \/ CheckPR(processes[i], p, r, day)}
           first == CHOOSE i \in stop : \A j \in stop : i <= j
<1>1. stop # {} /\ ~Throws(processes[first], r)
  BY Zenon DEF CheckPRAgainstConfigV2
<1>2. \E i \in stop : \A j \in stop : i <= j
  <2>1. stop \in SUBSET Nat
    OBVIOUS
  <2>2. QED
    BY <1>1, <2>1, SomeLeast
<1>3. first \in stop
  BY <1>2
<1>4. PICK n \in DOMAIN processes : CheckPR(processes[n], p, r, day)
  BY <1>1, <1>3, Zenon
<1>5. processes[n] \in Process
  OBVIOUS
<1>6. QED
  BY <1>4, <1>5, ProcessNames

\* The decision of the handler.
LEMMA VerdictNames ==
  ASSUME config.kind \in {"v1", "v2"}, config.kind = "v2" => config.processes \in Seq(Process),
         NEW d, d.author = "renovate-bot", NEW files, NEW r, NEW day \in BOOLEAN,
         Verdict(d, files, r, day) = "yes", NEW f \in files
  PROVE  IsAbout(f, d.title)
<1>1. PICK p : p = Payload(d, files)
  OBVIOUS
<1>2. p.author = "renovate-bot" /\ p.title = d.title /\ p.files = files
  BY <1>1 DEF Payload
<1>3. CASE config.kind = "v1"
  <2>1. CheckPRAgainstConfig(config.rules, p, day)
    BY <1>1, <1>3 DEF Verdict
  <2>2. QED
    BY <1>2, <2>1, RuleNames
<1>4. CASE config.kind = "v2"
  <2>1. CheckPRAgainstConfigV2(config.processes, p, r, day) = "yes"
    BY <1>1, <1>4 DEF Verdict
  <2>2. QED
    BY <1>2, <1>4, <2>1, ListNames
<1>5. QED
  BY <1>3, <1>4

-----------------------------------------------------------------------------
(* What a pass approves.                                                   *)

Decided == {"reviews", "approve", "label"}

\* A pass that goes on to approve a renovate pull request names its dependency.
IsNamed(x) ==
    x.at \in Decided /\ x.delivery.author = "renovate-bot"
    => \A f \in x.files : IsAbout(f, x.delivery.title)

\* A pass reaches the decision under a configuration only.
IsConfigured(x, kind) ==
    x.at \in {"again", "decide"} \cup Decided => kind \in {"v1", "v2"}

\* The inductive invariant.
NamedInv ==
    /\ AutoApproveTypeOK
    /\ config.kind \in {"none", "invalid", "v1", "v2"}
    /\ config.kind = "v2" => config.processes \in Seq(Process)
    /\ \A w \in Workers : IsNamed(work[w]) /\ IsConfigured(work[w], config.kind)

\* A step of one pass leaves the others as they were.
LEMMA NamedMove ==
  ASSUME NamedInv, AutoApproveTypeOK', UNCHANGED config, NEW w \in Workers, NEW x,
         work' = [work EXCEPT ![w] = x], IsNamed(x), IsConfigured(x, config.kind)
  PROVE  NamedInv'
<1>1. DOMAIN work = Workers
  BY DEF NamedInv, AutoApproveTypeOK
<1>2. work'[w] = x /\ \A v \in Workers : v # w => work'[v] = work[v]
  BY <1>1
<1>3. PICK k : k = config.kind
  OBVIOUS
<1>4. config' = config
  OBVIOUS
<1>5. \A v \in Workers : IsNamed(work'[v]) /\ IsConfigured(work'[v], k)
  BY <1>2, <1>3 DEF NamedInv
<1>6. QED
  BY <1>3, <1>4, <1>5 DEF NamedInv

\* A pass that goes on elsewhere has the delivery and the files that it had.
LEMMA NamedTo ==
  ASSUME NamedInv, AutoApproveTypeOK', UNCHANGED config, NEW w \in Workers, NEW at,
         work[w].at # "idle", To(w, at),
         at \in {"again"} \cup Decided => config.kind \in {"v1", "v2"},
         at # "decide",
         at \in Decided => work[w].at \in Decided \/ IsNamed([work[w] EXCEPT !.at = at])
  PROVE  NamedInv'
<1>1. DOMAIN work = Workers /\ (work[w] = Idle \/ IsPass(work[w], pr.number))
  BY DEF NamedInv, AutoApproveTypeOK
<1>2. PICK y : y = work[w]
  OBVIOUS
<1>3. IsPass(y, pr.number)
  BY <1>1, <1>2 DEF Idle
<1>4. PICK a, d, f, r : y = [at |-> a, delivery |-> d, files |-> f, retries |-> r]
  BY <1>3 DEF IsPass
<1>5. PICK x : x = [y EXCEPT !.at = at]
  OBVIOUS
<1>6. x = [at |-> at, delivery |-> d, files |-> f, retries |-> r]
  BY <1>4, <1>5
<1>7. work' = [work EXCEPT ![w] = x]
  BY <1>1, <1>2, <1>5 DEF To
<1>8. IsNamed(x)
  <2>1. IsNamed(y)
    BY <1>2 DEF NamedInv
  <2>2. at \in Decided => y.at \in Decided \/ IsNamed(x)
    BY <1>2, <1>5
  <2>3. QED
    BY <1>4, <1>6, <2>1, <2>2 DEF IsNamed
<1>9. IsConfigured(x, config.kind)
  BY <1>6 DEF IsConfigured
<1>10. QED
  BY <1>7, <1>8, <1>9, NamedMove

\* A pass that ends names nothing.
LEMMA NamedDone ==
  ASSUME NamedInv, AutoApproveTypeOK', UNCHANGED config, NEW w \in Workers, Done(w)
  PROVE  NamedInv'
<1>1. IsNamed(Idle) /\ IsConfigured(Idle, config.kind)
  BY DEF Idle, IsNamed, IsConfigured, Decided
<1>2. QED
  BY <1>1, NamedMove DEF Done

\* The decision is the only way to approve.
LEMMA NamedDecide ==
  ASSUME NamedInv, AutoApproveTypeOK', NEW w \in Workers, Decide(w)
  PROVE  NamedInv'
<1>1. work[w].at = "decide" /\ UNCHANGED config
  BY DEF Decide, Still
<1>2. CASE Done(w) \/ Retry(w)
  BY <1>1, <1>2, NamedDone DEF Retry
<1>3. CASE /\ To(w, "reviews")
           /\ Verdict(work[w].delivery, work[w].files, repo, weekday) = "yes"
  <2>1. config.kind \in {"v1", "v2"}
    BY <1>1 DEF NamedInv, IsConfigured
  <2>2. PICK y : y = work[w]
    OBVIOUS
  <2>3. IsPass(y, pr.number)
    BY <1>1, <2>2 DEF NamedInv, AutoApproveTypeOK, Idle
  <2>4. PICK a, d, f, r : y = [at |-> a, delivery |-> d, files |-> f, retries |-> r]
    BY <2>3 DEF IsPass
  <2>5. PICK x : x = [y EXCEPT !.at = "reviews"]
    OBVIOUS
  <2>6. x = [at |-> "reviews", delivery |-> d, files |-> f, retries |-> r]
    BY <2>4, <2>5
  <2>7. Verdict(d, f, repo, weekday) = "yes"
    BY <1>3, <2>2, <2>4
  <2>8. weekday \in BOOLEAN /\ (config.kind = "v2" => config.processes \in Seq(Process))
    BY DEF NamedInv, AutoApproveTypeOK
  <2>9. d.author = "renovate-bot" => \A g \in f : IsAbout(g, d.title)
    BY <2>1, <2>7, <2>8, VerdictNames
  <2>10. IsNamed(x)
    BY <2>6, <2>9 DEF IsNamed
  <2>11. IsNamed([work[w] EXCEPT !.at = "reviews"])
    BY <2>2, <2>5, <2>10
  <2>12. QED
    BY <1>1, <1>3, <2>1, <2>11, NamedTo
<1>4. QED
  BY <1>2, <1>3 DEF Decide

LEMMA NamedStep ==
  ASSUME NamedInv, AutoApproveTypeOK', NEW w \in Workers, Step(w)
  PROVE  NamedInv'
<1>1. UNCHANGED config
  BY DEF Step, Take, ReadFiles, CheckPRConfig, ReadConfig, ReadFilesAgain, Decide,
         ReadReviews, Approve, AddLabel, Still
<1>2. CASE Take(w)
  <2>1. PICK d, x : /\ work' = [work EXCEPT ![w] = x]
                    /\ x = IF IsFrozen(d, repo) THEN Idle
                           ELSE [at |-> "files", delivery |-> d, files |-> {},
                                 retries |-> LabelTries]
    BY <1>2, Zenon DEF Take
  <2>2. IsNamed(x) /\ IsConfigured(x, config.kind)
    BY <2>1 DEF IsNamed, IsConfigured, Idle, Decided
  <2>3. QED
    BY <1>1, <2>1, <2>2, NamedMove
<1>3. CASE ReadFiles(w)
  <2>1. work[w].at # "idle" /\ (To(w, "prConfig") \/ To(w, "config"))
    BY <1>3 DEF ReadFiles
  <2>2. QED
    BY <1>1, <2>1, NamedTo DEF Decided
<1>4. CASE CheckPRConfig(w)
  <2>1. Done(w)
    BY <1>4 DEF CheckPRConfig, Retry
  <2>2. QED
    BY <1>1, <2>1, NamedDone
<1>5. CASE ReadConfig(w)
  <2>1. /\ work[w].at # "idle"
        /\ Done(w) \/ (To(w, "again") /\ config.kind \notin {"none", "invalid"})
    BY <1>5 DEF ReadConfig
  <2>2. config.kind \notin {"none", "invalid"} => config.kind \in {"v1", "v2"}
    BY DEF NamedInv
  <2>3. CASE Done(w)
    BY <1>1, <2>3, NamedDone
  <2>4. CASE To(w, "again") /\ config.kind \notin {"none", "invalid"}
    BY <1>1, <2>1, <2>2, <2>4, NamedTo DEF Decided
  <2>5. QED
    BY <2>1, <2>3, <2>4
<1>6. CASE ReadFilesAgain(w)
  <2>1. PICK y : y = work[w]
    OBVIOUS
  <2>2. DOMAIN work = Workers /\ y.at = "again" /\ IsPass(y, pr.number)
    BY <1>6, <2>1 DEF NamedInv, AutoApproveTypeOK, ReadFilesAgain, Idle
  <2>3. PICK a, d, f, r : y = [at |-> a, delivery |-> d, files |-> f, retries |-> r]
    BY <2>2 DEF IsPass
  <2>4. PICK files, at : files = pr.files /\ at = "decide"
    OBVIOUS
  <2>5. PICK z : z = [y EXCEPT !.files = files, !.at = at]
    OBVIOUS
  <2>6. z = [at |-> at, delivery |-> d, files |-> files, retries |-> r]
    BY <2>3, <2>5
  <2>7. work' = [work EXCEPT ![w] = z] \/ Done(w)
    BY <1>6, <2>1, <2>2, <2>4, <2>5 DEF ReadFilesAgain
  <2>8. IsConfigured(y, config.kind)
    BY <2>1 DEF NamedInv
  <2>9. IsNamed(z) /\ IsConfigured(z, config.kind)
    BY <2>2, <2>4, <2>6, <2>8 DEF IsNamed, IsConfigured, Decided
  <2>10. QED
    BY <1>1, <2>7, <2>9, NamedMove, NamedDone
<1>7. CASE Decide(w)
  BY <1>7, NamedDecide
<1>8. CASE ReadReviews(w) \/ Approve(w)
  <2>1. /\ work[w].at \in Decided
        /\ To(w, "label") \/ To(w, "approve")
    BY <1>8 DEF ReadReviews, Approve, Decided
  <2>2. config.kind \in {"v1", "v2"}
    BY <2>1 DEF NamedInv, IsConfigured
  <2>3. QED
    BY <1>1, <2>1, <2>2, NamedTo DEF Decided
<1>9. CASE AddLabel(w)
  BY <1>1, <1>9, NamedDone DEF AddLabel
<1>10. QED
  BY <1>2, <1>3, <1>4, <1>5, <1>6, <1>7, <1>8, <1>9 DEF Step

LEMMA NamedFault ==
  ASSUME NamedInv, AutoApproveTypeOK', NEW w \in Workers,
         Fail(w) \/ NotFound(w) \/ ConfigUnreadable(w) \/ LabelsChanged(w)
  PROVE  NamedInv'
<1>1. UNCHANGED config /\ work[w].at # "idle"
  BY DEF Fail, NotFound, ConfigUnreadable, LabelsChanged, Still
<1>2. CASE Done(w)
  BY <1>1, <1>2, NamedDone
<1>3. CASE LabelsChanged(w) /\ work' = [work EXCEPT ![w].retries = @ - 1]
  <2>1. PICK y : y = work[w]
    OBVIOUS
  <2>2. DOMAIN work = Workers /\ IsPass(y, pr.number)
    BY <1>1, <2>1 DEF NamedInv, AutoApproveTypeOK, Idle
  <2>3. PICK a, d, f, r : y = [at |-> a, delivery |-> d, files |-> f, retries |-> r]
    BY <2>2 DEF IsPass
  <2>4. PICK z : z = [y EXCEPT !.retries = @ - 1]
    OBVIOUS
  <2>5. z = [at |-> a, delivery |-> d, files |-> f, retries |-> r - 1]
    BY <2>3, <2>4
  <2>6. work' = [work EXCEPT ![w] = z]
    BY <1>3, <2>1, <2>2, <2>4
  <2>7. IsNamed(y) /\ IsConfigured(y, config.kind)
    BY <2>1 DEF NamedInv
  <2>8. IsNamed(z) /\ IsConfigured(z, config.kind)
    BY <2>3, <2>5, <2>7 DEF IsNamed, IsConfigured
  <2>9. QED
    BY <1>1, <2>6, <2>8, NamedMove
<1>4. QED
  BY <1>2, <1>3 DEF Fail, NotFound, ConfigUnreadable, LabelsChanged, Retry

\* A renovate pull request is approved only if each file that the pass listed is a lock
\* file or about the dependency its title names, under either generation of the
\* configuration and any list of processes, whatever is pushed or edited meanwhile.
THEOREM NamesDependency == AutoApproveSpec => []OnlyNamedDependency
<1>1. AutoApproveInit /\ AutoApproveTypeOK => NamedInv
  <2> SUFFICES ASSUME AutoApproveInit, AutoApproveTypeOK PROVE NamedInv
    OBVIOUS
  <2>1. \A w \in Workers : work[w] = Idle
    BY DEF AutoApproveInit
  <2>2. IsNamed(Idle) /\ IsConfigured(Idle, config.kind)
    BY DEF Idle, IsNamed, IsConfigured, Decided
  <2>3. QED
    BY <2>1, <2>2 DEF AutoApproveInit, NamedInv
<1>2. NamedInv /\ AutoApproveTypeOK' /\ [AutoApproveNext]_vars => NamedInv'
  <2> SUFFICES ASSUME NamedInv, AutoApproveTypeOK', [AutoApproveNext]_vars PROVE NamedInv'
    OBVIOUS
  <2>1. ASSUME NEW w \in Workers,
               Step(w) \/ Fail(w) \/ NotFound(w) \/ ConfigUnreadable(w) \/ LabelsChanged(w)
        PROVE NamedInv'
    BY <2>1, NamedStep, NamedFault
  <2>2. CASE UNCHANGED <<config, work>>
    BY <2>2 DEF NamedInv
  <2>3. CASE \E p, r, day, news, since : Move(p, r, day, news, since)
    BY <2>2, <2>3 DEF Move
  <2>4. \/ \E files \in Contents, author \in {pr.author, "human"} : Push(files, author)
        \/ \E title \in Titles : Edit(title)
        \/ Dismiss \/ Comment \/ OtherCloses \/ DayChanges
        => \E p, r, day, news, since : Move(p, r, day, news, since)
    BY Zenon DEF Push, Edit, Dismiss, Comment, OtherCloses, DayChanges
  <2>5. QED
    BY <2>1, <2>2, <2>3, <2>4 DEF AutoApproveNext, vars
<1>3. NamedInv => OnlyNamedDependency
  <2> SUFFICES ASSUME NamedInv, NEW w \in Workers, work[w].at \in Decided,
                      work[w].delivery.author = "renovate-bot", NEW f \in work[w].files
               PROVE  IsAbout(f, work[w].delivery.title)
    BY DEF OnlyNamedDependency, IsAbout, Decided
  <2>1. QED
    BY DEF NamedInv, IsNamed
<1>4. QED
  BY <1>1, <1>2, <1>3, AutoApproveTypeCorrect, PTL DEF AutoApproveSpec
=============================================================================
