------------------------ MODULE RepositoryBotsProofs ------------------------
(***************************************************************************)
(* The bots of a repository, for any number of repositories, targets,      *)
(* handlers, pushes, labels, comments and failing calls: cherry-pick-bot,  *)
(* the cron that fans out to repositories, and snippet-bot, do-not-merge   *)
(* and header-checker-lint on a pull request.                              *)
(***************************************************************************)
EXTENDS RepositoryBots, ReleasePleaseProofs, FiniteSetTheorems, SequenceTheorems, WellFoundedInduction, TLAPS

----------------------------------------------------------------------------
(* cherry-pick-bot: the types. *)

CommitOf == [reach : Nat, tree : SUBSET Nat, base : SUBSET Nat, picks : Nat]
Handler  == [at : Working \cup {"get", "list", "next"}, job : Jobs, todo : SUBSET Target,
             target : Target, head : CommitOf, tree : SUBSET Nat]

\* A branch is there, with a commit as its head, or not.
Refs == [Key -> {{}} \cup {{c} : c \in CommitOf}]

GithubTyped ==
  /\ original \in {"open", "merged", "closed"}
  /\ asked \subseteq Target \X BOOLEAN \X Place /\ pageFull \in BOOLEAN
  /\ conflicts \subseteq Target /\ told \subseteq Target
  /\ targets \in [Target -> CommitOf]
  /\ branches \in Refs /\ temps \in Refs
  /\ pickPulls \in [Key -> {"none", "open", "closed", "merged"}]

PickTyped ==
  /\ GithubTyped
  /\ inbox \subseteq Jobs
  /\ picker \in [Picker -> {Idle} \cup Handler]
  /\ \A h \in Picker : picker[h].at = "get" => picker[h].job.kind = "comment"
  /\ pickFaults \in 0 .. MaxPickFaults /\ moves \in 0 .. MaxTargetMoves /\ written \in 0 .. MaxComments
  /\ crowded \in BOOLEAN /\ gaveUp \in BOOLEAN

\* What a commit is made of makes a commit.
LEMMA CommitTyped ==
  ASSUME NEW reach \in Nat, NEW tree \in SUBSET Nat, NEW base \in SUBSET Nat, NEW picks \in Nat
  PROVE  Commit(reach, tree, base, picks) \in CommitOf
BY DEF Commit, CommitOf

\* What is known of a handler that is at work.
LEMMA HandlerTyped ==
  ASSUME PickTyped, NEW h \in Picker, picker[h] # Idle
  PROVE  /\ picker[h] \in Handler /\ KeyOf(picker[h]) \in Key
         /\ picker[h].at \in Working \cup {"get", "list", "next"}
         /\ picker[h].job \in Jobs /\ picker[h].target \in Target /\ picker[h].todo \subseteq Target
         /\ picker[h].head \in CommitOf /\ picker[h].tree \in SUBSET Nat
<1>1. picker[h] \in Handler
  BY DEF PickTyped
<1>2. picker[h].job.sha \in {"merge", "test"}
  BY <1>1 DEF Handler, Jobs
<1>3. QED
  BY <1>1, <1>2 DEF Handler, KeyOf, Key

\* Only one that is at work is anywhere.
LEMMA WorkingTyped ==
  ASSUME PickTyped, NEW h \in Picker, picker[h].at \in Working \cup {"get", "list", "next"}
  PROVE  picker[h] # Idle
BY DEF Idle, Working

\* A handler goes on.
LEMMA GoesTyped ==
  ASSUME PickTyped, NEW h \in Picker, NEW p \in {Idle} \cup Handler,
         p.at = "get" => p.job.kind = "comment", Goes(h, p)
  PROVE  /\ picker' \in [Picker -> {Idle} \cup Handler]
         /\ \A g \in Picker : picker'[g] = IF g = h THEN p ELSE picker[g]
         /\ \A g \in Picker : picker'[g].at = "get" => picker'[g].job.kind = "comment"
         /\ crowded' \in BOOLEAN
BY DEF PickTyped, Goes

\* Every type is right at the start.
LEMMA PickInitTyped ==
  ASSUME PickInit
  PROVE  PickTyped
<1>1. Commit(0, {0}, {0}, 0) \in CommitOf
  BY CommitTyped
<1>2. GithubTyped
  BY <1>1 DEF PickInit, GithubTyped, Refs
<1>3. \A h \in Picker : picker[h] = Idle
  BY DEF PickInit
<1>4. pickFaults \in 0 .. MaxPickFaults /\ moves \in 0 .. MaxTargetMoves /\ written \in 0 .. MaxComments
  BY PickAssumption DEF PickInit
<1>5. picker \in [Picker -> {Idle} \cup Handler]
  BY DEF PickInit
<1>6. crowded = FALSE /\ gaveUp = FALSE /\ inbox = {}
  BY DEF PickInit
<1>7. \A h \in Picker : picker[h].at # "get"
  BY <1>3 DEF Idle
<1>8. QED
  BY <1>2, <1>4, <1>5, <1>6, <1>7, Zenon DEF PickTyped

\* A step of a handler that leaves its task alone.
LEMMA StepTyped ==
  ASSUME PickTyped, NEW h \in Picker, NEW p \in {Idle} \cup Handler, p.at = "get" => p.job.kind = "comment",
         Goes(h, p), GithubTyped', inbox' \subseteq Jobs, UNCHANGED countVars, gaveUp' \in BOOLEAN
  PROVE  PickTyped'
BY GoesTyped DEF PickTyped, countVars

\* The steps of a handler keep every type.
LEMMA PickerKeepsTyped ==
  ASSUME PickTyped, NEW h \in Picker, PickerStep(h)
  PROVE  PickTyped'
<1> DEFINE p == picker[h]
           k == KeyOf(picker[h])
<1>0. /\ GithubTyped /\ inbox \subseteq Jobs /\ gaveUp \in BOOLEAN
      /\ Idle \in {Idle} \cup Handler /\ Idle.at # "get"
  BY DEF PickTyped, Idle
<1>1. /\ UNCHANGED <<githubVars>> => GithubTyped'
      /\ "next" # "get" /\ \A at \in Working : at # "get"
  BY <1>0 DEF githubVars, GithubTyped, Working
\* The states of the branches.
<1>2. \A c \in CommitOf : /\ [branches EXCEPT ![k] = {c}] \in Refs /\ [temps EXCEPT ![k] = {c}] \in Refs
  BY <1>0 DEF GithubTyped, Refs
<1>3. [temps EXCEPT ![k] = {}] \in Refs
  BY <1>0 DEF GithubTyped, Refs
<1>4. ASSUME p.at \in Working
      PROVE  /\ p \in Handler /\ k \in Key /\ p.head \in CommitOf /\ p.tree \in SUBSET Nat
             /\ p.head.reach \in Nat /\ p.head.tree \in SUBSET Nat /\ p.head.base \in SUBSET Nat /\ p.head.picks \in Nat
             /\ \A c \in branches[k] : c \in CommitOf
             /\ \A c \in temps[k] : c \in CommitOf /\ c.reach \in Nat /\ c.tree \in SUBSET Nat /\ c.base \in SUBSET Nat /\ c.picks \in Nat
  <2>1. p # Idle
    BY <1>4, WorkingTyped
  <2>2. p \in Handler /\ k \in Key /\ p.head \in CommitOf /\ p.tree \in SUBSET Nat
    BY <2>1, HandlerTyped
  <2>3. branches[k] \in {{}} \cup {{c} : c \in CommitOf} /\ temps[k] \in {{}} \cup {{c} : c \in CommitOf}
    BY <1>0, <2>2 DEF GithubTyped, Refs
  <2>4. QED
    BY <2>2, <2>3 DEF CommitOf
<1>5. ASSUME NEW j \in inbox, Take(h, j)
      PROVE  PickTyped'
  <2> DEFINE x == [at |-> IF j.kind = "comment" THEN "get" ELSE "list", job |-> j, todo |-> {},
                   target |-> j.target, head |-> targets[j.target], tree |-> {}]
  <2>1. j \in Jobs /\ j.target \in Target /\ targets[j.target] \in CommitOf
    BY <1>0 DEF GithubTyped, Jobs
  <2>2. x \in Handler /\ (x.at = "get" => x.job.kind = "comment")
    BY <2>1 DEF Handler
  <2>3. Goes(h, x) /\ inbox' \subseteq Jobs /\ UNCHANGED <<githubVars, countVars, gaveUp>>
    BY <1>0, <1>5 DEF Take
  <2>4. QED
    BY <1>0, <1>1, <2>2, <2>3, StepTyped
<1>6. CASE GetPull(h)
  <2>1. p \in Handler /\ p.job.target \in Target
    BY <1>6, WorkingTyped, HandlerTyped DEF GetPull, Jobs
  <2>2. [p EXCEPT !.at = "next", !.todo = {p.job.target}] \in Handler /\ [p EXCEPT !.at = "next", !.todo = {p.job.target}].at = "next"
    BY <2>1 DEF Handler
  <2>3. UNCHANGED <<githubVars, countVars, inbox, gaveUp>>
    BY <1>6 DEF GetPull
  <2>4. \/ Goes(h, Idle) \/ Goes(h, [p EXCEPT !.at = "next", !.todo = {p.job.target}])
    BY <1>6 DEF GetPull
  <2>5. QED
    BY <1>0, <1>1, <2>2, <2>3, <2>4, StepTyped
<1>7. CASE ListComments(h)
  <2> DEFINE S == {c[1] : c \in {d \in asked : d[2] /\ d[3] = "first page"}}
  <2>1. p \in Handler /\ S \in SUBSET Target
    BY <1>0, <1>7, WorkingTyped, HandlerTyped DEF ListComments, GithubTyped
  <2>2. [p EXCEPT !.at = "next", !.todo = S] \in Handler /\ [p EXCEPT !.at = "next", !.todo = S].at = "next"
    BY <2>1 DEF Handler
  <2>3. QED
    BY <1>0, <1>1, <1>7, <2>2, StepTyped DEF ListComments
<1>8. CASE AllDone(h)
  BY <1>0, <1>1, <1>8, StepTyped DEF AllDone
<1>9. CASE NextTarget(h)
  <2>1. p \in Handler /\ p.at = "next" /\ p.todo \subseteq Target /\ UNCHANGED <<githubVars, countVars, inbox, gaveUp>>
    BY <1>9, WorkingTyped, HandlerTyped DEF NextTarget
  <2>2. PICK t \in p.todo : \/ Goes(h, [p EXCEPT !.todo = @ \ {t}])
                            \/ Goes(h, [p EXCEPT !.todo = @ \ {t}, !.at = "branch", !.target = t, !.head = targets[t]])
    BY <1>9 DEF NextTarget
  <2>3. t \in Target /\ \E c \in CommitOf : c = targets[t]
    BY <1>0, <2>1 DEF GithubTyped
  <2>4. [p EXCEPT !.todo = @ \ {t}] \in Handler /\ [p EXCEPT !.todo = @ \ {t}].at = "next"
    BY <2>1, <2>3 DEF Handler
  <2>5. LET x == [p EXCEPT !.todo = @ \ {t}, !.at = "branch", !.target = t, !.head = targets[t]]
        IN  x \in Handler /\ x.at = "branch"
    <3>1. PICK c \in CommitOf : c = targets[t]
      BY <2>3
    <3>2. LET x == [p EXCEPT !.todo = @ \ {t}, !.at = "branch", !.target = t, !.head = c]
          IN  x \in Handler /\ x.at = "branch"
      BY <2>1, <2>3 DEF Handler, Working
    <3>3. QED
      BY <3>1, <3>2
  <2>6. QED
    BY <1>0, <1>1, <2>1, <2>2, <2>4, <2>5, StepTyped
\* The rest are at work.
<1>10. ASSUME p.at \in Working, NEW at \in Working \cup {"next"}, GoesTo(h, at), GithubTyped', UNCHANGED <<countVars, inbox, gaveUp>>
       PROVE  PickTyped'
  <2>1. [p EXCEPT !.at = at] \in Handler /\ [p EXCEPT !.at = at].at = at
    BY <1>4, <1>10 DEF Handler
  <2>2. QED
    BY <1>0, <1>1, <1>10, <2>1, StepTyped DEF GoesTo
<1>11. CASE CreateBranch(h)
  <2>1. p.at \in Working
    BY <1>11 DEF CreateBranch, Working
  <2>2. NoPicks(p.head) \in CommitOf
    BY <1>4, <2>1, CommitTyped DEF NoPicks
  <2>3. GithubTyped'
    BY <1>0, <1>2, <1>11, <2>2 DEF CreateBranch, GithubTyped
  <2>4. QED
    BY <1>10, <1>11, <2>1, <2>3 DEF CreateBranch, Working
<1>12. CASE GetRef(h)
  <2>1. p.at \in Working /\ "temp" \in Working /\ UNCHANGED <<githubVars, countVars, inbox, gaveUp>>
    BY <1>12 DEF GetRef, Working
  <2>2. PICK c \in CommitOf : Goes(h, [p EXCEPT !.at = "temp", !.head = c])
    BY <1>4, <1>12, <2>1 DEF GetRef
  <2>3. [p EXCEPT !.at = "temp", !.head = c] \in Handler /\ [p EXCEPT !.at = "temp", !.head = c].at = "temp"
    BY <1>4, <2>1 DEF Handler
  <2>4. QED
    BY <1>0, <1>1, <2>1, <2>2, <2>3, StepTyped
<1>13. ASSUME p.at \in Working, NEW c \in CommitOf, NEW at \in Working, PutTemp(h, c, at)
       PROVE  PickTyped'
  <2>1. GithubTyped'
    BY <1>0, <1>2, <1>13 DEF PutTemp, GithubTyped
  <2>2. QED
    BY <1>10, <1>13, <2>1 DEF PutTemp
<1>14. CASE CreateTemp(h)
  <2>1. p.at \in Working /\ "sibling" \in Working
    BY <1>14 DEF CreateTemp, Working
  <2>2. QED
    BY <1>4, <1>13, <1>14, <2>1 DEF CreateTemp
<1>15. CASE PutSibling(h)
  <2>1. p.at \in Working /\ "merge" \in Working
    BY <1>15 DEF PutSibling, Working
  <2>2. Commit(Pick - 1, p.head.tree, p.head.base, 1) \in CommitOf
    <3>1. PICK n \in Nat : n = Pick - 1
      BY PickAssumption
    <3>2. p.head \in CommitOf
      BY <1>4, <2>1
    <3>3. p.head.tree \in SUBSET Nat /\ p.head.base \in SUBSET Nat
      BY <3>2 DEF CommitOf
    <3>4. QED
      BY <3>1, <3>3, CommitTyped
  <2>3. QED
    BY <1>13, <1>15, <2>1, <2>2 DEF PutSibling
<1>16. CASE MergeTemp(h)
  <2>1. p.at \in Working /\ "commit" \in Working /\ UNCHANGED <<countVars, inbox, gaveUp>>
    BY <1>16 DEF MergeTemp, Working
  <2>2. PICK c \in temps[k] :
          /\ temps' = [temps EXCEPT ![k] = {Commit(Pick, MergedTree(c), c.base, c.picks + 1)}]
          /\ Goes(h, [p EXCEPT !.at = "commit", !.tree = MergedTree(c)])
    BY <1>16 DEF MergeTemp
  <2>3. MergedTree(c) \in SUBSET Nat
    BY <1>4, <2>1, PickAssumption DEF MergedTree
  <2>4. Commit(Pick, MergedTree(c), c.base, c.picks + 1) \in CommitOf
    BY <1>4, <2>1, <2>3, CommitTyped, PickAssumption
  <2>5. GithubTyped'
    BY <1>0, <1>2, <1>16, <2>2, <2>4 DEF MergeTemp, GithubTyped
  <2>6. [p EXCEPT !.at = "commit", !.tree = MergedTree(c)] \in Handler /\ [p EXCEPT !.at = "commit", !.tree = MergedTree(c)].at = "commit"
    BY <1>4, <2>1, <2>3 DEF Handler
  <2>7. QED
    BY <1>0, <1>1, <2>1, <2>2, <2>5, <2>6, StepTyped
<1>17. CASE MergeConflict(h)
  <2>1. p.at \in Working
    BY <1>17 DEF MergeConflict, Working
  <2>2. p.target \in Target
    BY <1>4, <2>1 DEF Handler
  <2>3. GithubTyped'
    BY <1>0, <1>17, <2>2 DEF MergeConflict, GithubTyped
  <2>4. QED
    BY <1>10, <1>17, <2>1, <2>3 DEF MergeConflict
<1>18. CASE CommitTemp(h)
  <2> DEFINE c == Commit(p.head.reach, p.tree, p.head.base, p.head.picks + 1)
  <2>1. p.at \in Working /\ "update" \in Working /\ UNCHANGED <<countVars, inbox, gaveUp>>
    BY <1>18 DEF CommitTemp, Working
  <2>2. c \in CommitOf
    BY <1>4, <2>1, CommitTyped
  <2>3. temps' = [temps EXCEPT ![k] = {c}] /\ Goes(h, [p EXCEPT !.at = "update", !.head = c])
    BY <1>18 DEF CommitTemp
  <2>4. GithubTyped'
    BY <1>0, <1>2, <1>18, <2>2, <2>3 DEF CommitTemp, GithubTyped
  <2>5. [p EXCEPT !.at = "update", !.head = c] \in Handler /\ [p EXCEPT !.at = "update", !.head = c].at = "update"
    BY <1>4, <2>1, <2>2 DEF Handler
  <2>6. QED
    BY <1>0, <1>1, <2>1, <2>3, <2>4, <2>5, StepTyped
<1>19. CASE UpdateBranch(h)
  <2>1. p.at \in Working /\ "delete" \in Working
    BY <1>19 DEF UpdateBranch, Working
  <2>2. GithubTyped'
    BY <1>0, <1>2, <1>4, <1>19, <2>1 DEF UpdateBranch, GithubTyped
  <2>3. QED
    BY <1>10, <1>19, <2>1, <2>2 DEF UpdateBranch
<1>20. CASE DeleteTemp(h)
  <2>1. p.at \in Working /\ "pull" \in Working
    BY <1>20 DEF DeleteTemp, Working
  <2>2. GithubTyped'
    BY <1>0, <1>3, <1>20 DEF DeleteTemp, GithubTyped
  <2>3. QED
    BY <1>10, <1>20, <2>1, <2>2 DEF DeleteTemp
<1>21. CASE CreatePull(h)
  <2>1. p.at \in Working
    BY <1>21 DEF CreatePull, Working
  <2>2. GithubTyped'
    BY <1>0, <1>21 DEF CreatePull, GithubTyped
  <2>3. QED
    BY <1>10, <1>21, <2>1, <2>2 DEF CreatePull
\* A task thrown comes back with another try.
<1>22. ASSUME p # Idle, Throws(h)
       PROVE  /\ Goes(h, Idle) /\ GithubTyped' /\ inbox' \subseteq Jobs /\ gaveUp' \in BOOLEAN
  <2>1. p.job \in Jobs
    BY <1>22, HandlerTyped
  <2>2. p.job.tries < MaxPickTries => [p.job EXCEPT !.tries = @ + 1] \in Jobs
    BY <2>1, PickAssumption DEF Jobs
  <2>3. inbox' \subseteq Jobs
    <3>1. CASE p.job.tries < MaxPickTries
      BY <1>0, <1>22, <2>2, <3>1 DEF Throws
    <3>2. CASE ~ (p.job.tries < MaxPickTries)
      BY <1>0, <1>22, <3>2 DEF Throws
    <3>3. QED
      BY <3>1, <3>2
  <2>4. gaveUp' \in BOOLEAN
    BY <1>0, <1>22 DEF Throws
  <2>5. QED
    BY <1>1, <1>22, <2>3, <2>4 DEF Throws
<1>23. CASE CannotGoOn(h)
  <2>1. p # Idle
    BY <1>23 DEF CannotGoOn, Idle
  <2>2. QED
    BY <1>0, <1>22, <1>23, <2>1, StepTyped DEF CannotGoOn
<1>24. CASE CallFails(h)
  <2>1. pickFaults' \in 0 .. MaxPickFaults /\ UNCHANGED <<moves, written>>
    BY <1>24, PickAssumption DEF CallFails, PickTyped
  <2>2. Goes(h, Idle) /\ GithubTyped' /\ inbox' \subseteq Jobs /\ gaveUp' \in BOOLEAN
    BY <1>22, <1>24 DEF CallFails
  <2>3. QED
    BY <1>0, <2>1, <2>2, GoesTyped DEF PickTyped
<1>25. QED
  BY <1>5, <1>6, <1>7, <1>8, <1>9, <1>11, <1>12, <1>14, <1>15, <1>16, <1>17, <1>18, <1>19, <1>20, <1>21, <1>23, <1>24 DEF PickerStep

\* People comment, close, commit and merge.
LEMMA PeopleKeepTyped ==
  ASSUME PickTyped,
         \/ \E t \in Target, may \in BOOLEAN : WriteComment(t, may) \/ (\E u \in Target : EditComment(t, may, u))
         \/ FillPage
         \/ \E how \in {"merged", "closed"} : CloseOriginal(how)
         \/ \E t \in Target : TargetMoves(t)
         \/ \E k \in Key, delete \in BOOLEAN : MergePull(k, delete)
  PROVE  PickTyped'
<1>0. /\ GithubTyped /\ inbox \subseteq Jobs /\ written \in 0 .. MaxComments /\ moves \in 0 .. MaxTargetMoves
      /\ PlaceNow \in Place
  BY DEF PickTyped, PlaceNow, Place
\* Whatever they do, the handlers stay.
<1>1. ASSUME ByPeople, GithubTyped', inbox' \subseteq Jobs, written' \in 0 .. MaxComments, moves' \in 0 .. MaxTargetMoves
      PROVE  PickTyped'
  BY <1>1 DEF ByPeople, PickTyped
<1>2. \A kind \in {"comment", "closed"}, t \in Target, sha \in {"merge", "test"}, may \in BOOLEAN : Job(kind, t, sha, may, 1) \in Jobs
  BY PickAssumption DEF Job, Jobs
<1>3. ASSUME NEW t \in Target, NEW may \in BOOLEAN, WriteComment(t, may)
      PROVE  PickTyped'
  <2>1. GithubTyped'
    BY <1>0, <1>3 DEF WriteComment, ByPeople, GithubTyped
  <2>2. inbox' \subseteq Jobs /\ written' \in 0 .. MaxComments /\ UNCHANGED moves
    BY <1>0, <1>2, <1>3, PickAssumption DEF WriteComment
  <2>3. QED
    BY <1>0, <1>1, <1>3, <2>1, <2>2 DEF WriteComment
<1>4. ASSUME NEW t \in Target, NEW may \in BOOLEAN, NEW u \in Target, EditComment(t, may, u)
      PROVE  PickTyped'
  <2>1. PICK w \in Place : asked' = (asked \ {<<t, may, w>>}) \cup {<<u, may, IF w = "first page" THEN w ELSE PlaceNow>>}
    BY <1>4 DEF EditComment
  <2>2. PICK p \in Place : p = (IF w = "first page" THEN w ELSE PlaceNow)
    BY <1>0
  <2>3. asked' \subseteq Target \X BOOLEAN \X Place
    <3>1. <<u, may, p>> \in Target \X BOOLEAN \X Place
      OBVIOUS
    <3>2. asked' \subseteq asked \cup {<<u, may, p>>}
      BY <2>1, <2>2
    <3>3. QED
      BY <1>0, <3>1, <3>2 DEF GithubTyped
  <2>4. GithubTyped'
    BY <1>0, <1>4, <2>3 DEF EditComment, ByPeople, GithubTyped
  <2>5. /\ written' = written + 1 /\ written < MaxComments /\ UNCHANGED moves
        /\ inbox' = inbox \cup {Job("comment", u, "merge", may, 1)}
    BY <1>4 DEF EditComment
  <2>6. inbox' \subseteq Jobs /\ written' \in 0 .. MaxComments
    BY <1>0, <1>2, <2>5, PickAssumption
  <2>7. QED
    BY <1>0, <1>1, <1>4, <2>4, <2>5, <2>6 DEF EditComment
<1>5. ASSUME NEW how \in {"merged", "closed"}, CloseOriginal(how)
      PROVE  PickTyped'
  <2>1. GithubTyped'
    BY <1>0, <1>5 DEF CloseOriginal, ByPeople, GithubTyped
  <2>2. PICK t \in Target, sha \in {"merge", "test"} : inbox' = inbox \cup {Job("closed", t, sha, TRUE, 1)}
    <3>1. (CHOOSE t \in Target : TRUE) \in Target
      BY PickAssumption
    <3>2. (IF how = "merged" THEN "merge" ELSE "test") \in {"merge", "test"}
      OBVIOUS
    <3>3. inbox' = inbox \cup {Job("closed", (CHOOSE t \in Target : TRUE), IF how = "merged" THEN "merge" ELSE "test", TRUE, 1)}
      BY <1>5 DEF CloseOriginal
    <3>4. QED
      BY <3>1, <3>2, <3>3
  <2>3. inbox' \subseteq Jobs /\ UNCHANGED <<written, moves>>
    <3>1. Job("closed", t, sha, TRUE, 1) \in Jobs
      BY <1>2, Zenon
    <3>2. QED
      BY <1>0, <1>5, <2>2, <3>1 DEF CloseOriginal
  <2>4. QED
    BY <1>0, <1>1, <1>5, <2>1, <2>3 DEF CloseOriginal
<1>6. ASSUME NEW t \in Target, TargetMoves(t)
      PROVE  PickTyped'
  <2>1. PICK tree \in SUBSET Nat : targets' = [targets EXCEPT ![t].tree = tree]
    <3>1. targets[t].tree \cup {Pick + 1 + moves} \in SUBSET Nat
      BY <1>0, PickAssumption DEF GithubTyped, CommitOf
    <3>2. targets' = [targets EXCEPT ![t].tree = targets[t].tree \cup {Pick + 1 + moves}]
      BY <1>0, <1>6 DEF TargetMoves, GithubTyped
    <3>3. QED
      BY <3>1, <3>2
  <2>2. targets' \in [Target -> CommitOf]
    BY <1>0, <2>1 DEF GithubTyped, CommitOf
  <2>3. GithubTyped'
    BY <1>0, <1>6, <2>2 DEF TargetMoves, ByPeople, GithubTyped
  <2>4. moves' \in 0 .. MaxTargetMoves
    BY <1>0, <1>6, PickAssumption DEF TargetMoves
  <2>5. QED
    BY <1>0, <1>1, <1>6, <2>3, <2>4 DEF TargetMoves
<1>7. ASSUME NEW k \in Key, NEW delete \in BOOLEAN, MergePull(k, delete)
      PROVE  PickTyped'
  <2>1. k[1] \in Target
    BY DEF Key
  <2>2. PICK c \in branches[k] : targets' = [targets EXCEPT ![k[1]].tree = @ \cup c.tree]
    BY <1>7 DEF MergePull
  <2>3. c \in CommitOf
    BY <1>0 DEF GithubTyped, Refs
  <2>4. targets' \in [Target -> CommitOf]
    BY <1>0, <2>1, <2>2, <2>3 DEF GithubTyped, CommitOf
  <2>5. branches' \in Refs /\ pickPulls' \in [Key -> {"none", "open", "closed", "merged"}]
    BY <1>0, <1>7 DEF MergePull, GithubTyped, Refs
  <2>6. GithubTyped'
    BY <1>0, <1>7, <2>4, <2>5 DEF MergePull, ByPeople, GithubTyped
  <2>7. moves' \in 0 .. MaxTargetMoves
    BY <1>0, <1>7, PickAssumption DEF MergePull
  <2>8. QED
    BY <1>0, <1>1, <1>7, <2>6, <2>7 DEF MergePull
<1>8. CASE FillPage
  <2>1. GithubTyped'
    BY <1>0, <1>8 DEF FillPage, ByPeople, GithubTyped
  <2>2. QED
    BY <1>0, <1>1, <1>8, <2>1 DEF FillPage
<1>9. QED
  BY <1>3, <1>4, <1>5, <1>6, <1>7, <1>8

\* So does every step.
LEMMA PickNextTyped ==
  ASSUME PickTyped, [PickNext]_pickVars
  PROVE  PickTyped'
<1>1. CASE UNCHANGED pickVars
  BY <1>1 DEF pickVars, githubVars, countVars, PickTyped, GithubTyped
<1>2. CASE PickNext
  BY <1>2, PickerKeepsTyped, PeopleKeepTyped DEF PickNext
<1>3. QED
  BY <1>1, <1>2

\* What that gives of the variables.
LEMMA PickTypedIsType ==
  ASSUME PickTyped
  PROVE  PickTypeOK
<1>1. ASSUME NEW refs \in Refs, NEW k \in Key PROVE Cardinality(refs[k]) <= 1
  <2>1. refs[k] = {} \/ \E c \in CommitOf : refs[k] = {c}
    BY DEF Refs
  <2>2. Cardinality(refs[k]) = 0 \/ Cardinality(refs[k]) = 1
    BY <2>1, FS_EmptySet, FS_Singleton
  <2>3. QED
    BY <2>2
<1>2. \A h \in Picker : picker[h] = Idle \/
     (picker[h].job \in Jobs /\ picker[h].todo \subseteq Target /\ picker[h].at \in Working \cup {"get", "list", "next"})
  BY HandlerTyped
<1>3. \A k \in Key : Cardinality(branches[k]) <= 1 /\ Cardinality(temps[k]) <= 1
  BY <1>1 DEF PickTyped, GithubTyped
<1>4. QED
  BY <1>2, <1>3 DEF PickTyped, GithubTyped, PickTypeOK

\* The variables of the cherry-picker have the values the code can give them.
THEOREM PickTypeCorrect == PickSpec => []PickTypeOK
<1>1. PickTyped => PickTypeOK
  BY PickTypedIsType
<1>2. PickInit => PickTyped
  BY PickInitTyped
<1>3. PickTyped /\ [PickNext]_pickVars => PickTyped'
  BY PickNextTyped
<1>4. QED
  BY <1>1, <1>2, <1>3, PTL DEF PickSpec

----------------------------------------------------------------------------
(* cherry-pick-bot: what a pull request holds.                              *)

Plain(c) == c.picks = 0 /\ c.base = c.tree

\* How far a handler has come that nobody disturbs on its branches.
Undisturbed(h) ==
  LET p == picker[h]
      k == KeyOf(p)
  IN /\ p.at = "ref" => \A c \in branches[k] : Plain(c)
     /\ p.at \in {"temp", "sibling", "merge", "commit"} => Plain(p.head)
     /\ p.at = "merge" => \A c \in temps[k] : c.reach = Pick - 1 /\ c.tree = p.head.tree
     /\ p.at = "commit" => p.tree = p.head.tree \cup {Pick}
     /\ p.at = "update" => Exactly(p.head)
     /\ p.at \in {"delete", "pull"} => \A c \in branches[k] : Exactly(c)
     /\ p.at \in Working \ {"branch"} => pickPulls[k] # "open"

AloneInv == ~crowded => ~Crowd(picker) /\ HoldsThePick /\ \A h \in Picker : Undisturbed(h)

\* No handler is disturbed at the start.
LEMMA InitAlone ==
  ASSUME PickInit
  PROVE  AloneInv
<1>1. \A h \in Picker : picker[h].at = "idle"
  BY DEF PickInit, Idle
<1>2. ~Crowd(picker) /\ \A h \in Picker : Undisturbed(h)
  BY <1>1 DEF Crowd, Undisturbed, Working
<1>3. HoldsThePick
  BY DEF PickInit, HoldsThePick
<1>4. QED
  BY <1>2, <1>3 DEF AloneInv

\* A handler whose branches are left alone stays undisturbed.
LEMMA OthersUndisturbed ==
  ASSUME NEW g \in Picker, PickTyped, Undisturbed(g), UNCHANGED picker[g],
         picker[g].at \in Working =>
           \A k \in {KeyOf(picker[g])} : UNCHANGED <<branches[k], temps[k]>> /\ (pickPulls'[k] = "open" => pickPulls[k] = "open")
  PROVE  Undisturbed(g)'
<1>1. CASE picker[g].at \notin Working
  BY <1>1 DEF Undisturbed, Working
<1>2. CASE picker[g].at \in Working
  BY <1>2 DEF Undisturbed, KeyOf
<1>3. QED
  BY <1>1, <1>2

\* A step of a handler while nobody else is on its branches.
LEMMA PickerKeepsAlone ==
  ASSUME PickTyped, PickTyped', AloneInv, NEW h \in Picker, PickerStep(h)
  PROVE  AloneInv'
<1> DEFINE p == picker[h]
           k == KeyOf(picker[h])
<1>1. SUFFICES ASSUME ~crowded' PROVE ~Crowd(picker') /\ HoldsThePick' /\ \A g \in Picker : Undisturbed(g)'
  BY DEF AloneInv
<1>2. PICK x : Goes(h, x) /\ x \in {Idle} \cup Handler
  <2>1. \E x : Goes(h, x)
    BY DEF PickerStep, Take, GetPull, ListComments, AllDone, NextTarget, CreateBranch, GetRef, CreateTemp, PutSibling, PutTemp,
           MergeTemp, MergeConflict, CommitTemp, UpdateBranch, DeleteTemp, CreatePull, CannotGoOn, CallFails, Throws, GoesTo
  <2>2. QED
    BY <2>1 DEF Goes, PickTyped
<1>3. /\ ~crowded /\ ~Crowd(picker')
      /\ picker' = [picker EXCEPT ![h] = x] /\ picker'[h] = x /\ \A g \in Picker \ {h} : picker'[g] = picker[g]
  BY <1>1, <1>2 DEF Goes, PickTyped
<1>4. ~Crowd(picker) /\ HoldsThePick /\ \A g \in Picker : Undisturbed(g)
  BY <1>3 DEF AloneInv
\* What a step touches, it touches at its own key.
<1>5. ASSUME HoldsThePick', Undisturbed(h)',
             \A m \in Key : (p.at \in Working /\ m = k) \/ UNCHANGED <<branches[m], temps[m], pickPulls[m]>>
      PROVE  HoldsThePick' /\ \A g \in Picker : Undisturbed(g)'
  <2>1. ASSUME NEW g \in Picker \ {h}
        PROVE  Undisturbed(g)'
    <3>1. p.at \in Working /\ picker[g].at \in Working => KeyOf(picker[g]) # k
      BY <1>4 DEF Crowd
    <3>2. picker[g].at \in Working => KeyOf(picker[g]) \in Key
      BY WorkingTyped, HandlerTyped
    <3>3. QED
      BY <1>3, <1>4, <1>5, <3>1, <3>2, OthersUndisturbed
  <2>2. QED
    BY <1>5, <2>1
\* Most steps change nothing on GitHub.
<1>6. ASSUME UNCHANGED githubVars, Undisturbed(h)'
      PROVE  HoldsThePick' /\ \A g \in Picker : Undisturbed(g)'
  <2>1. HoldsThePick'
    BY <1>4, <1>6 DEF HoldsThePick, githubVars
  <2>2. QED
    BY <1>5, <1>6, <2>1 DEF githubVars
<1>7. ASSUME UNCHANGED githubVars, x.at \in {"idle", "get", "list", "next", "branch"}
      PROVE  HoldsThePick' /\ \A g \in Picker : Undisturbed(g)'
  <2>1. Undisturbed(h)'
    BY <1>3, <1>7 DEF Undisturbed, Working
  <2>2. QED
    BY <1>6, <1>7, <2>1
<1>8. \A y : Goes(h, y) => x = y
  BY <1>2 DEF Goes, PickTyped
<1>9. CASE (\E j \in inbox : Take(h, j)) \/ GetPull(h) \/ ListComments(h) \/ AllDone(h) \/ NextTarget(h) \/ CannotGoOn(h) \/ CallFails(h)
  <2>1. UNCHANGED githubVars
    BY <1>9 DEF Take, GetPull, ListComments, AllDone, NextTarget, CannotGoOn, CallFails, Throws
  <2>2. x.at \in {"idle", "get", "list", "next", "branch"}
    <3>1. CASE \E j \in inbox : Take(h, j)
      BY <1>8, <3>1 DEF Take
    <3>2. CASE AllDone(h) \/ CannotGoOn(h) \/ CallFails(h)
      BY <1>8, <3>2 DEF AllDone, CannotGoOn, CallFails, Throws, Idle
    <3>3. CASE GetPull(h)
      <4>1. p \in Handler
        BY <3>3, WorkingTyped, HandlerTyped DEF GetPull
      <4>2. x = Idle \/ x = [p EXCEPT !.at = "next", !.todo = {p.job.target}]
        BY <1>8, <3>3 DEF GetPull
      <4>3. [p EXCEPT !.at = "next", !.todo = {p.job.target}].at = "next"
        BY <4>1 DEF Handler
      <4>4. Idle.at = "idle"
        BY DEF Idle
      <4>5. QED
        BY <4>2, <4>3, <4>4, Zenon
    <3>4. CASE ListComments(h)
      <4>1. p \in Handler /\ x = [p EXCEPT !.at = "next", !.todo = {c[1] : c \in {d \in asked : d[2] /\ d[3] = "first page"}}]
        BY <1>8, <3>4, WorkingTyped, HandlerTyped DEF ListComments
      <4>2. QED
        BY <4>1 DEF Handler
    <3>5. CASE NextTarget(h)
      <4>1. p \in Handler /\ p.at = "next"
        BY <3>5, WorkingTyped, HandlerTyped DEF NextTarget
      <4>2. PICK t \in p.todo : \/ x = [p EXCEPT !.todo = @ \ {t}]
                                \/ x = [p EXCEPT !.todo = @ \ {t}, !.at = "branch", !.target = t, !.head = targets[t]]
        BY <1>8, <3>5 DEF NextTarget
      <4>3. QED
        BY <4>1, <4>2 DEF Handler
    <3>6. QED
      BY <1>9, <3>1, <3>2, <3>3, <3>4, <3>5
  <2>3. QED
    BY <1>3, <1>7, <2>1, <2>2
\* The others are at work on the branches.
<1>10. ASSUME p.at \in Working, NEW at, GoesTo(h, at)
       PROVE  p \in Handler /\ k \in Key /\ x = [p EXCEPT !.at = at] /\ x.at = at /\ KeyOf(x) = k /\ x.head = p.head /\ x.tree = p.tree
  <2>1. p \in Handler /\ k \in Key /\ x = [p EXCEPT !.at = at]
    BY <1>8, <1>10, WorkingTyped, HandlerTyped DEF GoesTo
  <2>2. QED
    BY <2>1 DEF Handler, KeyOf
<1>11. branches \in Refs /\ temps \in Refs /\ DOMAIN branches = Key /\ DOMAIN temps = Key /\ DOMAIN pickPulls = Key
  BY DEF PickTyped, GithubTyped, Refs
<1>12. CASE CreateBranch(h)
  <2>1. p.at \in Working /\ x.at = "ref" /\ k \in Key /\ KeyOf(x) = k
    BY <1>10, <1>12 DEF CreateBranch, Working
  <2>2. /\ branches' = [branches EXCEPT ![k] = {NoPicks(p.head)}] /\ temps' = temps
        /\ pickPulls' = [pickPulls EXCEPT ![k] = IF pickPulls[k] = "open" THEN "closed" ELSE pickPulls[k]]
    BY <1>11, <1>12 DEF CreateBranch
  <2>3. pickPulls'[k] # "open" /\ \A m \in Key \ {k} : UNCHANGED <<branches[m], temps[m], pickPulls[m]>>
    BY <1>11, <2>1, <2>2
  <2>4. \A c \in branches'[k] : Plain(c)
    BY <1>11, <2>1, <2>2 DEF NoPicks, Commit, Plain
  <2>5. Undisturbed(h)'
    BY <1>3, <2>1, <2>3, <2>4 DEF Undisturbed, KeyOf
  <2>6. HoldsThePick'
    BY <1>4, <2>3 DEF HoldsThePick
  <2>7. QED
    BY <1>3, <1>5, <2>1, <2>3, <2>5, <2>6
<1>13. CASE GetRef(h)
  <2>1. p.at = "ref" /\ p.at \in Working /\ UNCHANGED githubVars
    BY <1>13 DEF GetRef, Working
  <2>2. PICK c \in branches[k] : x = [p EXCEPT !.at = "temp", !.head = c]
    BY <1>8, <1>13 DEF GetRef
  <2>3. x.at = "temp" /\ x.head = c /\ KeyOf(x) = k /\ k \in Key
    BY <2>1, <2>2, WorkingTyped, HandlerTyped DEF Handler, KeyOf
  <2>4. Plain(c) /\ pickPulls[k] # "open"
    BY <1>4, <2>1 DEF Undisturbed, Working
  <2>5. Undisturbed(h)'
    BY <1>3, <2>1, <2>3, <2>4 DEF Undisturbed, KeyOf, githubVars
  <2>6. QED
    BY <1>3, <1>6, <2>1, <2>5
\* Steps on the temporary branch alone.
<1>14. ASSUME p.at \in Working, UNCHANGED <<branches, pickPulls>>, Undisturbed(h)', \A m \in Key : m = k \/ UNCHANGED temps[m]
       PROVE  HoldsThePick' /\ \A g \in Picker : Undisturbed(g)'
  <2>1. HoldsThePick'
    BY <1>4, <1>14 DEF HoldsThePick
  <2>2. QED
    BY <1>5, <1>14, <2>1
\* Once the branch is put on its target no pull request of it is open.
<1>15. p.at \in Working \ {"branch"} => pickPulls[k] # "open"
  BY <1>4 DEF Undisturbed
<1>16. CASE CreateTemp(h)
  <2>1. p.at = "temp" /\ p.at \in Working /\ x.at = "sibling" /\ KeyOf(x) = k /\ k \in Key /\ x.head = p.head
    BY <1>10, <1>16 DEF CreateTemp, PutTemp, Working
  <2>2. UNCHANGED <<branches, pickPulls>> /\ \A m \in Key : m = k \/ UNCHANGED temps[m]
    BY <1>11, <1>16 DEF CreateTemp, PutTemp
  <2>3. Plain(p.head)
    BY <1>4, <2>1 DEF Undisturbed
  <2>4. Undisturbed(h)'
    BY <1>3, <1>15, <2>1, <2>2, <2>3 DEF Undisturbed, KeyOf
  <2>5. QED
    BY <1>3, <1>14, <2>1, <2>2, <2>4
<1>17. CASE PutSibling(h)
  <2> DEFINE c == Commit(Pick - 1, p.head.tree, p.head.base, 1)
  <2>1. p.at = "sibling" /\ p.at \in Working /\ x.at = "merge" /\ KeyOf(x) = k /\ k \in Key /\ x.head = p.head
    BY <1>10, <1>17 DEF PutSibling, PutTemp, Working
  <2>2. UNCHANGED <<branches, pickPulls>> /\ temps' = [temps EXCEPT ![k] = {c}]
    BY <1>17 DEF PutSibling, PutTemp
  <2>3. temps'[k] = {c} /\ c.reach = Pick - 1 /\ c.tree = x.head.tree /\ \A m \in Key : m = k \/ UNCHANGED temps[m]
    BY <1>11, <2>1, <2>2 DEF Commit
  <2>4. Plain(p.head)
    BY <1>4, <2>1 DEF Undisturbed
  <2>5. Undisturbed(h)'
    BY <1>3, <1>15, <2>1, <2>2, <2>3, <2>4 DEF Undisturbed, KeyOf
  <2>6. QED
    BY <1>3, <1>14, <2>1, <2>2, <2>3, <2>5
<1>18. CASE MergeTemp(h)
  <2>1. p.at = "merge" /\ p.at \in Working /\ p \in Handler /\ k \in Key /\ UNCHANGED <<branches, pickPulls>>
    BY <1>18, WorkingTyped, HandlerTyped DEF MergeTemp, Working
  <2>2. PICK c \in temps[k] : /\ temps' = [temps EXCEPT ![k] = {Commit(Pick, MergedTree(c), c.base, c.picks + 1)}]
                              /\ x = [p EXCEPT !.at = "commit", !.tree = MergedTree(c)]
    BY <1>8, <1>18 DEF MergeTemp
  <2>3. x.at = "commit" /\ x.tree = MergedTree(c) /\ x.head = p.head /\ KeyOf(x) = k
    BY <2>1, <2>2 DEF Handler, KeyOf
  <2>4. c.reach = Pick - 1 /\ c.tree = p.head.tree /\ Plain(p.head)
    BY <1>4, <2>1 DEF Undisturbed
  <2>5. MergedTree(c) = p.head.tree \cup {Pick}
    BY <2>4, PickAssumption DEF MergedTree
  <2>6. \A m \in Key : m = k \/ UNCHANGED temps[m]
    BY <1>11, <2>2
  <2>7. Undisturbed(h)'
    BY <1>3, <1>15, <2>1, <2>3, <2>4, <2>5 DEF Undisturbed, KeyOf
  <2>8. QED
    BY <1>3, <1>14, <2>1, <2>6, <2>7
<1>19. CASE MergeConflict(h)
  <2>1. p.at = "merge" /\ p.at \in Working /\ x.at = "next" /\ UNCHANGED <<branches, pickPulls, temps>>
    BY <1>10, <1>19 DEF MergeConflict, Working
  <2>2. Undisturbed(h)'
    BY <1>3, <2>1 DEF Undisturbed, Working
  <2>3. QED
    BY <1>3, <1>14, <2>1, <2>2
<1>20. CASE CommitTemp(h)
  <2> DEFINE c == Commit(p.head.reach, p.tree, p.head.base, p.head.picks + 1)
  <2>1. p.at = "commit" /\ p.at \in Working /\ p \in Handler /\ k \in Key /\ UNCHANGED <<branches, pickPulls>>
    BY <1>20, WorkingTyped, HandlerTyped DEF CommitTemp, Working
  <2>2. temps' = [temps EXCEPT ![k] = {c}] /\ x = [p EXCEPT !.at = "update", !.head = c]
    BY <1>8, <1>20 DEF CommitTemp
  <2>3. x.at = "update" /\ x.head = c /\ KeyOf(x) = k
    BY <2>1, <2>2 DEF Handler, KeyOf
  <2>4. p.tree = p.head.tree \cup {Pick} /\ Plain(p.head)
    BY <1>4, <2>1 DEF Undisturbed
  <2>5. Exactly(c)
    BY <2>4 DEF Exactly, Plain, Commit
  <2>6. \A m \in Key : m = k \/ UNCHANGED temps[m]
    BY <1>11, <2>2
  <2>7. Undisturbed(h)'
    BY <1>3, <1>15, <2>1, <2>3, <2>5 DEF Undisturbed, KeyOf
  <2>8. QED
    BY <1>3, <1>14, <2>1, <2>6, <2>7
<1>21. CASE UpdateBranch(h)
  <2>1. p.at = "update" /\ p.at \in Working /\ x.at = "delete" /\ KeyOf(x) = k /\ k \in Key
    BY <1>10, <1>21 DEF UpdateBranch, Working
  <2>2. branches' = [branches EXCEPT ![k] = {p.head}] /\ UNCHANGED <<temps, pickPulls>>
    BY <1>21 DEF UpdateBranch
  <2>3. branches'[k] = {p.head} /\ Exactly(p.head) /\ \A m \in Key : m = k \/ UNCHANGED branches[m]
    BY <1>4, <1>11, <2>1, <2>2 DEF Undisturbed
  <2>4. Undisturbed(h)'
    BY <1>3, <1>15, <2>1, <2>2, <2>3 DEF Undisturbed, KeyOf
  <2>5. HoldsThePick'
    BY <1>4, <2>2, <2>3 DEF HoldsThePick
  <2>6. QED
    BY <1>3, <1>5, <2>1, <2>2, <2>3, <2>4, <2>5
<1>22. CASE DeleteTemp(h)
  <2>1. p.at = "delete" /\ p.at \in Working /\ x.at = "pull" /\ KeyOf(x) = k /\ k \in Key
    BY <1>10, <1>22 DEF DeleteTemp, Working
  <2>2. UNCHANGED <<branches, pickPulls>> /\ \A m \in Key : m = k \/ UNCHANGED temps[m]
    BY <1>11, <1>22 DEF DeleteTemp
  <2>3. \A c \in branches[k] : Exactly(c)
    BY <1>4, <2>1 DEF Undisturbed
  <2>4. Undisturbed(h)'
    BY <1>3, <1>15, <2>1, <2>2, <2>3 DEF Undisturbed, KeyOf
  <2>5. QED
    BY <1>3, <1>14, <2>1, <2>2, <2>4
<1>23. CASE CreatePull(h)
  <2>1. p.at = "pull" /\ p.at \in Working /\ x.at = "next"
    BY <1>10, <1>23 DEF CreatePull, Working
  <2>2. UNCHANGED <<branches, temps>> /\ \A m \in Key : m = k \/ UNCHANGED pickPulls[m]
    BY <1>11, <1>23 DEF CreatePull
  <2>3. Undisturbed(h)'
    BY <1>3, <2>1 DEF Undisturbed, Working
  <2>4. HoldsThePick'
    BY <1>4, <2>1, <2>2 DEF HoldsThePick, Undisturbed
  <2>5. QED
    BY <1>3, <1>5, <2>1, <2>2, <2>3, <2>4
<1>24. QED
  BY <1>9, <1>12, <1>13, <1>16, <1>17, <1>18, <1>19, <1>20, <1>21, <1>22, <1>23 DEF PickerStep

\* People merge the bot's pull requests, and leave its branches alone otherwise.
LEMMA PeopleKeepAlone ==
  ASSUME PickTyped, AloneInv,
         \/ \E t \in Target, may \in BOOLEAN : WriteComment(t, may) \/ (\E u \in Target : EditComment(t, may, u))
         \/ FillPage
         \/ \E how \in {"merged", "closed"} : CloseOriginal(how)
         \/ \E t \in Target : TargetMoves(t)
         \/ \E k \in Key, delete \in BOOLEAN : MergePull(k, delete)
  PROVE  AloneInv'
<1>1. UNCHANGED <<picker, temps, crowded>>
  BY DEF WriteComment, EditComment, FillPage, CloseOriginal, TargetMoves, MergePull, ByPeople
<1>2. SUFFICES ASSUME ~crowded PROVE HoldsThePick' /\ \A g \in Picker : Undisturbed(g)'
  BY <1>1 DEF AloneInv, Crowd, KeyOf
<1>3. HoldsThePick /\ \A g \in Picker : Undisturbed(g)
  BY <1>2 DEF AloneInv
<1>4. CASE UNCHANGED <<branches, pickPulls>>
  BY <1>1, <1>3, <1>4, OthersUndisturbed DEF HoldsThePick
<1>5. ASSUME NEW k \in Key, NEW delete \in BOOLEAN, MergePull(k, delete)
      PROVE  HoldsThePick' /\ \A g \in Picker : Undisturbed(g)'
  <2>1. /\ pickPulls[k] = "open" /\ pickPulls'[k] = "merged"
        /\ \A m \in Key \ {k} : UNCHANGED <<branches[m], pickPulls[m]>>
        /\ branches'[k] \subseteq branches[k]
    BY <1>5 DEF MergePull, PickTyped, GithubTyped, Refs
  <2>2. HoldsThePick'
    BY <1>3, <2>1 DEF HoldsThePick
  <2>3. ASSUME NEW g \in Picker
        PROVE  Undisturbed(g)'
    <3>1. CASE picker[g].at \in Working \ {"branch"}
      <4>1. KeyOf(picker[g]) \in Key \ {k}
        BY <1>3, <2>1, <3>1, WorkingTyped, HandlerTyped DEF Undisturbed
      <4>2. QED
        BY <1>1, <1>3, <2>1, <4>1, OthersUndisturbed
    <3>2. CASE picker[g].at \notin Working \ {"branch"}
      BY <1>1, <3>2 DEF Undisturbed, Working
    <3>3. QED
      BY <3>1, <3>2
  <2>4. QED
    BY <2>2, <2>3
<1>6. QED
  BY <1>4, <1>5 DEF WriteComment, EditComment, FillPage, CloseOriginal, TargetMoves

(* The pull request of a pick holds the picked commit on the head of its target and       *)
(* nothing else, unless two handlers have worked on one branch at the same time:          *)
(* whichever calls fail and however often tasks are run over what is left of a branch.    *)
THEOREM PicksAreExact == PickSpec => []HoldsThePickAlone
<1>1. PickInit => PickTyped /\ AloneInv
  BY PickInitTyped, InitAlone
<1>2. PickTyped /\ AloneInv /\ [PickNext]_pickVars => (PickTyped /\ AloneInv)'
  <2>1. SUFFICES ASSUME PickTyped, AloneInv, [PickNext]_pickVars PROVE PickTyped' /\ AloneInv'
    OBVIOUS
  <2>2. PickTyped'
    BY <2>1, PickNextTyped
  <2>3. CASE UNCHANGED pickVars
    BY <2>1, <2>2, <2>3 DEF pickVars, githubVars, AloneInv, HoldsThePick, Undisturbed, Crowd, KeyOf
  <2>4. CASE PickNext
    BY <2>1, <2>2, <2>4, PickerKeepsAlone, PeopleKeepAlone DEF PickNext
  <2>5. QED
    BY <2>1, <2>2, <2>3, <2>4
<1>3. AloneInv => HoldsThePickAlone
  BY DEF AloneInv, HoldsThePickAlone
<1>4. QED
  BY <1>1, <1>2, <1>3, PTL DEF PickSpec

----------------------------------------------------------------------------
(* cherry-pick-bot: where a request is.                                     *)

IsServed(t) ==
  \/ pickPulls[<<t, "merge">>] # "none" \/ t \in told
  \/ t \in requires /\ "base" \notin requires

\* Where the comments are that are answered.
Asking == {"first page", "after merge"}

\* The task reaches the target a comment there asks for when it is run from its beginning.
Serves(j, t, w) ==
  j.sha = "merge" /\ ((j.kind = "closed" /\ w = "first page") \/ (j.kind = "comment" /\ j.target = t /\ j.allowed))

Underway == Working \cup {"next"}

\* The handler reaches it from where it is.
Reaches(h, t, w) ==
  LET p == picker[h]
  IN /\ p # Idle /\ Serves(p.job, t, w)
     /\ \/ p.at = "get" \/ (p.at = "list" /\ w = "first page")
        \/ p.at \in Underway /\ t \in p.todo
        \/ p.at \in Working /\ p.target = t

\* None is marked as written after the merge before it.
PlacesInv == original # "merged" => \A t \in Target : <<t, TRUE, "after merge">> \notin asked

RequestsInv ==
  (original = "merged" /\ ~gaveUp) =>
    \A t \in Target, w \in Asking : <<t, TRUE, w>> \in asked =>
      IsServed(t) \/ (\E j \in inbox : Serves(j, t, w)) \/ (\E h \in Picker : Reaches(h, t, w))

\* No request is lost at the start.
LEMMA InitRequests ==
  ASSUME PickInit
  PROVE  RequestsInv
BY DEF PickInit, RequestsInv

\* What a target has been given it keeps.
LEMMA StaysServed ==
  ASSUME PickTyped, NEW t \in Target, IsServed(t), told \subseteq told', UNCHANGED requires,
         \A k \in Key : pickPulls[k] # "none" => pickPulls'[k] # "none"
  PROVE  IsServed(t)'
BY DEF IsServed, Key

\* A handler that goes on with its task at hand still reaches the targets it reached.
LEMMA ReachesOn ==
  ASSUME PickTyped, NEW h \in Picker, NEW x \in Handler, NEW t, NEW w, picker'[h] = x, Serves(x.job, t, w),
         (x.at \in Underway /\ t \in x.todo) \/ (x.at \in Working /\ x.target = t)
  PROVE  Reaches(h, t, w)'
<1>1. x # Idle
  <2>1. x.at \in Working \cup {"get", "list", "next"}
    BY DEF Handler
  <2>2. QED
    BY <2>1 DEF Idle, Working
<1>2. QED
  BY <1>1 DEF Reaches, Serves

\* The steps of a handler lose no request.
LEMMA PickerKeepsRequests ==
  ASSUME PickTyped, PickTyped', RequestsInv, NEW h \in Picker, PickerStep(h)
  PROVE  RequestsInv'
<1> DEFINE p == picker[h]
           k == KeyOf(picker[h])
<1>1. UNCHANGED <<original, asked, requires>> /\ told \subseteq told' /\ (gaveUp => gaveUp')
      /\ (\A m \in Key : pickPulls[m] # "none" => pickPulls'[m] # "none")
  <2>1. UNCHANGED <<original, asked, requires>> /\ told \subseteq told' /\ (gaveUp => gaveUp')
    BY DEF PickerStep, Take, GetPull, ListComments, AllDone, NextTarget, CreateBranch, GetRef, CreateTemp, PutSibling, PutTemp,
           MergeTemp, MergeConflict, CommitTemp, UpdateBranch, DeleteTemp, CreatePull, CannotGoOn, CallFails, Throws, githubVars
  <2>2. CASE UNCHANGED pickPulls
    BY <2>1, <2>2
  <2>3. CASE CreateBranch(h) \/ CreatePull(h)
    BY <2>1, <2>3 DEF CreateBranch, CreatePull, PickTyped, GithubTyped
  <2>4. QED
    BY <2>2, <2>3
    DEF PickerStep, Take, GetPull, ListComments, AllDone, NextTarget, GetRef, CreateTemp, PutSibling, PutTemp,
        MergeTemp, MergeConflict, CommitTemp, UpdateBranch, DeleteTemp, CannotGoOn, CallFails, Throws, githubVars
<1>2. SUFFICES ASSUME original = "merged", ~gaveUp', ~gaveUp, NEW t \in Target, NEW w \in Asking, <<t, TRUE, w>> \in asked, ~IsServed(t)', ~IsServed(t)
               PROVE  (\E j \in inbox' : Serves(j, t, w)) \/ (\E g \in Picker : Reaches(g, t, w)')
  BY <1>1, StaysServed DEF RequestsInv, Serves
<1>3. PICK x \in {Idle} \cup Handler : Goes(h, x)
  <2>1. \E x : Goes(h, x)
    BY DEF PickerStep, Take, GetPull, ListComments, AllDone, NextTarget, CreateBranch, GetRef, CreateTemp, PutSibling, PutTemp,
           MergeTemp, MergeConflict, CommitTemp, UpdateBranch, DeleteTemp, CreatePull, CannotGoOn, CallFails, Throws, GoesTo
  <2>2. QED
    BY <2>1 DEF Goes, PickTyped
<1>4. /\ picker'[h] = x /\ (\A g \in Picker \ {h} : picker'[g] = picker[g])
      /\ \A y : Goes(h, y) => x = y
  BY <1>3 DEF Goes, PickTyped
\* The handler that makes the step is the one to look at.
<1>5. SUFFICES ASSUME Reaches(h, t, w), p # Idle
               PROVE  (\E j \in inbox' : Serves(j, t, w)) \/ (\E g \in Picker : Reaches(g, t, w)')
  <2>1. ASSUME NEW j \in inbox, Serves(j, t, w), j \notin inbox'
        PROVE  Reaches(h, t, w)'
    <3>1. j \in Jobs
      BY DEF PickTyped
    <3>2. CASE Take(h, j)
      <4>1. x = [at |-> IF j.kind = "comment" THEN "get" ELSE "list", job |-> j, todo |-> {},
                 target |-> j.target, head |-> targets[j.target], tree |-> {}]
        BY <1>4, <3>2 DEF Take
      <4>2. x.job = j /\ x.at = (IF j.kind = "comment" THEN "get" ELSE "list") /\ x # Idle
        BY <4>1 DEF Idle
      <4>3. QED
        BY <1>4, <2>1, <4>2 DEF Reaches, Serves
    <3>3. QED
      BY <2>1, <3>2
      DEF PickerStep, Take, GetPull, ListComments, AllDone, NextTarget, CreateBranch, GetRef, CreateTemp, PutSibling, PutTemp,
          MergeTemp, MergeConflict, CommitTemp, UpdateBranch, DeleteTemp, CreatePull, CannotGoOn, CallFails, Throws
  <2>2. ASSUME NEW g \in Picker \ {h}, Reaches(g, t, w)
        PROVE  Reaches(g, t, w)'
    BY <1>4, <2>2 DEF Reaches, Serves
  <2>3. (\E j \in inbox : Serves(j, t, w)) \/ (\E g \in Picker : Reaches(g, t, w))
    BY <1>2 DEF RequestsInv
  <2>4. CASE Reaches(h, t, w)
    BY <1>5, <2>4 DEF Reaches
  <2>5. QED
    BY <2>1, <2>2, <2>3, <2>4
<1>6. p \in Handler /\ p.job \in Jobs /\ p.target \in Target /\ Serves(p.job, t, w) /\ p.at \in Working \cup {"get", "list", "next"}
      /\ \/ p.at = "get" \/ (p.at = "list" /\ w = "first page")
         \/ p.at \in Underway /\ t \in p.todo
         \/ p.at \in Working /\ p.target = t
      /\ "next" \in Underway /\ Working \subseteq Underway /\ {"next", "get", "list"} \cap Working = {}
      /\ {"get", "list"} \cap Underway = {}
  BY <1>5, HandlerTyped DEF Reaches, Working, Underway
\* It goes on with what it has.
<1>7. ASSUME x \in Handler, x.job = p.job,
             (x.at \in Underway /\ t \in x.todo) \/ (x.at \in Working /\ x.target = t)
      PROVE  Reaches(h, t, w)'
  BY <1>4, <1>6, <1>7, ReachesOn
<1>8. ASSUME p.at \in Working, x \in Handler, x.at \in Working, x.job = p.job, x.todo = p.todo, x.target = p.target
      PROVE  Reaches(h, t, w)'
  <2>1. p.at \notin {"get", "list"}
    BY <1>8 DEF Working
  <2>2. (p.at \in Underway /\ t \in p.todo) \/ (p.at \in Working /\ p.target = t)
    BY <1>6, <2>1
  <2>3. (x.at \in Underway /\ t \in x.todo) \/ (x.at \in Working /\ x.target = t)
    BY <1>6, <1>8, <2>2
  <2>4. QED
    BY <1>7, <1>8, <2>3
<1>9. ASSUME NEW at \in Working, GoesTo(h, at), p.at \in Working
      PROVE  Reaches(h, t, w)'
  <2>1. x = [p EXCEPT !.at = at]
    BY <1>4, <1>9 DEF GoesTo
  <2>2. x \in Handler /\ x.at \in Working /\ x.job = p.job /\ x.todo = p.todo /\ x.target = p.target
    BY <1>6, <1>9, <2>1 DEF Handler
  <2>3. QED
    BY <1>8, <1>9, <2>2
<1>10. CASE \E j \in inbox : Take(h, j)
  BY <1>5, <1>10 DEF Take
<1>11. CASE GetPull(h)
  <2>1. p.at = "get" /\ p.job.kind = "comment"
    BY <1>11 DEF GetPull, PickTyped
  <2>2. p.job.allowed /\ p.job.target = t
    BY <1>6, <2>1 DEF Serves
  <2>3. x = [p EXCEPT !.at = "next", !.todo = {p.job.target}]
    BY <1>2, <1>4, <1>11, <2>2 DEF GetPull
  <2>4. t \in Target /\ p.job.target = t
    BY <2>2
  <2>5. x \in Handler /\ x.job = p.job /\ t \in x.todo /\ x.at = "next"
    BY <1>6, <2>3, <2>4 DEF Handler
  <2>6. QED
    BY <1>6, <1>7, <2>5
<1>12. CASE ListComments(h)
  <2> DEFINE S == {c[1] : c \in {d \in asked : d[2] /\ d[3] = "first page"}}
  <2>1. x = [p EXCEPT !.at = "next", !.todo = S]
    BY <1>4, <1>12 DEF ListComments
  <2>2. t \in S /\ S \in SUBSET Target
    <3>1. <<t, TRUE, w>> \in {d \in asked : d[2] /\ d[3] = "first page"} /\ <<t, TRUE, w>>[1] = t
      <4>1. w = "first page"
        BY <1>6, <1>12 DEF ListComments
      <4>2. QED
        BY <1>2, <4>1
    <3>2. asked \subseteq Target \X BOOLEAN \X Place
      BY DEF PickTyped, GithubTyped
    <3>3. \A c \in asked : c[1] \in Target
      BY <3>2
    <3>4. QED
      BY <3>1, <3>3
  <2>3. x \in Handler /\ x.job = p.job /\ x.todo = S /\ x.at = "next"
    BY <1>6, <2>1, <2>2 DEF Handler
  <2>4. QED
    BY <1>6, <1>7, <2>2, <2>3
<1>13. CASE AllDone(h)
  BY <1>6, <1>13 DEF AllDone, Working
<1>14. CASE NextTarget(h)
  <2>1. p.at = "next" /\ t \in p.todo
    BY <1>6, <1>14 DEF NextTarget, Working
  <2>2. PICK u \in p.todo : IF u \in requires /\ "base" \notin requires
                            THEN Goes(h, [p EXCEPT !.todo = @ \ {u}])
                            ELSE Goes(h, [p EXCEPT !.todo = @ \ {u}, !.at = "branch", !.target = u, !.head = targets[u]])
    BY <1>14 DEF NextTarget
  <2>3. u \in Target
    BY <1>6 DEF Handler
  <2>4. CASE u \in requires /\ "base" \notin requires
    <3>1. x = [p EXCEPT !.todo = @ \ {u}] /\ u # t
      BY <1>2, <1>4, <2>2, <2>4 DEF IsServed
    <3>2. x \in Handler /\ x.job = p.job /\ t \in x.todo /\ x.at = "next"
      BY <1>6, <2>1, <3>1 DEF Handler
    <3>3. QED
      BY <1>6, <1>7, <3>2
  <2>5. CASE ~(u \in requires /\ "base" \notin requires)
    <3>1. PICK c \in CommitOf : c = targets[u]
      BY <2>3 DEF PickTyped, GithubTyped
    <3>2. x = [p EXCEPT !.todo = @ \ {u}, !.at = "branch", !.target = u, !.head = c]
      BY <1>4, <2>2, <2>5, <3>1
    <3>3. x \in Handler /\ x.job = p.job /\ x.at \in Working /\ (t \in x.todo \/ x.target = t)
      BY <1>6, <2>1, <2>3, <3>2 DEF Handler, Working
    <3>4. QED
      BY <1>6, <1>7, <3>3
  <2>6. QED
    BY <2>4, <2>5
<1>15. CASE CreateBranch(h) \/ CreateTemp(h) \/ PutSibling(h) \/ UpdateBranch(h) \/ DeleteTemp(h)
  <2>1. p.at \in Working /\ \E at \in Working : GoesTo(h, at)
    BY <1>15 DEF CreateBranch, CreateTemp, PutSibling, PutTemp, UpdateBranch, DeleteTemp, Working
  <2>2. QED
    BY <1>9, <2>1
<1>16. CASE GetRef(h)
  <2>1. p.at \in Working /\ \E c : x = [p EXCEPT !.at = "temp", !.head = c]
    BY <1>4, <1>16 DEF GetRef, Working
  <2>2. x.at \in Working /\ x.job = p.job /\ x.todo = p.todo /\ x.target = p.target
    BY <1>6, <2>1 DEF Handler, Working
  <2>3. x \in Handler
    BY <2>2 DEF Idle, Working
  <2>4. QED
    BY <1>8, <2>1, <2>2, <2>3
<1>17. CASE MergeTemp(h)
  <2>1. p.at \in Working /\ \E s : x = [p EXCEPT !.at = "commit", !.tree = s]
    BY <1>4, <1>17 DEF MergeTemp, Working
  <2>2. x.at \in Working /\ x.job = p.job /\ x.todo = p.todo /\ x.target = p.target
    BY <1>6, <2>1 DEF Handler, Working
  <2>3. x \in Handler
    BY <2>2 DEF Idle, Working
  <2>4. QED
    BY <1>8, <2>1, <2>2, <2>3
<1>18. CASE CommitTemp(h)
  <2>1. p.at \in Working /\ \E c : x = [p EXCEPT !.at = "update", !.head = c]
    BY <1>4, <1>18 DEF CommitTemp, Working
  <2>2. x.at \in Working /\ x.job = p.job /\ x.todo = p.todo /\ x.target = p.target
    BY <1>6, <2>1 DEF Handler, Working
  <2>3. x \in Handler
    BY <2>2 DEF Idle, Working
  <2>4. QED
    BY <1>8, <2>1, <2>2, <2>3
\* It is done with its target: that was another one.
<1>19. CASE MergeConflict(h) \/ CreatePull(h)
  <2>1. p.at \in Working /\ x = [p EXCEPT !.at = "next"]
    BY <1>4, <1>19 DEF MergeConflict, CreatePull, GoesTo, Working
  <2>2. x \in Handler /\ x.job = p.job /\ x.todo = p.todo /\ x.at = "next"
    BY <1>6, <2>1 DEF Handler
  <2>3. p.target # t
    <3>1. CASE MergeConflict(h)
      BY <1>2, <3>1 DEF MergeConflict, IsServed
    <3>2. CASE CreatePull(h)
      <4>1. ASSUME p.target = t
            PROVE  k = <<t, "merge">> /\ k \in Key
        BY <1>6, <4>1 DEF Serves, KeyOf, Key
      <4>2. p.target = t => pickPulls'[<<t, "merge">>] = "open"
        BY <3>2, <4>1 DEF CreatePull, PickTyped, GithubTyped
      <4>3. QED
        BY <1>2, <4>2 DEF IsServed
    <3>3. QED
      BY <1>19, <3>1, <3>2
  <2>4. t \in p.todo
    BY <1>6, <2>1, <2>3 DEF Working
  <2>5. QED
    BY <1>6, <1>7, <2>2, <2>4
<1>20. CASE CannotGoOn(h) \/ CallFails(h)
  <2>1. Throws(h)
    BY <1>20 DEF CannotGoOn, CallFails
  <2>2. inbox' = inbox \cup {[p.job EXCEPT !.tries = @ + 1]}
    BY <1>2, <2>1 DEF Throws
  <2>3. Serves([p.job EXCEPT !.tries = @ + 1], t, w)
    BY <1>6 DEF Serves, Jobs
  <2>4. QED
    BY <2>2, <2>3
<1>21. QED
  BY <1>10, <1>11, <1>12, <1>13, <1>14, <1>15, <1>16, <1>17, <1>18, <1>19, <1>20 DEF PickerStep

\* Nor do those of people and GitHub.
LEMMA PeopleKeepRequests ==
  ASSUME PickTyped, PlacesInv, RequestsInv,
         \/ \E t \in Target, may \in BOOLEAN : WriteComment(t, may) \/ (\E u \in Target : EditComment(t, may, u))
         \/ FillPage
         \/ \E how \in {"merged", "closed"} : CloseOriginal(how)
         \/ \E t \in Target : TargetMoves(t)
         \/ \E k \in Key, delete \in BOOLEAN : MergePull(k, delete)
  PROVE  RequestsInv'
<1>1. /\ UNCHANGED <<picker, requires, told, gaveUp>> /\ inbox \subseteq inbox'
      /\ \A k \in Key : pickPulls[k] # "none" => pickPulls'[k] # "none"
  BY DEF WriteComment, EditComment, FillPage, CloseOriginal, TargetMoves, MergePull, ByPeople, PickTyped, GithubTyped
<1>2. SUFFICES ASSUME original' = "merged", ~gaveUp, NEW t \in Target, NEW w \in Asking, <<t, TRUE, w>> \in asked', ~IsServed(t), ~IsServed(t)'
               PROVE  (\E j \in inbox' : Serves(j, t, w)) \/ (\E g \in Picker : Reaches(g, t, w))
  <2>1. \A t \in Target : IsServed(t) => IsServed(t)'
    BY <1>1, StaysServed
  <2>2. \A t, h, w : Reaches(h, t, w) => Reaches(h, t, w)'
    BY <1>1 DEF Reaches, Serves
  <2>3. QED
    BY <1>1, <2>1, <2>2 DEF RequestsInv, Serves
<1>3. CASE original = "merged" /\ <<t, TRUE, w>> \in asked
  BY <1>1, <1>2, <1>3 DEF RequestsInv
<1>4. CASE <<t, TRUE, w>> \notin asked
  <2>1. Job("comment", t, "merge", TRUE, 1) \in inbox'
    <3>1. \E u \in Target, may \in BOOLEAN, v \in Place : <<u, may, v>> = <<t, TRUE, w>> /\ Job("comment", u, "merge", may, 1) \in inbox'
      BY <1>2, <1>4 DEF WriteComment, EditComment, FillPage, CloseOriginal, TargetMoves, MergePull, PlaceNow, Place
    <3>2. QED
      BY <3>1
  <2>2. Serves(Job("comment", t, "merge", TRUE, 1), t, w)
    BY DEF Serves, Job
  <2>3. QED
    BY <2>1, <2>2
<1>5. CASE original # "merged"
  <2>1. CloseOriginal("merged")
    BY <1>2, <1>5 DEF WriteComment, EditComment, FillPage, CloseOriginal, TargetMoves, MergePull
  <2>2. \E u : Job("closed", u, "merge", TRUE, 1) \in inbox'
    BY <2>1 DEF CloseOriginal
  <2>3. w = "first page"
    BY <1>2, <1>5, <2>1 DEF CloseOriginal, PlacesInv, Asking
  <2>4. \A u : Serves(Job("closed", u, "merge", TRUE, 1), t, w)
    BY <2>3 DEF Serves, Job
  <2>5. QED
    BY <2>2, <2>4
<1>6. QED
  BY <1>3, <1>4, <1>5

\* A request marked as written after the merge is.
LEMMA PlacesKept ==
  ASSUME PickTyped, PlacesInv, [PickNext]_pickVars
  PROVE  PlacesInv'
<1>1. CASE UNCHANGED <<original, asked>> \/ original' = "merged"
  BY <1>1 DEF PlacesInv
<1>2. ASSUME original' # "merged", original = original', NEW c, asked' \subseteq asked \cup {c},
             c[2] = TRUE => c[3] # "after merge"
      PROVE  PlacesInv'
  <2>1. \A t \in Target : <<t, TRUE, "after merge">>[2] = TRUE /\ <<t, TRUE, "after merge">>[3] = "after merge"
    OBVIOUS
  <2>2. QED
    BY <1>2, <2>1 DEF PlacesInv
<1>3. ASSUME NEW t \in Target, NEW may \in BOOLEAN, WriteComment(t, may), original # "merged"
      PROVE  PlacesInv'
  <2>1. original = original' /\ asked' = asked \cup {<<t, may, PlaceNow>>} /\ PlaceNow # "after merge"
    BY <1>3 DEF WriteComment, PlaceNow
  <2>2. <<t, may, PlaceNow>>[3] = PlaceNow
    OBVIOUS
  <2>3. QED
    BY <1>2, <1>3, <2>1, <2>2
<1>4. ASSUME NEW t \in Target, NEW may \in BOOLEAN, NEW u \in Target, EditComment(t, may, u), original # "merged"
      PROVE  PlacesInv'
  <2>1. PICK w \in Place : asked' = (asked \ {<<t, may, w>>}) \cup {<<u, may, IF w = "first page" THEN w ELSE PlaceNow>>}
    BY <1>4 DEF EditComment
  <2>2. original = original' /\ PlaceNow # "after merge"
    BY <1>4 DEF EditComment, PlaceNow
  <2>3. \A p : <<u, may, p>>[3] = p
    OBVIOUS
  <2>4. PICK p : p = (IF w = "first page" THEN w ELSE PlaceNow)
    OBVIOUS
  <2>5. p # "after merge" /\ asked' \subseteq asked \cup {<<u, may, p>>}
    BY <2>1, <2>2, <2>4
  <2>6. QED
    BY <1>2, <1>4, <2>2, <2>3, <2>5
<1>5. ASSUME NEW h \in Picker, PickerStep(h)
      PROVE  UNCHANGED <<original, asked>>
  BY <1>5 DEF PickerStep, Take, GetPull, ListComments, AllDone, NextTarget, CreateBranch, GetRef, CreateTemp, PutSibling,
     PutTemp, MergeTemp, MergeConflict, CommitTemp, UpdateBranch, DeleteTemp, CreatePull, CannotGoOn, CallFails, Throws, githubVars
<1>6. CASE original = "merged"
  <2>1. original' = "merged"
    BY <1>5, <1>6 DEF PickNext, WriteComment, EditComment, FillPage, CloseOriginal, TargetMoves, MergePull, pickVars, githubVars
  <2>2. QED
    BY <1>1, <2>1
<1>7. CASE original # "merged"
  <2>1. ASSUME NEW how \in {"merged", "closed"}, CloseOriginal(how) PROVE PlacesInv'
    BY <1>7, <2>1 DEF CloseOriginal, PlacesInv
  <2>2. ASSUME FillPage \/ (\E t \in Target : TargetMoves(t)) \/ (\E k \in Key, delete \in BOOLEAN : MergePull(k, delete))
        PROVE  UNCHANGED <<original, asked>>
    BY <2>2 DEF FillPage, TargetMoves, MergePull
  <2>3. UNCHANGED pickVars => UNCHANGED <<original, asked>>
    BY DEF pickVars, githubVars
  <2>4. QED
    BY <1>1, <1>3, <1>4, <1>5, <1>7, <2>1, <2>2, <2>3 DEF PickNext
<1>8. QED
  BY <1>6, <1>7

(* A target that somebody asks for who may, in a comment of the first page or after the   *)
(* merge, is served, or a task is there that will reach it, or a handler is on its way to *)
(* it, as soon as the pull request is merged and as long as no task is given up; so when  *)
(* all is quiet each has a pull request, a comment on a conflict, or stricter reviews     *)
(* than the base branch.  A handler of the close reads no other page.                     *)
THEOREM NoRequestIsLost == PickSpec => []RequestsAreServed
<1>1. PickInit => PickTyped /\ PlacesInv /\ RequestsInv
  BY PickInitTyped, InitRequests DEF PickInit, PlacesInv
<1>2. PickTyped /\ PlacesInv /\ RequestsInv /\ [PickNext]_pickVars => (PickTyped /\ PlacesInv /\ RequestsInv)'
  <2>1. SUFFICES ASSUME PickTyped, PlacesInv, RequestsInv, [PickNext]_pickVars PROVE PickTyped' /\ PlacesInv' /\ RequestsInv'
    OBVIOUS
  <2>2. PickTyped' /\ PlacesInv'
    BY <2>1, PickNextTyped, PlacesKept
  <2>3. CASE UNCHANGED pickVars
    <3>1. /\ UNCHANGED <<original, asked, requires, told, pickPulls, inbox, picker, gaveUp>>
          /\ \A t : IsServed(t)' <=> IsServed(t)
      BY <2>3 DEF pickVars, githubVars, IsServed
    <3>2. \A h, t, w : Reaches(h, t, w)' <=> Reaches(h, t, w)
      BY <3>1 DEF Reaches, Serves
    <3>3. RequestsInv'
      BY <2>1, <3>1, <3>2 DEF RequestsInv, Serves
    <3>4. QED
      BY <2>2, <3>3
  <2>4. CASE PickNext
    BY <2>1, <2>2, <2>4, PickerKeepsRequests, PeopleKeepRequests DEF PickNext
  <2>5. QED
    BY <2>1, <2>2, <2>3, <2>4
<1>3. RequestsInv => RequestsAreServed
  BY DEF RequestsInv, RequestsAreServed, Requested, Asking, IsServed, Reaches
<1>4. QED
  BY <1>1, <1>2, <1>3, PTL DEF PickSpec

----------------------------------------------------------------------------
(* The fan-out of a cron: the types.                                        *)

Cursor(S) == [next : Nat, items : Seq(S)]

Fanouts == [at : {"start", "one", "installations", "repos", "answered", "failed"},
            installations : Cursor(Installation), installation : Installation \cup {NoTarget},
            repos : Cursor(Repository), count : Nat, delay : Nat]

CronTyped ==
  /\ installed \in Seq(Installation) /\ ToSet(installed) = Installation
  /\ repos \in [Installation -> Seq(Repository)]
  /\ archived \subseteq Repository /\ suspended \subseteq Installation
  /\ scheduled \in CronBodies
  /\ fanout \in Fanouts

\* The way the handler goes is that of the request.
CronWays ==
  /\ fanout.at = "start" => fanout.installations = NewCursor /\ fanout.repos = NewCursor
  /\ fanout.at = "one" =>
       \/ scheduled.type = "global"
       \/ scheduled.type = "installation" /\ ~AllInstallations
       \/ scheduled.type = "repository" /\ scheduled.repo # NoTarget
  /\ fanout.at = "installations" =>
       /\ scheduled.type # "global" /\ AllInstallations
       /\ scheduled.type = "repository" => scheduled.repo = NoTarget
  /\ fanout.at = "repos" =>
       /\ scheduled.type = "repository" /\ scheduled.repo = NoTarget /\ fanout.installation \in Installation
       /\ ~AllInstallations => fanout.installation = scheduled.installation
  /\ fanout.at \in {"start", "answered"} => pending = {}

----------------------------------------------------------------------------
(* The fan-out of a cron: what is still to come, and what is there.         *)

\* An entry of a listing is on the page that was read, or on one still to be read.
ToCome(c, list, x) ==
  \/ \E k \in DOMAIN c.items : c.items[k] = x
  \/ c.next # 0 /\ \E k \in DOMAIN list : k >= (c.next - 1) * CronPage + 1 /\ list[k] = x

InstallationAhead(i) ==
  fanout.at \in {"installations", "repos"} /\ AllInstallations /\ ToCome(fanout.installations, installed, i)
RepoAhead(i, r) == fanout.at = "repos" /\ fanout.installation = i /\ ToCome(fanout.repos, repos[i], r)

Enqueueing(kind, of) == \E t \in pending \cup cronTasks : t.kind = kind /\ t.of = of

RepoCovered(i, r) ==
  r \in archived \cup unsteady \/ Enqueueing("repository", r) \/ InstallationAhead(i) \/ RepoAhead(i, r)

CronInv ==
  /\ scheduled.type = "global" /\ fanout.at \in {"one", "answered"} => Task("global", NoTarget, 0) \in pending \cup cronTasks
  /\ scheduled.type = "installation" /\ fanout.at \in {"one", "installations", "answered"} =>
       \A i \in (IF AllInstallations THEN Installation ELSE {scheduled.installation}) :
         Task("installation", i, 0) \in pending \cup cronTasks \/ InstallationAhead(i)
  /\ scheduled.type = "repository" /\ scheduled.repo # NoTarget /\ fanout.at \in {"one", "answered"} =>
       scheduled.repo \in unsteady \/ Enqueueing("repository", scheduled.repo)
  /\ scheduled.type = "repository" /\ scheduled.repo = NoTarget /\ fanout.at \in {"installations", "repos", "answered"} =>
       \A i \in InstallationsMeant : \A r \in ToSet(repos[i]) : RepoCovered(i, r)

\* Where pages begin and end.
LEMMA PageArithmetic ==
  ASSUME NEW n \in Nat \ {0}
  PROVE  /\ (n - 1) * CronPage \in Nat /\ n * CronPage \in Nat
         /\ n * CronPage = (n - 1) * CronPage + CronPage
         /\ ((n + 1) - 1) * CronPage = n * CronPage
BY CronAssumption

\* Nothing is passed over when a page is read: an entry is on it or after it.
LEMMA PageKeepsAhead ==
  ASSUME NEW S, NEW c \in Cursor(S), NEW list \in Seq(S), NeedsPage(c)
  PROVE  NextPage(c, list) \in Cursor(S) /\ \A x : ToCome(c, list, x) => ToCome(NextPage(c, list), list, x)
<1> DEFINE n == c.next
           a == (n - 1) * CronPage + 1
           b == IF Len(list) < n * CronPage THEN Len(list) ELSE n * CronPage
           d == NextPage(c, list)
<1>1. n \in Nat \ {0} /\ c.items = <<>>
  BY DEF NeedsPage, Cursor
<1>2. a \in Nat \ {0} /\ b \in Nat /\ b <= Len(list)
  <2>1. PICK first, last, length \in Nat : first = (n - 1) * CronPage /\ last = n * CronPage /\ length = Len(list)
    <3>1. (n - 1) * CronPage \in Nat /\ n * CronPage \in Nat
      BY <1>1, PageArithmetic
    <3>2. Len(list) \in Nat
      OBVIOUS
    <3>3. QED
      BY <3>1, <3>2, Zenon
  <2>2. a = first + 1 /\ b = IF length < last THEN length ELSE last
    BY <2>1
  <2>3. QED
    BY <2>1, <2>2
<1>3. d.next = (IF Len(list) > n * CronPage THEN n + 1 ELSE 0) /\ d.items = SubSeq(list, a, b)
  BY DEF NextPage
<1>4. d.next \in Nat
  BY <1>1, <1>3
<1>5. /\ d.items \in Seq(S) /\ Len(d.items) = (IF a <= b THEN b - a + 1 ELSE 0)
      /\ \A k \in 1 .. (b - a + 1) : d.items[k] = list[a + k - 1]
  <2> HIDE DEF a, b, d
  <2>1. CASE a <= b
    BY <1>2, <1>3, <2>1
  <2>2. CASE ~(a <= b)
    BY <1>2, <1>3, <2>2
  <2>3. QED
    BY <2>1, <2>2
<1>6. d \in Cursor(S)
  BY <1>4, <1>5 DEF NextPage, Cursor
<1>7. ASSUME NEW x, ToCome(c, list, x)
      PROVE  ToCome(d, list, x)
  <2>0. n * CronPage \in Nat
    BY <1>1, PageArithmetic
  <2>1. PICK k \in DOMAIN list : k >= a /\ list[k] = x
    BY <1>1, <1>7 DEF ToCome
  <2>2. k \in Nat /\ k <= Len(list)
    OBVIOUS
  <2>3. CASE k <= n * CronPage
    <3>1. k <= b
      BY <2>2, <2>3
    <3>2. k - a + 1 \in 1 .. (b - a + 1) /\ k - a + 1 \in DOMAIN d.items /\ a + (k - a + 1) - 1 = k
      <4> HIDE DEF a, b, d
      <4> QED
        BY <1>2, <1>5, <2>1, <2>2, <3>1
    <3>3. d.items[k - a + 1] = x
      <4> HIDE DEF a, b, d
      <4> QED
        BY <1>5, <2>1, <3>2
    <3>4. QED
      BY <3>2, <3>3 DEF ToCome
  <2>4. CASE k > n * CronPage
    <3>1. Len(list) > n * CronPage
      BY <2>0, <2>2, <2>4
    <3>2. d.next = n + 1
      BY <1>3, <3>1
    <3>3. (d.next - 1) * CronPage = n * CronPage
      BY <1>1, <3>2, PageArithmetic
    <3>4. d.next # 0 /\ k >= (d.next - 1) * CronPage + 1
      BY <1>1, <2>0, <2>2, <2>4, <3>2, <3>3
    <3>5. QED
      BY <2>1, <3>4 DEF ToCome
  <2>5. QED
    BY <2>0, <2>2, <2>3, <2>4
<1>8. QED
  BY <1>6, <1>7

\* Nor when the first entry of the page is taken.
LEMMA RestKeepsAhead ==
  ASSUME NEW S, NEW c \in Cursor(S), NEW list, c.items # <<>>
  PROVE  /\ Rest(c) \in Cursor(S) /\ Head(c.items) \in S
         /\ \A x : ToCome(c, list, x) => x = Head(c.items) \/ ToCome(Rest(c), list, x)
<1>1. c.items \in Seq(S) /\ c.next \in Nat
  BY DEF Cursor
<1>2. Tail(c.items) \in Seq(S) /\ Head(c.items) \in S /\ Head(c.items) = c.items[1]
      /\ Len(Tail(c.items)) = Len(c.items) - 1 /\ \A k \in 1 .. Len(c.items) - 1 : Tail(c.items)[k] = c.items[k + 1]
  BY <1>1, HeadTailProperties
<1>3. Rest(c) \in Cursor(S) /\ Rest(c).items = Tail(c.items) /\ Rest(c).next = c.next
  BY <1>2 DEF Rest, Cursor
<1>4. ASSUME NEW x, NEW k \in DOMAIN c.items, c.items[k] = x
      PROVE  x = Head(c.items) \/ ToCome(Rest(c), list, x)
  <2>1. CASE k = 1
    BY <1>2, <1>4, <2>1
  <2>2. CASE k # 1
    <3>1. k - 1 \in DOMAIN Tail(c.items) /\ Tail(c.items)[k - 1] = x
      BY <1>1, <1>2, <1>4, <2>2
    <3>2. QED
      BY <1>3, <3>1 DEF ToCome
  <2>3. QED
    BY <2>1, <2>2
<1>5. QED
  BY <1>2, <1>3, <1>4 DEF ToCome

\* A listing without its entry k.
LEMMA RemovalTyped ==
  ASSUME NEW S, NEW list \in Seq(S), NEW k \in 1 .. Len(list)
  PROVE  /\ RemoveAt(list, k) \in Seq(S) /\ Len(RemoveAt(list, k)) = Len(list) - 1
         /\ \A j \in 1 .. Len(list) - 1 : RemoveAt(list, k)[j] = IF j < k THEN list[j] ELSE list[j + 1]
         /\ ToSet(RemoveAt(list, k)) \subseteq ToSet(list)
<1> DEFINE left == RemoveAt(list, k)
<1>1. SubSeq(list, 1, k - 1) \in Seq(S) /\ Len(SubSeq(list, 1, k - 1)) = k - 1
      /\ \A j \in 1 .. k - 1 : SubSeq(list, 1, k - 1)[j] = list[j]
  OBVIOUS
<1>2. SubSeq(list, k + 1, Len(list)) \in Seq(S) /\ Len(SubSeq(list, k + 1, Len(list))) = Len(list) - k
      /\ \A j \in 1 .. Len(list) - k : SubSeq(list, k + 1, Len(list))[j] = list[j + k]
  OBVIOUS
<1>3. ASSUME NEW u \in Seq(S), NEW v \in Seq(S), Len(u) = k - 1, Len(v) = Len(list) - k
      PROVE  /\ u \o v \in Seq(S) /\ Len(u \o v) = Len(list) - 1
             /\ \A j \in 1 .. Len(list) - 1 : (u \o v)[j] = IF j < k THEN u[j] ELSE v[j - (k - 1)]
  <2>1. u \o v \in Seq(S) /\ Len(u \o v) = Len(list) - 1
    BY <1>3
  <2>2. ASSUME NEW j \in 1 .. Len(list) - 1
        PROVE  (u \o v)[j] = IF j < k THEN u[j] ELSE v[j - (k - 1)]
    BY <1>3, <2>1, <2>2
  <2>3. QED
    BY <2>1, <2>2
<1>4. ASSUME NEW j \in 1 .. Len(list) - 1
      PROVE  left[j] = IF j < k THEN list[j] ELSE list[j + 1]
  <2>1. left[j] = IF j < k THEN SubSeq(list, 1, k - 1)[j] ELSE SubSeq(list, k + 1, Len(list))[j - (k - 1)]
    BY <1>1, <1>2, <1>3 DEF RemoveAt
  <2>2. CASE j < k
    BY <1>1, <2>1, <2>2
  <2>3. CASE ~(j < k)
    <3>1. j - (k - 1) \in 1 .. Len(list) - k /\ (j - (k - 1)) + k = j + 1
      BY <2>3
    <3>2. SubSeq(list, k + 1, Len(list))[j - (k - 1)] = list[j + 1]
      BY <1>2, <3>1
    <3>3. QED
      BY <2>1, <2>3, <3>2
  <2>4. QED
    BY <2>2, <2>3
<1>5. left \in Seq(S) /\ Len(left) = Len(list) - 1
  BY <1>1, <1>2, <1>3 DEF RemoveAt
<1>6. \A j \in DOMAIN left : \E m \in DOMAIN list : left[j] = list[m]
  BY <1>4, <1>5
<1>7. QED
  BY <1>4, <1>5, <1>6 DEF ToSet

\* When entry k is taken out of a listing, an entry after it is still ahead, unless it was
\* the first of the page to be read next.
LEMMA RemovalKeepsAhead ==
  ASSUME NEW S, NEW c \in Cursor(S), NEW list \in Seq(S), NEW k \in 1 .. Len(list), NEW x, ToCome(c, list, x),
         x # list[k],
         (c.next > 1 /\ k < (c.next - 1) * CronPage + 1 /\ (c.next - 1) * CronPage + 1 <= Len(list)) =>
           x # list[(c.next - 1) * CronPage + 1]
  PROVE  ToCome(c, RemoveAt(list, k), x)
<1> DEFINE first == (c.next - 1) * CronPage + 1
           left == RemoveAt(list, k)
<1>1. CASE \E m \in DOMAIN c.items : c.items[m] = x
  BY <1>1 DEF ToCome
<1>2. CASE ~\E m \in DOMAIN c.items : c.items[m] = x
  <2>1. c.next \in Nat \ {0} /\ first \in Nat \ {0}
    <3>1. c.next \in Nat \ {0}
      BY <1>2 DEF ToCome, Cursor
    <3>2. (c.next - 1) * CronPage \in Nat
      BY <3>1, PageArithmetic
    <3>3. ASSUME NEW q \in Nat PROVE q + 1 \in Nat \ {0}
      OBVIOUS
    <3>4. QED
      BY <3>1, <3>2, <3>3
  <2>2. PICK m \in DOMAIN list : m >= first /\ list[m] = x
    BY <1>2 DEF ToCome
  <2>3. /\ left \in Seq(S) /\ Len(left) = Len(list) - 1
        /\ \A j \in 1 .. Len(list) - 1 : left[j] = IF j < k THEN list[j] ELSE list[j + 1]
    BY RemovalTyped
  <2>4. m # k /\ m \in Nat /\ m <= Len(list)
    BY <2>2
  <2>5. CASE m < k
    <3>1. m \in DOMAIN left /\ left[m] = x
      BY <2>2, <2>3, <2>4, <2>5
    <3>2. QED
      BY <2>1, <2>2, <3>1 DEF ToCome
  <2>6. CASE m > k
    <3>1. m - 1 \in DOMAIN left /\ left[m - 1] = x
      BY <2>2, <2>3, <2>4, <2>6
    <3>2. m # first
      <4>1. ASSUME c.next = 1
            PROVE  first = 1
        BY <4>1, CronAssumption
      <4>2. QED
        BY <2>1, <2>2, <2>4, <2>6, <4>1
    <3>3. m - 1 >= first
      BY <2>1, <2>2, <2>4, <3>2
    <3>4. QED
      BY <2>1, <3>1, <3>3 DEF ToCome
  <2>7. QED
    BY <2>4, <2>5, <2>6
<1>3. QED
  BY <1>1, <1>2

\* The listing of the installations has all of them.
LEMMA ListedAll ==
  ASSUME NEW list \in SetToSeqs(Installation)
  PROVE  list \in Seq(Installation) /\ ToSet(list) = Installation
<1> DEFINE n == Cardinality(Installation)
           D == 1 .. n
<1>1. IsFiniteSet(Installation) /\ n \in Nat
  BY CronAssumption, FS_CardinalityType
<1>2. list \in [D -> Installation] /\ \A i, j \in D : i # j => list[i] # list[j]
  BY DEF SetToSeqs
<1>3. list \in Seq(Installation) /\ DOMAIN list = D /\ ToSet(list) \subseteq Installation
  BY <1>1, <1>2 DEF ToSet
<1>4. list \in Bijection(D, ToSet(list))
  BY <1>2, <1>3 DEF ToSet, Bijection, Injection, Surjection, IsInjective, Range
<1>5. IsFiniteSet(D) /\ Cardinality(D) = n
  BY <1>1, FS_Interval
<1>6. IsFiniteSet(ToSet(list)) /\ Cardinality(ToSet(list)) = n
  BY <1>4, <1>5, FS_Bijection DEF ExistsBijection
<1>7. ToSet(list) = Installation
  BY <1>1, <1>3, <1>6, FS_Subset
<1>8. QED
  BY <1>3, <1>7

\* What people may have set up: the bodies of requests, and repositories listed for each installation.
LEMMA CronInitHolds ==
  ASSUME NEW bodies \in SUBSET CronBodies, NEW lists \in SUBSET [Installation -> Seq(Repository)],
         CronInit(bodies, lists)
  PROVE  CronTyped /\ CronWays /\ CronInv
<1>1. installed \in Seq(Installation) /\ ToSet(installed) = Installation
  BY ListedAll DEF CronInit
<1>2. NewCursor \in Cursor(Installation) /\ NewCursor \in Cursor(Repository)
  BY DEF NewCursor, Cursor
<1>3. fanout \in Fanouts /\ fanout.at = "start"
  BY <1>2 DEF CronInit, Fanouts
<1>4. CronTyped
  BY <1>1, <1>3 DEF CronInit, CronTyped
<1>5. CronWays /\ CronInv
  BY <1>3 DEF CronInit, CronWays, CronInv
<1>6. QED
  BY <1>4, <1>5

\* At its beginning all of a listing is ahead.
LEMMA NewAhead ==
  ASSUME NEW S, NEW list \in Seq(S), NEW x \in ToSet(list)
  PROVE  ToCome(NewCursor, list, x)
<1>1. PICK k \in DOMAIN list : list[k] = x
  BY DEF ToSet
<1>2. (1 - 1) * CronPage + 1 = 1 /\ k >= 1
  BY CronAssumption
<1>3. NewCursor.next = 1
  BY DEF NewCursor
<1>4. QED
  BY <1>1, <1>2, <1>3 DEF ToCome

\* A step keeps the invariant when it lets no task go but one that fails, and no entry that is
\* ahead but with a task for it.
LEMMA CronInvKept ==
  ASSUME CronTyped, CronWays, CronInv, UNCHANGED <<scheduled, suspended>>, archived \subseteq archived', unsteady \subseteq unsteady',
         \/ fanout'.at = fanout.at
         \/ fanout.at \in {"one", "installations", "repos"} /\ fanout'.at \in {"installations", "repos", "answered"},
         \A i \in Installation : ToSet(repos'[i]) \subseteq ToSet(repos[i]),
         \A kind \in {"global", "installation"} : \A of : Task(kind, of, 0) \in pending \cup cronTasks => Task(kind, of, 0) \in (pending \cup cronTasks)',
         \A r : Enqueueing("repository", r) => Enqueueing("repository", r)' \/ r \in unsteady',
         \A i \in Installation : InstallationAhead(i) =>
           \/ InstallationAhead(i)'
           \/ scheduled.type = "installation" /\ Task("installation", i, 0) \in (pending \cup cronTasks)'
           \/ scheduled.type = "repository" /\ (i \in InstallationsMeant => \A r \in ToSet(repos'[i]) : RepoCovered(i, r)'),
         \A i \in Installation : \A r \in ToSet(repos'[i]) : RepoAhead(i, r) => RepoCovered(i, r)'
  PROVE  CronInv'
<1>1. InstallationsMeant \subseteq Installation /\ InstallationsMeant' = InstallationsMeant /\ AllInstallations' = AllInstallations
  BY DEF CronTyped, CronBodies, InstallationsMeant, AllInstallations
<1>2. ASSUME scheduled.type = "global", fanout'.at \in {"one", "answered"}
      PROVE  Task("global", NoTarget, 0) \in (pending \cup cronTasks)'
  <2>1. fanout.at \in {"one", "answered"}
    BY <1>2 DEF CronWays
  <2>2. QED
    BY <1>2, <2>1 DEF CronInv
<1>3. ASSUME scheduled.type = "installation", fanout'.at \in {"one", "installations", "answered"},
             NEW i \in (IF AllInstallations THEN Installation ELSE {scheduled.installation})
      PROVE  Task("installation", i, 0) \in (pending \cup cronTasks)' \/ InstallationAhead(i)'
  <2>1. fanout.at \in {"one", "installations", "answered"}
    BY <1>3 DEF CronWays
  <2>2. i \in Installation
    BY <1>3 DEF CronTyped, CronBodies, AllInstallations
  <2>3. Task("installation", i, 0) \in pending \cup cronTasks \/ InstallationAhead(i)
    BY <1>3, <2>1 DEF CronInv
  <2>4. QED
    BY <1>3, <2>2, <2>3
<1>4. ASSUME scheduled.type = "repository", scheduled.repo # NoTarget, fanout'.at \in {"one", "answered"}
      PROVE  scheduled.repo \in unsteady' \/ Enqueueing("repository", scheduled.repo)'
  <2>1. fanout.at \in {"one", "answered"}
    BY <1>4 DEF CronWays
  <2>2. QED
    BY <1>4, <2>1 DEF CronInv
<1>5. ASSUME scheduled.type = "repository", scheduled.repo = NoTarget, fanout'.at \in {"installations", "repos", "answered"},
             NEW i \in InstallationsMeant, NEW r \in ToSet(repos'[i])
      PROVE  RepoCovered(i, r)'
  <2>1. fanout.at \in {"installations", "repos", "answered"}
    BY <1>5 DEF CronWays
  <2>2. i \in Installation /\ r \in ToSet(repos[i])
    BY <1>1, <1>5
  <2>3. RepoCovered(i, r)
    BY <1>5, <2>1, <2>2 DEF CronInv
  <2>4. QED
    BY <1>5, <2>2, <2>3 DEF RepoCovered
<1>6. QED
  BY <1>1, <1>2, <1>3, <1>4, <1>5 DEF CronInv

\* A cron is taken.
LEMMA HandleScheduledKeeps ==
  ASSUME CronTyped, CronWays, CronInv, HandleScheduled
  PROVE  CronTyped' /\ CronWays' /\ CronInv'
<1>1. /\ UNCHANGED <<installed, repos, archived, suspended, scheduled, cronTasks, unsteady>>
      /\ fanout.at = "start" /\ pending = {} /\ fanout.installations = NewCursor /\ fanout.repos = NewCursor
      /\ fanout \in Fanouts
  BY DEF HandleScheduled, listVars, CronWays, CronTyped
<1>2. ASSUME NEW kind, NEW of, pending' = {Task(kind, of, 0)}, fanout' = [fanout EXCEPT !.at = "one"],
             \/ scheduled.type = "global" /\ kind = "global" /\ of = NoTarget
             \/ scheduled.type = "installation" /\ ~AllInstallations /\ kind = "installation" /\ of = scheduled.installation
             \/ scheduled.type = "repository" /\ scheduled.repo # NoTarget /\ kind = "repository" /\ of = scheduled.repo
      PROVE  CronTyped' /\ CronWays' /\ CronInv'
  <2>1. fanout' \in Fanouts /\ fanout'.at = "one"
    BY <1>1, <1>2 DEF Fanouts
  <2>2. Task(kind, of, 0) \in pending' /\ Task(kind, of, 0).kind = kind /\ Task(kind, of, 0).of = of
    BY <1>2 DEF Task
  <2>3. CronTyped' /\ CronWays'
    BY <1>1, <1>2, <2>1 DEF CronTyped, CronWays, AllInstallations
  <2>4. Enqueueing(kind, of)'
    BY <2>2 DEF Enqueueing
  <2>5. CronInv'
    BY <1>1, <1>2, <2>1, <2>2, <2>4 DEF CronInv, AllInstallations
  <2>6. QED
    BY <2>3, <2>5
<1>3. CASE /\ scheduled.type = "repository" /\ scheduled.repo = NoTarget /\ scheduled.installation # NoTarget
           /\ fanout' = [fanout EXCEPT !.at = "repos", !.installation = scheduled.installation]
           /\ UNCHANGED pending
  <2>0. PICK i \in Installation : i = scheduled.installation
    BY <1>3 DEF CronTyped, CronBodies
  <2>1. fanout' \in Fanouts /\ fanout'.at = "repos" /\ fanout'.installation = i /\ fanout'.repos = NewCursor
    BY <1>1, <1>3, <2>0 DEF Fanouts
  <2>2. CronTyped' /\ CronWays'
    BY <1>1, <1>3, <2>0, <2>1 DEF CronTyped, CronWays, AllInstallations
  <2>3. ASSUME NEW r \in ToSet(repos[i])
        PROVE  RepoCovered(i, r)'
    <3>1. ToCome(NewCursor, repos[i], r)
      BY NewAhead DEF CronTyped
    <3>2. QED
      BY <1>1, <2>1, <3>1 DEF RepoCovered, RepoAhead, ToCome
  <2>4. InstallationsMeant' = {i}
    BY <1>1, <1>3, <2>0 DEF InstallationsMeant, AllInstallations
  <2>5. CronInv'
    BY <1>1, <1>3, <2>0, <2>1, <2>3, <2>4 DEF CronInv
  <2>6. QED
    BY <2>2, <2>5
<1>4. CASE /\ scheduled.type # "global" /\ scheduled.installation = NoTarget
           /\ (scheduled.type = "repository" => scheduled.repo = NoTarget)
           /\ fanout' = [fanout EXCEPT !.at = "installations"]
           /\ UNCHANGED pending
  <2>1. fanout' \in Fanouts /\ fanout'.at = "installations" /\ fanout'.installations = NewCursor
    BY <1>1, <1>4 DEF Fanouts
  <2>2. CronTyped' /\ CronWays'
    BY <1>1, <1>4, <2>1 DEF CronTyped, CronWays, AllInstallations
  <2>3. ASSUME NEW i \in Installation
        PROVE  InstallationAhead(i)'
    <3>1. ToCome(NewCursor, installed, i)
      BY NewAhead DEF CronTyped
    <3>2. QED
      BY <1>1, <1>4, <2>1, <3>1 DEF InstallationAhead, AllInstallations, ToCome
  <2>4. InstallationsMeant' \subseteq Installation
    BY <1>1, <1>4 DEF InstallationsMeant, AllInstallations, CronTyped, CronBodies
  <2>5. CronInv'
    BY <1>1, <1>4, <2>1, <2>3, <2>4 DEF CronInv, RepoCovered, AllInstallations
  <2>6. QED
    BY <2>2, <2>5
<1>5. QED
  BY <1>2, <1>3, <1>4 DEF HandleScheduled, AllInstallations

\* The steps of the handler once it is on its way.
LEMMA HandlerKeepsCron ==
  ASSUME CronTyped, CronWays, CronInv,
         \/ FetchInstallations \/ NextInstallation \/ FetchRepos \/ NextRepo
         \/ BatchDone \/ ReposDone \/ Answer \/ ListingFails
  PROVE  CronTyped' /\ CronWays' /\ CronInv'
<1>1. /\ UNCHANGED <<installed, repos, archived, suspended, scheduled, cronTasks, unsteady>>
      /\ fanout \in Fanouts /\ fanout.installations \in Cursor(Installation) /\ fanout.repos \in Cursor(Repository)
      /\ installed \in Seq(Installation) /\ repos \in [Installation -> Seq(Repository)]
      /\ InstallationsMeant \subseteq Installation
  BY DEF FetchInstallations, NextInstallation, FetchRepos, NextRepo, BatchDone, ReposDone, Answer, ListingFails,
         listVars, CronTyped, CronBodies, InstallationsMeant, AllInstallations, Fanouts
\* Nothing that is known of the installations and repositories changes, and no task is lost.
<1>2. ASSUME fanout' \in Fanouts, CronWays', pending \subseteq pending',
             \/ fanout'.at = fanout.at
             \/ fanout.at \in {"one", "installations", "repos"} /\ fanout'.at \in {"installations", "repos", "answered"},
             \A i \in Installation : InstallationAhead(i) =>
               \/ InstallationAhead(i)'
               \/ scheduled.type = "installation" /\ Task("installation", i, 0) \in (pending \cup cronTasks)'
               \/ scheduled.type = "repository" /\ (i \in InstallationsMeant => \A r \in ToSet(repos[i]) : RepoCovered(i, r)'),
             \A i \in Installation : \A r \in ToSet(repos[i]) : RepoAhead(i, r) => RepoCovered(i, r)'
      PROVE  CronTyped' /\ CronWays' /\ CronInv'
  <2>1. CronTyped'
    BY <1>1, <1>2 DEF CronTyped
  <2>2. \A kind, of : Enqueueing(kind, of) => Enqueueing(kind, of)'
    BY <1>1, <1>2 DEF Enqueueing
  <2>3. CronInv'
    BY <1>1, <1>2, <2>2, CronInvKept
  <2>4. QED
    BY <1>2, <2>1, <2>3
<1>3. ASSUME fanout'.at = fanout.at, fanout'.installations = fanout.installations
      PROVE  \A i : InstallationAhead(i) => InstallationAhead(i)'
  BY <1>1, <1>3 DEF InstallationAhead, AllInstallations
<1>4. CASE FetchInstallations
  <2>1. PICK c \in Cursor(Installation) : c = NextPage(fanout.installations, installed)
    BY <1>1, <1>4, PageKeepsAhead DEF FetchInstallations
  <2>2. \A i : ToCome(fanout.installations, installed, i) => ToCome(c, installed, i)
    BY <1>1, <1>4, <2>1, PageKeepsAhead DEF FetchInstallations
  <2>3. fanout.at = "installations" /\ UNCHANGED pending /\ fanout' = [fanout EXCEPT !.installations = c]
    BY <1>4, <2>1 DEF FetchInstallations
  <2>4. fanout' \in Fanouts /\ fanout'.at = "installations" /\ fanout'.installations = c
    BY <1>1, <2>3 DEF Fanouts
  <2>5. CronWays'
    BY <1>1, <2>3, <2>4 DEF CronWays, AllInstallations
  <2>6. \A i : InstallationAhead(i) => InstallationAhead(i)'
    BY <1>1, <2>2, <2>3, <2>4 DEF InstallationAhead, AllInstallations
  <2>7. \A i, r : ~RepoAhead(i, r)
    BY <2>3 DEF RepoAhead
  <2>8. QED
    BY <1>2, <2>3, <2>4, <2>5, <2>6, <2>7
<1>5. CASE NextInstallation
  <2>1. fanout.at = "installations" /\ fanout.installations.items # <<>> /\ AllInstallations /\ pending = {}
       /\ (scheduled.type = "repository" => scheduled.repo = NoTarget)
    BY <1>5 DEF NextInstallation, CronWays
  <2>2. PICK c \in Cursor(Installation), j \in Installation : c = Rest(fanout.installations) /\ j = Head(fanout.installations.items)
    BY <1>1, <2>1, RestKeepsAhead
  <2>3. \A i : ToCome(fanout.installations, installed, i) => i = j \/ ToCome(c, installed, i)
    BY <1>1, <2>1, <2>2, RestKeepsAhead
  <2>4. \A i, r : ~RepoAhead(i, r)
    BY <2>1 DEF RepoAhead
  <2>5. CASE scheduled.type = "installation"
    <3>1. pending' = {Task("installation", j, 0)} /\ fanout' = [fanout EXCEPT !.installations = c]
      BY <1>5, <2>2, <2>5 DEF NextInstallation
    <3>2. fanout' \in Fanouts /\ fanout'.at = "installations" /\ fanout'.installations = c
      BY <1>1, <2>1, <3>1 DEF Fanouts
    <3>3. CronWays'
      BY <1>1, <2>1, <2>5, <3>2 DEF CronWays, AllInstallations
    <3>4. \A i : InstallationAhead(i) => InstallationAhead(i)' \/ Task("installation", i, 0) \in (pending \cup cronTasks)'
      BY <1>1, <2>1, <2>3, <3>1, <3>2 DEF InstallationAhead, AllInstallations
    <3>5. QED
      BY <1>2, <2>1, <2>4, <2>5, <3>2, <3>3, <3>4
  <2>6. CASE scheduled.type = "repository" /\ j \in scheduled.orgs /\ j \notin suspended
    <3>0. NewCursor \in Cursor(Repository)
      BY DEF NewCursor, Cursor
    <3>1. PICK d \in Cursor(Repository) : d = NewCursor
      BY <3>0
    <3>2. UNCHANGED pending /\ fanout' = [fanout EXCEPT !.installations = c, !.at = "repos", !.installation = j, !.repos = d]
      BY <1>1, <1>5, <2>2, <2>6, <3>1 DEF NextInstallation, Fanouts
    <3>3. fanout' \in Fanouts /\ fanout'.at = "repos" /\ fanout'.installations = c /\ fanout'.installation = j /\ fanout'.repos = d
      BY <1>1, <3>2 DEF Fanouts
    <3>4. CronWays'
      BY <1>1, <2>1, <2>6, <3>3 DEF CronWays, AllInstallations
    <3>5. ASSUME NEW i \in Installation, InstallationAhead(i)
          PROVE  InstallationAhead(i)' \/ \A r \in ToSet(repos[i]) : RepoCovered(i, r)'
      <4>1. CASE ToCome(c, installed, i)
        BY <1>1, <2>1, <3>3, <4>1 DEF InstallationAhead, AllInstallations, ToCome
      <4>2. CASE i = j
        <5>1. ASSUME NEW r \in ToSet(repos[i])
              PROVE  ToCome(d, repos[i], r)
          BY <1>1, <3>1, NewAhead
        <5>2. \A r \in ToSet(repos[i]) : RepoAhead(i, r)'
          BY <1>1, <3>3, <4>2, <5>1 DEF RepoAhead, ToCome
        <5>3. QED
          BY <5>2 DEF RepoCovered
      <4>3. QED
        BY <2>3, <3>5, <4>1, <4>2 DEF InstallationAhead
    <3>6. QED
      BY <1>2, <2>1, <2>4, <2>6, <3>2, <3>3, <3>4, <3>5
  <2>7. CASE scheduled.type = "repository" /\ ~(j \in scheduled.orgs /\ j \notin suspended)
    <3>1. UNCHANGED pending /\ fanout' = [fanout EXCEPT !.installations = c]
      BY <1>5, <2>2, <2>7 DEF NextInstallation
    <3>2. fanout' \in Fanouts /\ fanout'.at = "installations" /\ fanout'.installations = c
      BY <1>1, <2>1, <3>1 DEF Fanouts
    <3>3. CronWays'
      BY <1>1, <2>1, <2>7, <3>2 DEF CronWays, AllInstallations
    <3>4. j \notin InstallationsMeant
      BY <2>1, <2>7 DEF InstallationsMeant
    <3>5. \A i : InstallationAhead(i) => InstallationAhead(i)' \/ i \notin InstallationsMeant
      BY <1>1, <2>1, <2>3, <3>2, <3>4 DEF InstallationAhead, AllInstallations
    <3>6. QED
      BY <1>2, <2>1, <2>4, <2>7, <3>1, <3>2, <3>3, <3>5
  <2>8. QED
    BY <1>5, <2>5, <2>6, <2>7 DEF NextInstallation
<1>6. CASE FetchRepos
  <2>1. fanout.at = "repos" /\ NeedsPage(fanout.repos) /\ fanout.installation \in Installation
    BY <1>6 DEF FetchRepos, CronWays
  <2>2. PICK list \in Seq(Repository) : list = repos[fanout.installation]
    BY <1>1, <2>1
  <2>3. PICK d \in Cursor(Repository) : d = NextPage(fanout.repos, list)
    BY <1>1, <2>1, PageKeepsAhead
  <2>4. \A r : ToCome(fanout.repos, list, r) => ToCome(d, list, r)
    BY <1>1, <2>1, <2>3, PageKeepsAhead
  <2>5. UNCHANGED pending /\ fanout' = [fanout EXCEPT !.repos = d]
    BY <1>6, <2>2, <2>3 DEF FetchRepos
  <2>6. /\ fanout' \in Fanouts /\ fanout'.at = "repos" /\ fanout'.installations = fanout.installations
        /\ fanout'.installation = fanout.installation /\ fanout'.repos = d
    BY <1>1, <2>1, <2>5 DEF Fanouts
  <2>7. CronWays'
    BY <1>1, <2>1, <2>6 DEF CronWays, AllInstallations
  <2>8. ASSUME NEW i, NEW r, RepoAhead(i, r)
        PROVE  RepoAhead(i, r)'
    <3>1. i = fanout.installation /\ ToCome(d, repos[i], r)
      BY <2>2, <2>4, <2>8 DEF RepoAhead
    <3>2. QED
      BY <1>1, <2>6, <3>1 DEF RepoAhead, ToCome
  <2>9. QED
    BY <1>2, <1>3, <2>1, <2>5, <2>6, <2>7, <2>8 DEF RepoCovered
<1>7. CASE NextRepo
  <2>1. fanout.at = "repos" /\ fanout.repos.items # <<>> /\ fanout.installation \in Installation
    BY <1>7 DEF NextRepo, CronWays
  <2>2. PICK d \in Cursor(Repository), q \in Repository : d = Rest(fanout.repos) /\ q = Head(fanout.repos.items)
    BY <1>1, <2>1, RestKeepsAhead
  <2>3. \A list : \A r : ToCome(fanout.repos, list, r) => r = q \/ ToCome(d, list, r)
    BY <1>1, <2>1, <2>2, RestKeepsAhead
  <2>4. /\ \/ q \in archived /\ UNCHANGED pending /\ fanout' = [fanout EXCEPT !.repos = d]
           \/ pending' = pending \cup {Task("repository", q, fanout.delay)} /\ fanout' = [fanout EXCEPT !.repos = d, !.count = fanout.count + 1]
        /\ fanout.count + 1 \in Nat
    <3>1. fanout.count + 1 \in Nat
      BY <1>1 DEF Fanouts
    <3>2. [fanout EXCEPT !.repos = d, !.count = @ + 1] = [fanout EXCEPT !.repos = d, !.count = fanout.count + 1]
      BY <1>1 DEF Fanouts
    <3>3. QED
      BY <1>7, <2>2, <3>1, <3>2 DEF NextRepo
  <2>5. /\ fanout' \in Fanouts /\ fanout'.at = "repos" /\ fanout'.installations = fanout.installations
        /\ fanout'.installation = fanout.installation /\ fanout'.repos = d
    BY <1>1, <2>1, <2>4 DEF Fanouts
  <2>6. q \in archived \/ Enqueueing("repository", q)'
    <3>1. Task("repository", q, fanout.delay).kind = "repository" /\ Task("repository", q, fanout.delay).of = q
      BY DEF Task
    <3>2. q \in archived \/ Task("repository", q, fanout.delay) \in pending'
      BY <2>4
    <3>3. QED
      BY <3>1, <3>2 DEF Enqueueing
  <2>7. CronWays'
    BY <1>1, <2>1, <2>5 DEF CronWays, AllInstallations
  <2>8. ASSUME NEW i, NEW r, RepoAhead(i, r), r # q
        PROVE  RepoAhead(i, r)'
    <3>1. i = fanout.installation /\ ToCome(d, repos[i], r)
      BY <2>3, <2>8 DEF RepoAhead
    <3>2. QED
      BY <1>1, <2>5, <3>1 DEF RepoAhead, ToCome
  <2>9. \A i, r : RepoAhead(i, r) => RepoCovered(i, r)'
    BY <1>1, <2>6, <2>8 DEF RepoCovered
  <2>10. pending \subseteq pending'
    BY <2>4
  <2>11. QED
    BY <1>2, <1>3, <2>1, <2>5, <2>7, <2>9, <2>10
<1>8. CASE BatchDone
  <2>1. /\ fanout.at = "repos" /\ pending = {} /\ UNCHANGED pending
        /\ \E m, n \in Nat : fanout' = [fanout EXCEPT !.count = m, !.delay = n]
    <3>1. fanout.delay + 1 \in Nat
      BY <1>1 DEF Fanouts
    <3>2. [fanout EXCEPT !.count = 0, !.delay = @ + 1] = [fanout EXCEPT !.count = 0, !.delay = fanout.delay + 1]
      BY <1>1 DEF Fanouts
    <3>3. QED
      BY <1>8, <3>1, <3>2 DEF BatchDone
  <2>2. /\ fanout' \in Fanouts /\ fanout'.at = "repos" /\ fanout'.installations = fanout.installations
        /\ fanout'.installation = fanout.installation /\ fanout'.repos = fanout.repos
    BY <1>1, <2>1 DEF Fanouts
  <2>3. CronWays'
    BY <1>1, <2>1, <2>2 DEF CronWays, AllInstallations
  <2>4. \A i, r : RepoAhead(i, r) => RepoCovered(i, r)'
    BY <1>1, <2>2 DEF RepoAhead, RepoCovered
  <2>5. QED
    BY <1>2, <1>3, <2>1, <2>2, <2>3, <2>4
<1>9. CASE ReposDone
  <2>1. fanout.at = "repos" /\ pending = {} /\ UNCHANGED pending /\ Exhausted(fanout.repos)
    BY <1>9 DEF ReposDone
  <2>2. PICK at \in {"installations", "answered"} :
          at = (IF scheduled.installation = NoTarget THEN "installations" ELSE "answered") /\ fanout' = [fanout EXCEPT !.count = 0, !.at = at]
    BY <1>9 DEF ReposDone
  <2>3. fanout' \in Fanouts /\ fanout'.at = at /\ fanout'.installations = fanout.installations
    BY <1>1, <2>2 DEF Fanouts
  <2>4. CronWays'
    BY <1>1, <2>1, <2>2, <2>3 DEF CronWays, AllInstallations
  <2>5. \A i, r : ~RepoAhead(i, r)
    <3>1. fanout.repos.items = <<>> /\ fanout.repos.next = 0 /\ DOMAIN fanout.repos.items = {}
      BY <2>1 DEF Exhausted
    <3>2. QED
      BY <3>1 DEF RepoAhead, ToCome
  <2>6. \A i : InstallationAhead(i) => InstallationAhead(i)'
    BY <1>1, <2>2, <2>3 DEF InstallationAhead, AllInstallations
  <2>7. QED
    BY <1>2, <2>1, <2>3, <2>4, <2>5, <2>6
<1>10. CASE Answer
  <2>1. /\ pending = {} /\ UNCHANGED pending /\ fanout' = [fanout EXCEPT !.at = "answered"]
        /\ fanout.at = "one" \/ (fanout.at = "installations" /\ Exhausted(fanout.installations))
    BY <1>10 DEF Answer
  <2>2. fanout' \in Fanouts /\ fanout'.at = "answered"
    BY <1>1, <2>1 DEF Fanouts
  <2>3. CronWays'
    BY <1>1, <2>1, <2>2 DEF CronWays
  <2>4. \A i, r : ~RepoAhead(i, r)
    BY <2>1 DEF RepoAhead
  <2>5. \A i : ~InstallationAhead(i)
    <3>1. CASE fanout.at = "one"
      BY <3>1 DEF InstallationAhead
    <3>2. CASE Exhausted(fanout.installations)
      <4>1. fanout.installations.items = <<>> /\ fanout.installations.next = 0 /\ DOMAIN fanout.installations.items = {}
        BY <3>2 DEF Exhausted
      <4>2. QED
        BY <4>1 DEF InstallationAhead, ToCome
    <3>3. QED
      BY <2>1, <3>1, <3>2
  <2>6. QED
    BY <1>2, <2>1, <2>2, <2>3, <2>4, <2>5
<1>11. CASE ListingFails
  <2>1. fanout' = [fanout EXCEPT !.at = "failed"]
    BY <1>11 DEF ListingFails
  <2>2. fanout' \in Fanouts /\ fanout'.at = "failed"
    BY <1>1, <2>1 DEF Fanouts
  <2>3. QED
    BY <1>1, <2>2 DEF CronTyped, CronWays, CronInv
<1>12. QED
  BY <1>4, <1>5, <1>6, <1>7, <1>8, <1>9, <1>10, <1>11

\* Calls that end, and edits.
LEMMA OthersKeepCron ==
  ASSUME CronTyped, CronWays, CronInv,
         \/ \E t \in pending : Enqueued(t) \/ EnqueueFails(t)
         \/ \E r \in Repository : ArchiveRepo(r)
         \/ \E i \in Installation, r \in Repository : UninstallRepo(i, r)
  PROVE  CronTyped' /\ CronWays' /\ CronInv'
<1>1. /\ fanout \in Fanouts /\ fanout.repos \in Cursor(Repository) /\ repos \in [Installation -> Seq(Repository)]
      /\ archived \subseteq Repository
  BY DEF CronTyped, Fanouts
\* The handler stays where it is.
<1>2. ASSUME UNCHANGED fanout
      PROVE  /\ UNCHANGED <<installed, scheduled>> => \A i : InstallationAhead(i) => InstallationAhead(i)'
             /\ UNCHANGED repos => \A i, r : RepoAhead(i, r) => RepoAhead(i, r)'
  BY <1>2 DEF InstallationAhead, RepoAhead, AllInstallations, ToCome
<1>3. ASSUME NEW t \in pending, Enqueued(t)
      PROVE  CronTyped' /\ CronWays' /\ CronInv'
  <2>1. /\ UNCHANGED <<installed, repos, archived, suspended, scheduled, fanout, unsteady>>
        /\ (pending \cup cronTasks)' = pending \cup cronTasks /\ pending # {}
    BY <1>3 DEF Enqueued, listVars
  <2>2. CronTyped' /\ CronWays'
    BY <2>1 DEF CronTyped, CronWays, AllInstallations
  <2>3. \A r : Enqueueing("repository", r) => Enqueueing("repository", r)'
    BY <2>1 DEF Enqueueing
  <2>4. CronInv'
    BY <1>2, <2>1, <2>3, CronInvKept DEF RepoCovered
  <2>5. QED
    BY <2>2, <2>4
<1>4. ASSUME NEW t \in pending, EnqueueFails(t), t.kind = "repository"
      PROVE  CronTyped' /\ CronWays' /\ CronInv'
  <2>1. /\ UNCHANGED <<installed, repos, archived, suspended, scheduled, fanout, cronTasks>>
        /\ pending' = pending \ {t} /\ pending # {} /\ unsteady' = unsteady \cup {t.of}
    BY <1>4 DEF EnqueueFails, listVars
  <2>2. CronTyped' /\ CronWays'
    BY <2>1 DEF CronTyped, CronWays, AllInstallations
  <2>3. \A r : Enqueueing("repository", r) => Enqueueing("repository", r)' \/ r \in unsteady'
    BY <2>1 DEF Enqueueing
  <2>4. \A kind \in {"global", "installation"} : \A of : Task(kind, of, 0) # t
    BY <1>4 DEF Task
  <2>5. CronInv'
    BY <1>2, <2>1, <2>3, <2>4, CronInvKept DEF RepoCovered
  <2>6. QED
    BY <2>2, <2>5
<1>5. ASSUME NEW t \in pending, EnqueueFails(t), t.kind # "repository"
      PROVE  CronTyped' /\ CronWays' /\ CronInv'
  <2>1. UNCHANGED <<installed, repos, archived, suspended, scheduled>> /\ fanout' = [fanout EXCEPT !.at = "failed"]
    BY <1>5 DEF EnqueueFails, listVars
  <2>2. fanout' \in Fanouts /\ fanout'.at = "failed"
    BY <1>1, <2>1 DEF Fanouts
  <2>3. QED
    BY <2>1, <2>2 DEF CronTyped, CronWays, CronInv
<1>6. ASSUME NEW r \in Repository, ArchiveRepo(r)
      PROVE  CronTyped' /\ CronWays' /\ CronInv'
  <2>1. /\ UNCHANGED <<installed, repos, suspended, scheduled, fanout, pending, cronTasks>>
        /\ archived' = archived \cup {r} /\ unsteady' = unsteady \cup {r}
    BY <1>6 DEF ArchiveRepo
  <2>2. CronTyped' /\ CronWays'
    BY <2>1 DEF CronTyped, CronWays, AllInstallations
  <2>3. \A q : Enqueueing("repository", q) => Enqueueing("repository", q)'
    BY <2>1 DEF Enqueueing
  <2>4. CronInv'
    BY <1>2, <2>1, <2>3, CronInvKept DEF RepoCovered
  <2>5. QED
    BY <2>2, <2>4
<1>7. ASSUME NEW i \in Installation, NEW r \in Repository, UninstallRepo(i, r)
      PROVE  CronTyped' /\ CronWays' /\ CronInv'
  <2> DEFINE first == (fanout.repos.next - 1) * CronPage + 1
  <2>1. UNCHANGED <<installed, archived, suspended, scheduled, fanout, pending, cronTasks>>
    BY <1>7 DEF UninstallRepo
  <2>0. PICK list \in Seq(Repository) : list = repos[i]
    BY <1>1
  <2>2. PICK k \in 1 .. Len(list) :
          /\ list[k] = r /\ repos' = [repos EXCEPT ![i] = RemoveAt(list, k)]
          /\ unsteady' = unsteady \cup {r} \cup
               (IF fanout.at = "repos" /\ fanout.installation = i /\ fanout.repos.next > 1 /\ k < first /\ first <= Len(list)
                THEN {list[first]} ELSE {})
    BY <1>7, <2>0 DEF UninstallRepo
  <2>3. RemoveAt(list, k) \in Seq(Repository) /\ ToSet(RemoveAt(list, k)) \subseteq ToSet(list)
    BY RemovalTyped
  <2>4. CronTyped' /\ CronWays'
    BY <1>1, <2>0, <2>1, <2>2, <2>3 DEF CronTyped, CronWays, AllInstallations
  <2>5. \A j \in Installation : ToSet(repos'[j]) \subseteq ToSet(repos[j])
    BY <1>1, <2>0, <2>2, <2>3
  <2>6. ASSUME NEW j \in Installation, NEW q, RepoAhead(j, q)
        PROVE  RepoAhead(j, q)' \/ q \in unsteady'
    <3>1. fanout.at = "repos" /\ fanout.installation = j /\ ToCome(fanout.repos, repos[j], q)
      BY <2>6 DEF RepoAhead
    <3>2. CASE j # i
      <4>1. repos'[j] = repos[j]
        BY <1>1, <2>2, <3>2
      <4>2. QED
        BY <2>1, <3>1, <4>1 DEF RepoAhead, ToCome
    <3>3. CASE j = i
      <4>1. SUFFICES ASSUME q \notin unsteady' PROVE RepoAhead(j, q)'
        OBVIOUS
      <4>2. q # list[k] /\ ((fanout.repos.next > 1 /\ k < first /\ first <= Len(list)) => q # list[first])
        BY <2>2, <3>1, <3>3, <4>1
      <4>3. ToCome(fanout.repos, RemoveAt(list, k), q)
        BY <1>1, <2>0, <3>1, <3>3, <4>2, RemovalKeepsAhead
      <4>4. repos'[j] = RemoveAt(list, k)
        BY <1>1, <2>2, <3>3
      <4>5. QED
        BY <2>1, <3>1, <4>3, <4>4 DEF RepoAhead, ToCome
    <3>4. QED
      BY <3>2, <3>3
  <2>7. \A q : Enqueueing("repository", q) => Enqueueing("repository", q)'
    BY <2>1 DEF Enqueueing
  <2>8. CronInv'
    BY <1>2, <2>1, <2>2, <2>5, <2>6, <2>7, CronInvKept DEF RepoCovered
  <2>9. QED
    BY <2>4, <2>8
<1>8. QED
  BY <1>3, <1>4, <1>5, <1>6, <1>7

\* Every step keeps what was reached.
LEMMA CronStepKeeps ==
  ASSUME CronTyped, CronWays, CronInv, [CronNext]_cronVars
  PROVE  CronTyped' /\ CronWays' /\ CronInv'
<1>1. CASE UNCHANGED cronVars
  BY <1>1 DEF cronVars, listVars, CronTyped, CronWays, CronInv, InstallationsMeant, AllInstallations, RepoCovered,
              Enqueueing, InstallationAhead, RepoAhead, ToCome
<1>2. CASE CronNext
  BY <1>2, HandleScheduledKeeps, HandlerKeepsCron, OthersKeepCron DEF CronNext, CronStep
<1>3. QED
  BY <1>1, <1>2

(* A cron answered 200 has a task for the bot, for each of its installations, or for each *)
(* repository it is for, whatever the number of installations and repositories, of        *)
(* entries on a page and of calls in a batch: but for those whose task could not be       *)
(* created, or that an edit of the installation moved to a page already read.             *)
THEOREM CronReachesAll ==
  ASSUME NEW CONSTANT bodies \in SUBSET CronBodies,
         NEW CONSTANT lists \in SUBSET [Installation -> Seq(Repository)]
  PROVE  CronSpec(bodies, lists) => []EveryRepositoryIsRun
<1>1. CronInit(bodies, lists) => CronTyped /\ CronWays /\ CronInv
  BY CronInitHolds
<1>2. CronTyped /\ CronWays /\ CronInv /\ [CronNext]_cronVars => (CronTyped /\ CronWays /\ CronInv)'
  BY CronStepKeeps
<1>3. CronTyped /\ CronWays /\ CronInv => EveryRepositoryIsRun
  <2>1. SUFFICES ASSUME CronTyped, CronWays, CronInv, fanout.at = "answered" PROVE EveryRepositoryIsRun
    BY DEF EveryRepositoryIsRun
  <2>2. pending = {} /\ pending \cup cronTasks = cronTasks
    BY <2>1 DEF CronWays
  <2>3. \A i, r : ~InstallationAhead(i) /\ ~RepoAhead(i, r)
    BY <2>1 DEF InstallationAhead, RepoAhead
  <2>4. ASSUME scheduled.type = "repository", NEW r \in ReposMeant \ unsteady
        PROVE  \E t \in cronTasks : t.kind = "repository" /\ t.of = r
    <3>1. CASE scheduled.repo # NoTarget
      BY <2>1, <2>2, <2>4, <3>1 DEF CronInv, ReposMeant, Enqueueing
    <3>2. CASE scheduled.repo = NoTarget
      <4>1. PICK i \in InstallationsMeant : r \in ToSet(repos[i]) /\ r \notin archived
        BY <2>4, <3>2 DEF ReposMeant
      <4>2. RepoCovered(i, r)
        BY <2>1, <2>4, <3>2, <4>1 DEF CronInv
      <4>3. QED
        BY <2>2, <2>3, <2>4, <4>1, <4>2 DEF RepoCovered, Enqueueing
    <3>3. QED
      BY <3>1, <3>2
  <2>5. QED
    BY <2>1, <2>2, <2>3, <2>4 DEF CronInv, EveryRepositoryIsRun
<1>4. QED
  BY <1>1, <1>2, <1>3, PTL DEF CronSpec

----------------------------------------------------------------------------
(* A pull request and its events.                                           *)

EventKind == {"opened", "synchronize", "labeled", "unlabeled", "closed", "reopened", "ready_for_review", "edited", "comment"}
EventOf == [kind : EventKind, act : Nat, head : Nat, labels : SUBSET PullLabel, open : BOOLEAN, draft : BOOLEAN,
            label : PullLabel \cup {"none"}, tries : Nat]
PullRequestOf  == [head : Nat, content : Content, labels : SUBSET PullLabel, open : BOOLEAN, draft : BOOLEAN]
\* A handler at one of some places, with what it has read and found.
VisitOf(places, reads, finds) == [at : places, event : EventOf, read : reads, bad : finds]

EventsTyped(places, reads, finds) ==
  /\ pull \in PullRequestOf /\ acts \in Nat
  /\ events \subseteq EventOf
  /\ visit \in [Visitor -> VisitOf(places, reads, finds) \cup {Free}]

\* What an act of people does to the pull request and whom it tells.
Acted(e) ==
  /\ e \in EventOf /\ events' = events \cup {e}
  /\ pull' \in PullRequestOf /\ acts' \in Nat
  /\ UNCHANGED <<visit, overlapped, missed>> /\ hurried' = (hurried \/ ~Quiet)
  /\ e.head = pull'.head /\ e.labels = pull'.labels /\ e.open = pull'.open /\ e.draft = pull'.draft
  /\ e.kind = "synchronize" =>
       /\ pull.open /\ pull'.head = pull.head + 1 /\ checks' = NoChecks
       /\ pull'.labels = pull.labels /\ pull'.open = pull.open /\ pull'.draft = pull.draft
  /\ e.kind # "synchronize" => pull'.head = pull.head /\ pull'.content = pull.content /\ checks' = checks
  /\ e.kind \notin {"labeled", "unlabeled"} => pull'.labels = pull.labels
  /\ e.kind \notin {"closed", "reopened"} => pull'.open = pull.open
  /\ e.kind = "closed" => ~pull'.open
  /\ e.kind # "ready_for_review" => pull'.draft = pull.draft

\* The payload of an act is an event.
LEMMA PayloadTyped ==
  ASSUME NEW kind \in EventKind, NEW p \in PullRequestOf, NEW label \in PullLabel \cup {"none"}, acts' \in Nat
  PROVE  LET e == Payload(kind, p, label)
         IN /\ e \in EventOf /\ e.kind = kind /\ e.head = p.head /\ e.labels = p.labels
            /\ e.open = p.open /\ e.draft = p.draft
BY DEF Payload, EventOf, PullRequestOf

\* Each act of people is one of these.
LEMMA PeopleAreActing ==
  ASSUME pull \in PullRequestOf, acts \in Nat, PeopleAct \/ (Act("comment", pull, "none") /\ UNCHANGED checks)
  PROVE  \E e : Acted(e)
<1>1. PICK p \in PullRequestOf : p = pull
  OBVIOUS
<1>2. ASSUME NEW kind \in EventKind, NEW q \in PullRequestOf, NEW label \in PullLabel \cup {"none"}, Act(kind, q, label)
      PROVE  \E e \in EventOf : /\ events' = events \cup {e} /\ pull' = q /\ acts' \in Nat
                                /\ UNCHANGED <<visit, overlapped, missed>> /\ hurried' = (hurried \/ ~Quiet)
                                /\ e.kind = kind /\ e.head = q.head /\ e.labels = q.labels /\ e.open = q.open /\ e.draft = q.draft
  <2>1. acts' \in Nat
    BY <1>2 DEF Act
  <2>2. PICK e : e = Payload(kind, q, label)
    OBVIOUS
  <2>3. e \in EventOf /\ e.kind = kind /\ e.head = q.head /\ e.labels = q.labels /\ e.open = q.open /\ e.draft = q.draft
    BY <2>1, <2>2, PayloadTyped
  <2>4. events' = events \cup {e}
    BY <1>2, <2>2 DEF Act
  <2>5. pull' = q /\ UNCHANGED <<visit, overlapped, missed>>
    BY <1>2 DEF Act
  <2>6. hurried' = (hurried \/ ~Quiet)
    BY <1>2 DEF Act
  <2>7. QED
    BY <2>1, <2>3, <2>4, <2>5, <2>6
<1>3. PICK no, yes \in BOOLEAN : no = FALSE /\ yes = TRUE
  OBVIOUS
<1>4. ASSUME NEW c \in Content, Push(c) PROVE \E e : Acted(e)
  <2>0. PICK n \in Nat : n = p.head + 1
    BY DEF PullRequestOf
  <2>1. PICK q : q = [p EXCEPT !.head = n, !.content = c]
    OBVIOUS
  <2>2. q \in PullRequestOf /\ q.head = n /\ q.labels = p.labels /\ q.open = p.open /\ q.draft = p.draft
    BY <2>1 DEF PullRequestOf
  <2>3. Act("synchronize", q, "none") /\ pull.open /\ checks' = NoChecks
    BY <1>1, <1>4, <2>0, <2>1 DEF Push
  <2>4. PICK e \in EventOf :
          /\ events' = events \cup {e} /\ pull' = q /\ acts' \in Nat
          /\ UNCHANGED <<visit, overlapped, missed>> /\ hurried' = (hurried \/ ~Quiet)
          /\ e.kind = "synchronize" /\ e.head = q.head /\ e.labels = q.labels /\ e.open = q.open /\ e.draft = q.draft
    BY <1>2, <2>2, <2>3 DEF EventKind
  <2>5. QED
    BY <1>1, <2>0, <2>2, <2>3, <2>4 DEF Acted
<1>5. ASSUME NEW l \in PullLabel, AddLabel(l) \/ DropLabel(l) PROVE \E e : Acted(e)
  <2>1. PICK ls \in SUBSET PullLabel, kind \in {"labeled", "unlabeled"} :
          (\A q : q = [p EXCEPT !.labels = ls] => Act(kind, q, l)) /\ UNCHANGED checks
    <3>1. p.labels \cup {l} \in SUBSET PullLabel /\ p.labels \ {l} \in SUBSET PullLabel
      BY DEF PullRequestOf
    <3>2. QED
      BY <1>1, <1>5, <3>1 DEF AddLabel, DropLabel
  <2>2. PICK q : q = [p EXCEPT !.labels = ls]
    OBVIOUS
  <2>3. q \in PullRequestOf /\ q.head = p.head /\ q.content = p.content /\ q.open = p.open /\ q.draft = p.draft
    BY <2>2 DEF PullRequestOf
  <2>4. Act(kind, q, l) /\ kind \in EventKind /\ l \in PullLabel \cup {"none"}
    BY <2>1, <2>2 DEF EventKind
  <2>5. PICK e \in EventOf :
          /\ events' = events \cup {e} /\ pull' = q /\ acts' \in Nat
          /\ UNCHANGED <<visit, overlapped, missed>> /\ hurried' = (hurried \/ ~Quiet)
          /\ e.kind = kind /\ e.head = q.head /\ e.labels = q.labels /\ e.open = q.open /\ e.draft = q.draft
    BY <1>2, <2>3, <2>4
  <2>6. QED
    BY <1>1, <2>1, <2>3, <2>5 DEF Acted
<1>6. ASSUME ClosePull \/ ReopenPull PROVE \E e : Acted(e)
  <2>1. PICK b \in BOOLEAN, kind \in {"closed", "reopened"} :
          (\A q : q = [p EXCEPT !.open = b] => Act(kind, q, "none")) /\ UNCHANGED checks /\ (kind = "closed" => ~b)
    BY <1>1, <1>3, <1>6 DEF ClosePull, ReopenPull
  <2>2. PICK q : q = [p EXCEPT !.open = b]
    OBVIOUS
  <2>3. q \in PullRequestOf /\ q.head = p.head /\ q.content = p.content /\ q.labels = p.labels /\ q.draft = p.draft /\ q.open = b
    BY <2>2 DEF PullRequestOf
  <2>4. Act(kind, q, "none") /\ kind \in EventKind /\ "none" \in PullLabel \cup {"none"}
    BY <2>1, <2>2 DEF EventKind
  <2>5. PICK e \in EventOf :
          /\ events' = events \cup {e} /\ pull' = q /\ acts' \in Nat
          /\ UNCHANGED <<visit, overlapped, missed>> /\ hurried' = (hurried \/ ~Quiet)
          /\ e.kind = kind /\ e.head = q.head /\ e.labels = q.labels /\ e.open = q.open /\ e.draft = q.draft
    BY <1>2, <2>3, <2>4
  <2>6. QED
    BY <1>1, <2>1, <2>3, <2>5 DEF Acted
<1>7. ASSUME MarkReady PROVE \E e : Acted(e)
  <2>1. (\A q : q = [p EXCEPT !.draft = no] => Act("ready_for_review", q, "none")) /\ UNCHANGED checks
    BY <1>1, <1>3, <1>7 DEF MarkReady
  <2>2. PICK q : q = [p EXCEPT !.draft = no]
    OBVIOUS
  <2>3. q \in PullRequestOf /\ q.head = p.head /\ q.content = p.content /\ q.labels = p.labels /\ q.open = p.open
    BY <2>2 DEF PullRequestOf
  <2>4. PICK e \in EventOf :
          /\ events' = events \cup {e} /\ pull' = q /\ acts' \in Nat
          /\ UNCHANGED <<visit, overlapped, missed>> /\ hurried' = (hurried \/ ~Quiet)
          /\ e.kind = "ready_for_review" /\ e.head = q.head /\ e.labels = q.labels /\ e.open = q.open /\ e.draft = q.draft
    BY <1>2, <2>1, <2>2, <2>3 DEF EventKind
  <2>5. QED
    BY <1>1, <2>1, <2>3, <2>4 DEF Acted
<1>8. ASSUME NEW kind \in {"edited", "comment"}, Act(kind, pull, "none"), UNCHANGED checks PROVE \E e : Acted(e)
  <2>1. PICK e \in EventOf :
          /\ events' = events \cup {e} /\ pull' = p /\ acts' \in Nat
          /\ UNCHANGED <<visit, overlapped, missed>> /\ hurried' = (hurried \/ ~Quiet)
          /\ e.kind = kind /\ e.head = p.head /\ e.labels = p.labels /\ e.open = p.open /\ e.draft = p.draft
    BY <1>1, <1>2, <1>8 DEF EventKind
  <2>2. QED
    BY <1>1, <1>8, <2>1 DEF Acted
<1>9. QED
  BY <1>4, <1>5, <1>6, <1>7, <1>8 DEF PeopleAct, EditPull

\* A handler that is at work is somewhere.
LEMMA AtWork ==
  ASSUME NEW places, NEW reads, NEW finds, EventsTyped(places, reads, finds), "free" \notin places, NEW v \in Visitor
  PROVE  /\ visit[v] # Free => visit[v] \in VisitOf(places, reads, finds) /\ visit[v].event \in EventOf
         /\ \A x \in VisitOf(places, reads, finds) : x # Free
BY DEF EventsTyped, VisitOf, Free

\* A task that is tried again is the same.
SameEvent(e, f) == /\ e.kind = f.kind /\ e.head = f.head /\ e.labels = f.labels /\ e.open = f.open /\ e.draft = f.draft

\* A handler throws: it is tried again, or missed.
LEMMA TriedAgain ==
  ASSUME NEW places, NEW reads, NEW finds, EventsTyped(places, reads, finds), "free" \notin places,
         NEW v \in Visitor, visit[v] # Free, TryAgain(v)
  PROVE  /\ visit' = [visit EXCEPT ![v] = Free]
         /\ \/ missed' /\ UNCHANGED events
            \/ UNCHANGED missed /\ \E e \in EventOf : SameEvent(e, visit[v].event) /\ events' = events \cup {e}
<1>1. visit' = [visit EXCEPT ![v] = Free]
  BY DEF TryAgain, Leave, Visits
<1>2. PICK f \in EventOf : f = visit[v].event
  BY AtWork
<1>3. CASE f.tries < MaxVisitTries
  <2>1. PICK n \in Nat : n = f.tries + 1
    BY DEF EventOf
  <2>2. PICK e : e = [f EXCEPT !.tries = n]
    OBVIOUS
  <2>3. e \in EventOf /\ SameEvent(e, f)
    BY <2>2 DEF EventOf, SameEvent
  <2>4. events' = events \cup {e} /\ UNCHANGED missed
    BY <1>2, <1>3, <2>1, <2>2 DEF TryAgain
  <2>5. QED
    BY <1>1, <1>2, <2>3, <2>4
<1>4. CASE ~(f.tries < MaxVisitTries)
  <2>1. missed' = TRUE /\ UNCHANGED events
    BY <1>2, <1>4, Zenon DEF TryAgain
  <2>2. missed'
    BY <2>1, Zenon
  <2>3. QED
    BY <1>1, <2>1, <2>2
<1>5. QED
  BY <1>3, <1>4

\* A call fails: the handler throws or has it only logged.
LEMMA VisitFailed ==
  ASSUME NEW places, NEW reads, NEW finds, EventsTyped(places, reads, finds), "free" \notin places,
         NEW v \in Visitor, NEW heeded, VisitFails(v, heeded)
  PROVE  /\ visit[v] # Free /\ visit' = [visit EXCEPT ![v] = Free] /\ UNCHANGED <<pull, checks, acts, hurried, overlapped>>
         /\ \/ missed' /\ UNCHANGED events
            \/ UNCHANGED missed /\ \E e \in EventOf : SameEvent(e, visit[v].event) /\ events' = events \cup {e}
<1>1. visit[v] # Free /\ UNCHANGED <<pull, checks, acts, hurried, overlapped>> /\ (TryAgain(v) \/ Swallow(v))
  BY DEF VisitFails
<1>2. CASE TryAgain(v)
  BY <1>1, <1>2, TriedAgain
<1>3. CASE Swallow(v)
  <2>1. visit' = [visit EXCEPT ![v] = Free] /\ UNCHANGED events
    BY <1>3 DEF Swallow, Leave, Visits
  <2>2. missed'
    BY <1>3, Zenon DEF Swallow
  <2>3. QED
    BY <1>1, <2>1, <2>2
<1>4. QED
  BY <1>1, <1>2, <1>3

\* What is posted.
LEMMA PostedChecks ==
  ASSUME NEW e, NEW found, checks \in [CheckName -> Conclusion], NEW name \in CheckName, NEW c \in Conclusion,
         found = {<<name, c>>} \/ found = {}, Posted(e, found)
  PROVE  /\ checks' \in [CheckName -> Conclusion]
         /\ \A n \in CheckName \ {name} : checks'[n] = checks[n]
         /\ checks'[name] = IF e.head = pull.head /\ found # {} THEN c ELSE checks[name]
<1>1. CASE e.head # pull.head
  BY <1>1 DEF Posted
<1>2. CASE e.head = pull.head /\ found = {}
  <2>1. checks' = [n \in CheckName |-> checks[n]]
    BY <1>2 DEF Posted
  <2>2. QED
    BY <1>2, <2>1
<1>3. CASE e.head = pull.head /\ found = {<<name, c>>}
  <2>1. \A n \in CheckName : (\E r \in found : r[1] = n) <=> n = name
    BY <1>3
  <2>2. (CHOOSE r \in found : r[1] = name) = <<name, c>>
    BY <1>3
  <2>3. checks' = [n \in CheckName |-> IF n = name THEN c ELSE checks[n]]
    BY <1>3, <2>1, <2>2 DEF Posted
  <2>4. QED
    BY <1>3, <2>3
<1>4. QED
  BY <1>1, <1>2, <1>3

\* What is posted, for several checks.
Results(names, f) == {<<n, f[n]>> : n \in names}

\* What is posted is what was found for each name.
LEMMA PostedResults ==
  ASSUME NEW e, NEW names \in SUBSET CheckName, NEW f \in [names -> Conclusion],
         checks \in [CheckName -> Conclusion], Posted(e, Results(names, f))
  PROVE  /\ checks' \in [CheckName -> Conclusion]
         /\ \A n \in CheckName : checks'[n] = IF e.head = pull.head /\ n \in names THEN f[n] ELSE checks[n]
<1>1. CASE e.head # pull.head
  BY <1>1 DEF Posted
<1>2. CASE e.head = pull.head
  <2>1. PICK found : found = Results(names, f) /\ found = {<<n, f[n]>> : n \in names}
    BY DEF Results
  <2>2. \A r \in found : r[1] \in names /\ r[2] = f[r[1]]
    <3>1. \A m, y : <<m, y>>[1] = m /\ <<m, y>>[2] = y
      OBVIOUS
    <3>2. ASSUME NEW r \in found PROVE r[1] \in names /\ r[2] = f[r[1]]
      <4>1. PICK m \in names : r = <<m, f[m]>>
        BY <2>1
      <4>2. QED
        BY <3>1, <4>1
    <3>3. QED
      BY <3>2
  <2>3. \A m \in names : \E r \in found : r[1] = m
    <3>1. \A m, y : <<m, y>>[1] = m
      OBVIOUS
    <3>2. \A m \in names : <<m, f[m]>> \in found
      BY <2>1
    <3>3. QED
      BY <3>1, <3>2, Zenon
  <2>4. checks' = [n \in CheckName |-> IF \E r \in found : r[1] = n
                                       THEN (CHOOSE r \in found : r[1] = n)[2] ELSE checks[n]]
    BY <1>2, <2>1 DEF Posted
  <2>5. \A n \in CheckName : checks'[n] = IF n \in names THEN f[n] ELSE checks[n]
    <3>1. SUFFICES ASSUME NEW n \in CheckName PROVE checks'[n] = IF n \in names THEN f[n] ELSE checks[n]
      OBVIOUS
    <3>2. CASE n \in names
      <4>1. \E r \in found : r[1] = n
        BY <2>3, <3>2
      <4>2. PICK r : r = CHOOSE x \in found : x[1] = n
        OBVIOUS
      <4>3. r \in found /\ r[1] = n
        BY <4>1, <4>2, Zenon
      <4>4. checks'[n] = r[2]
        BY <2>4, <4>1, <4>2
      <4>5. QED
        BY <2>2, <3>2, <4>3, <4>4
    <3>3. CASE n \notin names
      BY <2>2, <2>4, <3>3
    <3>4. QED
      BY <3>2, <3>3
  <2>6. checks' = [n \in CheckName |-> checks'[n]]
    BY <2>4
  <2>7. \A n \in CheckName : checks'[n] \in Conclusion
    BY <2>5
  <2>8. QED
    BY <1>2, <2>5, <2>6, <2>7
<1>3. QED
  BY <1>1, <1>2

----------------------------------------------------------------------------
(* snippet-bot: the comment.                                                *)

SnippetPlaces == {"check", "config", "get", "unlabel", "diff", "file", "list", "create", "update", "post"}
AfterDiff     == {"file", "list", "create", "update", "post"}
SnippetVisit  == VisitOf(SnippetPlaces, Content \cup {{}}, SUBSET {"mismatch", "prefix", "removal", "format"})
\* Only some events bring a handler to a place.
InPlace(x) ==
  /\ x.event.kind \in Scanned \cup {"labeled", "comment"}
  /\ x.at = "get" => x.event.kind = "comment"
  /\ x.at = "unlabel" => x.event.kind = "labeled"
SnippetTyped ==
  /\ EventsTyped(SnippetPlaces, Content \cup {{}}, SUBSET {"mismatch", "prefix", "removal", "format"})
  /\ comments \in Seq(Content \cup {{}}) /\ buried \in BOOLEAN
  /\ \A v \in Visitor : visit[v] # Free => InPlace(visit[v])

\* An event that will have the pull request scanned, and a handler that is about to.
Scans(e) == e.kind \in Scanned /\ e.open /\ ~e.draft
ScanIsDue == \E e \in events : Scans(e)
Scanning(x) ==
  /\ x # Free /\ Scans(x.event)
  /\ \/ x.at \in {"check", "config", "diff"}
     \/ x.at \in {"file", "list", "create", "update"} /\ x.read = pull.content
CommentDue == pull.open /\ ~pull.draft /\ ~missed /\ SnippetFound \notin {"none", "error"} /\ HasChanges(pull.content)

\* What a handler may do to the comment on what it has read ...
ReadsHead(x) ==
  x.at \in AfterDiff => (x.read = pull.content \/ (pull.open /\ ~pull.draft => ScanIsDue))
FindsComment(x) ==
  (x.at = "create" => comments = <<>> \/ buried) /\ (x.at = "update" => comments # <<>> /\ ~buried)
\* ... how many there are, whether the latest one is as it should be ...
FewComments == ~buried => Len(comments) <= 1
LatestTells == comments # <<>> /\ Last(comments) = pull.content
\* ... or else somebody is to see to it.
CommentInv ==
  ~overlapped =>
    /\ \A v, w \in Visitor : visit[v] # Free /\ visit[w] # Free => v = w
    /\ FewComments
    /\ \A v \in Visitor : visit[v] # Free => ReadsHead(visit[v]) /\ FindsComment(visit[v])
    /\ CommentDue => LatestTells \/ ScanIsDue \/ \E v \in Visitor : Scanning(visit[v])

SnippetInv == SnippetTyped /\ CommentInv

\* The last of a sequence that ends with c, or is of c alone.
LEMMA AppendedLast ==
  ASSUME NEW s \in Seq(Content \cup {{}}), NEW c \in Content \cup {{}}
  PROVE  Append(s, c) # <<>> /\ Last(Append(s, c)) = c
<1>1. /\ Append(s, c) \in Seq(Content \cup {{}}) /\ Len(Append(s, c)) = Len(s) + 1 /\ Len(s) \in Nat
      /\ Append(s, c)[Len(s) + 1] = c
  OBVIOUS
<1>2. Last(Append(s, c)) = Append(s, c)[Len(s) + 1]
  BY <1>1 DEF Last
<1>3. QED
  BY <1>1, <1>2

\* That of a sequence of one.
LEMMA OneLast ==
  \A c : <<c>> # <<>> /\ Last(<<c>>) = c /\ Len(<<c>>) <= 1
BY DEF Last

\* Those that stay as they are tell what they told.
LEMMA CommentsKept ==
  ASSUME UNCHANGED <<comments, buried>>
  PROVE  /\ FewComments' <=> FewComments
         /\ pull'.content = pull.content => (LatestTells' <=> LatestTells)
         /\ \A x : FindsComment(x)' <=> FindsComment(x)
BY DEF FewComments, LatestTells, FindsComment

\* A handler goes on, ends or fails.
LEMMA ScanMoves ==
  ASSUME SnippetInv, NEW v \in Visitor, visit[v] # Free, NEW x \in SnippetVisit \cup {Free},
         visit' = [visit EXCEPT ![v] = x],
         pull' \in PullRequestOf, pull'.content = pull.content, pull'.open = pull.open, pull'.draft = pull.draft,
         events' \subseteq EventOf, events \subseteq events', acts' \in Nat, UNCHANGED <<overlapped, snippetConfig, buried>>, missed => missed',
         comments' \in Seq(Content \cup {{}}),
         x # Free => InPlace(x),
         ~overlapped =>
           /\ FewComments'
           /\ x # Free => /\ (x.at = "create" => comments' = <<>> \/ buried) /\ (x.at = "update" => comments' # <<>> /\ ~buried)
                          /\ x.at \in AfterDiff => x.read = pull.content \/ (visit[v].at \in AfterDiff /\ x.read = visit[v].read)
           /\ CommentDue' =>
                /\ LatestTells => LatestTells' \/ ScanIsDue'
                /\ Scanning(visit[v]) => LatestTells' \/ ScanIsDue' \/ Scanning(x)
  PROVE  SnippetInv'
<1>1. /\ EventsTyped(SnippetPlaces, Content \cup {{}}, SUBSET {"mismatch", "prefix", "removal", "format"})
      /\ SnippetTyped /\ CommentInv
  BY DEF SnippetInv, SnippetTyped
<1>2. /\ visit \in [Visitor -> SnippetVisit \cup {Free}] /\ visit' \in [Visitor -> SnippetVisit \cup {Free}]
      /\ visit'[v] = x /\ \A w \in Visitor \ {v} : visit'[w] = visit[w]
  BY <1>1 DEF EventsTyped, SnippetVisit
<1>3. SnippetTyped'
  <2>1. EventsTyped(SnippetPlaces, Content \cup {{}}, SUBSET {"mismatch", "prefix", "removal", "format"})'
    BY <1>1, <1>2 DEF EventsTyped, SnippetVisit
  <2>2. ASSUME NEW w \in Visitor, visit'[w] # Free PROVE InPlace(visit'[w])
    BY <1>1, <1>2, <2>2 DEF SnippetTyped
  <2>3. QED
    BY <1>1, <2>1, <2>2 DEF SnippetTyped, InPlace
<1>4. ScanIsDue => ScanIsDue'
  BY DEF ScanIsDue
<1>5. SUFFICES ASSUME ~overlapped' PROVE CommentInv'
  BY <1>3 DEF SnippetInv, CommentInv
<1>6. ~overlapped /\ (\A w \in Visitor : visit[w] # Free => w = v) /\ \A w \in Visitor \ {v} : visit'[w] = Free
  BY <1>1, <1>2, <1>5 DEF CommentInv
<1>7. \A w, u \in Visitor : visit'[w] # Free /\ visit'[u] # Free => w = u
  BY <1>6
<1>8. ASSUME x # Free PROVE ReadsHead(x)' /\ FindsComment(x)'
  <2>1. ReadsHead(visit[v])
    BY <1>1, <1>6 DEF CommentInv
  <2>2. QED
    BY <1>4, <1>6, <1>8, <2>1 DEF ReadsHead, FindsComment
<1>9. \A w \in Visitor : visit'[w] # Free => ReadsHead(visit[w])' /\ FindsComment(visit[w])'
  BY <1>2, <1>6, <1>8 DEF ReadsHead, FindsComment
<1>10. ASSUME CommentDue' PROVE LatestTells' \/ ScanIsDue' \/ Scanning(x)
  <2>1. CommentDue
    BY <1>10 DEF CommentDue, SnippetFound
  <2>2. LatestTells \/ ScanIsDue \/ Scanning(visit[v])
    <3>1. \A w \in Visitor : Scanning(visit[w]) => w = v
      BY <1>6 DEF Scanning
    <3>2. QED
      BY <1>1, <1>6, <2>1, <3>1 DEF CommentInv
  <2>3. QED
    BY <1>4, <1>6, <1>10, <2>2
<1>11. Scanning(x) => \E w \in Visitor : Scanning(visit[w])'
  BY <1>2 DEF Scanning
<1>12. QED
  BY <1>5, <1>6, <1>7, <1>9, <1>10, <1>11 DEF CommentInv

\* A handler goes to another place.
LEMMA PlaceTyped ==
  ASSUME NEW places, NEW reads, NEW finds, NEW y \in VisitOf(places, reads, finds), NEW a \in places
  PROVE  LET x == [y EXCEPT !.at = a]
         IN x \in VisitOf(places, reads, finds) /\ x.at = a /\ x.event = y.event /\ x.read = y.read /\ x.bad = y.bad
BY DEF VisitOf

\* An event is taken, or left.
LEMMA SnippetTakesKeeps ==
  ASSUME SnippetInv, NEW v \in Visitor, NEW e \in events, SnippetTakes(v, e)
  PROVE  SnippetInv'
<1>1. /\ EventsTyped(SnippetPlaces, Content \cup {{}}, SUBSET {"mismatch", "prefix", "removal", "format"})
      /\ SnippetTyped /\ CommentInv /\ visit[v] = Free /\ e \in EventOf
  BY DEF SnippetInv, SnippetTyped, EventsTyped, SnippetTakes, TakeEvent, IgnoreEvent
<1>2. UNCHANGED <<pull, acts, missed, comments, snippetConfig, buried>> /\ events' = events \ {e}
  BY DEF SnippetTakes, TakeEvent, IgnoreEvent
<1>3. CommentDue' => CommentDue
  BY <1>2 DEF CommentDue, SnippetFound
<1>4. CASE (TakeEvent(v, e, "check") /\ Scans(e)) \/ (TakeEvent(v, e, "config") /\ e.kind \in {"labeled", "comment"})
  <2>1. PICK a \in {"check", "config"} :
          TakeEvent(v, e, a) /\ (a = "check" => Scans(e)) /\ (a = "config" => e.kind \in {"labeled", "comment"})
    BY <1>4
  <2>2. PICK none \in SUBSET {"mismatch", "prefix", "removal", "format"} : none = {}
    OBVIOUS
  <2>3. PICK x : x = [at |-> a, event |-> e, read |-> {}, bad |-> none]
    OBVIOUS
  <2>4. x \in SnippetVisit /\ x.at = a /\ x.event = e
    BY <1>1, <2>3 DEF SnippetVisit, VisitOf, SnippetPlaces
  <2>5. visit' = [visit EXCEPT ![v] = x]
    BY <2>1, <2>2, <2>3 DEF TakeEvent, Visits
  <2>6. /\ visit \in [Visitor -> SnippetVisit \cup {Free}] /\ visit' \in [Visitor -> SnippetVisit \cup {Free}]
        /\ visit'[v] = x /\ \A w \in Visitor \ {v} : visit'[w] = visit[w]
    BY <1>1, <2>4, <2>5 DEF EventsTyped, SnippetVisit
  <2>7. SnippetTyped'
    <3>1. EventsTyped(SnippetPlaces, Content \cup {{}}, SUBSET {"mismatch", "prefix", "removal", "format"})'
      BY <1>1, <1>2, <2>6 DEF EventsTyped, SnippetVisit
    <3>2. InPlace(x)
      BY <2>1, <2>4 DEF InPlace, Scans
    <3>3. ASSUME NEW w \in Visitor, visit'[w] # Free PROVE InPlace(visit'[w])
      BY <1>1, <2>6, <3>2, <3>3 DEF SnippetTyped
    <3>4. QED
      BY <1>1, <1>2, <3>1, <3>3 DEF SnippetTyped, InPlace
  <2>8. ASSUME ~overlapped' PROVE ~overlapped /\ \A w \in Visitor : visit[w] = Free
    BY <2>1, <2>8 DEF TakeEvent
  <2>9. ASSUME ~overlapped', CommentDue'
        PROVE  LatestTells' \/ ScanIsDue' \/ \E w \in Visitor : Scanning(visit[w])'
    <3>1. LatestTells \/ ScanIsDue
      BY <1>1, <1>3, <2>8, <2>9 DEF CommentInv, Scanning
    <3>2. CASE LatestTells
      BY <1>2, <3>2, CommentsKept
    <3>3. CASE ScanIsDue
      <4>1. PICK f \in events : Scans(f)
        BY <3>3 DEF ScanIsDue
      <4>2. CASE f # e
        BY <1>2, <4>1, <4>2 DEF ScanIsDue
      <4>3. CASE f = e
        <5>1. x # Free
          BY <1>1, <2>4, AtWork DEF SnippetVisit, SnippetPlaces
        <5>2. Scanning(x)'
          BY <2>1, <2>4, <4>1, <4>3, <5>1 DEF Scanning, Scans, Scanned
        <5>3. Scanning(visit[v])'
          BY <2>6, <5>2 DEF Scanning
        <5>4. QED
          BY <5>3
      <4>4. QED
        BY <4>2, <4>3
    <3>4. QED
      BY <3>1, <3>2, <3>3
  <2>10. ASSUME ~overlapped', NEW w \in Visitor, visit'[w] # Free
         PROVE  w = v /\ ReadsHead(visit[w])' /\ FindsComment(visit[w])'
    <3>1. w = v /\ visit'[w].at = a
      BY <2>4, <2>6, <2>8, <2>10
    <3>2. QED
      BY <3>1 DEF ReadsHead, FindsComment, AfterDiff
  <2>11. CommentInv'
    <3>1. SUFFICES ASSUME ~overlapped' PROVE CommentInv'
      BY DEF CommentInv
    <3>2. FewComments'
      BY <1>1, <1>2, <2>8, <3>1, CommentsKept DEF CommentInv
    <3>3. QED
      BY <2>9, <2>10, <3>1, <3>2 DEF CommentInv
  <2>12. QED
    BY <2>7, <2>11 DEF SnippetInv
<1>5. CASE IgnoreEvent(v, e) /\ ~Scans(e)
  <2>1. UNCHANGED <<visit, overlapped>>
    BY <1>5 DEF IgnoreEvent
  <2>2. SnippetTyped'
    BY <1>1, <1>2, <2>1 DEF SnippetTyped, EventsTyped
  <2>3. ScanIsDue' <=> ScanIsDue
    BY <1>2, <1>5 DEF ScanIsDue
  <2>4. \A x : (Scanning(x)' <=> Scanning(x)) /\ (ReadsHead(x)' <=> ReadsHead(x)) /\ (FindsComment(x)' <=> FindsComment(x))
    BY <1>2, <2>3, CommentsKept DEF Scanning, ReadsHead
  <2>5. \A w \in Visitor : /\ Scanning(visit[w])' <=> Scanning(visit[w])
                           /\ ReadsHead(visit[w])' <=> ReadsHead(visit[w])
                           /\ FindsComment(visit[w])' <=> FindsComment(visit[w])
    BY <2>1, <2>4 DEF Scanning, ReadsHead, FindsComment
  <2>6. CommentInv'
    BY <1>1, <1>2, <1>3, <2>1, <2>3, <2>5, CommentsKept DEF CommentInv
  <2>7. QED
    BY <2>2, <2>6 DEF SnippetInv
<1>6. CASE e.kind \in Scanned /\ e.open /\ ~e.draft /\ TakeEvent(v, e, "check")
  <2>1. TakeEvent(v, e, "check") /\ Scans(e)
    BY <1>6 DEF Scans
  <2>2. QED
    BY <1>4, <2>1
<1>7. CASE e.kind \in {"labeled", "comment"} /\ TakeEvent(v, e, "config")
  BY <1>4, <1>7
<1>8. CASE ~(e.kind \in Scanned /\ e.open /\ ~e.draft) /\ IgnoreEvent(v, e)
  <2>1. IgnoreEvent(v, e) /\ ~Scans(e)
    BY <1>8 DEF Scans
  <2>2. QED
    BY <1>5, <2>1
<1>9. SnippetTakes(v, e)
  OBVIOUS
<1>10. QED
  BY <1>6, <1>7, <1>8, <1>9 DEF SnippetTakes

\* A handler goes on with no word on the comment.
LEMMA ScanGoesOn ==
  ASSUME SnippetInv, NEW v \in Visitor, visit[v] # Free, NEW x \in SnippetVisit,
         visit' = [visit EXCEPT ![v] = x], x.event = visit[v].event, x.read = visit[v].read,
         pull' \in PullRequestOf, pull'.content = pull.content, pull'.open = pull.open, pull'.draft = pull.draft,
         UNCHANGED <<events, acts, overlapped, missed, snippetConfig, comments, buried>>,
         InPlace(x),
         x.at = "create" => comments = <<>> \/ buried, x.at = "update" => comments # <<>> /\ ~buried,
         x.at \in AfterDiff => visit[v].at \in AfterDiff,
         CommentDue /\ Scanning(visit[v]) => LatestTells \/ Scanning(x)
  PROVE  SnippetInv'
<1>1. SnippetTyped /\ CommentInv
  BY DEF SnippetInv
<1>2. CommentDue' => CommentDue
  BY DEF CommentDue, SnippetFound
<1>3. events' \subseteq EventOf /\ acts' \in Nat /\ comments' \in Seq(Content \cup {{}})
  BY <1>1 DEF SnippetTyped, EventsTyped
<1>4. (~overlapped => FewComments') /\ (LatestTells' <=> LatestTells)
  BY <1>1, CommentsKept DEF CommentInv
<1>5. QED
  BY <1>2, <1>3, <1>4, ScanMoves

\* A handler is done or has failed.
LEMMA ScanEnds ==
  ASSUME SnippetInv, NEW v \in Visitor, visit[v] # Free, visit' = [visit EXCEPT ![v] = Free],
         UNCHANGED <<pull, acts, overlapped, snippetConfig, comments, buried>>,
         \/ missed' /\ UNCHANGED events
         \/ UNCHANGED missed /\ \E e \in EventOf : SameEvent(e, visit[v].event) /\ events' = events \cup {e}
         \/ /\ UNCHANGED <<missed, events>>
            /\ CommentDue /\ Scanning(visit[v]) => LatestTells \/ (~overlapped => ScanIsDue)
  PROVE  SnippetInv'
<1>1. SnippetTyped /\ CommentInv
  BY DEF SnippetInv
<1>2. acts' \in Nat /\ comments' \in Seq(Content \cup {{}}) /\ pull' \in PullRequestOf /\ events' \subseteq EventOf /\ events \subseteq events'
  BY <1>1 DEF SnippetTyped, EventsTyped
<1>3. (~overlapped => FewComments') /\ (LatestTells' <=> LatestTells)
  BY <1>1, CommentsKept DEF CommentInv
<1>4. CommentDue' => CommentDue
  BY DEF CommentDue, SnippetFound
<1>5. ASSUME CommentDue', ~overlapped, Scanning(visit[v]) PROVE LatestTells' \/ ScanIsDue'
  <2>1. CASE missed'
    BY <1>5, <2>1 DEF CommentDue
  <2>2. ASSUME NEW e \in EventOf, SameEvent(e, visit[v].event), events' = events \cup {e} PROVE ScanIsDue'
    BY <1>5, <2>2 DEF Scanning, Scans, SameEvent, ScanIsDue
  <2>3. CASE UNCHANGED events /\ (CommentDue /\ Scanning(visit[v]) => LatestTells \/ (~overlapped => ScanIsDue))
    BY <1>3, <1>4, <1>5, <2>3 DEF ScanIsDue
  <2>4. QED
    BY <2>1, <2>2, <2>3
<1>6. missed => missed'
  OBVIOUS
<1>7. QED
  BY <1>2, <1>3, <1>5, <1>6, ScanMoves

\* What the diff tells of the comment.
LEMMA ScannedFileIsThere ==
  ASSUME NEW c, IsScannedNow(c)
  PROVE  ~IsGone(c, c)
BY DEF IsScannedNow, IsScanned, IsGone

\* A handler of snippet-bot keeps the invariant.
LEMMA SnippetHandlerKeeps ==
  ASSUME SnippetInv, NEW v \in Visitor, SnippetStep(v)
  PROVE  SnippetInv'
<1>1. /\ EventsTyped(SnippetPlaces, Content \cup {{}}, SUBSET {"mismatch", "prefix", "removal", "format"})
      /\ SnippetTyped /\ CommentInv /\ "free" \notin SnippetPlaces
  BY DEF SnippetInv, SnippetTyped, SnippetPlaces
<1> DEFINE r == visit[v]
<1>2. r # Free => r \in SnippetVisit /\ r.event \in EventOf /\ InPlace(r)
  BY <1>1, AtWork DEF SnippetVisit, SnippetTyped
<1>3. ASSUME NEW e \in events, SnippetTakes(v, e) PROVE SnippetInv'
  BY <1>3, SnippetTakesKeeps
<1>4. ASSUME NEW heeded, VisitFails(v, heeded), UNCHANGED <<snippetConfig, comments, buried>> PROVE SnippetInv'
  <2>1. /\ visit[v] # Free /\ visit' = [visit EXCEPT ![v] = Free] /\ UNCHANGED <<pull, checks, acts, hurried, overlapped>>
        /\ \/ missed' /\ UNCHANGED events
           \/ UNCHANGED missed /\ \E e \in EventOf : SameEvent(e, visit[v].event) /\ events' = events \cup {e}
    BY <1>1, <1>4, VisitFailed
  <2>2. QED
    BY <1>4, <2>1, ScanEnds
\* Steps to another place, for the rest of the lemma.
<1>5. ASSUME r # Free, NEW a \in SnippetPlaces, VisitTo(v, a)
      PROVE  \E x \in SnippetVisit : /\ visit' = [visit EXCEPT ![v] = x] /\ x # Free
                                     /\ x.at = a /\ x.event = r.event /\ x.read = r.read
  <2>1. PICK x : x = [r EXCEPT !.at = a]
    OBVIOUS
  <2>2. x \in SnippetVisit /\ x.at = a /\ x.event = r.event /\ x.read = r.read
    BY <1>2, <1>5, <2>1, PlaceTyped DEF SnippetVisit
  <2>3. x # Free
    BY <1>1, <2>2, AtWork DEF SnippetVisit
  <2>4. visit' = [visit EXCEPT ![v] = x]
    BY <1>5, <2>1 DEF VisitTo, Visits
  <2>5. QED
    BY <2>2, <2>3, <2>4
<1>6. CASE SnippetChecksConfig(v)
  <2>1. r # Free /\ r.at = "check" /\ VisitTo(v, "config") /\ UNCHANGED <<pull, events, acts, overlapped, missed, snippetConfig, comments, buried>>
    BY <1>6 DEF SnippetChecksConfig, VisitAt, Inside
  <2>2. PICK x \in SnippetVisit : /\ visit' = [visit EXCEPT ![v] = x] /\ x # Free
                                  /\ x.at = "config" /\ x.event = r.event /\ x.read = r.read
    BY <1>5, <2>1 DEF SnippetPlaces
  <2>3. pull' \in PullRequestOf /\ InPlace(x)
    BY <1>1, <1>2, <2>1, <2>2 DEF EventsTyped, InPlace
  <2>4. Scanning(r) => Scanning(x)
    BY <2>1, <2>2 DEF Scanning
  <2>5. QED
    BY <2>1, <2>2, <2>3, <2>4, ScanGoesOn DEF AfterDiff
<1>7. CASE SnippetReadsConfig(v)
  <2>1. r # Free /\ r.at = "config" /\ UNCHANGED <<pull, acts, overlapped, snippetConfig, comments, buried>>
    BY <1>7 DEF SnippetReadsConfig, VisitAt
  <2>2. CASE SnippetFound = "error"
    <3>1. TryAgain(v)
      BY <1>7, <2>2 DEF SnippetReadsConfig
    <3>2. /\ visit' = [visit EXCEPT ![v] = Free]
          /\ \/ missed' /\ UNCHANGED events
             \/ UNCHANGED missed /\ \E e \in EventOf : SameEvent(e, visit[v].event) /\ events' = events \cup {e}
      BY <1>1, <2>1, <3>1, TriedAgain
    <3>3. QED
      BY <2>1, <3>2, ScanEnds
  <2>3. CASE SnippetFound = "none"
    <3>1. visit' = [visit EXCEPT ![v] = Free] /\ UNCHANGED <<events, missed>>
      BY <1>7, <2>3 DEF SnippetReadsConfig, Leave, Visits
    <3>2. ~CommentDue
      BY <2>3 DEF CommentDue
    <3>3. QED
      BY <2>1, <3>1, <3>2, ScanEnds
  <2>4. CASE SnippetFound \notin {"error", "none"}
    <3>1. /\ UNCHANGED <<events, missed>>
          /\ \/ VisitTo(v, "unlabel") /\ r.event.kind = "labeled"
             \/ Leave(v) /\ r.event.kind = "labeled"
             \/ VisitTo(v, "get") /\ r.event.kind = "comment"
             \/ VisitTo(v, "diff") /\ r.event.kind \in Scanned
      BY <1>2, <1>7, <2>1, <2>4 DEF SnippetReadsConfig, InPlace, Scanned
    <3>2. CASE Leave(v) /\ r.event.kind = "labeled"
      <4>1. ~Scanning(r)
        BY <3>2 DEF Scanning, Scans, Scanned
      <4>2. visit' = [visit EXCEPT ![v] = Free]
        BY <3>2 DEF Leave, Visits
      <4>3. QED
        BY <2>1, <3>1, <4>1, <4>2, ScanEnds
    <3>3. CASE \E a \in {"unlabel", "get", "diff"} :
                 VisitTo(v, a) /\ (a = "unlabel" => r.event.kind = "labeled") /\ (a = "get" => r.event.kind = "comment")
                 /\ (a # "diff" => r.event.kind \notin Scanned)
      <4>1. PICK a \in {"unlabel", "get", "diff"} :
                 VisitTo(v, a) /\ (a = "unlabel" => r.event.kind = "labeled") /\ (a = "get" => r.event.kind = "comment")
                 /\ (a # "diff" => r.event.kind \notin Scanned)
        BY <3>3
      <4>2. PICK x \in SnippetVisit : /\ visit' = [visit EXCEPT ![v] = x] /\ x # Free
                                      /\ x.at = a /\ x.event = r.event /\ x.read = r.read
        BY <1>5, <2>1, <4>1 DEF SnippetPlaces
      <4>3. pull' \in PullRequestOf /\ InPlace(x)
        BY <1>1, <1>2, <2>1, <4>1, <4>2 DEF EventsTyped, InPlace
      <4>4. Scanning(r) => Scanning(x)
        BY <2>1, <4>1, <4>2 DEF Scanning, Scans
      <4>5. QED
        BY <2>1, <3>1, <4>1, <4>2, <4>3, <4>4, ScanGoesOn DEF AfterDiff
    <3>4. QED
      BY <3>1, <3>2, <3>3 DEF Scanned
  <2>5. QED
    BY <2>2, <2>3, <2>4
<1>8. CASE RemoveRefresh(v)
  <2>1. /\ r # Free /\ r.at = "unlabel" /\ VisitTo(v, "diff") /\ pull' = [pull EXCEPT !.labels = @ \ {Refresh}]
        /\ UNCHANGED <<events, acts, overlapped, missed, snippetConfig, comments, buried>>
    BY <1>8 DEF RemoveRefresh, VisitAt
  <2>2. PICK x \in SnippetVisit : /\ visit' = [visit EXCEPT ![v] = x] /\ x # Free
                                  /\ x.at = "diff" /\ x.event = r.event /\ x.read = r.read
    BY <1>5, <2>1 DEF SnippetPlaces
  <2>3. pull' \in PullRequestOf /\ pull'.content = pull.content /\ pull'.open = pull.open /\ pull'.draft = pull.draft
    BY <1>1, <2>1 DEF EventsTyped, PullRequestOf
  <2>4. InPlace(x) /\ ~Scanning(r)
    BY <1>2, <2>1, <2>2 DEF InPlace, Scanning
  <2>5. QED
    BY <2>1, <2>2, <2>3, <2>4, ScanGoesOn DEF AfterDiff
<1>9. CASE GetPullRequest(v)
  <2>1. /\ r # Free /\ r.at = "get" /\ visit' = [visit EXCEPT ![v] = [r EXCEPT !.at = "diff", !.event.head = pull.head, !.event.labels = pull.labels]]
        /\ UNCHANGED <<pull, events, acts, overlapped, missed, snippetConfig, comments, buried>>
    BY <1>9 DEF GetPullRequest, VisitAt, Visits, Inside
  <2>2. PICK x : x = [r EXCEPT !.at = "diff", !.event.head = pull.head, !.event.labels = pull.labels]
    OBVIOUS
  <2>3. x \in SnippetVisit /\ x.at = "diff" /\ x.event.kind = "comment"
    <3>1. pull.head \in Nat /\ pull.labels \in SUBSET PullLabel
      BY <1>1 DEF EventsTyped, PullRequestOf
    <3>2. r \in SnippetVisit /\ r.event.kind = "comment"
      BY <1>2, <2>1 DEF InPlace
    <3>3. QED
      BY <2>2, <3>1, <3>2 DEF SnippetVisit, VisitOf, EventOf, SnippetPlaces
  <2>4. InPlace(x) /\ ~Scanning(r)
    BY <1>2, <2>1, <2>3 DEF InPlace, Scanning
  <2>5. pull' \in PullRequestOf /\ events' \subseteq EventOf /\ acts' \in Nat /\ comments' \in Seq(Content \cup {{}})
    BY <1>1, <2>1 DEF EventsTyped, SnippetTyped
  <2>6. (~overlapped => FewComments') /\ (LatestTells' <=> LatestTells)
    BY <1>1, <2>1, CommentsKept DEF CommentInv
  <2>7. visit' = [visit EXCEPT ![v] = x]
    BY <2>1, <2>2
  <2>8. QED
    BY <2>1, <2>3, <2>4, <2>5, <2>6, <2>7, ScanMoves DEF AfterDiff
<1>10. CASE ParseDiff(v)
  <2>1. /\ r # Free /\ r.at = "diff" /\ visit' = [visit EXCEPT ![v] = [r EXCEPT !.at = "file", !.read = pull.content]]
        /\ UNCHANGED <<pull, events, acts, overlapped, missed, snippetConfig, comments, buried>>
    BY <1>10 DEF ParseDiff, VisitAt, Visits, Inside
  <2>2. PICK x : x = [r EXCEPT !.at = "file", !.read = pull.content]
    OBVIOUS
  <2>3. x \in SnippetVisit /\ x.at = "file" /\ x.event = r.event /\ x.read = pull.content
    <3>1. pull.content \in Content
      BY <1>1 DEF EventsTyped, PullRequestOf
    <3>2. QED
      BY <1>2, <2>1, <2>2, <3>1 DEF SnippetVisit, VisitOf, SnippetPlaces
  <2>4. x # Free
    BY <1>1, <2>3, AtWork DEF SnippetVisit
  <2>5. InPlace(x) /\ (Scanning(r) => Scanning(x))
    BY <1>2, <2>1, <2>3, <2>4 DEF InPlace, Scanning
  <2>6. pull' \in PullRequestOf /\ events' \subseteq EventOf /\ acts' \in Nat /\ comments' \in Seq(Content \cup {{}})
    BY <1>1, <2>1 DEF EventsTyped, SnippetTyped
  <2>7. (~overlapped => FewComments') /\ (LatestTells' <=> LatestTells)
    BY <1>1, <2>1, CommentsKept DEF CommentInv
  <2>8. visit' = [visit EXCEPT ![v] = x]
    BY <2>1, <2>2
  <2>9. QED
    BY <2>1, <2>3, <2>5, <2>6, <2>7, <2>8, ScanMoves DEF AfterDiff
<1>11. CASE ScanFile(v)
  <2>1. /\ r # Free /\ r.at = "file" /\ UNCHANGED <<pull, events, acts, overlapped, missed, snippetConfig, comments, buried>>
        /\ \/ IsScannedNow(r.read) /\ IsGone(r.read, pull.content) /\ Leave(v)
           \/ EndsEarly(v) /\ Leave(v)
           \/ \E bad \in SUBSET {"mismatch", "prefix", "removal", "format"} : Visits(v, [r EXCEPT !.at = "list", !.bad = bad])
    <3>1. \A c, now, labels : ViolationsOf(c, now, labels) \in SUBSET {"mismatch", "prefix", "removal", "format"}
      BY DEF ViolationsOf
    <3>2. QED
      BY <1>11, <3>1 DEF ScanFile, VisitAt, Inside
  <2>2. CASE (IsScannedNow(r.read) /\ IsGone(r.read, pull.content) /\ Leave(v)) \/ (EndsEarly(v) /\ Leave(v))
    <3>1. visit' = [visit EXCEPT ![v] = Free]
      BY <2>2 DEF Leave, Visits
    <3>2. Scanning(r) => r.read = pull.content
      BY <2>1 DEF Scanning
    <3>3. ~(CommentDue /\ Scanning(r))
      BY <2>2, <3>2, ScannedFileIsThere DEF EndsEarly, CommentDue
    <3>4. QED
      BY <2>1, <3>1, <3>3, ScanEnds
  <2>3. CASE \E bad \in SUBSET {"mismatch", "prefix", "removal", "format"} : Visits(v, [r EXCEPT !.at = "list", !.bad = bad])
    <3>1. PICK bad \in SUBSET {"mismatch", "prefix", "removal", "format"} : Visits(v, [r EXCEPT !.at = "list", !.bad = bad])
      BY <2>3
    <3>2. PICK x : x = [r EXCEPT !.at = "list", !.bad = bad]
      OBVIOUS
    <3>3. x \in SnippetVisit /\ x.at = "list" /\ x.event = r.event /\ x.read = r.read
      BY <1>2, <2>1, <3>2 DEF SnippetVisit, VisitOf, SnippetPlaces
    <3>4. x # Free /\ visit' = [visit EXCEPT ![v] = x]
      BY <1>1, <3>1, <3>2, <3>3, AtWork DEF SnippetVisit, Visits
    <3>5. pull' \in PullRequestOf /\ InPlace(x) /\ (Scanning(r) => Scanning(x))
      BY <1>1, <1>2, <2>1, <3>3, <3>4 DEF EventsTyped, InPlace, Scanning
    <3>6. QED
      BY <2>1, <3>3, <3>4, <3>5, ScanGoesOn DEF AfterDiff
  <2>4. QED
    BY <2>1, <2>2, <2>3
<1>12. CASE ListOwnComments(v)
  <2>1. PICK a \in {"update", "create", "post"} :
          /\ VisitTo(v, a) /\ (a = "update" => comments # <<>> /\ ~buried) /\ (a = "create" => comments = <<>> \/ buried)
          /\ a = "post" => ~HasChanges(r.read)
    BY <1>12 DEF ListOwnComments
  <2>2. r # Free /\ r.at = "list" /\ UNCHANGED <<pull, events, acts, overlapped, missed, snippetConfig, comments, buried>>
    BY <1>12 DEF ListOwnComments, VisitAt, Inside
  <2>3. PICK x \in SnippetVisit : /\ visit' = [visit EXCEPT ![v] = x] /\ x # Free
                                  /\ x.at = a /\ x.event = r.event /\ x.read = r.read
    BY <1>5, <2>1, <2>2 DEF SnippetPlaces
  <2>4. pull' \in PullRequestOf /\ InPlace(x)
    BY <1>1, <1>2, <2>1, <2>2, <2>3 DEF EventsTyped, InPlace
  <2>5. CommentDue /\ Scanning(r) => Scanning(x)
    BY <2>1, <2>2, <2>3 DEF Scanning, CommentDue
  <2>6. QED
    BY <2>1, <2>2, <2>3, <2>4, <2>5, ScanGoesOn DEF AfterDiff
<1>13. CASE PutComment(v)
  <2>1. /\ r # Free /\ VisitTo(v, "post") /\ UNCHANGED <<pull, events, acts, overlapped, missed, snippetConfig, buried>>
        /\ \/ r.at = "update" /\ comments' = [comments EXCEPT ![1] = r.read]
           \/ r.at = "create" /\ comments' = Append(comments, r.read)
    BY <1>13 DEF PutComment, VisitAt, Inside
  <2>2. PICK x \in SnippetVisit : /\ visit' = [visit EXCEPT ![v] = x] /\ x # Free
                                  /\ x.at = "post" /\ x.event = r.event /\ x.read = r.read
    BY <1>5, <2>1 DEF SnippetPlaces
  <2>3. pull' \in PullRequestOf /\ InPlace(x) /\ events' \subseteq EventOf /\ acts' \in Nat
    BY <1>1, <1>2, <2>1, <2>2 DEF EventsTyped, InPlace
  <2>4. comments \in Seq(Content \cup {{}}) /\ r.read \in Content \cup {{}}
    BY <1>1, <1>2, <2>1 DEF SnippetTyped, SnippetVisit, VisitOf
  <2>5. comments' \in Seq(Content \cup {{}})
    BY <2>1, <2>4, ExceptSeq, AppendProperties
  <2>6. ASSUME ~overlapped
        PROVE  /\ comments' # <<>> /\ Last(comments') = r.read /\ FewComments'
               /\ r.read = pull.content \/ (pull.open /\ ~pull.draft => ScanIsDue)
    <3>1. ReadsHead(r) /\ FindsComment(r) /\ FewComments
      BY <1>1, <2>1, <2>6 DEF CommentInv
    <3>2. CASE r.at = "update"
      <4>1. Len(comments) = 1
        <5>1. Len(comments) \in Nat /\ comments # <<>> /\ ~buried
          BY <2>4, <3>1, <3>2 DEF FindsComment
        <5>2. Len(comments) # 0
          BY <2>4, <5>1, EmptySeq
        <5>3. PICK n \in Nat : n = Len(comments)
          BY <5>1
        <5>4. n # 0 /\ n <= 1
          BY <3>1, <5>1, <5>2, <5>3 DEF FewComments
        <5>5. n = 1
          BY <5>4
        <5>6. QED
          BY <5>3, <5>5
      <4>2. comments' = <<r.read>>
        BY <2>1, <2>4, <3>2, <4>1
      <4>3. comments' # <<>> /\ Last(comments') = r.read /\ FewComments'
        BY <4>2, OneLast DEF FewComments
      <4>4. QED
        BY <3>1, <3>2, <4>3 DEF ReadsHead, AfterDiff
    <3>3. CASE r.at = "create"
      <4>1. comments' = Append(comments, r.read) /\ (comments = <<>> \/ buried)
        BY <2>1, <3>1, <3>3 DEF FindsComment
      <4>2. comments' # <<>> /\ Last(comments') = r.read
        BY <2>4, <4>1, AppendedLast
      <4>3. FewComments'
        <5>1. comments = <<>> => comments' = <<r.read>>
          BY <2>4, <4>1
        <5>2. comments = <<>> => Len(comments') = 1
          BY <5>1
        <5>3. QED
          BY <2>1, <4>1, <5>2 DEF FewComments
      <4>4. QED
        BY <3>1, <3>3, <4>2, <4>3 DEF ReadsHead, AfterDiff
    <3>4. QED
      BY <2>1, <3>2, <3>3
  <2>7. CommentDue' => pull.open /\ ~pull.draft
    BY <2>1 DEF CommentDue
  <2>8. ScanIsDue => ScanIsDue'
    BY <2>1 DEF ScanIsDue
  <2>9. ~overlapped /\ r.read = pull.content => LatestTells'
    BY <2>1, <2>6 DEF LatestTells
  <2>10. r.at \in AfterDiff
    BY <2>1 DEF AfterDiff
  <2>11. QED
    BY <2>1, <2>2, <2>3, <2>5, <2>6, <2>7, <2>8, <2>9, <2>10, ScanMoves DEF AfterDiff
<1>14. CASE PostChecks(v)
  <2>1. r # Free /\ r.at = "post" /\ visit' = [visit EXCEPT ![v] = Free]
        /\ UNCHANGED <<pull, events, acts, overlapped, missed, snippetConfig, comments, buried>>
    BY <1>14 DEF PostChecks, VisitAt, Leave, Visits, Inside
  <2>2. ~Scanning(r)
    BY <2>1 DEF Scanning
  <2>3. QED
    BY <2>1, <2>2, ScanEnds
<1>15. QED
  BY <1>3, <1>4, <1>6, <1>7, <1>8, <1>9, <1>10, <1>11, <1>12, <1>13, <1>14
     DEF SnippetStep, SnippetFails, MismatchNotPosted

\* What people do calls for a scan, or leaves the comment right.
LEMMA PeopleKeepComment ==
  ASSUME SnippetInv, PeopleAct \/ (Act("comment", pull, "none") /\ UNCHANGED checks),
         UNCHANGED <<snippetConfig, comments, buried>>
  PROVE  SnippetInv'
<1>1. SnippetTyped /\ CommentInv /\ pull \in PullRequestOf /\ acts \in Nat
  BY DEF SnippetInv, SnippetTyped, EventsTyped
<1>2. PICK e : Acted(e)
  BY <1>1, PeopleAreActing
<1>3. UNCHANGED <<visit, overlapped, missed>> /\ events' = events \cup {e} /\ e \in EventOf
  BY <1>2 DEF Acted
<1>4. SnippetTyped'
  BY <1>1, <1>2, <1>3 DEF Acted, SnippetTyped, EventsTyped
<1>5. ScanIsDue => ScanIsDue'
  BY <1>3 DEF ScanIsDue
<1>6. ASSUME pull'.open, ~pull'.draft, ~(pull.open /\ ~pull.draft) \/ pull'.content # pull.content
      PROVE  ScanIsDue'
  <2>1. e.kind \in {"synchronize", "reopened", "ready_for_review"}
    BY <1>2, <1>6 DEF Acted
  <2>2. e.open /\ ~e.draft
    BY <1>2, <1>6 DEF Acted
  <2>3. Scans(e)
    BY <2>1, <2>2 DEF Scans, Scanned
  <2>4. QED
    BY <1>3, <2>3 DEF ScanIsDue
<1>7. ASSUME NEW x, ReadsHead(x) PROVE ReadsHead(x)'
  BY <1>5, <1>6, <1>7 DEF ReadsHead
<1>8. ASSUME CommentDue' PROVE ScanIsDue' \/ (CommentDue /\ pull'.content = pull.content)
  BY <1>3, <1>6, <1>8 DEF CommentDue, SnippetFound
<1>9. ASSUME NEW x, Scanning(x), pull'.content = pull.content PROVE Scanning(x)'
  BY <1>9 DEF Scanning
<1>10. CommentInv'
  <2>1. SUFFICES ASSUME ~overlapped' PROVE CommentInv'
    BY DEF CommentInv
  <2>2. /\ \A v, w \in Visitor : visit[v] # Free /\ visit[w] # Free => v = w
        /\ FewComments
        /\ \A v \in Visitor : visit[v] # Free => ReadsHead(visit[v]) /\ FindsComment(visit[v])
        /\ CommentDue => LatestTells \/ ScanIsDue \/ \E v \in Visitor : Scanning(visit[v])
    BY <1>1, <1>3, <2>1 DEF CommentInv
  <2>3. \A v \in Visitor : visit'[v] # Free => ReadsHead(visit[v])' /\ FindsComment(visit[v])'
    BY <1>3, <1>7, <2>2 DEF FindsComment, ReadsHead
  <2>4. CommentDue' => LatestTells' \/ ScanIsDue' \/ \E v \in Visitor : Scanning(visit[v])'
    <3>1. SUFFICES ASSUME CommentDue', CommentDue, pull'.content = pull.content
                   PROVE  LatestTells' \/ ScanIsDue' \/ \E v \in Visitor : Scanning(visit[v])'
      BY <1>8
    <3>2. CASE \E v \in Visitor : Scanning(visit[v])
      <4>1. PICK v \in Visitor : Scanning(visit[v])
        BY <3>2
      <4>2. Scanning(visit[v])'
        BY <1>3, <1>9, <3>1, <4>1 DEF Scanning
      <4>3. QED
        BY <4>2
    <3>3. LatestTells => LatestTells'
      BY <3>1, CommentsKept
    <3>4. QED
      BY <1>5, <2>2, <3>1, <3>2, <3>3
  <2>5. QED
    BY <1>3, <2>2, <2>3, <2>4, CommentsKept DEF CommentInv
<1>11. QED
  BY <1>4, <1>10 DEF SnippetInv

\* The invariant of the comment is one of the specification.
LEMMA SnippetInitHolds ==
  ASSUME NEW CONSTANT configs, SnippetInit(configs)
  PROVE  SnippetInv
<1>1. PICK yes, no \in BOOLEAN : yes = TRUE /\ no = FALSE
  OBVIOUS
<1>2. PICK c \in Content, d \in BOOLEAN : pull = [head |-> 1, content |-> c, labels |-> {}, open |-> yes, draft |-> d]
  BY <1>1 DEF SnippetInit, EventsInit
<1>3. PICK e : e = [kind |-> "opened", act |-> 0, head |-> 1, labels |-> {}, open |-> yes, draft |-> pull.draft,
                    label |-> "none", tries |-> 1]
  OBVIOUS
<1>4. events = {e} /\ comments = <<>> /\ buried = no /\ acts = 0 /\ \A v \in Visitor : visit[v] = Free
  BY <1>1, <1>3 DEF SnippetInit, EventsInit
<1>5. pull \in PullRequestOf /\ e \in EventOf /\ e.kind = "opened" /\ e.open /\ (e.draft <=> pull.draft)
  BY <1>1, <1>2, <1>3 DEF PullRequestOf, EventOf, EventKind
<1>6. visit = [v \in Visitor |-> Free]
  BY DEF SnippetInit, EventsInit
<1>7. SnippetTyped
  <2>1. comments \in Seq(Content \cup {{}})
    BY <1>4
  <2>2. QED
    BY <1>4, <1>5, <1>6, <2>1 DEF SnippetTyped, EventsTyped
<1>8. CommentDue => ScanIsDue
  BY <1>4, <1>5 DEF CommentDue, ScanIsDue, Scans, Scanned
<1>9. FewComments
  BY <1>4 DEF FewComments
<1>10. QED
  BY <1>4, <1>7, <1>8, <1>9 DEF SnippetInv, CommentInv

\* Every step keeps it.
LEMMA SnippetInvKept ==
  ASSUME SnippetInv, [SnippetNext]_snippetVars
  PROVE  SnippetInv'
<1>1. CASE UNCHANGED snippetVars
  BY <1>1 DEF snippetVars, eventVars, SnippetInv, SnippetTyped, EventsTyped, InPlace, CommentInv, ReadsHead, FindsComment,
              Scanning, ScanIsDue, CommentDue, SnippetFound, FewComments, LatestTells
<1>2. CASE BuryComments
  <2>1. UNCHANGED <<pull, events, visit, acts, overlapped, missed, snippetConfig, comments>> /\ buried' = TRUE /\ comments = <<>>
    BY <1>2 DEF BuryComments, eventVars
  <2>2. SnippetTyped /\ CommentInv
    BY DEF SnippetInv
  <2>3. SnippetTyped'
    BY <2>1, <2>2 DEF SnippetTyped, EventsTyped, InPlace
  <2>4. \A v \in Visitor : /\ Scanning(visit[v])' <=> Scanning(visit[v])
                           /\ ReadsHead(visit[v])' <=> ReadsHead(visit[v])
                           /\ FindsComment(visit[v]) => FindsComment(visit[v])'
    BY <2>1 DEF Scanning, ReadsHead, FindsComment, ScanIsDue
  <2>5. FewComments' /\ (LatestTells' <=> LatestTells) /\ (ScanIsDue' <=> ScanIsDue) /\ (CommentDue' <=> CommentDue)
    BY <2>1 DEF FewComments, LatestTells, ScanIsDue, CommentDue, SnippetFound
  <2>6. CommentInv'
    BY <2>1, <2>2, <2>4, <2>5 DEF CommentInv
  <2>7. QED
    BY <2>3, <2>6 DEF SnippetInv
<1>3. CASE SnippetNext
  BY <1>2, <1>3, SnippetHandlerKeeps, PeopleKeepComment DEF SnippetNext, TickRefresh
<1>4. QED
  BY <1>1, <1>3

(* snippet-bot's latest comment tells of the head, whatever its configuration, the        *)
(* changes pushed and the number of pushes, labels, comments, handlers and failing calls, *)
(* as long as no two handlers ran at a time; and it has left no other, unless comments of *)
(* others fill the page it reads before its own.                                          *)
THEOREM OneCommentTellsOfHead ==
  ASSUME NEW CONSTANT configs
  PROVE  SnippetSpec(configs) => []OneCommentOfHead
<1>1. SnippetInit(configs) => SnippetInv
  BY SnippetInitHolds
<1>2. SnippetInv /\ [SnippetNext]_snippetVars => SnippetInv'
  BY SnippetInvKept
<1>3. SnippetInv => OneCommentOfHead
  <2>1. SUFFICES ASSUME SnippetInv, ~overlapped PROVE OneCommentOfHead
    BY DEF OneCommentOfHead
  <2>2. CommentInv
    BY <2>1 DEF SnippetInv
  <2>3. Quiet => ~ScanIsDue /\ \A v \in Visitor : ~Scanning(visit[v])
    BY DEF Quiet, ScanIsDue, Scanning
  <2>4. QED
    BY <2>1, <2>2, <2>3 DEF CommentInv, OneCommentOfHead, SnippetDue, CommentDue, FewComments, LatestTells
<1>4. QED
  BY <1>1, <1>2, <1>3, PTL DEF SnippetSpec

----------------------------------------------------------------------------
(* snippet-bot: what the parser of region tags finds.                       *)

\* Of some numbers there is a least.
LEMMA SomeLeast ==
  ASSUME NEW S \in SUBSET Nat, S # {}
  PROVE  \E i \in S : \A j \in S : i <= j
<1>1. IsWellFoundedOn(Below, Nat)
  BY NatLessThanWellFounded, Zenon DEF OpToRel, Below
<1>2. PICK m \in S : \A n \in S : <<n, m>> \notin Below
  BY <1>1, WFMin
<1>3. ASSUME NEW n \in S PROVE m <= n
  <2>1. n \in Nat /\ m \in Nat /\ <<n, m>> \notin Below
    BY <1>2
  <2>2. <<n, m>> \in Nat \X Nat /\ <<n, m>>[1] = n /\ <<n, m>>[2] = m
    BY <2>1
  <2>3. ~(n < m)
    BY <2>1, <2>2, Zenon DEF Below
  <2>4. QED
    BY <2>1, <2>3
<1>4. QED
  BY <1>3

\* The tags that are open after a line: the last one of the tag up to there is a start.
OpenAfter(c, i) ==
  {t \in Tag : \E j \in HeadLines(c) :
     /\ j <= i /\ c.lines[j].tag = t /\ c.lines[j].kind = "start"
     /\ \A k \in HeadLines(c) : c.lines[k].tag = t => k <= j \/ i < k}

\* Each line up to there starts a tag that is not open, or ends one that is.
WellUpTo(c, i) ==
  \A j \in HeadLines(c) :
    j <= i => (c.lines[j].kind = "start" <=> c.lines[j].tag \notin OpenAfter(c, j - 1))

\* What a line does to them.
LEMMA LineOpensOrCloses ==
  ASSUME NEW c, c.lines \in Seq(TagLine), NEW i \in 1 .. Len(c.lines)
  PROVE  /\ i \notin HeadLines(c) =>
              OpenAfter(c, i) = OpenAfter(c, i - 1) /\ (WellUpTo(c, i) <=> WellUpTo(c, i - 1))
         /\ i \in HeadLines(c) /\ c.lines[i].kind = "start" =>
              /\ OpenAfter(c, i) = OpenAfter(c, i - 1) \cup {c.lines[i].tag}
              /\ WellUpTo(c, i) <=> WellUpTo(c, i - 1) /\ c.lines[i].tag \notin OpenAfter(c, i - 1)
         /\ i \in HeadLines(c) /\ c.lines[i].kind # "start" =>
              /\ OpenAfter(c, i) = OpenAfter(c, i - 1) \ {c.lines[i].tag}
              /\ WellUpTo(c, i) <=> WellUpTo(c, i - 1) /\ c.lines[i].tag \in OpenAfter(c, i - 1)
<1> PICK n \in Nat : n = Len(c.lines) /\ DOMAIN c.lines = 1 .. n
  OBVIOUS
<1>1. HeadLines(c) \subseteq 1 .. n /\ i \in 1 .. n /\ \A j \in 1 .. n : c.lines[j].tag \in Tag
  <2>1. \A j \in 1 .. n : c.lines[j] \in TagLine
    OBVIOUS
  <2>2. QED
    BY <2>1 DEF HeadLines, TagLine
<1>2. \A j \in HeadLines(c) : j <= i <=> j <= i - 1 \/ j = i
  BY <1>1
<1>3. WellUpTo(c, i) <=> WellUpTo(c, i - 1) /\
        (i \in HeadLines(c) => (c.lines[i].kind = "start" <=> c.lines[i].tag \notin OpenAfter(c, i - 1)))
  BY <1>2 DEF WellUpTo
<1>4. ASSUME NEW t \in Tag, i \notin HeadLines(c) \/ c.lines[i].tag # t
      PROVE  t \in OpenAfter(c, i) <=> t \in OpenAfter(c, i - 1)
  <2>1. \A j \in HeadLines(c) : c.lines[j].tag = t =>
          /\ j <= i <=> j <= i - 1
          /\ i < j <=> i - 1 < j
    BY <1>1, <1>4
  <2>2. QED
    BY <2>1 DEF OpenAfter
<1>5. ASSUME i \in HeadLines(c)
      PROVE  c.lines[i].tag \in OpenAfter(c, i) <=> c.lines[i].kind = "start"
  <2>1. \A j \in HeadLines(c) : j <= i => ((i <= j \/ i < i) => j = i)
    BY <1>1
  <2>2. \A k \in HeadLines(c) : k <= i \/ i < k
    BY <1>1
  <2>3. QED
    BY <1>1, <1>5, <2>1, <2>2 DEF OpenAfter
<1>6. OpenAfter(c, i) \subseteq Tag /\ OpenAfter(c, i - 1) \subseteq Tag
  BY DEF OpenAfter
<1>7. QED
  BY <1>1, <1>3, <1>4, <1>5, <1>6

\* The parser's states are these, line by line.
LEMMA ParserStates ==
  ASSUME NEW c, c.lines \in Seq(TagLine)
  PROVE  ParseRegionTags(c) <=> WellUpTo(c, Len(c.lines)) /\ OpenAfter(c, Len(c.lines)) = {}
<1> PICK n \in Nat : n = Len(c.lines) /\ DOMAIN c.lines = 1 .. n
  OBVIOUS
<1>1. PICK line : line = c.lines /\ line \in Seq(TagLine) /\ HeadLines(c) \subseteq 1 .. n
  BY DEF HeadLines
<1> DEFINE next(s, i) == IF i = 0 THEN [open |-> {}, ok |-> TRUE]
                         ELSE IF i \in HeadLines(c) THEN ParseTagLine(s[i - 1], line[i]) ELSE s[i - 1]
           IsParse(s) == s = [i \in 0 .. n |-> next(s, i)]
<1>2. \A i : WellUpTo(c, i) \in BOOLEAN
  BY Zenon DEF WellUpTo
<1>3. OpenAfter(c, 0) = {} /\ WellUpTo(c, 0)
  <2>1. \A j \in HeadLines(c) : ~(j <= 0)
    BY <1>1
  <2>2. QED
    BY <2>1 DEF OpenAfter, WellUpTo
<1>4. \E f : IsParse(f)
  <2> PICK f : f = [i \in 0 .. n |-> [open |-> OpenAfter(c, i), ok |-> WellUpTo(c, i)]]
    OBVIOUS
  <2>1. \A i \in 0 .. n : f[i] = [open |-> OpenAfter(c, i), ok |-> WellUpTo(c, i)]
    OBVIOUS
  <2>2. 0 \in 0 .. n /\ \A i \in 0 .. n : i # 0 => i \in 1 .. n /\ i - 1 \in 0 .. n
    OBVIOUS
  <2>3. ASSUME NEW i \in 0 .. n PROVE f[i] = next(f, i)
    <3>1. CASE i = 0
      <4>1. WellUpTo(c, 0) = TRUE
        BY <1>2, <1>3, Zenon
      <4> PICK a, b : a = OpenAfter(c, 0) /\ b = WellUpTo(c, 0)
        OBVIOUS
      <4>2. f[0] = [open |-> a, ok |-> b] /\ a = {} /\ b = TRUE
        BY <1>3, <2>1, <2>2, <4>1
      <4>4. f[0] = [open |-> {}, ok |-> TRUE]
        BY <4>2
      <4>3. QED
        BY <3>1, <4>4
    <3>2. CASE i # 0
      <4>1. i \in 1 .. n /\ f[i] = [open |-> OpenAfter(c, i), ok |-> WellUpTo(c, i)]
        BY <2>1, <2>2, <3>2
      <4> PICK y : y = f[i - 1]
        OBVIOUS
      <4>2. y = [open |-> OpenAfter(c, i - 1), ok |-> WellUpTo(c, i - 1)]
        BY <2>1, <2>2, <3>2
      <4>8. PICK open : open = OpenAfter(c, i - 1)
        OBVIOUS
      <4>9. PICK ok \in BOOLEAN : ok = WellUpTo(c, i - 1)
        BY <1>2, Zenon
      <4>3. y.open = OpenAfter(c, i - 1) /\ y.ok = WellUpTo(c, i - 1)
        <5>1. y = [open |-> open, ok |-> ok]
          BY <4>2, <4>8, <4>9, Zenon
        <5>2. y.open = open /\ y.ok = ok
          BY <5>1
        <5>3. QED
          BY <4>8, <4>9, <5>2, Zenon
      <4>4. CASE i \notin HeadLines(c)
        <5>1. OpenAfter(c, i) = OpenAfter(c, i - 1) /\ (WellUpTo(c, i) <=> WellUpTo(c, i - 1))
          BY <4>1, <4>4, LineOpensOrCloses
        <5>2. WellUpTo(c, i) = WellUpTo(c, i - 1)
          BY <1>2, <5>1, Zenon
        <5>3. f[i] = y
          BY <4>1, <4>2, <5>1, <5>2, Zenon
        <5>4. QED
          BY <3>2, <4>4, <5>3
      <4>5. CASE i \in HeadLines(c) /\ line[i].kind = "start"
        <5>1. /\ OpenAfter(c, i) = y.open \cup {line[i].tag}
              /\ WellUpTo(c, i) <=> y.ok /\ line[i].tag \notin y.open
          BY <1>1, <4>1, <4>3, <4>5, LineOpensOrCloses
        <5>2. WellUpTo(c, i) = (y.ok /\ line[i].tag \notin y.open)
          BY <1>2, <5>1, Zenon
        <5>3. f[i] = [open |-> y.open \cup {line[i].tag}, ok |-> y.ok /\ line[i].tag \notin y.open]
          BY <4>1, <5>1, <5>2, Zenon
        <5>4. f[i] = ParseTagLine(y, line[i])
          BY <4>5, <5>3, Zenon DEF ParseTagLine
        <5>5. QED
          BY <3>2, <4>5, <5>4
      <4>6. CASE i \in HeadLines(c) /\ line[i].kind # "start"
        <5>1. /\ OpenAfter(c, i) = y.open \ {line[i].tag}
              /\ WellUpTo(c, i) <=> y.ok /\ line[i].tag \in y.open
          BY <1>1, <4>1, <4>3, <4>6, LineOpensOrCloses
        <5>2. WellUpTo(c, i) = (y.ok /\ line[i].tag \in y.open)
          BY <1>2, <5>1, Zenon
        <5>3. f[i] = [open |-> y.open \ {line[i].tag}, ok |-> y.ok /\ line[i].tag \in y.open]
          BY <4>1, <5>1, <5>2, Zenon
        <5>4. f[i] = ParseTagLine(y, line[i])
          BY <4>6, <5>3, Zenon DEF ParseTagLine
        <5>5. QED
          BY <3>2, <4>6, <5>4
      <4>7. QED
        BY <4>4, <4>5, <4>6
    <3>3. QED
      BY <3>1, <3>2
  <2> HIDE DEF next
  <2>4. f = [i \in 0 .. n |-> next(f, i)]
    BY <2>3
  <2>5. QED
    BY <2>4
<1>5. ASSUME NEW s, IsParse(s)
      PROVE  s[n].open = OpenAfter(c, n) /\ (s[n].ok <=> WellUpTo(c, n))
  <2> HIDE DEF next
  <2>0. \A i \in 0 .. n : s[i] = next(s, i)
    BY <1>5
  <2> USE DEF next
  <2> DEFINE Right(i) == s[i].open = OpenAfter(c, i) /\ (s[i].ok <=> WellUpTo(c, i))
  <2>1. /\ s[0] = [open |-> {}, ok |-> TRUE]
        /\ \A i \in 1 .. n : s[i] = IF i \in HeadLines(c) THEN ParseTagLine(s[i - 1], line[i]) ELSE s[i - 1]
    <3>1. 0 \in 0 .. n /\ \A i \in 1 .. n : i \in 0 .. n /\ i # 0
      OBVIOUS
    <3>2. QED
      BY <2>0, <3>1, Zenon
  <2>2. Right(0)
    BY <1>3, <2>1
  <2>3. ASSUME NEW i \in 1 .. n, Right(i - 1) PROVE Right(i)
    <3> PICK y : y = s[i - 1]
      OBVIOUS
    <3>1. y.open = OpenAfter(c, i - 1) /\ (y.ok <=> WellUpTo(c, i - 1))
      BY <2>3
    <3>2. s[i] = IF i \in HeadLines(c) THEN ParseTagLine(y, line[i]) ELSE y
      BY <2>1
    <3>3. CASE i \notin HeadLines(c)
      BY <1>1, <3>1, <3>2, <3>3, LineOpensOrCloses
    <3>4. CASE i \in HeadLines(c) /\ line[i].kind = "start"
      <4> PICK open : open = y.open \cup {line[i].tag}
        OBVIOUS
      <4> PICK ok \in BOOLEAN : ok = (y.ok /\ line[i].tag \notin y.open)
        BY Zenon
      <4>0. s[i] = [open |-> open, ok |-> ok]
        BY <3>2, <3>4, Zenon DEF ParseTagLine
      <4>1. s[i].open = y.open \cup {line[i].tag} /\ (s[i].ok <=> y.ok /\ line[i].tag \notin y.open)
        <5>1. s[i].open = open /\ s[i].ok = ok
          BY <4>0
        <5>2. QED
          BY <5>1, Zenon
      <4>2. QED
        BY <1>1, <3>1, <3>4, <4>1, LineOpensOrCloses
    <3>5. CASE i \in HeadLines(c) /\ line[i].kind # "start"
      <4> PICK open : open = y.open \ {line[i].tag}
        OBVIOUS
      <4> PICK ok \in BOOLEAN : ok = (y.ok /\ line[i].tag \in y.open)
        BY Zenon
      <4>0. s[i] = [open |-> open, ok |-> ok]
        BY <3>2, <3>5, Zenon DEF ParseTagLine
      <4>1. s[i].open = y.open \ {line[i].tag} /\ (s[i].ok <=> y.ok /\ line[i].tag \in y.open)
        <5>1. s[i].open = open /\ s[i].ok = ok
          BY <4>0
        <5>2. QED
          BY <5>1, Zenon
      <4>2. QED
        BY <1>1, <3>1, <3>5, <4>1, LineOpensOrCloses
    <3>6. QED
      BY <3>3, <3>4, <3>5
  <2> HIDE DEF Right
  <2>4. \A i \in 0 .. n : Right(i)
    <3>1. SUFFICES ASSUME {i \in 0 .. n : ~Right(i)} # {} PROVE FALSE
      OBVIOUS
    <3>2. PICK i \in 0 .. n : ~Right(i) /\ \A j \in 0 .. n : ~Right(j) => i <= j
      <4>1. {i \in 0 .. n : ~Right(i)} \in SUBSET Nat
        OBVIOUS
      <4>2. QED
        BY <3>1, <4>1, SomeLeast
    <3>3. i # 0
      BY <2>2, <3>2
    <3>4. i \in 1 .. n /\ i - 1 \in 0 .. n /\ ~(i <= i - 1)
      BY <3>3
    <3>5. QED
      BY <2>3, <3>2, <3>4
  <2>5. Right(n)
    BY <2>4
  <2>6. QED
    BY <2>5 DEF Right
<1>6. PICK s : IsParse(s) /\ (ParseRegionTags(c) <=> s[n].ok /\ s[n].open = {})
  <2> PICK s : s = CHOOSE t : IsParse(t)
    OBVIOUS
  <2>1. IsParse(s)
    BY <1>4, Zenon
  <2>2. ParseRegionTags(c) <=> s[n].ok /\ s[n].open = {}
    BY <1>1 DEF ParseRegionTags
  <2> HIDE DEF IsParse
  <2>3. QED
    BY <2>1, <2>2
<1>7. QED
  BY <1>5, <1>6

\* Places H with a tag each, those of S starts.  That each line continues the last one of its
\* tag and none is left open is that starts are followed by ends and ends by starts.
FollowsStart(H, S, tag, i) ==
  \E j \in S : tag[j] = tag[i] /\ j < i /\ \A k \in H : tag[k] = tag[i] => k <= j \/ i <= k
HasEnd(H, S, tag, i) ==
  \E j \in H : /\ j \notin S /\ tag[j] = tag[i] /\ i < j
               /\ \A k \in H : tag[k] = tag[i] => k <= i \/ j <= k
HasLater(H, S, tag, i) == \E k \in H : tag[k] = tag[i] /\ i < k

\* That ends alone follow starts and starts are not last is that each has its match next to it.
LEMMA NestingIsMatching ==
  ASSUME NEW n \in Nat, NEW H \in SUBSET (1 .. n), NEW tag, NEW S \in SUBSET H
  PROVE  (\A i \in H : i \notin S <=> FollowsStart(H, S, tag, i)) /\ (\A i \in S : HasLater(H, S, tag, i))
         <=>
         (\A i \in H : i \notin S => FollowsStart(H, S, tag, i)) /\ (\A i \in S : HasEnd(H, S, tag, i))
<1> DEFINE Led(i)   == FollowsStart(H, S, tag, i)
           After(i)  == HasEnd(H, S, tag, i)
<1>1. \A i \in H : i \in Nat
  OBVIOUS
<1>2. ASSUME NEW i \in S, HasLater(H, S, tag, i), \A j \in H : j \notin S <=> Led(j)
      PROVE  After(i)
  <2> DEFINE Later == {k \in H : tag[k] = tag[i] /\ i < k}
  <2>1. Later \in SUBSET Nat /\ Later # {}
    BY <1>1, <1>2 DEF HasLater
  <2>2. PICK j \in Later : \A k \in Later : j <= k
    <3> HIDE DEF Later
    <3>1. QED
      BY <2>1, SomeLeast
  <2>3. j \in H /\ tag[j] = tag[i] /\ i < j
    OBVIOUS
  <2>4. \A k \in H : tag[k] = tag[i] => k <= i \/ j <= k
    <3>1. ASSUME NEW k \in H, tag[k] = tag[i], ~(k <= i) PROVE j <= k
      <4>1. i \in Nat /\ k \in Nat
        BY <1>1
      <4>2. k \in Later
        BY <3>1, <4>1
      <4>3. QED
        BY <2>2, <4>2
    <3>2. QED
      BY <3>1
  <2>5. Led(j)
    BY <2>3, <2>4 DEF FollowsStart
  <2>6. QED
    BY <1>2, <2>3, <2>4, <2>5 DEF HasEnd
<1>3. ASSUME NEW i \in S, Led(i), \A j \in S : After(j) PROVE FALSE
  <2>1. PICK j \in S : tag[j] = tag[i] /\ j < i /\ \A k \in H : tag[k] = tag[i] => k <= j \/ i <= k
    BY <1>3 DEF FollowsStart
  <2>2. PICK m \in H : /\ m \notin S /\ tag[m] = tag[j] /\ j < m
                       /\ \A k \in H : tag[k] = tag[j] => k <= j \/ m <= k
    BY <1>3 DEF HasEnd
  <2>3. i \in H /\ i \in Nat /\ j \in Nat /\ m \in Nat
    BY <1>1
  <2>4. (m <= j \/ i <= m) /\ (i <= j \/ m <= i)
    BY <2>1, <2>2, <2>3
  <2>5. m = i
    BY <2>1, <2>2, <2>3, <2>4
  <2>6. QED
    BY <2>2, <2>5
<1>4. ASSUME NEW i \in S, After(i) PROVE HasLater(H, S, tag, i)
  BY <1>4 DEF HasEnd, HasLater
<1> HIDE DEF Led, After
<1>5. S \subseteq H
  OBVIOUS
<1>6. (\A i \in H : i \notin S <=> Led(i)) /\ (\A i \in S : HasLater(H, S, tag, i))
      <=> (\A i \in H : i \notin S => Led(i)) /\ (\A i \in S : After(i))
  BY <1>2, <1>3, <1>4, <1>5
<1>7. QED
  BY <1>6 DEF Led, After

(* The parser finds the region tags of a file mismatched exactly when they are: when      *)
(* the next line of the tag after some start is no end, or the last one before an end no  *)
(* start.  About parseRegionTags() of region-tag-parser.ts.                               *)
THEOREM ParserFindsMismatches ==
  ASSUME NEW c, c.lines \in Seq(TagLine)
  PROVE  ParseRegionTags(c) <=> TagsMatch(c)
<1>1. PICK n : n \in Nat /\ n = Len(c.lines) /\ DOMAIN c.lines = 1 .. n
  OBVIOUS
<1>2. PICK H : H = HeadLines(c) /\ H \in SUBSET (1 .. n)
  BY <1>1 DEF HeadLines
<1>3. PICK tag : tag = [j \in 1 .. n |-> c.lines[j].tag]
  OBVIOUS
<1>4. PICK S : S = {j \in H : c.lines[j].kind = "start"}
  OBVIOUS
<1>5. \A j \in H : /\ j \in Nat /\ 1 <= j /\ j <= n
                   /\ c.lines[j].tag = tag[j] /\ tag[j] \in Tag
                   /\ c.lines[j].kind = "start" <=> j \in S
                   /\ c.lines[j].kind = "end" <=> j \notin S
  <2>1. \A j \in 1 .. n : c.lines[j] \in TagLine
    BY <1>1
  <2>2. \A j \in 1 .. n : c.lines[j].tag \in Tag /\ c.lines[j].kind \in {"start", "end"}
    BY <2>1 DEF TagLine
  <2>3. QED
    BY <1>2, <1>3, <1>4, <2>2
<1>6. ASSUME NEW i \in H
      PROVE  c.lines[i].tag \in OpenAfter(c, i - 1) <=>
               FollowsStart(H, S, tag, i)
  <2>1. \A k \in H : (k <= i - 1 <=> k < i) /\ (i - 1 < k <=> i <= k)
    BY <1>5
  <2>2. c.lines[i].tag \in OpenAfter(c, i - 1) <=>
          \E j \in H : /\ j <= i - 1 /\ c.lines[j].tag = c.lines[i].tag /\ c.lines[j].kind = "start"
                       /\ \A k \in H : c.lines[k].tag = c.lines[i].tag => k <= j \/ i - 1 < k
    BY <1>2, <1>5 DEF OpenAfter
  <2>3. QED
    BY <1>4, <1>5, <2>1, <2>2 DEF FollowsStart
<1>7. OpenAfter(c, n) = {} <=> \A i \in S : HasLater(H, S, tag, i)
  <2>1. \A j, k \in H : j <= n /\ ~(n < k) /\ (k <= j <=> ~(j < k))
    BY <1>1, <1>5
  <2>2. \A t : t \in OpenAfter(c, n) <=>
          t \in Tag /\ \E j \in H : /\ j <= n /\ c.lines[j].tag = t /\ c.lines[j].kind = "start"
                                    /\ \A k \in H : c.lines[k].tag = t => k <= j \/ n < k
    BY <1>2 DEF OpenAfter
  <2>3. \A t : t \in OpenAfter(c, n) <=> \E j \in S : tag[j] = t /\ \A k \in H : tag[k] = t => ~(j < k)
    BY <1>4, <1>5, <2>1, <2>2
  <2>4. QED
    BY <2>3 DEF HasLater
<1>8. WellUpTo(c, n) <=> \A i \in H : i \notin S <=> c.lines[i].tag \in OpenAfter(c, i - 1)
  BY <1>2, <1>5 DEF WellUpTo
<1>9. TagsMatch(c) <=>
        (\A i \in H : i \notin S => FollowsStart(H, S, tag, i)) /\ (\A i \in S : HasEnd(H, S, tag, i))
  <2>1. TagsMatch(c) <=>
          \A i \in H :
            LET own == {j \in H : c.lines[j].tag = c.lines[i].tag}
            IN IF c.lines[i].kind = "start"
               THEN \E j \in own : i < j /\ c.lines[j].kind = "end" /\ \A k \in own : k <= i \/ j <= k
               ELSE \E j \in own : j < i /\ c.lines[j].kind = "start" /\ \A k \in own : k <= j \/ i <= k
    BY <1>2, Zenon DEF TagsMatch
  <2>2. ASSUME NEW i \in H
        PROVE  \A j : j \in {k \in H : c.lines[k].tag = c.lines[i].tag} <=> j \in H /\ tag[j] = tag[i]
    BY <1>5
  <2>3. S \subseteq H
    BY <1>4
  <2>4. QED
    BY <1>5, <2>1, <2>2, <2>3 DEF FollowsStart, HasEnd
<1>10. QED
  <2>1. ParseRegionTags(c) <=> WellUpTo(c, n) /\ OpenAfter(c, n) = {}
    BY <1>1, ParserStates
  <2>2. S \in SUBSET H
    BY <1>4
  <2>3. n \in Nat /\ H \in SUBSET (1 .. n)
    BY <1>1, <1>2
  <2>4. TagsMatch(c) <=>
          (\A i \in H : i \notin S <=> FollowsStart(H, S, tag, i)) /\ (\A i \in S : HasLater(H, S, tag, i))
    BY <1>9, <2>2, <2>3, NestingIsMatching
  <2>5. QED
    BY <1>6, <1>7, <1>8, <2>1, <2>4

----------------------------------------------------------------------------
(* snippet-bot: the checks on the head.                                     *)

\* What the checks on the head are to say, which of them are asked for, and what is wrong
\* with the head under some labels.
FittingNow == [n \in SnippetChecks |-> FittingFor(n, pull.content)]
AskedNow   == {n \in SnippetChecks : IsAskedFor(n)}
WrongNow   == [labels \in SUBSET PullLabel |-> ViolationsOf(pull.content, pull.content, labels)]

\* A handler whose payload is of the head has read what is in the head.
AfterScan == {"list", "create", "update", "post"}
ScansHead(x) ==
  x.event.head = pull.head =>
    /\ x.at \in AfterDiff => x.read = pull.content
    /\ x.at \in AfterScan => x.bad = WrongNow[x.event.labels]
\* An event that has the head scanned, and a handler that is yet to post a check on it.
HeadScan(e) == Scans(e) /\ e.head = pull.head
HeadScanDue == \E e \in events : HeadScan(e)
PlacesOf(n) ==
  CASE n = "schema"   -> {"check"}
    [] n = "mismatch" -> {"check", "config", "diff", "file"}
    [] n \notin {"schema", "mismatch"} -> {"check", "config", "diff", "file"} \cup AfterScan
ToBePosted(n) ==
  \E v \in Visitor : visit[v] # Free /\ HeadScan(visit[v].event) /\ visit[v].at \in PlacesOf(n)

\* A check on the head is as it is to be or not there; who is to post it is on the way.
HeadIsScanned ==
  /\ checks \in [CheckName -> Conclusion]
  /\ \A e \in events : e.head <= pull.head
  /\ \A v \in Visitor : visit[v] # Free => visit[v].event.head <= pull.head /\ ScansHead(visit[v])
  /\ \A n \in AskedNow : checks[n] \in {"none"} \cup FittingNow[n]
  /\ ~missed /\ pull.open /\ ~pull.draft =>
       \A n \in AskedNow : checks[n] \in FittingNow[n] \/ HeadScanDue \/ ToBePosted(n)

\* What is to be said does not change with the state of the handlers.
LEMMA FittingKept ==
  ASSUME UNCHANGED snippetConfig, pull'.content = pull.content
  PROVE  FittingNow' = FittingNow /\ AskedNow' = AskedNow /\ WrongNow' = WrongNow
<1>1. /\ SnippetFound' = SnippetFound /\ AlwaysChecks' = AlwaysChecks
      /\ Aggregates' = Aggregates /\ IgnoresFile' = IgnoresFile
  BY DEF SnippetFound, AlwaysChecks, Aggregates, IgnoresFile, Says
<1>2. PICK c : c = pull.content /\ c = pull'.content
  OBVIOUS
<1>3. IsScannedNow(c)' = IsScannedNow(c)
  BY <1>1 DEF IsScannedNow
<1>4. ASSUME NEW labels PROVE ViolationsOf(c, c, labels)' = ViolationsOf(c, c, labels)
  BY <1>1, <1>3 DEF ViolationsOf
<1>5. Wrong(c)' = Wrong(c) /\ MayBeWrong(c)' = MayBeWrong(c) /\ MismatchDue(c, c)' = MismatchDue(c, c)
  BY <1>1, <1>3, <1>4 DEF Wrong, MayBeWrong, MismatchDue
<1>6. ASSUME NEW n PROVE FittingFor(n, c)' = FittingFor(n, c)
  BY <1>1, <1>5 DEF FittingFor
<1>7. FittingNow' = FittingNow
  BY <1>2, <1>6 DEF FittingNow
<1>8. AskedNow' = AskedNow
  BY <1>1 DEF AskedNow, IsAskedFor
<1>9. WrongNow' = WrongNow
  BY <1>2, <1>4 DEF WrongNow
<1>10. QED
  BY <1>7, <1>8, <1>9
\* Labels decide on the prefixes alone.
LEMMA WrongUnderLabels ==
  ASSUME NEW c \in Content, NEW labels
  PROVE  LET bad == ViolationsOf(c, c, labels)
         IN /\ bad \in SUBSET {"mismatch", "prefix", "removal", "format"}
            /\ Wrong(c) \subseteq bad /\ bad \subseteq MayBeWrong(c)
            /\ \A n \in {"mismatch", "removal", "format"} : n \in bad <=> n \in Wrong(c)
            /\ IsScannedNow(c) \/ "mismatch" \notin bad
<1>1. ParseRegionTags(c) <=> TagsMatch(c)
  BY SnippetAssumption, ParserFindsMismatches
<1>2. \A n : n \in Wrong(c) <=>
        \/ n = "mismatch" /\ IsScannedNow(c) /\ ~ParseRegionTags(c)
        \/ n \in {"removal", "format"} /\ n \in ViolationsOf(c, c, {NoPrefix})
  BY <1>1 DEF Wrong, ViolationsOf
<1>3. ASSUME NEW ls
      PROVE  /\ ViolationsOf(c, c, ls) \in SUBSET {"mismatch", "prefix", "removal", "format"}
             /\ "mismatch" \in ViolationsOf(c, c, ls) <=> IsScannedNow(c) /\ ~ParseRegionTags(c)
             /\ \A n \in {"removal", "format"} : n \in ViolationsOf(c, c, ls) <=> n \in ViolationsOf(c, c, {})
             /\ "prefix" \in ViolationsOf(c, c, ls) => "prefix" \in ViolationsOf(c, c, {})
  BY DEF ViolationsOf
<1>4. QED
  BY <1>2, <1>3 DEF MayBeWrong

\* Without changes nothing is wrong but tags that were so before.
LEMMA UnchangedIsNotWrong ==
  ASSUME NEW c \in Content, ~HasChanges(c)
  PROVE  Wrong(c) \subseteq {"mismatch"} /\ MayBeWrong(c) \subseteq {"mismatch"}
<1>1. AddedTags(c) = {} /\ DeletedTags(c) = {}
  BY DEF HasChanges
<1>2. PrefixViolations(c) = {} /\ FormatViolations(c) = {} /\ \A ts : RemovalViolations(c, ts) = {}
  BY <1>1 DEF PrefixViolations, FormatViolations, RemovalViolations
<1>3. \A labels : ViolationsOf(c, c, labels) \subseteq {"mismatch"}
  BY <1>2 DEF ViolationsOf
<1>4. QED
  BY <1>3 DEF Wrong, MayBeWrong

\* A handler goes on, ends or fails.
LEMMA HeadScanMoves ==
  ASSUME SnippetTyped, SnippetTyped', HeadIsScanned, NEW v \in Visitor, visit[v] # Free,
         NEW x \in SnippetVisit \cup {Free}, visit' = [visit EXCEPT ![v] = x],
         pull'.head = pull.head, pull'.content = pull.content, pull'.open = pull.open, pull'.draft = pull.draft,
         UNCHANGED snippetConfig, events \subseteq events', \A e \in events' : e.head <= pull.head,
         missed => missed', checks' \in [CheckName -> Conclusion],
         x # Free => x.event.head <= pull.head /\ ScansHead(x),
         \A n \in AskedNow : checks'[n] = checks[n] \/ checks'[n] \in FittingNow[n],
         ~missed' /\ HeadScan(visit[v].event) =>
           \A n \in AskedNow :
             visit[v].at \in PlacesOf(n) =>
               \/ checks'[n] \in FittingNow[n] \/ HeadScanDue'
               \/ x # Free /\ HeadScan(x.event) /\ x.at \in PlacesOf(n)
  PROVE  HeadIsScanned'
<1>1. visit'[v] = x /\ \A w \in Visitor \ {v} : visit'[w] = visit[w]
  BY DEF SnippetTyped, EventsTyped
<1>2. FittingNow' = FittingNow /\ AskedNow' = AskedNow /\ WrongNow' = WrongNow
  BY FittingKept
<1>3. ASSUME NEW w \in Visitor, visit'[w] # Free PROVE visit'[w].event.head <= pull'.head /\ ScansHead(visit[w])'
  <2>1. visit'[w].event.head <= pull.head /\ ScansHead(visit'[w])
    BY <1>1, <1>3 DEF HeadIsScanned
  <2>2. QED
    BY <1>2, <2>1 DEF ScansHead
<1>4. HeadScanDue => HeadScanDue'
  BY DEF HeadScanDue, HeadScan
<1>5. ASSUME NEW n \in AskedNow
      PROVE  checks'[n] \in {"none"} \cup FittingNow'[n]
  BY <1>2, <1>5 DEF HeadIsScanned
<1>6. ASSUME NEW n \in AskedNow, ~missed', pull'.open, ~pull'.draft
      PROVE  checks'[n] \in FittingNow'[n] \/ HeadScanDue' \/ ToBePosted(n)'
  <2>1. checks[n] \in FittingNow[n] \/ HeadScanDue \/ ToBePosted(n)
    BY <1>6 DEF HeadIsScanned
  <2>2. CASE checks[n] \in FittingNow[n]
    BY <1>2, <2>2
  <2>3. CASE HeadScanDue
    BY <1>4, <2>3
  <2>4. CASE ToBePosted(n)
    <3>1. PICK w \in Visitor : visit[w] # Free /\ HeadScan(visit[w].event) /\ visit[w].at \in PlacesOf(n)
      BY <2>4 DEF ToBePosted
    <3>2. CASE w # v
      <4>1. visit'[w] = visit[w]
        BY <1>1, <3>2
      <4>2. QED
        BY <3>1, <4>1 DEF ToBePosted, HeadScan
    <3>3. CASE w = v
      <4>1. \/ checks'[n] \in FittingNow[n] \/ HeadScanDue'
            \/ x # Free /\ HeadScan(x.event) /\ x.at \in PlacesOf(n)
        BY <1>6, <3>1, <3>3
      <4>2. x # Free /\ HeadScan(x.event) /\ x.at \in PlacesOf(n) => ToBePosted(n)'
        BY <1>1 DEF ToBePosted, HeadScan
      <4>3. QED
        BY <1>2, <4>1, <4>2
    <3>4. QED
      BY <3>2, <3>3
  <2>5. QED
    BY <2>1, <2>2, <2>3, <2>4
<1>7. QED
  BY <1>2, <1>3, <1>5, <1>6 DEF HeadIsScanned

\* An event is taken, or left.
LEMMA HeadScanTaken ==
  ASSUME SnippetInv, HeadIsScanned, NEW v \in Visitor, NEW e \in events, SnippetTakes(v, e)
  PROVE  HeadIsScanned'
<1>1. /\ visit \in [Visitor -> SnippetVisit \cup {Free}] /\ visit[v] = Free /\ e \in EventOf /\ e.head <= pull.head
      /\ \A x \in SnippetVisit : x # Free
  <2>1. EventsTyped(SnippetPlaces, Content \cup {{}}, SUBSET {"mismatch", "prefix", "removal", "format"}) /\ "free" \notin SnippetPlaces
    BY DEF SnippetInv, SnippetTyped, SnippetPlaces
  <2>2. visit \in [Visitor -> SnippetVisit \cup {Free}] /\ e \in EventOf
    BY <2>1 DEF EventsTyped, SnippetVisit
  <2>3. visit[v] = Free /\ e.head <= pull.head
    BY DEF SnippetTakes, TakeEvent, IgnoreEvent, HeadIsScanned
  <2>4. QED
    BY <2>1, <2>2, <2>3, AtWork DEF SnippetVisit
<1>2. UNCHANGED <<pull, checks, acts, missed, snippetConfig>> /\ events' = events \ {e}
  BY DEF SnippetTakes, TakeEvent, IgnoreEvent
<1>3. FittingNow' = FittingNow /\ AskedNow' = AskedNow /\ WrongNow' = WrongNow
  BY <1>2, FittingKept
<1>4. ASSUME NEW a \in {"check", "config"}, TakeEvent(v, e, a), a = "check" \/ ~Scans(e) PROVE HeadIsScanned'
  <2>1. PICK none \in SUBSET {"mismatch", "prefix", "removal", "format"} : none = {}
    OBVIOUS
  <2>2. PICK x : x = [at |-> a, event |-> e, read |-> {}, bad |-> none]
    OBVIOUS
  <2>3. x \in SnippetVisit /\ x.at = a /\ x.event = e
    BY <1>1, <2>2 DEF SnippetVisit, VisitOf, SnippetPlaces
  <2>4. visit' = [visit EXCEPT ![v] = x]
    BY <1>4, <2>1, <2>2 DEF TakeEvent, Visits
  <2>5. visit'[v] = x /\ x # Free /\ \A w \in Visitor \ {v} : visit'[w] = visit[w]
    BY <1>1, <2>3, <2>4
  <2>6. ASSUME NEW w \in Visitor, visit'[w] # Free PROVE visit'[w].event.head <= pull'.head /\ ScansHead(visit[w])'
    <3>1. CASE w = v
      BY <1>1, <1>2, <2>3, <2>5, <3>1 DEF ScansHead, AfterDiff, AfterScan
    <3>2. CASE w # v
      BY <1>2, <1>3, <2>5, <2>6, <3>2 DEF HeadIsScanned, ScansHead
    <3>3. QED
      BY <3>1, <3>2
  <2>7. ASSUME NEW n, ToBePosted(n) PROVE ToBePosted(n)'
    <3>1. PICK w \in Visitor : visit[w] # Free /\ HeadScan(visit[w].event) /\ visit[w].at \in PlacesOf(n)
      BY <2>7 DEF ToBePosted
    <3>2. visit'[w] = visit[w]
      BY <1>1, <2>5, <3>1
    <3>3. QED
      BY <1>2, <3>1, <3>2 DEF ToBePosted, HeadScan
  <2>8. ASSUME NEW n \in AskedNow, HeadScanDue PROVE HeadScanDue' \/ ToBePosted(n)'
    <3>1. PICK f \in events : HeadScan(f)
      BY <2>8 DEF HeadScanDue
    <3>2. CASE f # e
      BY <1>2, <3>1, <3>2 DEF HeadScanDue, HeadScan
    <3>3. CASE f = e
      <4>1. x.at \in PlacesOf(n) /\ HeadScan(x.event)
        BY <1>4, <2>3, <3>1, <3>3 DEF HeadScan, PlacesOf
      <4>2. QED
        BY <1>2, <2>5, <4>1 DEF ToBePosted, HeadScan
    <3>4. QED
      BY <3>2, <3>3
  <2>9. \A f \in events' : f.head <= pull'.head
    BY <1>2 DEF HeadIsScanned
  <2>10. ~missed' /\ pull'.open /\ ~pull'.draft =>
           \A n \in AskedNow : checks'[n] \in FittingNow[n] \/ HeadScanDue' \/ ToBePosted(n)'
    BY <1>2, <2>7, <2>8 DEF HeadIsScanned
  <2>11. QED
    BY <1>2, <1>3, <2>6, <2>9, <2>10 DEF HeadIsScanned
<1>5. ASSUME IgnoreEvent(v, e), ~Scans(e) PROVE HeadIsScanned'
  <2>1. UNCHANGED visit
    BY <1>5 DEF IgnoreEvent
  <2>2. HeadScanDue => HeadScanDue'
    BY <1>2, <1>5 DEF HeadScanDue, HeadScan
  <2>3. \A n : ToBePosted(n) => ToBePosted(n)'
    BY <1>2, <2>1 DEF ToBePosted, HeadScan
  <2>4. \A w \in Visitor : visit'[w] # Free => visit'[w].event.head <= pull'.head /\ ScansHead(visit[w])'
    BY <1>2, <1>3, <2>1 DEF HeadIsScanned, ScansHead
  <2>5. QED
    BY <1>2, <1>3, <2>2, <2>3, <2>4 DEF HeadIsScanned
<1>6. e.kind \in Scanned /\ e.open /\ ~e.draft <=> Scans(e)
  BY DEF Scans
<1>7. e.kind \in {"labeled", "comment"} => ~Scans(e)
  BY DEF Scans, Scanned
<1>8. QED
  BY <1>4, <1>5, <1>6, <1>7 DEF SnippetTakes

\* What a scan of the head finds is what the checks on it are to say.
LEMMA FindingsFit ==
  ASSUME NEW c \in Content, NEW labels, NEW bad, bad = ViolationsOf(c, c, labels)
  PROVE  /\ (IF bad # {} THEN "failure" ELSE "success") \in FittingFor("all", c)
         /\ \A n \in {"prefix", "removal", "format"} :
              /\ n \in bad \/ AlwaysChecks => (IF n \in bad THEN "failure" ELSE "success") \in FittingFor(n, c)
              /\ ~(n \in bad \/ AlwaysChecks) => "none" \in FittingFor(n, c)
              /\ ~HasChanges(c) /\ ~AlwaysChecks => "none" \in FittingFor(n, c)
         /\ MismatchDue(c, c) => (IF "mismatch" \in bad THEN "failure" ELSE "success") \in FittingFor("mismatch", c)
         /\ ~MismatchDue(c, c) => "none" \in FittingFor("mismatch", c)
<1>1. /\ bad \in SUBSET {"mismatch", "prefix", "removal", "format"}
      /\ Wrong(c) \subseteq bad /\ bad \subseteq MayBeWrong(c)
      /\ \A n \in {"mismatch", "removal", "format"} : n \in bad <=> n \in Wrong(c)
  BY WrongUnderLabels
<1>2. (IF bad # {} THEN "failure" ELSE "success") \in FittingFor("all", c)
  BY <1>1 DEF FittingFor, Verdicts, Conclusion
<1>3. /\ MismatchDue(c, c) => (IF "mismatch" \in bad THEN "failure" ELSE "success") \in FittingFor("mismatch", c)
      /\ ~MismatchDue(c, c) => "none" \in FittingFor("mismatch", c)
  BY <1>1 DEF FittingFor, Verdicts
<1>4. ASSUME NEW n \in {"prefix", "removal", "format"}
      PROVE  /\ n \in bad \/ AlwaysChecks => (IF n \in bad THEN "failure" ELSE "success") \in FittingFor(n, c)
             /\ ~(n \in bad \/ AlwaysChecks) => "none" \in FittingFor(n, c)
  BY <1>1 DEF FittingFor, Verdicts, Conclusion
<1>5. ASSUME NEW n \in {"prefix", "removal", "format"}, ~HasChanges(c), ~AlwaysChecks
      PROVE  "none" \in FittingFor(n, c)
  <2>1. n \notin Wrong(c) /\ n \notin MayBeWrong(c)
    BY <1>5, UnchangedIsNotWrong
  <2>2. QED
    BY <1>5, <2>1 DEF FittingFor, Verdicts
<1>6. QED
  BY <1>2, <1>3, <1>4, <1>5

\* The file of the head is scanned, and the mismatches are posted.
LEMMA HeadScanReadsFile ==
  ASSUME SnippetInv, SnippetInv', HeadIsScanned, NEW v \in Visitor, ScanFile(v)
  PROVE  HeadIsScanned'
<1>0. PICK r : r = visit[v]
  OBVIOUS
<1>1. /\ SnippetTyped /\ SnippetTyped' /\ checks \in [CheckName -> Conclusion] /\ \A e \in events : e.head <= pull.head
      /\ r # Free /\ r.at = "file" /\ r \in SnippetVisit /\ r.event.head <= pull.head /\ ScansHead(r)
      /\ UNCHANGED <<pull, events, missed, snippetConfig>>
      /\ \A y \in SnippetVisit : y # Free
  <2>1. SnippetTyped /\ EventsTyped(SnippetPlaces, Content \cup {{}}, SUBSET {"mismatch", "prefix", "removal", "format"})
        /\ "free" \notin SnippetPlaces
    BY DEF SnippetInv, SnippetTyped, SnippetPlaces
  <2>2. r # Free /\ r.at = "file" /\ UNCHANGED <<pull, events, missed, snippetConfig>>
    BY <1>0 DEF ScanFile, VisitAt, Inside
  <2>3. QED
    BY <1>0, <2>1, <2>2, AtWork DEF SnippetVisit, SnippetInv, HeadIsScanned
<1>2. PICK c \in Content : c = pull.content
  BY <1>1 DEF SnippetTyped, EventsTyped, PullRequestOf
<1>3. PICK bad \in SUBSET {"mismatch", "prefix", "removal", "format"} : bad = ViolationsOf(r.read, c, r.event.labels)
  BY DEF ViolationsOf
<1>4. PICK x : x = [r EXCEPT !.at = "list", !.bad = bad]
  OBVIOUS
<1>5. x \in SnippetVisit /\ x.at = "list" /\ x.event = r.event /\ x.read = r.read /\ x.bad = bad /\ r.event.labels \in SUBSET PullLabel
  BY <1>1, <1>4 DEF SnippetVisit, VisitOf, SnippetPlaces, EventOf
<1>6. PICK found : found = IF MismatchDue(r.read, c) /\ ~Aggregates THEN {MismatchConclusion(bad)} ELSE {}
  OBVIOUS
<1>7. \/ IsScannedNow(r.read) /\ IsGone(r.read, c) /\ visit' = [visit EXCEPT ![v] = Free] /\ UNCHANGED checks
      \/ /\ Posted(r.event, found)
         /\ \/ EndsEarly(v) /\ visit' = [visit EXCEPT ![v] = Free]
            \/ ~EndsEarly(v) /\ visit' = [visit EXCEPT ![v] = x]
  <2>1. \/ IsScannedNow(r.read) /\ IsGone(r.read, c) /\ Leave(v) /\ UNCHANGED checks
        \/ /\ Posted(r.event, found)
           /\ IF EndsEarly(v) THEN Leave(v) ELSE Visits(v, x)
    BY <1>0, <1>2, <1>3, <1>4, <1>6 DEF ScanFile
  <2>2. QED
    BY <2>1 DEF Leave, Visits
<1>8. CASE r.event.head # pull.head
  <2>1. UNCHANGED checks
    BY <1>7, <1>8 DEF Posted
  <2>2. ScansHead(x) /\ ~HeadScan(r.event)
    BY <1>5, <1>8 DEF ScansHead, HeadScan
  <2>3. visit' = [visit EXCEPT ![v] = Free] \/ visit' = [visit EXCEPT ![v] = x]
    BY <1>7
  <2>4. QED
    BY <1>0, <1>1, <1>5, <2>1, <2>2, <2>3, HeadScanMoves
<1>9. CASE r.event.head = pull.head
  <2>1. r.read = c
    BY <1>1, <1>2, <1>9 DEF ScansHead, AfterDiff
  <2>2. Posted(r.event, found) /\ (\/ EndsEarly(v) /\ visit' = [visit EXCEPT ![v] = Free]
                                   \/ ~EndsEarly(v) /\ visit' = [visit EXCEPT ![v] = x])
    BY <1>7, <2>1, ScannedFileIsThere
  <2>3. bad = ViolationsOf(c, c, r.event.labels)
    BY <1>3, <2>1
  <2>4. ScansHead(x)
    BY <1>1, <1>2, <1>5, <2>1, <2>3 DEF ScansHead, WrongNow
  <2>5. PICK was \in Conclusion : was = IF "mismatch" \in bad THEN "failure" ELSE "success"
    BY DEF Conclusion
  <2>6. found = IF MismatchDue(c, c) /\ ~Aggregates THEN {<<"mismatch", was>>} ELSE {}
    BY <1>6, <2>1, <2>5 DEF MismatchConclusion
  <2>7. /\ checks' \in [CheckName -> Conclusion] /\ \A n \in CheckName \ {"mismatch"} : checks'[n] = checks[n]
        /\ checks'["mismatch"] = IF found # {} THEN was ELSE checks["mismatch"]
    <3>1. "mismatch" \in CheckName /\ (found = {<<"mismatch", was>>} \/ found = {})
      BY <2>6, SnippetAssumption DEF SnippetChecks
    <3>2. QED
      BY <1>1, <1>9, <2>2, <3>1, PostedChecks
  <2>8. \A n \in AskedNow : n \in CheckName /\ FittingNow[n] = FittingFor(n, c) /\ checks[n] \in {"none"} \cup FittingNow[n]
    BY <1>2, SnippetAssumption DEF AskedNow, FittingNow, HeadIsScanned
  <2>9. ASSUME "mismatch" \in AskedNow PROVE checks'["mismatch"] \in FittingNow["mismatch"]
    <3>1. ~Aggregates
      BY <2>9 DEF AskedNow, IsAskedFor
    <3>2. CASE MismatchDue(c, c)
      <4>1. checks'["mismatch"] = was
        BY <2>6, <2>7, <3>1, <3>2
      <4>2. was \in FittingFor("mismatch", c)
        BY <2>3, <2>5, <3>2, FindingsFit
      <4>3. QED
        BY <2>8, <2>9, <4>1, <4>2
    <3>3. CASE ~MismatchDue(c, c)
      <4>1. checks'["mismatch"] = checks["mismatch"]
        BY <2>6, <2>7, <3>3
      <4>2. "none" \in FittingFor("mismatch", c)
        BY <2>3, <3>3, FindingsFit
      <4>3. QED
        BY <2>8, <2>9, <4>1, <4>2
    <3>4. QED
      BY <3>2, <3>3
  <2>10. \A n \in AskedNow : checks'[n] = checks[n] \/ checks'[n] \in FittingNow[n]
    BY <2>7, <2>8, <2>9
  <2>11. CASE EndsEarly(v)
    <3>1. ~HasChanges(c) /\ ~AlwaysChecks /\ ~Aggregates
      BY <1>0, <2>1, <2>11 DEF EndsEarly
    <3>2. ASSUME NEW n \in AskedNow, r.at \in PlacesOf(n) PROVE checks'[n] \in FittingNow[n]
      <4>1. n \in {"prefix", "removal", "format", "mismatch"}
        BY <1>1, <3>1, <3>2 DEF AskedNow, IsAskedFor, PlacesOf, SnippetChecks
      <4>2. CASE n = "mismatch"
        BY <2>9, <3>2, <4>2
      <4>3. CASE n \in {"prefix", "removal", "format"}
        <5>1. "none" \in FittingFor(n, c)
          BY <2>3, <3>1, <4>3, FindingsFit
        <5>2. checks'[n] = checks[n]
          BY <2>7, <2>8, <3>2, <4>3
        <5>3. QED
          BY <2>8, <3>2, <5>1, <5>2
      <4>4. QED
        BY <4>1, <4>2, <4>3
    <3>3. visit' = [visit EXCEPT ![v] = Free]
      BY <2>2, <2>11
    <3>4. QED
      BY <1>0, <1>1, <2>7, <2>10, <3>2, <3>3, HeadScanMoves
  <2>12. CASE ~EndsEarly(v)
    <3>1. visit' = [visit EXCEPT ![v] = x]
      BY <2>2, <2>12
    <3>2. ASSUME NEW n \in AskedNow, r.at \in PlacesOf(n) PROVE checks'[n] \in FittingNow[n] \/ x.at \in PlacesOf(n)
      <4>1. CASE n = "mismatch"
        BY <2>9, <3>2, <4>1
      <4>2. CASE n # "mismatch"
        BY <1>1, <1>5, <3>2, <4>2 DEF PlacesOf, AfterScan
      <4>3. QED
        BY <4>1, <4>2
    <3>3. QED
      BY <1>0, <1>1, <1>5, <2>4, <2>7, <2>10, <3>1, <3>2, HeadScanMoves
  <2>13. QED
    BY <2>11, <2>12
<1>10. QED
  BY <1>8, <1>9

\* What was found in the head is posted.
LEMMA HeadScanPosts ==
  ASSUME SnippetInv, SnippetInv', HeadIsScanned, NEW v \in Visitor, PostChecks(v)
  PROVE  HeadIsScanned'
<1>0. PICK r : r = visit[v]
  OBVIOUS
<1>1. /\ SnippetTyped /\ SnippetTyped' /\ checks \in [CheckName -> Conclusion] /\ \A e \in events : e.head <= pull.head
      /\ r # Free /\ r.at = "post" /\ r \in SnippetVisit /\ r.event.head <= pull.head /\ ScansHead(r)
      /\ UNCHANGED <<pull, events, missed, snippetConfig>>
      /\ visit' = [visit EXCEPT ![v] = Free]
  <2>1. SnippetTyped /\ EventsTyped(SnippetPlaces, Content \cup {{}}, SUBSET {"mismatch", "prefix", "removal", "format"})
        /\ "free" \notin SnippetPlaces
    BY DEF SnippetInv, SnippetTyped, SnippetPlaces
  <2>2. r # Free /\ r.at = "post" /\ UNCHANGED <<pull, events, missed, snippetConfig>> /\ visit' = [visit EXCEPT ![v] = Free]
    BY <1>0 DEF PostChecks, VisitAt, Inside, Leave, Visits
  <2>3. QED
    BY <1>0, <2>1, <2>2, AtWork DEF SnippetVisit, SnippetInv, HeadIsScanned
<1>2. PICK c \in Content : c = pull.content
  BY <1>1 DEF SnippetTyped, EventsTyped, PullRequestOf
<1>3. PICK bad : bad = r.bad
  OBVIOUS
<1>4. PICK names : names = {m \in {"prefix", "removal", "format"} : AlwaysChecks \/ m \in bad}
  OBVIOUS
<1>5. PICK f : f = [n \in names |-> IF n \in bad THEN "failure" ELSE "success"]
  OBVIOUS
<1>6. PICK whole \in Conclusion : whole = IF bad # {} THEN "failure" ELSE "success"
  BY DEF Conclusion
<1>7. PICK found : found = IF Aggregates THEN {<<"all", whole>>} ELSE Results(names, f)
  OBVIOUS
<1>8. Posted(r.event, found)
  <2>1. \A n \in names : <<n, f[n]>> = <<n, IF n \in bad THEN "failure" ELSE "success">>
    BY <1>5
  <2>2. Results(names, f) = {<<n, IF n \in bad THEN "failure" ELSE "success">> : n \in names}
    BY <2>1 DEF Results
  <2>3. QED
    BY <1>0, <1>3, <1>4, <1>6, <1>7, <2>2 DEF PostChecks
<1>9. CASE r.event.head # pull.head
  <2>1. UNCHANGED checks
    BY <1>8, <1>9 DEF Posted
  <2>2. ~HeadScan(r.event)
    BY <1>9 DEF HeadScan
  <2>3. QED
    BY <1>0, <1>1, <2>1, <2>2, HeadScanMoves
<1>10. CASE r.event.head = pull.head
  <2>1. bad = ViolationsOf(c, c, r.event.labels)
    <3>1. r.event.labels \in SUBSET PullLabel /\ r.at \in AfterScan
      BY <1>1 DEF SnippetVisit, VisitOf, EventOf, AfterScan
    <3>2. QED
      BY <1>1, <1>2, <1>3, <1>10, <3>1 DEF ScansHead, WrongNow
  <2>2. \A n \in AskedNow : n \in CheckName /\ FittingNow[n] = FittingFor(n, c) /\ checks[n] \in {"none"} \cup FittingNow[n]
    BY <1>2, SnippetAssumption DEF AskedNow, FittingNow, HeadIsScanned
  <2>3. CASE Aggregates
    <3>1. /\ checks' \in [CheckName -> Conclusion] /\ \A n \in CheckName \ {"all"} : checks'[n] = checks[n]
          /\ checks'["all"] = whole
      <4>1. "all" \in CheckName /\ (found = {<<"all", whole>>} \/ found = {}) /\ found # {}
        BY <1>7, <2>3, SnippetAssumption DEF SnippetChecks
      <4>2. PICK e : e = r.event /\ Posted(e, found) /\ e.head = pull.head
        BY <1>8, <1>10
      <4>3. checks \in [CheckName -> Conclusion]
        BY <1>1
      <4>4. /\ checks' \in [CheckName -> Conclusion]
            /\ \A n \in CheckName \ {"all"} : checks'[n] = checks[n]
            /\ checks'["all"] = IF e.head = pull.head /\ found # {} THEN whole ELSE checks["all"]
        BY <4>1, <4>2, <4>3, PostedChecks
      <4>5. QED
        BY <4>1, <4>2, <4>4
    <3>2. whole \in FittingFor("all", c)
      BY <1>6, <2>1, FindingsFit
    <3>3. \A n \in AskedNow : checks'[n] = checks[n] \/ checks'[n] \in FittingNow[n]
      BY <2>2, <3>1, <3>2
    <3>4. ASSUME NEW n \in AskedNow, r.at \in PlacesOf(n) PROVE checks'[n] \in FittingNow[n]
      <4>1. n = "all"
        BY <1>1, <2>3, <3>4 DEF AskedNow, IsAskedFor, PlacesOf
      <4>2. QED
        BY <2>2, <3>1, <3>2, <3>4, <4>1
    <3>5. QED
      BY <1>0, <1>1, <3>1, <3>3, <3>4, HeadScanMoves
  <2>4. CASE ~Aggregates
    <3>1. names \in SUBSET CheckName /\ f \in [names -> Conclusion] /\ \A n \in names : f[n] = IF n \in bad THEN "failure" ELSE "success"
      BY <1>4, <1>5, SnippetAssumption DEF SnippetChecks, Conclusion
    <3>2. /\ checks' \in [CheckName -> Conclusion]
          /\ \A n \in CheckName : checks'[n] = IF n \in names THEN f[n] ELSE checks[n]
      <4>1. Posted(r.event, Results(names, f))
        BY <1>7, <1>8, <2>4
      <4>2. PICK e : e = r.event /\ Posted(e, Results(names, f)) /\ e.head = pull.head
        BY <1>10, <4>1
      <4>3. checks \in [CheckName -> Conclusion]
        BY <1>1
      <4>4. /\ checks' \in [CheckName -> Conclusion]
            /\ \A n \in CheckName : checks'[n] = IF e.head = pull.head /\ n \in names THEN f[n] ELSE checks[n]
        BY <3>1, <4>2, <4>3, PostedResults
      <4>5. QED
        BY <4>2, <4>4
    <3>3. ASSUME NEW n \in AskedNow, n \in names PROVE checks'[n] \in FittingNow[n]
      <4>1. checks'[n] = IF n \in bad THEN "failure" ELSE "success"
        BY <2>2, <3>1, <3>2, <3>3
      <4>2. n \in {"prefix", "removal", "format"} /\ (n \in bad \/ AlwaysChecks)
        BY <1>4, <3>3
      <4>3. (IF n \in bad THEN "failure" ELSE "success") \in FittingFor(n, c)
        BY <2>1, <4>2, FindingsFit
      <4>4. QED
        BY <2>2, <3>3, <4>1, <4>3
    <3>4. \A n \in AskedNow : checks'[n] = checks[n] \/ checks'[n] \in FittingNow[n]
      BY <2>2, <3>2, <3>3
    <3>5. ASSUME NEW n \in AskedNow, r.at \in PlacesOf(n) PROVE checks'[n] \in FittingNow[n]
      <4>1. n \in {"prefix", "removal", "format"}
        BY <1>1, <2>4, <3>5 DEF AskedNow, IsAskedFor, PlacesOf, SnippetChecks
      <4>2. CASE n \in names
        BY <3>3, <3>5, <4>2
      <4>3. CASE n \notin names
        <5>1. "none" \in FittingFor(n, c)
          BY <1>4, <2>1, <4>1, <4>3, FindingsFit
        <5>2. checks'[n] = checks[n]
          BY <2>2, <3>2, <3>5, <4>3
        <5>3. QED
          BY <2>2, <3>5, <5>1, <5>2
      <4>4. QED
        BY <4>2, <4>3
    <3>6. QED
      BY <1>0, <1>1, <3>2, <3>4, <3>5, HeadScanMoves
  <2>5. QED
    BY <2>3, <2>4
<1>11. QED
  BY <1>9, <1>10

\* A handler of snippet-bot keeps the checks right.
LEMMA HeadScanHandlerKeeps ==
  ASSUME SnippetInv, SnippetInv', HeadIsScanned, NEW v \in Visitor, SnippetStep(v)
  PROVE  HeadIsScanned'
<1>1. /\ EventsTyped(SnippetPlaces, Content \cup {{}}, SUBSET {"mismatch", "prefix", "removal", "format"})
      /\ SnippetTyped /\ SnippetTyped' /\ "free" \notin SnippetPlaces /\ pull \in PullRequestOf /\ pull.content \in Content
      /\ checks \in [CheckName -> Conclusion] /\ \A e \in events : e.head <= pull.head
  BY DEF SnippetInv, SnippetTyped, SnippetPlaces, EventsTyped, PullRequestOf, HeadIsScanned
<1>0. PICK r : r = visit[v]
  OBVIOUS
<1>2. /\ r # Free => r \in SnippetVisit /\ r.event \in EventOf /\ InPlace(r) /\ r.event.head <= pull.head /\ ScansHead(r)
      /\ \A y \in SnippetVisit : y # Free
  BY <1>0, <1>1, AtWork DEF SnippetVisit, SnippetTyped, HeadIsScanned
<1>3. ASSUME NEW e \in events, SnippetTakes(v, e) PROVE HeadIsScanned'
  BY <1>3, HeadScanTaken
<1>4. ASSUME NEW heeded, VisitFails(v, heeded), UNCHANGED <<snippetConfig, comments, buried>> PROVE HeadIsScanned'
  <2>1. /\ r # Free /\ visit' = [visit EXCEPT ![v] = Free] /\ UNCHANGED <<pull, checks, acts, hurried, overlapped>>
        /\ \/ missed' /\ UNCHANGED events
           \/ UNCHANGED missed /\ \E e \in EventOf : SameEvent(e, r.event) /\ events' = events \cup {e}
    BY <1>0, <1>1, <1>4, VisitFailed
  <2>2. events \subseteq events' /\ (missed => missed') /\ \A e \in events' : e.head <= pull.head
    BY <1>1, <1>2, <2>1 DEF SameEvent
  <2>3. ~missed' /\ HeadScan(r.event) => HeadScanDue'
    BY <2>1 DEF SameEvent, HeadScanDue, HeadScan, Scans
  <2>4. QED
    BY <1>0, <1>1, <1>4, <2>1, <2>2, <2>3, HeadScanMoves
\* Steps to another place, for the rest of the lemma.
<1>5. ASSUME r # Free, NEW a \in SnippetPlaces, VisitTo(v, a)
      PROVE  \E x \in SnippetVisit : /\ visit' = [visit EXCEPT ![v] = x] /\ x # Free
                                     /\ x.at = a /\ x.event = r.event /\ x.read = r.read /\ x.bad = r.bad
  <2>1. PICK x : x = [r EXCEPT !.at = a]
    OBVIOUS
  <2>2. x \in SnippetVisit /\ x.at = a /\ x.event = r.event /\ x.read = r.read /\ x.bad = r.bad
    BY <1>2, <1>5, <2>1, PlaceTyped DEF SnippetVisit
  <2>3. visit' = [visit EXCEPT ![v] = x]
    BY <1>0, <1>5, <2>1 DEF VisitTo, Visits
  <2>4. QED
    BY <1>2, <2>2, <2>3
\* ... and those that leave the checks alone.
<1>6. ASSUME r # Free, NEW x \in SnippetVisit, visit' = [visit EXCEPT ![v] = x], x.event.head <= pull.head, ScansHead(x),
             pull'.head = pull.head, pull'.content = pull.content, pull'.open = pull.open, pull'.draft = pull.draft,
             UNCHANGED <<checks, events, missed, snippetConfig>>,
             HeadScan(r.event) => /\ x.event = r.event
                                  /\ \A n \in AskedNow : r.at \in PlacesOf(n) => x.at \in PlacesOf(n)
      PROVE  HeadIsScanned'
  BY <1>0, <1>1, <1>2, <1>6, HeadScanMoves
<1>7. CASE SnippetChecksConfig(v)
  <2>1. /\ r # Free /\ r.at = "check" /\ VisitTo(v, "config")
        /\ UNCHANGED <<pull, events, acts, overlapped, missed, snippetConfig, comments, buried>>
    BY <1>0, <1>7 DEF SnippetChecksConfig, VisitAt, Inside
  <2>2. PICK x \in SnippetVisit : /\ visit' = [visit EXCEPT ![v] = x] /\ x # Free
                                  /\ x.at = "config" /\ x.event = r.event
    BY <1>5, <2>1 DEF SnippetPlaces
  <2>3. x.event.head <= pull.head /\ ScansHead(x)
    BY <1>2, <2>1, <2>2 DEF ScansHead, AfterDiff, AfterScan
  <2>4. PICK found : found = IF ConfigErrors(pull.content.config, TRUE) # {} THEN {<<"schema", "failure">>} ELSE {}
    OBVIOUS
  <2>5. Posted(r.event, found)
    BY <1>0, <1>7, <2>4 DEF SnippetChecksConfig
  <2>6. /\ checks' \in [CheckName -> Conclusion] /\ \A n \in CheckName \ {"schema"} : checks'[n] = checks[n]
        /\ checks'["schema"] = IF r.event.head = pull.head /\ found # {} THEN "failure" ELSE checks["schema"]
    <3>1. "schema" \in CheckName /\ (found = {<<"schema", "failure">>} \/ found = {}) /\ "failure" \in Conclusion
      BY <2>4, SnippetAssumption DEF Conclusion, SnippetChecks
    <3>2. QED
      BY <1>1, <2>5, <3>1, PostedChecks
  <2>7. FittingNow["schema"] = {IF ConfigErrors(pull.content.config, TRUE) # {} THEN "failure" ELSE "none"}
    BY DEF FittingNow, FittingFor, SnippetChecks
  <2>8. \A n \in AskedNow : checks'[n] = checks[n] \/ checks'[n] \in FittingNow[n]
    <3>1. AskedNow \subseteq CheckName
      BY SnippetAssumption DEF AskedNow
    <3>2. checks'["schema"] = checks["schema"] \/ checks'["schema"] \in FittingNow["schema"]
      BY <2>4, <2>6, <2>7
    <3>3. QED
      BY <2>6, <3>1, <3>2
  <2>9. HeadScan(r.event) => checks'["schema"] \in FittingNow["schema"]
    <3>1. SUFFICES ASSUME HeadScan(r.event) PROVE checks'["schema"] \in FittingNow["schema"]
      OBVIOUS
    <3>2. CASE found # {}
      BY <2>4, <2>6, <2>7, <3>1, <3>2 DEF HeadScan
    <3>3. CASE found = {}
      <4>1. "schema" \in AskedNow
        BY DEF AskedNow, IsAskedFor, SnippetChecks
      <4>2. FittingNow["schema"] = {"none"} /\ checks'["schema"] = checks["schema"]
        BY <2>4, <2>6, <2>7, <3>3
      <4>3. QED
        BY <4>1, <4>2 DEF HeadIsScanned
    <3>4. QED
      BY <3>2, <3>3
  <2>10. \A n : n # "schema" => x.at \in PlacesOf(n)
    BY <2>2 DEF PlacesOf
  <2>11. QED
    BY <1>0, <1>1, <2>1, <2>2, <2>3, <2>6, <2>8, <2>9, <2>10, HeadScanMoves
<1>8. CASE SnippetReadsConfig(v)
  <2>1. r # Free /\ r.at = "config" /\ UNCHANGED <<pull, checks, acts, overlapped, snippetConfig, comments, buried>>
    BY <1>0, <1>8 DEF SnippetReadsConfig, VisitAt
  <2>2. \A n \in AskedNow : SnippetFound \in {"none", "error"} => r.at \notin PlacesOf(n)
    BY <2>1 DEF AskedNow, IsAskedFor, PlacesOf
  <2>3. CASE SnippetFound = "error"
    <3>1. TryAgain(v)
      BY <1>8, <2>3 DEF SnippetReadsConfig
    <3>2. /\ visit' = [visit EXCEPT ![v] = Free]
          /\ \/ missed' /\ UNCHANGED events
             \/ UNCHANGED missed /\ \E e \in EventOf : SameEvent(e, r.event) /\ events' = events \cup {e}
      BY <1>0, <1>1, <2>1, <3>1, TriedAgain
    <3>3. events \subseteq events' /\ (missed => missed') /\ \A e \in events' : e.head <= pull.head
      BY <1>1, <1>2, <2>1, <3>2 DEF SameEvent
    <3>4. QED
      BY <1>0, <1>1, <2>1, <2>2, <2>3, <3>2, <3>3, HeadScanMoves
  <2>4. CASE SnippetFound = "none"
    <3>1. visit' = [visit EXCEPT ![v] = Free] /\ UNCHANGED <<events, missed>>
      BY <1>8, <2>4 DEF SnippetReadsConfig, Leave, Visits
    <3>2. QED
      BY <1>0, <1>1, <2>1, <2>2, <2>4, <3>1, HeadScanMoves
  <2>5. CASE SnippetFound \notin {"none", "error"}
    <3>1. /\ UNCHANGED <<events, missed>>
          /\ \/ visit' = [visit EXCEPT ![v] = Free] /\ r.event.kind = "labeled"
             \/ VisitTo(v, "unlabel") /\ r.event.kind = "labeled"
             \/ VisitTo(v, "get") /\ r.event.kind = "comment"
             \/ VisitTo(v, "diff") /\ r.event.kind \in Scanned
      <4>1. r.event.kind \in Scanned \cup {"labeled", "comment"}
        BY <1>2, <2>1 DEF InPlace
      <4>2. CASE r.event.kind = "labeled"
        BY <1>0, <1>8, <2>5, <4>2 DEF SnippetReadsConfig, Leave, Visits
      <4>3. CASE r.event.kind = "comment"
        BY <1>0, <1>8, <2>5, <4>3 DEF SnippetReadsConfig, Leave, Visits
      <4>4. CASE r.event.kind \in Scanned
        BY <1>0, <1>8, <2>5, <4>4 DEF SnippetReadsConfig, Leave, Visits, Scanned
      <4>5. QED
        BY <4>1, <4>2, <4>3, <4>4
    <3>2. r.event.kind \in {"labeled", "comment"} => ~HeadScan(r.event)
      BY DEF HeadScan, Scans, Scanned
    <3>3. CASE visit' = [visit EXCEPT ![v] = Free] /\ r.event.kind = "labeled"
      BY <1>0, <1>1, <2>1, <3>1, <3>2, <3>3, HeadScanMoves
    <3>4. ASSUME NEW a \in {"unlabel", "get", "diff"}, VisitTo(v, a), HeadScan(r.event) => a = "diff" PROVE HeadIsScanned'
      <4>1. PICK x \in SnippetVisit : /\ visit' = [visit EXCEPT ![v] = x] /\ x # Free
                                      /\ x.at = a /\ x.event = r.event
        BY <1>5, <2>1, <3>4 DEF SnippetPlaces
      <4>2. x.event.head <= pull.head /\ ScansHead(x)
        BY <1>2, <2>1, <4>1 DEF ScansHead, AfterDiff, AfterScan
      <4>3. \A n \in AskedNow : r.at \in PlacesOf(n) => "diff" \in PlacesOf(n)
        BY <2>1 DEF PlacesOf
      <4>4. HeadScan(r.event) => x.event = r.event /\ \A n \in AskedNow : r.at \in PlacesOf(n) => x.at \in PlacesOf(n)
        BY <3>4, <4>1, <4>3
      <4>5. QED
        BY <1>6, <2>1, <3>1, <4>1, <4>2, <4>4
    <3>5. QED
      BY <3>1, <3>2, <3>3, <3>4
  <2>6. QED
    BY <2>3, <2>4, <2>5
<1>9. CASE RemoveRefresh(v)
  <2>1. /\ r # Free /\ r.at = "unlabel" /\ VisitTo(v, "diff") /\ pull' = [pull EXCEPT !.labels = @ \ {Refresh}]
        /\ UNCHANGED <<checks, events, missed, snippetConfig>>
    BY <1>0, <1>9 DEF RemoveRefresh, VisitAt
  <2>2. PICK x \in SnippetVisit : visit' = [visit EXCEPT ![v] = x] /\ x # Free /\ x.at = "diff" /\ x.event = r.event
    BY <1>5, <2>1 DEF SnippetPlaces
  <2>3. pull'.head = pull.head /\ pull'.content = pull.content /\ pull'.open = pull.open /\ pull'.draft = pull.draft
    BY <1>1, <2>1 DEF PullRequestOf
  <2>4. x.event.head <= pull.head /\ ScansHead(x)
    BY <1>2, <2>1, <2>2 DEF ScansHead, AfterDiff, AfterScan
  <2>5. ~HeadScan(r.event)
    BY <1>2, <2>1 DEF InPlace, HeadScan, Scans, Scanned
  <2>6. QED
    BY <1>6, <2>1, <2>2, <2>3, <2>4, <2>5
<1>10. CASE GetPullRequest(v)
  <2>1. /\ r # Free /\ r.at = "get" /\ UNCHANGED <<pull, checks, events, missed, snippetConfig>>
        /\ visit' = [visit EXCEPT ![v] = [r EXCEPT !.at = "diff", !.event.head = pull.head, !.event.labels = pull.labels]]
    BY <1>0, <1>10 DEF GetPullRequest, VisitAt, Visits, Inside
  <2>2. PICK x : x = [r EXCEPT !.at = "diff", !.event.head = pull.head, !.event.labels = pull.labels]
    OBVIOUS
  <2>3. x \in SnippetVisit /\ x.at = "diff" /\ x.event.head = pull.head /\ pull.head \in Nat
    <3>1. pull.head \in Nat /\ pull.labels \in SUBSET PullLabel
      BY <1>1 DEF PullRequestOf
    <3>2. r \in SnippetVisit
      BY <1>2, <2>1
    <3>3. QED
      BY <2>2, <3>1, <3>2 DEF SnippetVisit, VisitOf, EventOf, SnippetPlaces
  <2>4. x.event.head <= pull.head /\ ScansHead(x)
    BY <2>3 DEF ScansHead, AfterDiff, AfterScan
  <2>5. ~HeadScan(r.event)
    BY <1>2, <2>1 DEF InPlace, HeadScan, Scans, Scanned
  <2>6. visit' = [visit EXCEPT ![v] = x]
    BY <2>1, <2>2
  <2>7. QED
    BY <1>6, <2>1, <2>3, <2>4, <2>5, <2>6
<1>11. CASE ParseDiff(v)
  <2>1. /\ r # Free /\ r.at = "diff" /\ visit' = [visit EXCEPT ![v] = [r EXCEPT !.at = "file", !.read = pull.content]]
        /\ UNCHANGED <<pull, checks, events, missed, snippetConfig>>
    BY <1>0, <1>11 DEF ParseDiff, VisitAt, Visits, Inside
  <2>2. PICK x : x = [r EXCEPT !.at = "file", !.read = pull.content]
    OBVIOUS
  <2>3. x \in SnippetVisit /\ x.at = "file" /\ x.event = r.event /\ x.read = pull.content
    BY <1>1, <1>2, <2>1, <2>2 DEF SnippetVisit, VisitOf, SnippetPlaces
  <2>4. x.event.head <= pull.head /\ ScansHead(x)
    BY <1>2, <2>1, <2>3 DEF ScansHead, AfterScan
  <2>5. \A n \in AskedNow : r.at \in PlacesOf(n) => x.at \in PlacesOf(n)
    BY <2>1, <2>3 DEF PlacesOf
  <2>6. visit' = [visit EXCEPT ![v] = x]
    BY <2>1, <2>2
  <2>7. QED
    BY <1>6, <2>1, <2>3, <2>4, <2>5, <2>6
<1>12. CASE ListOwnComments(v) \/ PutComment(v)
  <2>1. PICK a \in AfterScan : VisitTo(v, a)
    BY <1>12 DEF ListOwnComments, PutComment, AfterScan
  <2>2. r # Free /\ r.at \in {"list", "create", "update"} /\ UNCHANGED <<pull, checks, events, missed, snippetConfig>>
    BY <1>0, <1>12 DEF ListOwnComments, PutComment, VisitAt, Inside
  <2>3. PICK x \in SnippetVisit : /\ visit' = [visit EXCEPT ![v] = x] /\ x # Free
                                  /\ x.at = a /\ x.event = r.event /\ x.read = r.read /\ x.bad = r.bad
    BY <1>5, <2>1, <2>2 DEF AfterScan, SnippetPlaces
  <2>4. x.event.head <= pull.head /\ ScansHead(x)
    BY <1>2, <2>2, <2>3 DEF ScansHead, AfterDiff, AfterScan
  <2>5. \A n \in AskedNow : r.at \in PlacesOf(n) => x.at \in PlacesOf(n)
    BY <2>2, <2>3 DEF PlacesOf, AfterScan
  <2>6. QED
    BY <1>6, <2>2, <2>3, <2>4, <2>5
<1>13. CASE ScanFile(v)
  BY <1>13, HeadScanReadsFile
<1>14. CASE PostChecks(v)
  BY <1>14, HeadScanPosts
<1>15. QED
  BY <1>3, <1>4, <1>7, <1>8, <1>9, <1>10, <1>11, <1>12, <1>13, <1>14
     DEF SnippetStep, SnippetFails, MismatchNotPosted

\* A push leaves a head without checks, and whatever makes a scan due says so.
LEMMA PeopleKeepHeadScan ==
  ASSUME SnippetInv, HeadIsScanned, PeopleAct \/ (Act("comment", pull, "none") /\ UNCHANGED checks),
         UNCHANGED snippetConfig
  PROVE  HeadIsScanned'
<1>1. SnippetTyped /\ pull \in PullRequestOf /\ acts \in Nat /\ pull.head \in Nat /\ \A f \in EventOf : f.head \in Nat
  BY DEF SnippetInv, SnippetTyped, EventsTyped, PullRequestOf, EventOf
<1>2. PICK e : Acted(e)
  BY <1>1, PeopleAreActing
<1>3. UNCHANGED <<visit, missed>> /\ events' = events \cup {e} /\ e \in EventOf /\ e.head = pull'.head
  BY <1>2 DEF Acted
<1>4. \A f \in events : f \in EventOf /\ f.head <= pull.head
  BY <1>1 DEF SnippetTyped, EventsTyped, HeadIsScanned
<1>5. \A w \in Visitor : visit[w] # Free => visit[w].event \in EventOf /\ visit[w].event.head <= pull.head /\ ScansHead(visit[w])
  BY <1>1, AtWork DEF SnippetTyped, SnippetPlaces, HeadIsScanned
<1>6. AskedNow \subseteq SnippetChecks /\ AskedNow \subseteq CheckName /\ AskedNow' = AskedNow
  BY SnippetAssumption DEF AskedNow, IsAskedFor, SnippetFound, Aggregates, Says
<1>7. CASE e.kind = "synchronize"
  <2>1. pull'.head = pull.head + 1 /\ checks' = NoChecks /\ pull'.open = pull.open /\ pull'.draft = pull.draft /\ e.open
    BY <1>2, <1>7 DEF Acted
  <2>2. \A f \in EventOf : f.head <= pull.head => f.head <= pull'.head /\ f.head # pull'.head
    BY <1>1, <2>1
  <2>3. \A f \in events' : f.head <= pull'.head
    <3>1. e.head <= pull'.head
      BY <1>1, <1>3, <2>1
    <3>2. QED
      BY <1>3, <1>4, <2>2, <3>1
  <2>4. \A w \in Visitor : visit'[w] # Free => visit'[w].event.head <= pull'.head /\ ScansHead(visit[w])'
    BY <1>3, <1>5, <2>2 DEF ScansHead
  <2>5. checks' \in [CheckName -> Conclusion] /\ \A n \in CheckName : checks'[n] = "none"
    BY <2>1 DEF NoChecks, Conclusion
  <2>6. ~pull'.draft => HeadScanDue'
    <3>1. SUFFICES ASSUME ~pull'.draft PROVE HeadScanDue'
      OBVIOUS
    <3>2. Scans(e)
      BY <1>2, <1>7, <2>1, <3>1 DEF Acted, Scans, Scanned
    <3>3. QED
      BY <1>3, <3>2 DEF HeadScanDue, HeadScan
  <2>7. QED
    BY <1>6, <2>3, <2>4, <2>5, <2>6 DEF HeadIsScanned
<1>8. CASE e.kind # "synchronize"
  <2>1. pull'.head = pull.head /\ pull'.content = pull.content /\ UNCHANGED checks
    BY <1>2, <1>8 DEF Acted
  <2>2. FittingNow' = FittingNow /\ WrongNow' = WrongNow
    BY <2>1, FittingKept
  <2>3. \A f \in events' : f.head <= pull'.head
    <3>1. e.head <= pull'.head
      BY <1>1, <1>3, <2>1
    <3>2. QED
      BY <1>3, <1>4, <2>1, <3>1
  <2>4. \A w \in Visitor : visit'[w] # Free => visit'[w].event.head <= pull'.head /\ ScansHead(visit[w])'
    BY <1>3, <1>5, <2>1, <2>2 DEF ScansHead
  <2>5. HeadScanDue => HeadScanDue'
    BY <1>3, <2>1 DEF HeadScanDue, HeadScan
  <2>6. \A n : ToBePosted(n) => ToBePosted(n)'
    BY <1>3, <2>1 DEF ToBePosted, HeadScan
  <2>7. ASSUME pull'.open, ~pull'.draft, ~(pull.open /\ ~pull.draft) PROVE HeadScanDue'
    <3>1. e.kind \in {"reopened", "ready_for_review"}
      BY <1>2, <1>8, <2>7 DEF Acted
    <3>2. Scans(e)
      BY <1>2, <2>7, <3>1 DEF Acted, Scans, Scanned
    <3>3. QED
      BY <1>3, <3>2 DEF HeadScanDue, HeadScan
  <2>8. checks' \in [CheckName -> Conclusion] /\ \A n \in AskedNow : checks'[n] \in {"none"} \cup FittingNow[n]
    BY <2>1 DEF HeadIsScanned
  <2>9. ASSUME ~missed', pull'.open, ~pull'.draft, NEW n \in AskedNow
        PROVE  checks'[n] \in FittingNow[n] \/ HeadScanDue' \/ ToBePosted(n)'
    <3>1. CASE pull.open /\ ~pull.draft
      BY <1>3, <2>1, <2>5, <2>6, <2>9, <3>1 DEF HeadIsScanned
    <3>2. QED
      BY <2>7, <2>9, <3>1
  <2>10. QED
    BY <1>6, <2>2, <2>3, <2>4, <2>8, <2>9 DEF HeadIsScanned
<1>9. QED
  BY <1>7, <1>8

\* It holds at first, and every step keeps it.
LEMMA HeadScanInitHolds ==
  ASSUME NEW CONSTANT configs, SnippetInit(configs)
  PROVE  HeadIsScanned
<1>1. PICK yes, no \in BOOLEAN : yes = TRUE /\ no = FALSE
  OBVIOUS
<1>2. PICK c \in Content, d \in BOOLEAN : pull = [head |-> 1, content |-> c, labels |-> {}, open |-> yes, draft |-> d]
  BY <1>1 DEF SnippetInit, EventsInit
<1>3. PICK e : e = [kind |-> "opened", act |-> 0, head |-> 1, labels |-> {}, open |-> yes, draft |-> pull.draft,
                    label |-> "none", tries |-> 1]
  OBVIOUS
<1>4. events = {e} /\ checks = NoChecks /\ visit = [v \in Visitor |-> Free]
  BY <1>1, <1>3 DEF SnippetInit, EventsInit
<1>5. pull.head = 1 /\ e.head = 1 /\ e.kind = "opened" /\ e.open /\ (e.draft <=> pull.draft)
  BY <1>1, <1>2, <1>3
<1>6. checks \in [CheckName -> Conclusion] /\ \A n \in AskedNow : checks[n] = "none"
  BY <1>4, SnippetAssumption DEF NoChecks, Conclusion, AskedNow
<1>7. ~pull.draft => HeadScanDue
  BY <1>4, <1>5 DEF HeadScanDue, HeadScan, Scans, Scanned
<1>8. HeadIsScanned
  BY <1>4, <1>5, <1>6, <1>7 DEF HeadIsScanned
<1>9. QED
  BY <1>8

\* Every step keeps it.
LEMMA HeadScanKept ==
  ASSUME SnippetInv, HeadIsScanned, [SnippetNext]_snippetVars
  PROVE  SnippetInv' /\ HeadIsScanned'
<1>1. SnippetInv'
  BY SnippetInvKept
<1>2. CASE UNCHANGED <<eventVars, snippetConfig>>
  <2>1. UNCHANGED <<pull, checks, events, visit, missed, snippetConfig>>
    BY <1>2 DEF eventVars
  <2>2. FittingNow' = FittingNow /\ AskedNow' = AskedNow /\ WrongNow' = WrongNow
    BY <2>1, FittingKept
  <2>3. HeadIsScanned'
    BY <2>1, <2>2 DEF HeadIsScanned, ScansHead, HeadScanDue, HeadScan, ToBePosted
  <2>4. QED
    BY <1>1, <2>3
<1>3. CASE SnippetNext
  BY <1>1, <1>2, <1>3, HeadScanHandlerKeeps, PeopleKeepHeadScan DEF SnippetNext, TickRefresh, BuryComments
<1>4. QED
  BY <1>2, <1>3 DEF snippetVars

\* What that gives of the checks when all is done.
LEMMA ScannedChecksTell ==
  ASSUME SnippetInv, HeadIsScanned
  PROVE  SnippetChecksTellOfHead
<1>1. SUFFICES ASSUME SnippetDue, NEW n \in SnippetChecks, IsAskedFor(n)
               PROVE  checks[n] \in FittingFor(n, pull.content)
  BY DEF SnippetChecksTellOfHead
<1>2. ~HeadScanDue /\ ~ToBePosted(n)
  BY <1>1 DEF SnippetDue, Quiet, HeadScanDue, ToBePosted
<1>3. n \in AskedNow /\ FittingNow[n] = FittingFor(n, pull.content)
  BY <1>1 DEF AskedNow, FittingNow
<1>4. QED
  BY <1>1, <1>2, <1>3 DEF HeadIsScanned, SnippetDue

(* The checks of snippet-bot on the head tell of what the head does to region tags, for   *)
(* any configuration, contents and number of pushes, labels, comments, handlers that      *)
(* overlap each other and the pushes, and failing calls that are tried again.  The        *)
(* invariant: a handler whose payload is of the head has read what is in the head, and    *)
(* a check that is not there yet is on the way.                                           *)
THEOREM SnippetChecksAreOfHead ==
  ASSUME NEW CONSTANT configs
  PROVE  SnippetSpec(configs) => []SnippetChecksTellOfHead
<1> DEFINE Inv == SnippetInv /\ HeadIsScanned
<1>1. SnippetInit(configs) => Inv
  BY SnippetInitHolds, HeadScanInitHolds
<1>2. Inv /\ [SnippetNext]_snippetVars => Inv'
  BY HeadScanKept
<1>3. Inv => SnippetChecksTellOfHead
  BY ScannedChecksTell
<1>4. QED
  <2> HIDE DEF Inv
  <2>1. QED
    BY <1>1, <1>2, <1>3, PTL DEF SnippetSpec

----------------------------------------------------------------------------
(* header-checker-lint: the checks on the head.                             *)

HeaderPlaces == {"unlabel", "check", "files", "post"}
HeaderReads  == SUBSET {"good", "empty", "none"}
HeaderFinds  == SUBSET {"success", "failure"}
HeaderVisit  == VisitOf(HeaderPlaces, HeaderReads, HeaderFinds)
HeadersTyped == EventsTyped(HeaderPlaces, HeaderReads, HeaderFinds) /\ checks \in [CheckName -> Conclusion]

\* What the checks on a head of that content are to say.
SchemaOf(c) == IF ConfigErrors(c.config, TRUE) # {} THEN "failure" ELSE "none"
FoundOf(c)  == HeaderFound(CheckedConfig(c.config, TRUE))
HeadersOf(c) == IF FoundOf(c) = "error" THEN "none" ELSE HeaderConclusion(c.files, IgnoresYear(FoundOf(c)))

\* A handler whose payload is of the head has read what is in the head.
HasReadHead(x) ==
  x.event.head = pull.head =>
    /\ x.at \in {"files", "post"} => x.read = {CheckedConfig(pull.content.config, TRUE)}
    /\ x.at = "post" => FoundOf(pull.content) # "error" /\ x.bad = {HeadersOf(pull.content)}
\* An event that has the checks posted on the head, and a handler that is yet to do so.
Heads(e) == e.kind \in HeaderRuns /\ e.head = pull.head
HeadIsDue == \E e \in events : Heads(e)
YetToPost(places) == \E v \in Visitor : visit[v] # Free /\ visit[v].at \in places /\ Heads(visit[v].event)

\* A check on the head is right or not there; who is to post it is on the way.
HeadersInv ==
  /\ HeadersTyped
  /\ \A e \in events : e.head <= pull.head
  /\ \A v \in Visitor : visit[v] # Free => visit[v].event.head <= pull.head /\ HasReadHead(visit[v])
  /\ checks["schema"] \in {"none", SchemaOf(pull.content)}
  /\ checks["header-check"] \in {"none", HeadersOf(pull.content)}
  /\ ~missed => /\ checks["schema"] = SchemaOf(pull.content) \/ HeadIsDue \/ YetToPost({"check"})
                /\ \/ checks["header-check"] = HeadersOf(pull.content) \/ HeadIsDue
                   \/ YetToPost({"check", "files", "post"})

\* A handler goes on, ends or fails.
LEMMA HeadersMove ==
  ASSUME HeadersInv, NEW v \in Visitor, visit[v] # Free, NEW x \in HeaderVisit \cup {Free},
         visit' = [visit EXCEPT ![v] = x],
         pull' \in PullRequestOf, pull'.head = pull.head, pull'.content = pull.content,
         events' \subseteq EventOf, events \subseteq events', \A e \in events' : e.head <= pull.head,
         acts' \in Nat, UNCHANGED headerConfig, missed => missed',
         x # Free => x.event = visit[v].event /\ HasReadHead(x),
         checks' \in [CheckName -> Conclusion],
         checks'["schema"] \in {checks["schema"], SchemaOf(pull.content)},
         checks'["header-check"] \in {checks["header-check"], HeadersOf(pull.content)},
         ~missed' /\ Heads(visit[v].event) =>
           /\ visit[v].at = "check" => checks'["schema"] = SchemaOf(pull.content) \/ HeadIsDue' \/ (x # Free /\ x.at = "check")
           /\ visit[v].at \in {"check", "files", "post"} =>
                \/ checks'["header-check"] = HeadersOf(pull.content) \/ HeadIsDue'
                \/ (x # Free /\ x.at \in {"check", "files", "post"})
  PROVE  HeadersInv'
<1>1. EventsTyped(HeaderPlaces, HeaderReads, HeaderFinds) /\ visit \in [Visitor -> HeaderVisit \cup {Free}]
  BY DEF HeadersInv, HeadersTyped, EventsTyped, HeaderVisit
<1>2. visit' \in [Visitor -> HeaderVisit \cup {Free}] /\ visit'[v] = x /\ \A w \in Visitor \ {v} : visit'[w] = visit[w]
  BY <1>1
<1>3. HeadersTyped'
  BY <1>1, <1>2 DEF HeadersTyped, EventsTyped, HeaderVisit
<1>4. SchemaOf(pull.content)' = SchemaOf(pull.content) /\ HeadersOf(pull.content)' = HeadersOf(pull.content)
  BY DEF SchemaOf, HeadersOf, FoundOf, HeaderFound, IgnoresYear
<1>5. \A y : HasReadHead(y) => HasReadHead(y)'
  BY DEF HasReadHead, HeadersOf, FoundOf, HeaderFound, IgnoresYear
<1>6. ASSUME NEW w \in Visitor, visit'[w] # Free PROVE visit'[w].event.head <= pull'.head /\ HasReadHead(visit[w])'
  <2>1. visit'[w].event.head <= pull.head /\ HasReadHead(visit'[w])
    BY <1>2, <1>6 DEF HeadersInv
  <2>2. QED
    BY <1>5, <2>1 DEF HasReadHead, HeadersOf, FoundOf, HeaderFound, IgnoresYear
<1>7. HeadIsDue => HeadIsDue'
  BY DEF HeadIsDue, Heads
<1>8. ASSUME NEW places, YetToPost(places), ~(Heads(visit[v].event) /\ visit[v].at \in places) PROVE YetToPost(places)'
  <2>1. PICK w \in Visitor : visit[w] # Free /\ visit[w].at \in places /\ Heads(visit[w].event)
    BY <1>8 DEF YetToPost
  <2>2. visit'[w] = visit[w]
    BY <1>2, <1>8, <2>1
  <2>3. QED
    BY <2>1, <2>2 DEF YetToPost, Heads
<1>9. ASSUME NEW places, Heads(visit[v].event), x # Free, x.at \in places PROVE YetToPost(places)'
  BY <1>2, <1>9 DEF YetToPost, Heads
<1>10. ASSUME ~missed' PROVE checks'["schema"] = SchemaOf(pull.content) \/ HeadIsDue' \/ YetToPost({"check"})'
  <2>1. checks["schema"] = SchemaOf(pull.content) \/ HeadIsDue \/ YetToPost({"check"})
    BY <1>10 DEF HeadersInv
  <2>2. CASE Heads(visit[v].event) /\ visit[v].at = "check"
    <3>1. x # Free /\ x.at = "check" => YetToPost({"check"})'
      BY <1>9, <2>2
    <3>2. QED
      BY <1>10, <2>2, <3>1
  <2>3. CASE ~(Heads(visit[v].event) /\ visit[v].at = "check")
    <3>1. YetToPost({"check"}) => YetToPost({"check"})'
      BY <1>8, <2>3
    <3>2. QED
      BY <1>7, <2>1, <3>1
  <2>4. QED
    BY <2>2, <2>3
<1>11. ASSUME ~missed'
       PROVE  checks'["header-check"] = HeadersOf(pull.content) \/ HeadIsDue' \/ YetToPost({"check", "files", "post"})'
  <2>1. checks["header-check"] = HeadersOf(pull.content) \/ HeadIsDue \/ YetToPost({"check", "files", "post"})
    BY <1>11 DEF HeadersInv
  <2>2. CASE Heads(visit[v].event) /\ visit[v].at \in {"check", "files", "post"}
    <3>1. x # Free /\ x.at \in {"check", "files", "post"} => YetToPost({"check", "files", "post"})'
      BY <1>9, <2>2
    <3>2. QED
      BY <1>11, <2>2, <3>1
  <2>3. CASE ~(Heads(visit[v].event) /\ visit[v].at \in {"check", "files", "post"})
    <3>1. YetToPost({"check", "files", "post"}) => YetToPost({"check", "files", "post"})'
      BY <1>8, <2>3
    <3>2. QED
      BY <1>7, <2>1, <3>1
  <2>4. QED
    BY <2>2, <2>3
<1>12. checks'["schema"] \in {"none", SchemaOf(pull.content)} /\ checks'["header-check"] \in {"none", HeadersOf(pull.content)}
  BY DEF HeadersInv
<1>13. QED
  BY <1>3, <1>4, <1>6, <1>10, <1>11, <1>12 DEF HeadersInv

\* An event is taken, or left.
LEMMA HeaderTakesKeeps ==
  ASSUME HeadersInv, NEW v \in Visitor, NEW e \in events, HeaderTakes(v, e)
  PROVE  HeadersInv'
<1>1. EventsTyped(HeaderPlaces, HeaderReads, HeaderFinds) /\ visit[v] = Free /\ e \in EventOf /\ e.head <= pull.head
  BY DEF HeadersInv, HeadersTyped, EventsTyped, HeaderTakes, TakeEvent, IgnoreEvent
<1>2. UNCHANGED <<pull, checks, acts, missed, headerConfig>> /\ events' = events \ {e}
  BY DEF HeaderTakes, TakeEvent, IgnoreEvent
<1>3. /\ SchemaOf(pull.content)' = SchemaOf(pull.content) /\ HeadersOf(pull.content)' = HeadersOf(pull.content)
      /\ \A y : HasReadHead(y) => HasReadHead(y)'
  BY <1>2 DEF HasReadHead, SchemaOf, HeadersOf, FoundOf, HeaderFound, IgnoresYear
<1>4. ASSUME NEW a \in {"check", "unlabel"}, TakeEvent(v, e, a), e.kind \in HeaderRuns => a = "check" PROVE HeadersInv'
  <2>1. PICK reads \in HeaderReads, finds \in HeaderFinds : reads = {} /\ finds = {}
    BY DEF HeaderReads, HeaderFinds
  <2>2. PICK x : x = [at |-> a, event |-> e, read |-> reads, bad |-> finds]
    OBVIOUS
  <2>3. x \in HeaderVisit /\ x.at = a /\ x.event = e
    BY <1>1, <2>2 DEF HeaderVisit, VisitOf, HeaderPlaces
  <2>4. visit' = [visit EXCEPT ![v] = x]
    BY <1>4, <2>1, <2>2 DEF TakeEvent, Visits
  <2>5. /\ visit \in [Visitor -> HeaderVisit \cup {Free}] /\ visit' \in [Visitor -> HeaderVisit \cup {Free}]
        /\ visit'[v] = x /\ \A w \in Visitor \ {v} : visit'[w] = visit[w]
    BY <1>1, <2>3, <2>4 DEF EventsTyped, HeaderVisit
  <2>6. HeadersTyped'
    BY <1>1, <1>2, <2>5 DEF HeadersInv, HeadersTyped, EventsTyped, HeaderVisit
  <2>7. ASSUME NEW w \in Visitor, visit'[w] # Free PROVE visit'[w].event.head <= pull'.head /\ HasReadHead(visit[w])'
    <3>1. CASE w = v
      BY <1>1, <1>2, <2>3, <2>5, <3>1 DEF HasReadHead
    <3>2. CASE w # v
      BY <1>2, <1>3, <2>5, <2>7, <3>2 DEF HeadersInv, HasReadHead
    <3>3. QED
      BY <3>1, <3>2
  <2>8. ASSUME NEW places, YetToPost(places) PROVE YetToPost(places)'
    <3>1. PICK w \in Visitor : visit[w] # Free /\ visit[w].at \in places /\ Heads(visit[w].event)
      BY <2>8 DEF YetToPost
    <3>2. visit'[w] = visit[w]
      BY <1>1, <2>5, <3>1
    <3>3. QED
      BY <1>2, <3>1, <3>2 DEF YetToPost, Heads
  <2>9. ASSUME NEW places, "check" \in places, HeadIsDue PROVE HeadIsDue' \/ YetToPost(places)'
    <3>1. PICK f \in events : Heads(f)
      BY <2>9 DEF HeadIsDue
    <3>2. CASE f # e
      BY <1>2, <3>1, <3>2 DEF HeadIsDue, Heads
    <3>3. CASE f = e
      <4>1. x # Free /\ x.at \in places
        BY <1>1, <1>4, <2>3, <2>9, <3>1, <3>3, AtWork DEF Heads, HeaderPlaces, HeaderVisit
      <4>2. QED
        BY <1>2, <2>3, <2>5, <3>1, <3>3, <4>1 DEF YetToPost, Heads
    <3>4. QED
      BY <3>2, <3>3
  <2>10. ~missed' => /\ checks'["schema"] = SchemaOf(pull.content)' \/ HeadIsDue' \/ YetToPost({"check"})'
                     /\ \/ checks'["header-check"] = HeadersOf(pull.content)' \/ HeadIsDue'
                        \/ YetToPost({"check", "files", "post"})'
    BY <1>2, <1>3, <2>8, <2>9 DEF HeadersInv
  <2>11. QED
    BY <1>2, <1>3, <2>6, <2>7, <2>10 DEF HeadersInv
<1>5. ASSUME IgnoreEvent(v, e), e.kind \notin HeaderRuns PROVE HeadersInv'
  <2>1. UNCHANGED visit
    BY <1>5 DEF IgnoreEvent
  <2>2. HeadersTyped'
    BY <1>2, <2>1 DEF HeadersInv, HeadersTyped, EventsTyped
  <2>3. HeadIsDue => HeadIsDue'
    BY <1>2, <1>5 DEF HeadIsDue, Heads
  <2>4. \A places : YetToPost(places) => YetToPost(places)'
    BY <1>2, <2>1 DEF YetToPost, Heads
  <2>5. \A w \in Visitor : visit'[w] # Free => visit'[w].event.head <= pull'.head /\ HasReadHead(visit[w])'
    BY <1>2, <1>3, <2>1 DEF HeadersInv, HasReadHead
  <2>6. QED
    BY <1>2, <1>3, <2>2, <2>3, <2>4, <2>5 DEF HeadersInv
<1>6. QED
  BY <1>4, <1>5 DEF HeaderTakes, HeaderRuns

\* A handler of header-checker-lint keeps the invariant.
LEMMA HeaderHandlerKeeps ==
  ASSUME HeadersInv, NEW v \in Visitor, HeaderStep(v)
  PROVE  HeadersInv'
<1>1. /\ EventsTyped(HeaderPlaces, HeaderReads, HeaderFinds) /\ checks \in [CheckName -> Conclusion]
      /\ pull \in PullRequestOf /\ acts \in Nat /\ events \subseteq EventOf /\ "free" \notin HeaderPlaces
      /\ \A e \in events : e.head <= pull.head
  BY DEF HeadersInv, HeadersTyped, EventsTyped, HeaderPlaces
<1>2. /\ \A y \in HeaderVisit : y # Free
      /\ visit[v] # Free => /\ visit[v] \in HeaderVisit /\ visit[v].event \in EventOf
                            /\ visit[v].event.head <= pull.head /\ HasReadHead(visit[v])
  BY <1>1, AtWork DEF HeaderVisit, HeadersInv
<1>3. ASSUME NEW e \in events, HeaderTakes(v, e) PROVE HeadersInv'
  BY <1>3, HeaderTakesKeeps
<1>4. CASE RemoveForceRun(v)
  <2>1. visit[v] # Free /\ visit[v].at = "unlabel"
    BY <1>4 DEF RemoveForceRun, VisitAt
  <2>2. PICK l : pull' = [pull EXCEPT !.labels = @ \ l]
    BY <1>4 DEF RemoveForceRun
  <2>3. pull' \in PullRequestOf /\ pull'.head = pull.head /\ pull'.content = pull.content
    BY <1>1, <2>2 DEF PullRequestOf
  <2>4. PICK x : x = [visit[v] EXCEPT !.at = "check"]
    OBVIOUS
  <2>5. x \in HeaderVisit /\ x.at = "check" /\ x.event = visit[v].event
    BY <1>2, <2>1, <2>4, PlaceTyped DEF HeaderVisit, HeaderPlaces
  <2>6. visit' = [visit EXCEPT ![v] = x] /\ UNCHANGED <<checks, events, acts, missed, headerConfig>>
    BY <1>4, <2>4 DEF RemoveForceRun, VisitTo, Visits
  <2>7. HasReadHead(x)
    BY <2>5 DEF HasReadHead
  <2>8. QED
    BY <1>1, <2>1, <2>3, <2>5, <2>6, <2>7, HeadersMove
<1>5. CASE HeaderChecksConfig(v)
  <2>1. visit[v] # Free /\ visit[v].at = "check"
    BY <1>5 DEF HeaderChecksConfig, VisitAt
  <2>2. PICK read \in HeaderReads : read = {CheckedConfig(pull.content.config, TRUE)}
    BY DEF CheckedConfig, IsValidConfig, HeaderReads
  <2>3. PICK y : y = visit[v]
    OBVIOUS
  <2>4. PICK x : x = [y EXCEPT !.at = "files", !.read = read]
    OBVIOUS
  <2>5. x \in HeaderVisit /\ x.at = "files" /\ x.event = visit[v].event /\ x.read = read
    BY <1>2, <2>1, <2>3, <2>4 DEF HeaderVisit, HeaderPlaces, VisitOf
  <2>6. visit' = [visit EXCEPT ![v] = x] /\ UNCHANGED <<pull, events, acts, missed, headerConfig>>
    BY <1>5, <2>2, <2>3, <2>4 DEF HeaderChecksConfig, Visits, Inside
  <2>7. HasReadHead(x)
    BY <2>2, <2>5 DEF HasReadHead
  <2>8. PICK found : found = IF ConfigErrors(pull.content.config, TRUE) # {} THEN {<<"schema", "failure">>} ELSE {}
    OBVIOUS
  <2>9. Posted(visit[v].event, found)
    BY <1>5, <2>8 DEF HeaderChecksConfig
  <2>10. /\ checks' \in [CheckName -> Conclusion] /\ checks'["header-check"] = checks["header-check"]
         /\ checks'["schema"] = IF visit[v].event.head = pull.head /\ found # {} THEN "failure" ELSE checks["schema"]
    <3>1. (found = {<<"schema", "failure">>} \/ found = {}) /\ "failure" \in Conclusion
      BY <2>8 DEF Conclusion
    <3>2. QED
      BY <1>1, <2>9, <3>1, PostedChecks, HeaderAssumption
  <2>11. /\ checks'["schema"] \in {checks["schema"], SchemaOf(pull.content)}
         /\ Heads(visit[v].event) => checks'["schema"] = SchemaOf(pull.content)
    <3>1. CASE found # {}
      BY <2>8, <2>10, <3>1 DEF SchemaOf, Heads
    <3>2. CASE found = {}
      BY <2>8, <2>10, <3>2 DEF SchemaOf, Heads, HeadersInv
    <3>3. QED
      BY <3>1, <3>2
  <2>12. QED
    BY <1>1, <1>2, <2>1, <2>5, <2>6, <2>7, <2>10, <2>11, HeadersMove
<1>6. CASE ListHeaders(v)
  <2>1. visit[v] # Free /\ visit[v].at = "files" /\ UNCHANGED <<pull, checks, events, acts, missed, headerConfig>>
    BY <1>6 DEF ListHeaders, VisitAt, Inside
  <2>2. PICK found : found = HeaderFound(CHOOSE c \in visit[v].read : TRUE)
    OBVIOUS
  <2>3. visit[v].event.head = pull.head => found = FoundOf(pull.content)
    BY <1>2, <2>1, <2>2 DEF HasReadHead, FoundOf
  <2>4. CASE found = "error"
    <3>1. visit' = [visit EXCEPT ![v] = Free]
      BY <1>6, <2>2, <2>4 DEF ListHeaders, Leave, Visits
    <3>2. visit[v].event.head = pull.head => checks["header-check"] = HeadersOf(pull.content)
      BY <2>3, <2>4 DEF HeadersOf, HeadersInv
    <3>3. QED
      BY <1>1, <2>1, <3>1, <3>2, HeadersMove DEF Heads
  <2>5. CASE found # "error"
    <3>1. PICK bad \in HeaderFinds : bad = {HeaderConclusion(pull.content.files, IgnoresYear(found))}
      BY DEF HeaderConclusion, HeaderFinds
    <3>2. PICK y : y = visit[v]
      OBVIOUS
    <3>3. PICK x : x = [y EXCEPT !.at = "post", !.bad = bad]
      OBVIOUS
    <3>4. x \in HeaderVisit /\ x.at = "post" /\ x.event = visit[v].event /\ x.read = visit[v].read /\ x.bad = bad
      BY <1>2, <2>1, <3>2, <3>3 DEF HeaderVisit, HeaderPlaces, VisitOf
    <3>5. visit' = [visit EXCEPT ![v] = x]
      BY <1>6, <2>2, <2>5, <3>1, <3>2, <3>3 DEF ListHeaders, Visits
    <3>6. HasReadHead(x)
      BY <1>2, <2>1, <2>3, <2>5, <3>1, <3>4 DEF HasReadHead, HeadersOf
    <3>7. QED
      BY <1>1, <1>2, <2>1, <3>4, <3>5, <3>6, HeadersMove
  <2>6. QED
    BY <2>4, <2>5
<1>7. CASE PostHeaders(v)
  <2>1. visit[v] # Free /\ visit[v].at = "post" /\ UNCHANGED <<pull, events, acts, missed, headerConfig>>
    BY <1>7 DEF PostHeaders, VisitAt, Inside
  <2>2. visit' = [visit EXCEPT ![v] = Free]
    BY <1>7 DEF PostHeaders, Leave, Visits
  <2>3. Posted(visit[v].event, {<<"header-check", c>> : c \in visit[v].bad})
    BY <1>7 DEF PostHeaders
  <2>4. CASE visit[v].event.head # pull.head
    <3>1. UNCHANGED checks
      BY <2>3, <2>4 DEF Posted
    <3>2. QED
      BY <1>1, <2>1, <2>2, <2>4, <3>1, HeadersMove DEF Heads
  <2>5. CASE visit[v].event.head = pull.head
    <3>1. PICK c \in Conclusion : c = HeadersOf(pull.content) /\ visit[v].bad = {c}
      BY <1>2, <2>1, <2>5 DEF HasReadHead, HeadersOf, HeaderConclusion, Conclusion
    <3>2. PICK found : found = {<<"header-check", c>>} /\ found # {}
      OBVIOUS
    <3>3. Posted(visit[v].event, found)
      BY <2>3, <3>1, <3>2
    <3>4. /\ checks' \in [CheckName -> Conclusion]
          /\ \A n \in CheckName \ {"header-check"} : checks'[n] = checks[n]
          /\ checks'["header-check"] = IF visit[v].event.head = pull.head /\ found # {} THEN c ELSE checks["header-check"]
      <4>1. "header-check" \in CheckName /\ (found = {<<"header-check", c>>} \/ found = {})
        BY <3>2, HeaderAssumption
      <4>2. QED
        BY <1>1, <3>3, <4>1, PostedChecks
    <3>5. checks'["schema"] = checks["schema"] /\ checks'["header-check"] = HeadersOf(pull.content)
      BY <2>5, <3>1, <3>2, <3>4, HeaderAssumption
    <3>6. QED
      BY <1>1, <2>1, <2>2, <3>4, <3>5, HeadersMove
  <2>6. QED
    BY <2>4, <2>5
<1>8. CASE HeaderFails(v)
  <2>1. /\ visit[v] # Free /\ visit' = [visit EXCEPT ![v] = Free] /\ UNCHANGED <<pull, checks, acts, headerConfig>>
        /\ \/ missed' /\ UNCHANGED events
           \/ UNCHANGED missed /\ \E e \in EventOf : SameEvent(e, visit[v].event) /\ events' = events \cup {e}
    BY <1>1, <1>8, VisitFailed DEF HeaderFails
  <2>2. /\ events' \subseteq EventOf /\ events \subseteq events' /\ (missed => missed')
        /\ \A e \in events' : e.head <= pull.head
    BY <1>1, <1>2, <2>1 DEF SameEvent
  <2>3. ~missed' /\ Heads(visit[v].event) => HeadIsDue'
    BY <2>1 DEF SameEvent, HeadIsDue, Heads
  <2>4. QED
    BY <1>1, <2>1, <2>2, <2>3, HeadersMove
<1>9. QED
  BY <1>3, <1>4, <1>5, <1>6, <1>7, <1>8 DEF HeaderStep

\* A push leaves a head without checks and an event; what else people do leaves the checks right.
LEMMA PeopleKeepHeaders ==
  ASSUME HeadersInv, PeopleAct, UNCHANGED headerConfig
  PROVE  HeadersInv'
<1>1. HeadersTyped /\ pull \in PullRequestOf /\ acts \in Nat
  BY DEF HeadersInv, HeadersTyped, EventsTyped
<1>2. PICK e : Acted(e)
  BY <1>1, PeopleAreActing
<1>3. UNCHANGED <<visit, missed>> /\ events' = events \cup {e} /\ e \in EventOf /\ e.head = pull'.head
  BY <1>2 DEF Acted
<1>4. \A f \in events : f \in EventOf /\ f.head <= pull.head
  BY DEF HeadersInv, HeadersTyped, EventsTyped
<1>5. \A w \in Visitor : visit[w] # Free => visit[w].event \in EventOf /\ visit[w].event.head <= pull.head
  BY AtWork DEF HeadersInv, HeadersTyped, HeaderPlaces
<1>6. CASE e.kind = "synchronize"
  <2>1. pull' \in PullRequestOf /\ pull'.head = pull.head + 1 /\ checks' = NoChecks
    BY <1>2, <1>6 DEF Acted
  <2>0. pull.head \in Nat /\ \A f \in EventOf : f.head \in Nat
    BY <1>1 DEF PullRequestOf, EventOf
  <2>9. \A f \in EventOf : f.head <= pull.head => f.head <= pull'.head /\ f.head # pull'.head
    BY <2>1, <2>0
  <2>10. e.head <= pull'.head
    BY <1>3, <2>1, <2>0
  <2>2. HeadersTyped'
    BY <1>1, <1>2, <1>3, <2>1 DEF Acted, HeadersTyped, EventsTyped, NoChecks, Conclusion
  <2>3. \A f \in events' : f.head <= pull'.head
    BY <1>3, <1>4, <2>9, <2>10
  <2>4. \A w \in Visitor : visit'[w] # Free => visit'[w].event.head <= pull'.head /\ HasReadHead(visit[w])'
    BY <1>3, <1>5, <2>9 DEF HasReadHead
  <2>5. checks'["schema"] = "none" /\ checks'["header-check"] = "none"
    BY <2>1, HeaderAssumption DEF NoChecks
  <2>6. HeadIsDue'
    BY <1>3, <1>6 DEF HeadIsDue, Heads, HeaderRuns
  <2>7. QED
    BY <2>2, <2>3, <2>4, <2>5, <2>6 DEF HeadersInv
<1>7. CASE e.kind # "synchronize"
  <2>1. pull' \in PullRequestOf /\ pull'.head = pull.head /\ pull'.content = pull.content /\ UNCHANGED checks
    BY <1>2, <1>7 DEF Acted
  <2>2. HeadersTyped'
    BY <1>1, <1>2, <1>3, <2>1 DEF Acted, HeadersTyped, EventsTyped
  <2>3. \A f \in events' : f.head <= pull'.head
    <3>1. pull.head \in Nat
      BY <1>1 DEF PullRequestOf
    <3>2. e.head <= pull'.head
      BY <1>3, <2>1, <3>1
    <3>3. QED
      BY <1>3, <1>4, <2>1, <3>2
  <2>4. /\ SchemaOf(pull.content)' = SchemaOf(pull.content) /\ HeadersOf(pull.content)' = HeadersOf(pull.content)
        /\ \A y : HasReadHead(y) => HasReadHead(y)'
    BY <2>1 DEF HasReadHead, SchemaOf, HeadersOf, FoundOf, HeaderFound, IgnoresYear
  <2>5. \A w \in Visitor : visit'[w] # Free => visit'[w].event.head <= pull'.head /\ HasReadHead(visit[w])'
    BY <1>3, <2>1, <2>4 DEF HeadersInv, HasReadHead
  <2>6. HeadIsDue => HeadIsDue'
    BY <1>3, <2>1 DEF HeadIsDue, Heads
  <2>7. \A places : YetToPost(places) => YetToPost(places)'
    BY <1>3, <2>1 DEF YetToPost, Heads
  <2>8. QED
    BY <1>3, <2>1, <2>2, <2>3, <2>4, <2>5, <2>6, <2>7 DEF HeadersInv
<1>8. QED
  BY <1>6, <1>7

\* It holds at first, and every step keeps it.
LEMMA HeadersInitHold ==
  ASSUME NEW CONSTANT configs, HeaderInit(configs)
  PROVE  HeadersInv
<1>1. PICK yes, no \in BOOLEAN : yes = TRUE /\ no = FALSE
  OBVIOUS
<1>2. PICK c \in Content, d \in BOOLEAN : pull = [head |-> 1, content |-> c, labels |-> {}, open |-> yes, draft |-> d]
  BY <1>1 DEF HeaderInit, EventsInit
<1>3. PICK e : e = [kind |-> "opened", act |-> 0, head |-> 1, labels |-> {}, open |-> yes, draft |-> pull.draft,
                    label |-> "none", tries |-> 1]
  OBVIOUS
<1>4. events = {e} /\ acts = 0 /\ \A v \in Visitor : visit[v] = Free
  BY <1>1, <1>3 DEF HeaderInit, EventsInit
<1>5. pull \in PullRequestOf /\ pull.head = 1 /\ e \in EventOf /\ e.kind = "opened" /\ e.head = 1
  BY <1>1, <1>2, <1>3 DEF PullRequestOf, EventOf, EventKind
<1>6. visit = [v \in Visitor |-> Free] /\ checks = NoChecks
  BY DEF HeaderInit, EventsInit
<1>7. HeadersTyped /\ checks["schema"] = "none" /\ checks["header-check"] = "none"
  BY <1>4, <1>5, <1>6, HeaderAssumption DEF HeadersTyped, EventsTyped, NoChecks, Conclusion
<1>8. HeadIsDue
  BY <1>4, <1>5 DEF HeadIsDue, Heads, HeaderRuns
<1>9. QED
  BY <1>4, <1>5, <1>7, <1>8 DEF HeadersInv

\* Every step keeps it.
LEMMA HeadersInvKept ==
  ASSUME HeadersInv, [HeaderNext]_headerVars
  PROVE  HeadersInv'
<1>1. CASE UNCHANGED headerVars
  BY <1>1 DEF headerVars, eventVars, HeadersInv, HeadersTyped, EventsTyped, HasReadHead, SchemaOf, HeadersOf, FoundOf,
              HeaderFound, IgnoresYear, HeadIsDue, Heads, YetToPost
<1>2. CASE HeaderNext
  BY <1>2, HeaderHandlerKeeps, PeopleKeepHeaders DEF HeaderNext
<1>3. QED
  BY <1>1, <1>2

\* What that gives of the checks when all is done.
LEMMA HeadersInvTells ==
  ASSUME HeadersInv
  PROVE  HeadersAreOfHead
<1>1. Quiet => ~HeadIsDue /\ \A places : ~YetToPost(places)
  BY DEF Quiet, HeadIsDue, YetToPost
<1>2. QED
  BY <1>1 DEF HeadersInv, HeadersAreOfHead, SchemaOf, HeadersOf, FoundOf

(* The checks of header-checker-lint on the head tell of the files of the head, under the *)
(* configuration of the head, for any configuration and any number of pushes, handlers    *)
(* that overlap each other and the pushes, and failing calls.                             *)
THEOREM HeadersTellOfHead ==
  ASSUME NEW CONSTANT configs
  PROVE  HeaderSpec(configs) => []HeadersAreOfHead
<1>1. HeaderInit(configs) => HeadersInv
  BY HeadersInitHold
<1>2. HeadersInv /\ [HeaderNext]_headerVars => HeadersInv'
  BY HeadersInvKept
<1>3. HeadersInv => HeadersAreOfHead
  BY HeadersInvTells
<1>4. QED
  BY <1>1, <1>2, <1>3, PTL DEF HeaderSpec

----------------------------------------------------------------------------
(* do-not-merge: the latest check and the label.                            *)

LabelPlaces == {"check", "find", "put"}
LabelVisit  == VisitOf(LabelPlaces, SUBSET Nat, {{}})
LabelsTyped == EventsTyped(LabelPlaces, SUBSET Nat, {{}}) /\ checkRuns \in Seq({"success", "failure"})

LatestRun  == IF checkRuns = <<>> THEN {} ELSE {Len(checkRuns)}
LabelRight ==
  (\E i \in LatestRun : checkRuns[i] = "failure") <=> (pull.labels \cap DoNotMergeLabel # {})

\* An event that has the check updated, and a handler that is about to.
TellsOfLabel(e) == e.kind \in {"synchronize", "labeled", "unlabeled"} /\ e.open
LabelIsDue == \E e \in events : TellsOfLabel(e)
Updating(x) == TellsOfLabel(x.event) /\ (x.at = "check" => x.event.kind = "synchronize")

\* A payload that tells of the pull request as it is.
IsCurrent(e)  == e.head = pull.head /\ e.labels = pull.labels
OneByOne ==
  /\ \A e, f \in events : e = f
  /\ \A v, w \in Visitor : visit[v] # Free /\ visit[w] # Free => v = w
  /\ \A v \in Visitor : visit[v] # Free => events = {}
  /\ \A e \in events : IsCurrent(e)
  /\ \A v \in Visitor : visit[v] # Free =>
       IsCurrent(visit[v].event) /\ (visit[v].at = "put" => visit[v].read = LatestRun)

\* Who is not hurried deals with one event at a time, and then the check is right.
LabelInv ==
  /\ LabelsTyped
  /\ ~hurried =>
       /\ OneByOne
       /\ (~missed /\ ~unseen) =>
            LabelRight \/ LabelIsDue \/ \E v \in Visitor : visit[v] # Free /\ Updating(visit[v])

\* Calls change the conclusions of runs or add a run.
LEMMA RunsTyped ==
  ASSUME checkRuns \in Seq({"success", "failure"}), NEW e, NEW found
  PROVE  RunsAfter(e, found) \in Seq({"success", "failure"})
<1> DEFINE S == {"success", "failure"}
<1>1. PICK n \in Nat : n = Len(checkRuns) /\ DOMAIN checkRuns = 1 .. n /\ \A i \in 1 .. n : checkRuns[i] \in S
  OBVIOUS
<1>2. \A c \in S : Append(checkRuns, c) \in Seq(S)
  OBVIOUS
<1>3. ASSUME NEW c \in S PROVE [i \in DOMAIN checkRuns |-> IF i \in found THEN c ELSE checkRuns[i]] \in Seq(S)
  <2>1. [i \in 1 .. n |-> IF i \in found THEN c ELSE checkRuns[i]] \in [1 .. n -> S]
    BY <1>1
  <2>2. QED
    BY <1>1, <2>1, SeqDef
<1>4. QED
  BY <1>2, <1>3 DEF RunsAfter

\* A call leaves the latest check failing just when the payload bears the label.
LEMMA RunsAfterCall ==
  ASSUME checkRuns \in Seq({"success", "failure"}), NEW e, NEW after, after = RunsAfter(e, LatestRun)
  PROVE  /\ after \in Seq({"success", "failure"})
         /\ after # <<>> /\ after[Len(after)] = "failure" <=> LabelFound(e)
<1> DEFINE S == {"success", "failure"}
<1>1. PICK n \in Nat : n = Len(checkRuns) /\ DOMAIN checkRuns = 1 .. n /\ \A i \in 1 .. n : checkRuns[i] \in S
  OBVIOUS
<1>2. LatestRun = IF n = 0 THEN {} ELSE {n}
  BY <1>1, EmptySeq DEF LatestRun
<1>3. \A c \in S : /\ Append(checkRuns, c) \in Seq(S) /\ Append(checkRuns, c) # <<>>
                   /\ Append(checkRuns, c)[Len(Append(checkRuns, c))] = c
  BY <1>1
<1>4. ASSUME NEW c \in S, NEW new, new = [i \in DOMAIN checkRuns |-> IF i \in LatestRun THEN c ELSE checkRuns[i]]
      PROVE  new \in Seq(S) /\ (n # 0 => new # <<>> /\ new[Len(new)] = c)
  <2>1. new \in [1 .. n -> S]
    BY <1>1, <1>4
  <2>2. new \in Seq(S) /\ Len(new) = n
    BY <2>1, SeqDef, LenProperties
  <2>3. QED
    BY <1>2, <1>4, <2>1, <2>2
<1>5. CASE LabelFound(e)
  <2>1. CASE n = 0
    BY <1>2, <1>3, <1>5, <2>1 DEF RunsAfter
  <2>2. CASE n # 0
    <3>1. after = [i \in DOMAIN checkRuns |-> IF i \in LatestRun THEN "failure" ELSE checkRuns[i]]
      BY <1>2, <1>5, <2>2 DEF RunsAfter
    <3>2. QED
      BY <1>4, <1>5, <2>2, <3>1
  <2>3. QED
    BY <2>1, <2>2
<1>6. CASE ~LabelFound(e)
  <2>1. CASE \E i \in LatestRun : checkRuns[i] # "success"
    <3>1. after = [i \in DOMAIN checkRuns |-> IF i \in LatestRun THEN "success" ELSE checkRuns[i]] /\ n # 0
      BY <1>2, <1>6, <2>1 DEF RunsAfter
    <3>2. QED
      BY <1>4, <1>6, <3>1
  <2>2. CASE ~\E i \in LatestRun : checkRuns[i] # "success"
    <3>1. after = Append(checkRuns, "success") \/ after = checkRuns
      BY <1>6, <2>2 DEF RunsAfter
    <3>2. n # 0 => checkRuns[n] = "success"
      BY <1>2, <2>2
    <3>3. QED
      BY <1>1, <1>3, <1>6, <3>1, <3>2
  <2>3. QED
    BY <2>1, <2>2
<1>7. QED
  BY <1>5, <1>6

\* A handler goes on, ends or fails.
LEMMA LabelMoves ==
  ASSUME LabelInv, NEW v \in Visitor, visit[v] # Free, NEW x \in LabelVisit \cup {Free},
         visit' = [visit EXCEPT ![v] = x],
         UNCHANGED <<pull, acts, hurried, unseen>>, missed => missed',
         checkRuns' \in Seq({"success", "failure"}),
         \/ UNCHANGED events
         \/ x = Free /\ \E e \in EventOf : SameEvent(e, visit[v].event) /\ events' = events \cup {e},
         x # Free => x.event = visit[v].event,
         ~hurried =>
           /\ x # Free /\ x.at = "put" => x.read = LatestRun'
           /\ ~missed' => /\ LabelRight => LabelRight'
                          /\ Updating(visit[v]) => LabelRight' \/ LabelIsDue' \/ (x # Free /\ Updating(x))
  PROVE  LabelInv'
<1>1. /\ EventsTyped(LabelPlaces, SUBSET Nat, {{}}) /\ visit \in [Visitor -> LabelVisit \cup {Free}]
      /\ events \subseteq EventOf /\ "free" \notin LabelPlaces
  BY DEF LabelInv, LabelsTyped, EventsTyped, LabelVisit, LabelPlaces
<1>2. visit' \in [Visitor -> LabelVisit \cup {Free}] /\ visit'[v] = x /\ \A w \in Visitor \ {v} : visit'[w] = visit[w]
  BY <1>1
<1>3. LabelsTyped'
  BY <1>1, <1>2 DEF LabelInv, LabelsTyped, EventsTyped, LabelVisit
<1>4. SUFFICES ASSUME ~hurried
               PROVE  /\ OneByOne'
                      /\ (~missed' /\ ~unseen') =>
                           LabelRight' \/ LabelIsDue' \/ \E w \in Visitor : visit'[w] # Free /\ Updating(visit[w])'
  BY <1>3 DEF LabelInv
<1>5. /\ events = {} /\ IsCurrent(visit[v].event)
      /\ \A w \in Visitor : visit[w] # Free => w = v
  BY <1>4 DEF LabelInv, OneByOne
<1>6. \A w \in Visitor : visit'[w] # Free => w = v /\ x # Free
  BY <1>2, <1>5
<1>7. OneByOne'
  <2>1. \A e, f \in events' : e = f
    BY <1>5
  <2>2. \A w \in Visitor : visit'[w] # Free => events' = {}
    BY <1>5, <1>6
  <2>3. \A e \in events' : IsCurrent(e)'
    BY <1>5 DEF IsCurrent, SameEvent
  <2>4. \A w \in Visitor : visit'[w] # Free =>
          IsCurrent(visit[w].event)' /\ (visit'[w].at = "put" => visit'[w].read = LatestRun')
    BY <1>2, <1>4, <1>5, <1>6 DEF IsCurrent
  <2>5. QED
    BY <1>6, <2>1, <2>2, <2>3, <2>4 DEF OneByOne
<1>8. ASSUME ~missed', ~unseen
      PROVE  LabelRight' \/ LabelIsDue' \/ \E w \in Visitor : visit'[w] # Free /\ Updating(visit[w])'
  <2>1. LabelRight \/ Updating(visit[v])
    BY <1>4, <1>5, <1>8 DEF LabelInv, LabelIsDue
  <2>2. Updating(x) /\ x # Free => visit'[v] # Free /\ Updating(visit[v])'
    BY <1>2 DEF Updating, TellsOfLabel
  <2>3. QED
    BY <1>4, <1>8, <2>1, <2>2
<1>9. QED
  BY <1>7, <1>8

\* An event is taken, or left.
LEMMA LabelTakesKeeps ==
  ASSUME LabelInv, NEW v \in Visitor, NEW e \in events, DoNotMergeTakes(v, e)
  PROVE  LabelInv'
<1>1. /\ EventsTyped(LabelPlaces, SUBSET Nat, {{}}) /\ visit[v] = Free /\ e \in EventOf /\ "free" \notin LabelPlaces
      /\ events \subseteq EventOf
  BY DEF LabelInv, LabelsTyped, EventsTyped, DoNotMergeTakes, TakeEvent, IgnoreEvent, LabelPlaces
<1>2. UNCHANGED <<pull, acts, missed, hurried, checkRuns, unseen>> /\ events' = events \ {e}
  BY DEF DoNotMergeTakes, TakeEvent, IgnoreEvent
<1>3. ASSUME ~hurried PROVE events = {e} /\ IsCurrent(e) /\ events' = {} /\ \A w \in Visitor : visit[w] = Free
  BY <1>2, <1>3 DEF LabelInv, OneByOne
<1>4. ASSUME NEW a \in LabelPlaces, TakeEvent(v, e, a), a # "put", TellsOfLabel(e) => (a = "check" => e.kind = "synchronize")
      PROVE  LabelInv'
  <2>1. PICK reads \in SUBSET Nat, finds \in {{}} : reads = {} /\ finds = {}
    OBVIOUS
  <2>2. PICK x : x = [at |-> a, event |-> e, read |-> reads, bad |-> finds]
    OBVIOUS
  <2>3. x \in LabelVisit /\ x.at = a /\ x.event = e /\ x # Free
    <3>1. x \in LabelVisit /\ x.at = a /\ x.event = e
      BY <1>1, <2>2 DEF LabelVisit, VisitOf
    <3>2. QED
      BY <1>1, <3>1, AtWork DEF LabelVisit
  <2>4. visit' = [visit EXCEPT ![v] = x]
    BY <1>4, <2>1, <2>2 DEF TakeEvent, Visits
  <2>5. /\ visit \in [Visitor -> LabelVisit \cup {Free}] /\ visit' \in [Visitor -> LabelVisit \cup {Free}]
        /\ visit'[v] = x /\ \A w \in Visitor \ {v} : visit'[w] = visit[w]
    BY <1>1, <2>3, <2>4 DEF EventsTyped, LabelVisit
  <2>6. LabelsTyped'
    BY <1>1, <1>2, <2>5 DEF LabelInv, LabelsTyped, EventsTyped, LabelVisit
  <2>7. SUFFICES ASSUME ~hurried
                 PROVE  /\ OneByOne'
                        /\ (~missed' /\ ~unseen') =>
                             LabelRight' \/ LabelIsDue' \/ \E w \in Visitor : visit'[w] # Free /\ Updating(visit[w])'
    BY <1>2, <2>6 DEF LabelInv
  <2>8. \A w \in Visitor : visit'[w] # Free => w = v
    BY <1>3, <2>5, <2>7
  <2>9. OneByOne'
    BY <1>2, <1>3, <1>4, <2>3, <2>5, <2>7, <2>8 DEF OneByOne, IsCurrent
  <2>10. ASSUME ~missed, ~unseen
         PROVE  LabelRight' \/ (visit'[v] # Free /\ Updating(visit[v])')
    <3>1. LabelRight \/ TellsOfLabel(e)
      BY <1>3, <2>7, <2>10 DEF LabelInv, LabelIsDue
    <3>2. LabelRight => LabelRight'
      BY <1>2 DEF LabelRight, LatestRun
    <3>3. TellsOfLabel(e) => visit'[v] # Free /\ Updating(visit[v])'
      BY <1>4, <2>3, <2>5 DEF Updating, TellsOfLabel
    <3>4. QED
      BY <3>1, <3>2, <3>3
  <2>11. QED
    BY <1>2, <2>9, <2>10
<1>5. ASSUME IgnoreEvent(v, e), ~TellsOfLabel(e) PROVE LabelInv'
  <2>1. UNCHANGED visit
    BY <1>5 DEF IgnoreEvent
  <2>2. LabelsTyped'
    BY <1>2, <2>1 DEF LabelInv, LabelsTyped, EventsTyped
  <2>3. SUFFICES ASSUME ~hurried
                 PROVE  OneByOne' /\ (~missed /\ ~unseen => LabelRight')
    BY <1>2, <2>2 DEF LabelInv
  <2>4. OneByOne'
    BY <1>2, <1>3, <2>1, <2>3 DEF OneByOne, IsCurrent
  <2>5. ~missed /\ ~unseen => LabelRight
    BY <1>3, <1>5, <2>3 DEF LabelInv, LabelIsDue
  <2>6. LabelRight => LabelRight'
    BY <1>2 DEF LabelRight, LatestRun
  <2>7. QED
    BY <2>4, <2>5, <2>6
<1>6. QED
  BY <1>4, <1>5 DEF DoNotMergeTakes, TellsOfLabel, LabelPlaces

\* A handler of do-not-merge keeps the invariant.
LEMMA LabelHandlerKeeps ==
  ASSUME LabelInv, NEW v \in Visitor, DoNotMergeStep(v)
  PROVE  LabelInv'
<1>1. /\ EventsTyped(LabelPlaces, SUBSET Nat, {{}}) /\ checkRuns \in Seq({"success", "failure"})
      /\ events \subseteq EventOf /\ "free" \notin LabelPlaces
  BY DEF LabelInv, LabelsTyped, EventsTyped, LabelPlaces
<1>2. /\ \A y \in LabelVisit : y # Free
      /\ visit[v] # Free => visit[v] \in LabelVisit /\ visit[v].event \in EventOf
  BY <1>1, AtWork DEF LabelVisit
<1>3. UNCHANGED <<pull, checkRuns>> => (LabelRight => LabelRight')
  BY DEF LabelRight, LatestRun
<1>4. ASSUME NEW e \in events, DoNotMergeTakes(v, e) PROVE LabelInv'
  BY <1>4, LabelTakesKeeps
<1>5. CASE DoNotMergeChecksConfig(v)
  <2>1. visit[v] # Free /\ visit[v].at = "check" /\ UNCHANGED <<pull, events, acts, hurried, missed, unseen, checkRuns>>
    BY <1>5 DEF DoNotMergeChecksConfig, VisitAt, Inside
  <2>2. CASE visit[v].event.kind = "synchronize"
    <3>1. PICK x : x = [visit[v] EXCEPT !.at = "find"]
      OBVIOUS
    <3>2. x \in LabelVisit /\ x.at = "find" /\ x.event = visit[v].event
      BY <1>2, <2>1, <3>1, PlaceTyped DEF LabelVisit, LabelPlaces
    <3>3. visit' = [visit EXCEPT ![v] = x]
      BY <1>5, <2>2, <3>1 DEF DoNotMergeChecksConfig, VisitTo, Visits
    <3>4. Updating(visit[v]) => Updating(x)
      BY <3>2 DEF Updating
    <3>5. QED
      BY <1>1, <1>2, <1>3, <2>1, <3>2, <3>3, <3>4, LabelMoves
  <2>3. CASE visit[v].event.kind # "synchronize"
    <3>1. visit' = [visit EXCEPT ![v] = Free]
      BY <1>5, <2>3 DEF DoNotMergeChecksConfig, Leave, Visits
    <3>2. ~Updating(visit[v])
      BY <2>1, <2>3 DEF Updating
    <3>3. UNCHANGED <<pull, acts, hurried, unseen>> /\ checkRuns' \in Seq({"success", "failure"})
      BY <1>1, <2>1
    <3>4. LabelRight => LabelRight'
      BY <1>3, <2>1
    <3>5. QED
      BY <2>1, <3>1, <3>2, <3>3, <3>4, LabelMoves
  <2>4. QED
    BY <2>2, <2>3
<1>6. CASE FindCheck(v)
  <2>1. visit[v] # Free /\ visit[v].at = "find" /\ UNCHANGED <<pull, events, acts, hurried, missed, unseen, checkRuns>>
    BY <1>6 DEF FindCheck, VisitAt, Inside
  <2>2. PICK read \in SUBSET Nat :
          read = IF visit[v].event.head = pull.head /\ checkRuns # <<>> THEN {Len(checkRuns)} ELSE {}
    <3>1. Len(checkRuns) \in Nat
      BY <1>1
    <3>2. QED
      BY <3>1
  <2>3. PICK y : y = visit[v]
    OBVIOUS
  <2>4. PICK x : x = [y EXCEPT !.at = "put", !.read = read]
    OBVIOUS
  <2>5. x \in LabelVisit /\ x.at = "put" /\ x.event = visit[v].event /\ x.read = read
    BY <1>2, <2>1, <2>3, <2>4 DEF LabelVisit, LabelPlaces, VisitOf
  <2>6. visit' = [visit EXCEPT ![v] = x]
    BY <1>6, <2>2, <2>3, <2>4 DEF FindCheck, Visits
  <2>7. ~hurried => read = LatestRun'
    BY <2>1, <2>2 DEF LabelInv, OneByOne, IsCurrent, LatestRun
  <2>8. Updating(visit[v]) => Updating(x)
    BY <2>5 DEF Updating
  <2>9. QED
    BY <1>1, <1>2, <1>3, <2>1, <2>5, <2>6, <2>7, <2>8, LabelMoves
<1>7. CASE PutCheck(v)
  <2>1. visit[v] # Free /\ visit[v].at = "put" /\ UNCHANGED <<pull, events, acts, hurried, missed, unseen>>
    BY <1>7 DEF PutCheck, VisitAt, Inside
  <2>2. visit' = [visit EXCEPT ![v] = Free]
    BY <1>7 DEF PutCheck, Leave, Visits
  <2>3. checkRuns' = IF visit[v].event.head = pull.head THEN RunsAfter(visit[v].event, visit[v].read) ELSE checkRuns
    BY <1>7 DEF PutCheck
  <2>4. ASSUME ~hurried PROVE LabelRight'
    <3>1. IsCurrent(visit[v].event) /\ visit[v].read = LatestRun
      BY <2>1, <2>4 DEF LabelInv, OneByOne
    <3>2. checkRuns' = RunsAfter(visit[v].event, LatestRun)
      BY <2>3, <3>1 DEF IsCurrent
    <3>3. checkRuns' # <<>> /\ checkRuns'[Len(checkRuns')] = "failure" <=> LabelFound(visit[v].event)
      BY <1>1, <3>2, RunsAfterCall
    <3>4. (\E i \in LatestRun' : checkRuns'[i] = "failure") <=> LabelFound(visit[v].event)
      BY <3>3 DEF LatestRun
    <3>5. LabelFound(visit[v].event) <=> pull'.labels \cap DoNotMergeLabel # {}
      BY <2>1, <3>1 DEF IsCurrent, LabelFound
    <3>6. QED
      BY <3>4, <3>5 DEF LabelRight
  <2>5. checkRuns' \in Seq({"success", "failure"})
    BY <1>1, <2>3, RunsTyped
  <2>6. QED
    BY <1>1, <2>1, <2>2, <2>4, <2>5, LabelMoves
<1>8. CASE DoNotMergeFails(v)
  <2>1. /\ visit[v] # Free /\ visit' = [visit EXCEPT ![v] = Free] /\ UNCHANGED <<pull, acts, hurried, unseen, checkRuns>>
        /\ \/ missed' /\ UNCHANGED events
           \/ UNCHANGED missed /\ \E e \in EventOf : SameEvent(e, visit[v].event) /\ events' = events \cup {e}
    BY <1>1, <1>8, VisitFailed DEF DoNotMergeFails
  <2>2. ~missed' /\ Updating(visit[v]) => LabelIsDue'
    BY <2>1 DEF Updating, TellsOfLabel, LabelIsDue, SameEvent
  <2>3. checkRuns' \in Seq({"success", "failure"}) /\ (missed => missed')
    BY <1>1, <2>1
  <2>4. LabelRight => LabelRight'
    BY <1>3, <2>1
  <2>5. \/ UNCHANGED events
        \/ \E e \in EventOf : SameEvent(e, visit[v].event) /\ events' = events \cup {e}
    BY <2>1
  <2>6. UNCHANGED <<pull, acts, hurried, unseen>> /\ Free \in LabelVisit \cup {Free}
    BY <2>1
  <2>7. QED
    BY <2>1, <2>2, <2>3, <2>4, <2>5, <2>6, LabelMoves
<1>9. QED
  BY <1>4, <1>5, <1>6, <1>7, <1>8 DEF DoNotMergeStep

\* An act of people has the check updated, or leaves it right, or is unseen.
LEMMA PeopleKeepLabel ==
  ASSUME LabelInv, PeopleAct,
         checkRuns' = IF pull'.head = pull.head THEN checkRuns ELSE <<>>,
         unseen' = (unseen \/ (~pull.open /\ <<pull'.head, pull'.labels>> # <<pull.head, pull.labels>>))
  PROVE  LabelInv'
<1>1. LabelsTyped /\ pull \in PullRequestOf /\ acts \in Nat
  BY DEF LabelInv, LabelsTyped, EventsTyped
<1>2. PICK e : Acted(e)
  BY <1>1, PeopleAreActing
<1>3. UNCHANGED <<visit, missed>> /\ events' = events \cup {e} /\ e \in EventOf /\ hurried' = (hurried \/ ~Quiet)
  BY <1>2 DEF Acted
<1>4. checkRuns' \in Seq({"success", "failure"})
  BY <1>1 DEF LabelsTyped
<1>5. LabelsTyped'
  BY <1>1, <1>2, <1>3, <1>4 DEF Acted, LabelsTyped, EventsTyped
<1>6. SUFFICES ASSUME ~hurried, Quiet
               PROVE  OneByOne' /\ (~missed' /\ ~unseen' => LabelRight' \/ LabelIsDue')
  BY <1>3, <1>5 DEF LabelInv
<1>7. events' = {e} /\ \A w \in Visitor : visit'[w] = Free
  BY <1>3, <1>6 DEF Quiet
<1>8. OneByOne'
  BY <1>2, <1>7 DEF Acted, OneByOne, IsCurrent
<1>9. ASSUME ~missed', ~unseen' PROVE LabelRight' \/ LabelIsDue'
  <2>1. LabelRight
    BY <1>3, <1>6, <1>9 DEF LabelInv, Quiet, LabelIsDue
  <2>2. CASE pull'.head = pull.head /\ pull'.labels = pull.labels
    BY <2>1, <2>2 DEF LabelRight, LatestRun
  <2>3. CASE ~(pull'.head = pull.head /\ pull'.labels = pull.labels)
    <3>1. pull.open
      BY <1>9, <2>3
    <3>2. e.kind \in {"synchronize", "labeled", "unlabeled"} /\ e.open
      BY <1>2, <2>3, <3>1 DEF Acted, PullRequestOf
    <3>3. QED
      BY <1>7, <3>2 DEF LabelIsDue, TellsOfLabel
  <2>4. QED
    BY <2>2, <2>3
<1>10. QED
  BY <1>8, <1>9

\* What is pushed to a closed pull request is unseen.
LEMMA ClosedPushKeepsLabel ==
  ASSUME LabelInv, NEW c \in Content, PushClosed(c),
         checkRuns' = IF pull'.head = pull.head THEN checkRuns ELSE <<>>,
         unseen' = (unseen \/ (~pull.open /\ <<pull'.head, pull'.labels>> # <<pull.head, pull.labels>>))
  PROVE  LabelInv'
<1>1. LabelsTyped /\ pull \in PullRequestOf /\ acts \in Nat
  BY DEF LabelInv, LabelsTyped, EventsTyped
<1>2. UNCHANGED <<visit, events>> /\ hurried' = (hurried \/ ~Quiet) /\ acts' = acts + 1 /\ ~pull.open
  BY DEF PushClosed
<1>3. PICK n \in Nat : n = pull.head + 1 /\ n # pull.head
  BY <1>1 DEF PullRequestOf
<1>4. pull' = [pull EXCEPT !.head = n, !.content = c]
  BY <1>3 DEF PushClosed
<1>5. pull' \in PullRequestOf /\ pull'.head # pull.head
  BY <1>1, <1>3, <1>4 DEF PullRequestOf
<1>6. LabelsTyped'
  BY <1>1, <1>2, <1>5 DEF LabelsTyped, EventsTyped
<1>7. unseen'
  BY <1>2, <1>5
<1>8. ~hurried' => OneByOne'
  BY <1>2 DEF OneByOne, Quiet
<1>9. QED
  BY <1>6, <1>7, <1>8 DEF LabelInv

\* It holds at first, and every step keeps it.
LEMMA LabelInitHolds ==
  ASSUME NEW CONSTANT configs, DoNotMergeInit(configs)
  PROVE  LabelInv
<1>1. PICK yes, no \in BOOLEAN : yes = TRUE /\ no = FALSE
  OBVIOUS
<1>2. PICK c \in Content, d \in BOOLEAN : pull = [head |-> 1, content |-> c, labels |-> {}, open |-> yes, draft |-> d]
  BY <1>1 DEF DoNotMergeInit, EventsInit
<1>3. PICK e : e = [kind |-> "opened", act |-> 0, head |-> 1, labels |-> {}, open |-> yes, draft |-> pull.draft,
                    label |-> "none", tries |-> 1]
  OBVIOUS
<1>4. events = {e} /\ acts = 0 /\ \A v \in Visitor : visit[v] = Free
  BY <1>1, <1>3 DEF DoNotMergeInit, EventsInit
<1>5. pull \in PullRequestOf /\ pull.head = 1 /\ pull.labels = {} /\ e \in EventOf /\ e.head = 1 /\ e.labels = {}
  BY <1>1, <1>2, <1>3 DEF PullRequestOf, EventOf, EventKind
<1>6. visit = [v \in Visitor |-> Free] /\ checkRuns = <<>>
  BY DEF DoNotMergeInit, EventsInit
<1>7. LabelsTyped
  BY <1>4, <1>5, <1>6 DEF LabelsTyped, EventsTyped
<1>8. OneByOne
  BY <1>4, <1>5 DEF OneByOne, IsCurrent
<1>9. LabelRight
  BY <1>5, <1>6 DEF LabelRight, LatestRun
<1>10. QED
  BY <1>7, <1>8, <1>9 DEF LabelInv

\* Every step keeps it.
LEMMA LabelInvKept ==
  ASSUME LabelInv, [DoNotMergeNext]_dnmVars
  PROVE  LabelInv'
<1>1. CASE UNCHANGED dnmVars
  BY <1>1 DEF dnmVars, eventVars, LabelInv, LabelsTyped, EventsTyped, OneByOne, IsCurrent, LabelRight, LatestRun,
              LabelIsDue, TellsOfLabel, Updating
<1>2. CASE DoNotMergeNext
  BY <1>2, LabelHandlerKeeps, PeopleKeepLabel, ClosedPushKeepsLabel DEF DoNotMergeNext
<1>3. QED
  BY <1>1, <1>2

\* What that gives of the check when all is done.
LEMMA LabelInvTells ==
  ASSUME LabelInv
  PROVE  LabelIsChecked
<1>1. SUFFICES ASSUME Quiet, ~missed, ~hurried, ~unseen PROVE LabelIsChecked
  BY DEF LabelIsChecked
<1>2. LabelRight
  BY <1>1 DEF LabelInv, Quiet, LabelIsDue
<1>3. QED
  BY <1>2 DEF LabelRight, LatestRun, LabelIsChecked

(* The latest check of do-not-merge on the head fails just when the pull request bears    *)
(* the label, for any configuration and number of pushes, labels and failing calls: when  *)
(* no act came before the one before it was dealt with, and label and head did not change *)
(* while the pull request was closed.                                                     *)
THEOREM LabelHasItsCheck ==
  ASSUME NEW CONSTANT configs
  PROVE  DoNotMergeSpec(configs) => []LabelIsChecked
<1>1. DoNotMergeInit(configs) => LabelInv
  BY LabelInitHolds
<1>2. LabelInv /\ [DoNotMergeNext]_dnmVars => LabelInv'
  BY LabelInvKept
<1>3. LabelInv => LabelIsChecked
  BY LabelInvTells
<1>4. QED
  BY <1>1, <1>2, <1>3, PTL DEF DoNotMergeSpec

----------------------------------------------------------------------------
(* The fan-out of a cron: how many calls are under way.                     *)

AtMost(S, n) == IsFiniteSet(S) /\ Cardinality(S) <= n

\* One more and one fewer.
LEMMA AtMostIs ==
  ASSUME NEW S, NEW n \in Nat
  PROVE  /\ AtMost({}, n)
         /\ \A t : n # 0 => AtMost({t}, n)
         /\ AtMost(S, n) => \A t : AtMost(S \cup {t}, n + 1) /\ AtMost(S \ {t}, n)
         /\ \A m \in Nat : AtMost(S, n) /\ n <= m => AtMost(S, m)
<1>1. AtMost({}, n)
  BY FS_EmptySet DEF AtMost
<1>2. ASSUME NEW t, n # 0 PROVE AtMost({t}, n)
  <2>1. IsFiniteSet({t}) /\ Cardinality({t}) = 1
    BY FS_Singleton
  <2>2. 1 <= n
    BY <1>2
  <2>3. QED
    BY <2>1, <2>2 DEF AtMost
<1>3. ASSUME AtMost(S, n), NEW t PROVE AtMost(S \cup {t}, n + 1) /\ AtMost(S \ {t}, n)
  <2>1. PICK c \in Nat : IsFiniteSet(S) /\ c = Cardinality(S) /\ c <= n
    BY <1>3, FS_CardinalityType DEF AtMost
  <2>2. IsFiniteSet(S \cup {t}) /\ Cardinality(S \cup {t}) \in {c, c + 1}
    BY <2>1, FS_AddElement
  <2>3. IsFiniteSet(S \ {t}) /\ Cardinality(S \ {t}) \in {c, c - 1}
    BY <2>1, FS_RemoveElement
  <2>4. QED
    BY <2>1, <2>2, <2>3 DEF AtMost
<1>4. ASSUME AtMost(S, n), NEW m \in Nat, n <= m PROVE AtMost(S, m)
  BY <1>4, FS_CardinalityType DEF AtMost
<1>5. QED
  BY <1>1, <1>2, <1>3, <1>4

\* Calls of the batch that is being filled are counted; else there is one at most, or those
\* of a batch that a failing page has left.
Room == IF fanout.at = "repos" THEN fanout.count ELSE CronBatch
CronPending ==
  /\ pending \subseteq CronTask /\ cronTasks \subseteq CronTask /\ unsteady \subseteq Repository
  /\ \A t \in pending : t.kind = "repository" => t.of \in Repository
  /\ fanout.count <= CronBatch /\ AtMost(pending, Room)

\* Nothing is under way at first.
LEMMA CronPendingInit ==
  ASSUME NEW bodies, NEW lists, CronInit(bodies, lists)
  PROVE  CronPending
<1>1. fanout.at = "start" /\ fanout.count = 0 /\ pending = {} /\ cronTasks = {} /\ unsteady = {}
  BY DEF CronInit
<1>2. AtMost({}, CronBatch) /\ 0 <= CronBatch
  BY AtMostIs, CronAssumption
<1>3. QED
  BY <1>1, <1>2 DEF CronPending, Room

\* A call for a task of some kind.
LEMMA TaskTyped ==
  ASSUME NEW kind \in {"global", "installation", "repository"}, NEW of \in Installation \cup Repository \cup {NoTarget}, NEW delay \in Nat
  PROVE  Task(kind, of, delay) \in CronTask /\ Task(kind, of, delay).kind = kind /\ Task(kind, of, delay).of = of
BY DEF Task, CronTask

\* A step that fills no batch.
LEMMA PendingMoves ==
  ASSUME CronTyped, CronPending, UNCHANGED <<cronTasks, unsteady>>, fanout'.at # "repos" \/ pending' = {},
         fanout'.count \in Nat, fanout'.count <= CronBatch,
         \/ pending' = {}
         \/ pending' = pending
         \/ \E t \in CronTask : pending' = {t} /\ (t.kind = "repository" => t.of \in Repository)
  PROVE  CronPending'
<1>1. CronBatch \in Nat \ {0} /\ fanout.count \in Nat /\ fanout.count <= CronBatch /\ AtMost(pending, Room) /\ Room \in Nat /\ Room <= CronBatch
  BY CronAssumption DEF CronTyped, Fanouts, CronPending, Room
<1>2. AtMost(pending', Room')
  <2>1. CASE pending' = {}
    <3>1. Room' \in Nat
      BY <1>1 DEF Room
    <3>2. QED
      BY <2>1, <3>1, AtMostIs
  <2>2. CASE fanout'.at # "repos"
    <3>1. Room' = CronBatch
      BY <2>2 DEF Room
    <3>2. AtMost(pending, CronBatch)
      BY <1>1, AtMostIs
    <3>3. AtMost({}, CronBatch) /\ \A t : AtMost({t}, CronBatch)
      BY <1>1, AtMostIs
    <3>4. QED
      BY <3>1, <3>2, <3>3
  <2>3. QED
    BY <2>1, <2>2
<1>3. pending' \subseteq CronTask /\ \A t \in pending' : t.kind = "repository" => t.of \in Repository
  BY DEF CronPending
<1>4. QED
  BY <1>2, <1>3 DEF CronPending

\* Every step leaves room for the calls under way.
LEMMA CronPendingKept ==
  ASSUME CronTyped, CronTyped', CronWays, CronPending, [CronNext]_cronVars
  PROVE  CronPending'
<1>1. /\ fanout \in Fanouts /\ fanout.count \in Nat /\ fanout.delay \in Nat /\ CronBatch \in Nat \ {0}
      /\ scheduled \in CronBodies /\ installed \in Seq(Installation) /\ repos \in [Installation -> Seq(Repository)]
      /\ fanout.installations.items \in Seq(Installation) /\ fanout.repos.items \in Seq(Repository)
      /\ fanout.repos.next \in Nat /\ CronPage \in Nat \ {0} /\ fanout.count <= CronBatch /\ fanout'.count \in Nat
  BY CronAssumption DEF CronTyped, Fanouts, Cursor, CronPending
<1>2. PICK f \in Fanouts : f = fanout
  BY <1>1
<1>3. CASE UNCHANGED cronVars
  BY <1>3 DEF cronVars, CronPending, Room
<1>4. CASE HandleScheduled
  <2>1. fanout.at = "start" /\ pending = {} /\ UNCHANGED <<cronTasks, unsteady>>
    BY <1>4 DEF HandleScheduled, CronWays
  <2>2. \A a : [f EXCEPT !.at = a].at = a /\ [f EXCEPT !.at = a].count = f.count
    BY DEF Fanouts
  <2>3. \A i : [f EXCEPT !.at = "repos", !.installation = i].count = f.count
    BY DEF Fanouts
  <2>4. /\ scheduled.installation \in Installation \cup Repository \cup {NoTarget}
        /\ scheduled.repo \in Installation \cup Repository \cup {NoTarget}
        /\ scheduled.repo # NoTarget => scheduled.repo \in Repository
    BY <1>1 DEF CronBodies
  <2>5. PICK zero \in Nat : zero = 0
    OBVIOUS
  <2>6. \/ /\ fanout' = [f EXCEPT !.at = "one"]
           /\ \/ pending' = {Task("global", NoTarget, zero)}
              \/ pending' = {Task("installation", scheduled.installation, zero)}
              \/ scheduled.repo # NoTarget /\ pending' = {Task("repository", scheduled.repo, zero)}
        \/ UNCHANGED pending /\ \E i : fanout' = [f EXCEPT !.at = "repos", !.installation = i]
        \/ UNCHANGED pending /\ fanout' = [f EXCEPT !.at = "installations"]
    BY <1>2, <1>4, <2>5 DEF HandleScheduled
  <2>7. CASE fanout' = [f EXCEPT !.at = "one"] /\
             \/ pending' = {Task("global", NoTarget, zero)}
             \/ pending' = {Task("installation", scheduled.installation, zero)}
             \/ scheduled.repo # NoTarget /\ pending' = {Task("repository", scheduled.repo, zero)}
    <3>1. fanout'.at # "repos" /\ fanout'.count <= CronBatch
      BY <1>1, <1>2, <2>2, <2>7
    <3>2. \E t \in CronTask : pending' = {t} /\ (t.kind = "repository" => t.of \in Repository)
      BY <2>4, <2>7, TaskTyped
    <3>3. QED
      BY <1>1, <2>1, <3>1, <3>2, PendingMoves
  <2>8. CASE UNCHANGED pending /\ fanout'.count = f.count
    BY <1>1, <1>2, <2>1, <2>8, PendingMoves
  <2>9. QED
    BY <2>2, <2>3, <2>6, <2>7, <2>8
<1>5. CASE FetchInstallations \/ Answer
  <2>1. UNCHANGED <<pending, cronTasks, unsteady>> /\ fanout'.count = fanout.count
    BY <1>2, <1>5 DEF FetchInstallations, Answer, Fanouts
  <2>2. pending = {}
    BY <1>5 DEF FetchInstallations, Answer
  <2>3. QED
    BY <1>1, <2>1, <2>2, PendingMoves
<1>6. CASE FetchRepos
  <2>1. UNCHANGED <<pending, cronTasks, unsteady>> /\ fanout'.count = fanout.count /\ fanout'.at = fanout.at
    BY <1>2, <1>6 DEF FetchRepos, Fanouts
  <2>2. QED
    BY <2>1 DEF CronPending, Room
<1>7. CASE NextInstallation
  <2>1. pending = {} /\ UNCHANGED <<cronTasks, unsteady>> /\ fanout.installations.items # <<>>
    BY <1>7 DEF NextInstallation
  <2>2. PICK i \in Installation : i = Head(fanout.installations.items)
    BY <1>1, <2>1
  <2>3. PICK zero \in Nat : zero = 0
    OBVIOUS
  <2>4. PICK rest : rest = [f EXCEPT !.installations = Rest(@)]
    OBVIOUS
  <2>5. rest.count = f.count /\ rest.at = f.at /\ \A x, y : [rest EXCEPT !.at = "repos", !.installation = x, !.repos = y].count = f.count
    BY <2>4 DEF Fanouts
  <2>6. \/ pending' = {Task("installation", i, zero)} /\ fanout' = rest
        \/ UNCHANGED pending /\ (fanout' = rest \/ \E x, y : fanout' = [rest EXCEPT !.at = "repos", !.installation = x, !.repos = y])
    BY <1>2, <1>7, <2>2, <2>3, <2>4 DEF NextInstallation
  <2>7. fanout'.count = fanout.count
    BY <1>2, <2>5, <2>6
  <2>8. CASE pending' = {Task("installation", i, zero)} /\ fanout' = rest
    <3>1. fanout.at = "installations"
      BY <1>7 DEF NextInstallation
    <3>2. fanout'.at # "repos"
      BY <1>2, <2>5, <2>8, <3>1
    <3>3. \E t \in CronTask : pending' = {t} /\ t.kind = "installation"
      BY <2>8, TaskTyped
    <3>4. QED
      BY <1>1, <2>1, <2>7, <3>2, <3>3, PendingMoves
  <2>9. CASE UNCHANGED pending
    BY <1>1, <2>1, <2>7, <2>9, PendingMoves
  <2>10. QED
    BY <2>6, <2>8, <2>9
<1>8. CASE NextRepo
  <2>1. UNCHANGED <<cronTasks, unsteady>> /\ fanout.at = "repos" /\ fanout.count < CronBatch /\ fanout.repos.items # <<>>
    BY <1>8 DEF NextRepo
  <2>2. PICK r \in Repository : r = Head(fanout.repos.items)
    BY <1>1, <2>1
  <2>3. PICK d \in Nat : d = fanout.delay
    BY <1>1
  <2>4. PICK t \in CronTask : t = Task("repository", r, d) /\ t.of \in Repository
    BY TaskTyped
  <2>5. fanout'.at = "repos"
    BY <1>2, <1>8, <2>1 DEF NextRepo, Fanouts
  <2>6. \/ fanout'.count = fanout.count + 1 /\ pending' = pending \cup {t}
        \/ fanout'.count = fanout.count /\ pending' = pending
    BY <1>2, <1>8, <2>2, <2>3, <2>4 DEF NextRepo, Fanouts
  <2>7. AtMost(pending, fanout.count)
    BY <2>1 DEF CronPending, Room
  <2>8. AtMost(pending \cup {t}, fanout.count + 1)
    BY <1>1, <2>7, AtMostIs
  <2>9. AtMost(pending', fanout'.count)
    BY <2>6, <2>7, <2>8
  <2>10. pending' \subseteq CronTask /\ \A x \in pending' : x.kind = "repository" => x.of \in Repository
    BY <2>4, <2>6 DEF CronPending
  <2>11. fanout'.count <= CronBatch
    BY <1>1, <2>1, <2>6
  <2>12. QED
    BY <2>1, <2>5, <2>9, <2>10, <2>11 DEF CronPending, Room
<1>9. CASE BatchDone \/ ReposDone
  <2>1. pending = {} /\ UNCHANGED <<pending, cronTasks, unsteady>>
    BY <1>9 DEF BatchDone, ReposDone
  <2>2. fanout'.count = 0
    BY <1>2, <1>9 DEF BatchDone, ReposDone, Fanouts
  <2>3. fanout'.count <= CronBatch
    BY <1>1, <2>2
  <2>4. QED
    BY <1>1, <2>1, <2>3, PendingMoves
<1>10. CASE ListingFails
  <2>1. UNCHANGED <<pending, cronTasks, unsteady>> /\ fanout'.at = "failed" /\ fanout'.count = fanout.count
    BY <1>2, <1>10 DEF ListingFails, Fanouts
  <2>2. QED
    BY <1>1, <2>1, PendingMoves
<1>11. ASSUME NEW t \in pending, Enqueued(t) PROVE CronPending'
  <2>1. UNCHANGED <<fanout, unsteady>> /\ pending' = pending \ {t} /\ cronTasks' = cronTasks \cup {t}
    BY <1>11 DEF Enqueued
  <2>2. Room \in Nat /\ Room' = Room
    BY <1>1, <2>1 DEF Room
  <2>3. AtMost(pending \ {t}, Room)
    BY <2>2, AtMostIs DEF CronPending
  <2>4. QED
    BY <1>1, <2>1, <2>2, <2>3 DEF CronPending
<1>12. ASSUME NEW t \in pending, EnqueueFails(t) PROVE CronPending'
  <2>1. UNCHANGED cronTasks /\ pending' = pending \ {t} /\ fanout'.count = fanout.count
    BY <1>2, <1>12 DEF EnqueueFails, Fanouts
  <2>2. Room \in Nat /\ Room <= CronBatch
    BY <1>1 DEF Room
  <2>3. AtMost(pending \ {t}, Room)
    BY <2>2, AtMostIs DEF CronPending
  <2>4. fanout' = fanout \/ fanout'.at = "failed"
    BY <1>2, <1>12 DEF EnqueueFails, Fanouts
  <2>5. Room' \in Nat /\ Room <= Room'
    BY <1>1, <2>2, <2>4 DEF Room
  <2>6. AtMost(pending \ {t}, Room')
    BY <2>2, <2>3, <2>5, AtMostIs
  <2>7. unsteady' \subseteq Repository
    BY <1>12 DEF EnqueueFails, CronPending
  <2>8. QED
    BY <1>1, <2>1, <2>6, <2>7 DEF CronPending
<1>13. ASSUME NEW r \in Repository, ArchiveRepo(r) PROVE CronPending'
  BY <1>13 DEF ArchiveRepo, CronPending, Room
<1>14. ASSUME NEW i \in Installation, NEW r \in Repository, UninstallRepo(i, r) PROVE CronPending'
  <2>1. UNCHANGED <<pending, cronTasks, fanout>>
    BY <1>14 DEF UninstallRepo
  <2>2. repos[i] \in Seq(Repository)
    BY <1>1
  <2>3. \A k : k \in Nat /\ k # 0 /\ k <= Len(repos[i]) => repos[i][k] \in Repository
    BY <2>2
  <2>4. unsteady' \subseteq Repository
    <3> DEFINE first == (fanout.repos.next - 1) * CronPage + 1
    <3>1. PICK k \in 1 .. Len(repos[i]) :
            unsteady' = unsteady \cup {r} \cup
               (IF fanout.at = "repos" /\ fanout.installation = i /\ fanout.repos.next > 1 /\ k < first /\ first <= Len(repos[i])
                THEN {repos[i][first]} ELSE {})
      BY <1>14 DEF UninstallRepo
    <3>2. fanout.repos.next > 1 => first \in Nat /\ first # 0
      <4>1. \A n \in Nat : n > 1 => n - 1 \in Nat
        OBVIOUS
      <4>2. \A n, m \in Nat : n * m \in Nat /\ n * m + 1 \in Nat /\ n * m + 1 # 0
        OBVIOUS
      <4>3. QED
        BY <1>1, <4>1, <4>2
    <3>3. QED
      BY <2>3, <3>1, <3>2 DEF CronPending
  <2>5. QED
    BY <2>1, <2>4 DEF CronPending, Room
<1>15. QED
  BY <1>3, <1>4, <1>5, <1>6, <1>7, <1>8, <1>9, <1>10, <1>11, <1>12, <1>13, <1>14 DEF CronNext, CronStep

\* What that gives of the types.
LEMMA CronPendingTypes ==
  ASSUME CronTyped, CronPending
  PROVE  CronTypeOK
<1>1. fanout.count \in Nat /\ fanout.count <= CronBatch /\ CronBatch \in Nat /\ IsFiniteSet(pending) /\ Cardinality(pending) <= Room
  BY CronAssumption DEF CronPending, AtMost, CronTyped, Fanouts
<1>2. Cardinality(pending) <= CronBatch
  BY <1>1, FS_CardinalityType DEF Room
<1>3. fanout.count \in 0 .. CronBatch
  BY <1>1
<1>4. QED
  BY <1>2, <1>3 DEF CronTyped, CronPending, CronTypeOK, Fanouts

----------------------------------------------------------------------------
(* release-please: numbers, tags, issues, deliveries and the lock.          *)

RunIsBounded(s) == s # Lazy => s.task.tries \in 1 .. MaxRunTries /\ s.made \subseteq DOMAIN pulls

ReleaseBounds ==
  /\ \A b \in Branch : commits[b] <= MaxReleasable
  /\ tags \subseteq DOMAIN pulls /\ issues \subseteq BranchOptions
  /\ \A t \in runs : t.tries \in 1 .. MaxRunTries
  /\ \A r \in Runner : RunIsBounded(runner[r])
  /\ lock = {} \/ \E r \in Runner : lock = {r}

\* A handler goes on.
LEMMA RunMoves ==
  ASSUME ReleaseBounds, NEW r \in Runner, \A q \in Runner \ {r} : runner'[q] = runner[q], RunIsBounded(runner'[r]),
         DOMAIN pulls \subseteq DOMAIN pulls', UNCHANGED commits, tags' \subseteq DOMAIN pulls, issues' \subseteq BranchOptions,
         \A t \in runs' : t.tries \in 1 .. MaxRunTries, lock' \in {lock, lock \ {r}, {r}}
  PROVE  ReleaseBounds'
<1>1. ASSUME NEW q \in Runner PROVE RunIsBounded(runner[q])'
  <2>1. RunIsBounded(runner'[q])
    BY DEF ReleaseBounds
  <2>2. QED
    BY <2>1 DEF RunIsBounded
<1>2. lock' = {} \/ \E q \in Runner : lock' = {q}
  BY DEF ReleaseBounds
<1>3. QED
  BY <1>1, <1>2 DEF ReleaseBounds

\* A handler with the task and the releases it had.
LEMMA RunStaysBounded ==
  ASSUME ReleaseTyped, ReleaseBounds, NEW r \in Runner, runner[r] # Lazy, NEW a \in RunAts, RunTo(r, a)
  PROVE  RunIsBounded(runner'[r]) /\ \A q \in Runner \ {r} : runner'[q] = runner[q]
<1>1. PICK u \in RunOf : runner'[r] = u /\ u.task = runner[r].task /\ u.made = runner[r].made /\ OthersStay(r)
  BY RunToFields
<1>2. QED
  BY <1>1 DEF RunIsBounded, ReleaseBounds, OthersStay

\* A task is delivered again no more often than it may be.
LEMMA RetriedIsBounded ==
  ASSUME ReleaseTyped, ReleaseBounds, NEW r \in Runner, runner[r] # Lazy, Retried(r)
  PROVE  /\ RunIsBounded(runner'[r]) /\ \A q \in Runner \ {r} : runner'[q] = runner[q]
         /\ \A t \in runs' : t.tries \in 1 .. MaxRunTries
<1>1. runner'[r] = Lazy /\ OthersStay(r)
  BY RunSetFields DEF Retried
<1>2. PICK t \in RunTasks : t = runner[r].task
  BY RunTyped
<1>3. PICK n \in Nat : n = t.tries /\ n \in 1 .. MaxRunTries
  BY <1>2 DEF RunTasks, ReleaseBounds, RunIsBounded
<1>4. [t EXCEPT !.tries = @ + 1].tries = n + 1
  BY <1>2, <1>3 DEF RunTasks
<1>5. \/ UNCHANGED runs
      \/ n < MaxRunTries /\ runs' = runs \cup {[t EXCEPT !.tries = @ + 1]}
  BY <1>2, <1>3 DEF Retried
<1>6. \A u \in runs' : u.tries \in 1 .. MaxRunTries
  <2>1. n < MaxRunTries => n + 1 \in 1 .. MaxRunTries
    BY <1>3, ReleaseAssumption
  <2>2. QED
    BY <1>4, <1>5, <2>1 DEF ReleaseBounds
<1>7. QED
  BY <1>1, <1>6 DEF RunIsBounded, OthersStay

\* A step of a handler keeps the bounds.
LEMMA RunStepBounded ==
  ASSUME ReleaseTyped, ReleaseTyped', ReleaseBounds, NEW r \in Runner, RunStep(r)
  PROVE  ReleaseBounds'
<1>1. /\ tags \subseteq DOMAIN pulls /\ issues \subseteq BranchOptions
      /\ \A t \in runs : t.tries \in 1 .. MaxRunTries
      /\ RunIsBounded(runner[r]) /\ RunIsBounded(Lazy)
      /\ pulls \in Seq(PullOf)
  BY DEF ReleaseBounds, RunIsBounded, ReleaseTyped, LibraryTyped
<1>2. ASSUME NEW t \in runs, TakeRun(r, t) PROVE ReleaseBounds'
  <2>1. PICK u : RunSet(r, u) /\ u.task = t /\ u.made = {}
    <3>1. \A a : [at |-> a, task |-> t, todo |-> <<>>, from |-> 0, made |-> {}, fresh |-> FALSE].task = t
      OBVIOUS
    <3>2. \A a : [at |-> a, task |-> t, todo |-> <<>>, from |-> 0, made |-> {}, fresh |-> FALSE].made = {}
      OBVIOUS
    <3>3. t.kind \in {"push", "labeled", "closed", "reopened"}
      BY DEF ReleaseTyped, TasksTyped, RunTasks
    <3>4. \E a : RunSet(r, [at |-> a, task |-> t, todo |-> <<>>, from |-> 0, made |-> {}, fresh |-> FALSE])
      BY <1>2, <3>3 DEF TakeRun
    <3>5. QED
      BY <3>1, <3>2, <3>4
  <2>2. runner'[r] = u /\ \A q \in Runner \ {r} : runner'[q] = runner[q]
    BY <2>1, RunSetFields DEF OthersStay
  <2>3. RunIsBounded(u)
    BY <1>1, <2>1 DEF RunIsBounded
  <2>4. UNCHANGED <<libraryVars, lock>> /\ runs' \subseteq runs
    BY <1>2 DEF TakeRun
  <2>5. QED
    BY <1>1, <2>2, <2>3, <2>4, RunMoves DEF libraryVars
<1>3. ASSUME NEW s, runner[r] # Lazy, RunSet(r, s), s.task = runner[r].task,
             s.made = runner[r].made \/ s.made \subseteq DOMAIN pulls, Own,
             UNCHANGED <<commits, pulls, tags, issues>>, lock' \in {lock, lock \ {r}, {r}}
      PROVE  ReleaseBounds'
  <2>1. runner'[r] = s /\ \A q \in Runner \ {r} : runner'[q] = runner[q]
    BY <1>3, RunSetFields DEF OthersStay
  <2>2. RunIsBounded(s)
    BY <1>1, <1>3 DEF RunIsBounded
  <2>3. UNCHANGED runs
    BY <1>3 DEF Own
  <2>4. QED
    BY <1>1, <1>3, <2>1, <2>2, <2>3, RunMoves
<1>4. ASSUME runner[r] # Lazy, NEW a \in RunAts, RunTo(r, a), Own, UNCHANGED commits, DOMAIN pulls \subseteq DOMAIN pulls',
             tags' \subseteq DOMAIN pulls, issues' \subseteq BranchOptions, lock' \in {lock, lock \ {r}, {r}}
      PROVE  ReleaseBounds'
  <2>1. RunIsBounded(runner'[r]) /\ \A q \in Runner \ {r} : runner'[q] = runner[q]
    BY <1>4, RunStaysBounded
  <2>2. UNCHANGED runs
    BY <1>4 DEF Own
  <2>3. QED
    BY <1>1, <1>4, <2>1, <2>2, RunMoves
<1>5. CASE RemoveForceLabel(r)
  BY <1>1, <1>4, <1>5 DEF RemoveForceLabel, RunAt, RunAts, libraryVars
<1>6. CASE ReadReleaseConfig(r)
  <2>1. PICK w \in RunOf : w = runner[r] /\ w # Lazy
    BY <1>6, RunTyped DEF ReadReleaseConfig, RunAt
  <2>2. \A x : LET s == [w EXCEPT !.at = "next", !.todo = x] IN s.task = w.task /\ s.made = w.made
    BY DEF RunOf
  <2>3. QED
    BY <1>3, <1>6, <2>1, <2>2 DEF ReadReleaseConfig, libraryVars
<1>7. CASE EndRun(r)
  <2>1. runner'[r] = Lazy /\ \A q \in Runner \ {r} : runner'[q] = runner[q]
    BY <1>7, RunSetFields DEF EndRun, OthersStay
  <2>2. UNCHANGED <<libraryVars, lock, runs>>
    BY <1>7 DEF EndRun, Own
  <2>3. QED
    BY <1>1, <2>1, <2>2, RunMoves DEF libraryVars
<1>8. CASE SkipConfiguration(r)
  <2>1. PICK w \in RunOf : w = runner[r] /\ w # Lazy
    BY <1>8, RunTyped DEF SkipConfiguration, RunAt
  <2>2. LET s == [w EXCEPT !.todo = Tail(@)] IN s.task = w.task /\ s.made = w.made
    BY DEF RunOf
  <2>3. QED
    BY <1>3, <1>8, <2>1, <2>2 DEF SkipConfiguration, libraryVars
<1>9. CASE AcquireRunLock(r)
  BY <1>1, <1>4, <1>9 DEF AcquireRunLock, MustLock, RunAt, RunAts, Locked, libraryVars
<1>10. CASE BuildManifest(r)
  <2>1. PICK w \in RunOf : w = runner[r] /\ w # Lazy
    BY <1>10, RunTyped DEF BuildManifest, RunAt
  <2>2. PICK b : b = [w EXCEPT !.from = LatestRelease(ComponentOf(Current(r))), !.fresh = TRUE]
    OBVIOUS
  <2>3. \A a : LET s == [b EXCEPT !.at = a] IN s.task = w.task /\ s.made = w.made
    BY <2>2 DEF RunOf
  <2>4. \/ \E a \in {"unlock", "report"} : RunTo(r, a)
        \/ \E a : RunSet(r, [b EXCEPT !.at = a])
    BY <1>10, <2>1, <2>2 DEF BuildManifest
  <2>5. UNCHANGED <<libraryVars, lock>> /\ Own
    BY <1>10 DEF BuildManifest
  <2>6. QED
    BY <1>1, <1>3, <1>4, <2>1, <2>3, <2>4, <2>5 DEF RunAts, Locked, libraryVars
<1>11. CASE CreateReleases(r)
  <2>1. PICK w \in RunOf : w = runner[r] /\ w # Lazy
    BY <1>11, RunTyped DEF CreateReleases, RunAt
  <2>2. PICK due : due = Untagged(ComponentOf(Current(r))) \ releases
    OBVIOUS
  <2>3. due \subseteq DOMAIN pulls
    BY <2>2 DEF Untagged
  <2>4. LET s == [w EXCEPT !.at = "label", !.made = due] IN s.task = w.task /\ s.made = due
    BY DEF RunOf
  <2>5. RunSet(r, [w EXCEPT !.at = "label", !.made = due]) /\ UNCHANGED <<commits, pulls, tags, issues, lock>> /\ Own
    BY <1>11, <2>1, <2>2 DEF CreateReleases
  <2>6. QED
    BY <1>3, <2>1, <2>3, <2>4, <2>5
<1>12. CASE LabelReleases(r)
  <2>1. DOMAIN pulls' = DOMAIN pulls
    BY <1>12 DEF LabelReleases
  <2>2. \E a \in {"tag", "build", "propose", "unlock"} : RunTo(r, a)
    BY <1>12 DEF LabelReleases, AfterReleases
  <2>3. QED
    BY <1>1, <1>4, <1>12, <2>1, <2>2 DEF LabelReleases, RunAt, RunAts, Locked
<1>13. CASE TagPullRequest(r)
  <2>1. runner[r] # Lazy /\ runner[r].made \subseteq DOMAIN pulls
    BY <1>1, <1>13 DEF TagPullRequest, RunAt, RunIsBounded
  <2>2. UNCHANGED <<commits, pulls, releases, issues, lock>> /\ Own
    BY <1>13 DEF TagPullRequest
  <2>3. CASE UNCHANGED tags /\ RunTo(r, AfterReleases(r))
    <3>1. AfterReleases(r) \in {"build", "propose", "unlock"}
      BY DEF AfterReleases
    <3>2. QED
      BY <1>1, <1>4, <2>1, <2>2, <2>3, <3>1 DEF RunAts, Locked
  <2>4. CASE UNCHANGED runner /\ \E i \in runner[r].made : tags' = tags \cup {i}
    <3>1. tags' \subseteq DOMAIN pulls /\ UNCHANGED runs
      BY <1>1, <2>1, <2>2, <2>4 DEF Own
    <3>2. QED
      BY <1>1, <2>2, <2>4, <3>1, RunMoves
  <2>5. QED
    BY <1>13, <2>3, <2>4 DEF TagPullRequest
<1>14. CASE CreatePullRequests(r)
  <2>1. DOMAIN pulls \subseteq DOMAIN pulls'
    <3>1. \/ UNCHANGED pulls
          \/ DOMAIN pulls' = DOMAIN pulls
          \/ \E p : pulls' = Append(pulls, p)
      BY <1>14 DEF CreatePullRequests
    <3>2. \A p : DOMAIN pulls \subseteq DOMAIN Append(pulls, p)
      BY <1>1
    <3>3. QED
      BY <3>1, <3>2
  <2>2. QED
    BY <1>1, <1>4, <1>14, <2>1 DEF CreatePullRequests, RunAt, RunAts, Locked
<1>15. CASE ReportConfigError(r)
  <2>1. Current(r) \in BranchOptions
    <3>1. runner[r].todo # <<>> /\ runner[r] # Lazy
      BY <1>15 DEF ReportConfigError, RunAt, ReleaseTyped, RunnersTyped, RunIsSound, Locked
    <3>2. QED
      BY <3>1, CurrentTyped
  <2>2. QED
    BY <1>1, <1>4, <1>15, <2>1 DEF ReportConfigError, RunAt, RunAts, Locked
<1>16. CASE ReleaseRunLock(r)
  <2>1. PICK w \in RunOf : w = runner[r] /\ w # Lazy
    BY <1>16, RunTyped DEF ReleaseRunLock, RunAt
  <2>2. LET s == [w EXCEPT !.at = "next", !.todo = Tail(@), !.made = {}, !.fresh = FALSE] IN s.task = w.task /\ s.made = {}
    BY DEF RunOf
  <2>3. QED
    BY <1>3, <1>16, <2>1, <2>2 DEF ReleaseRunLock, libraryVars
<1>17. CASE SwapLabels(r)
  <2>1. DOMAIN pulls' = DOMAIN pulls
    BY <1>17 DEF SwapLabels, Relabelled
  <2>2. QED
    BY <1>1, <1>4, <1>17, <2>1 DEF SwapLabels, RunAt, RunAts
<1>18. CASE SwapRefused(r) \/ LockTimesOut(r) \/ RunFails(r) \/ SwapFails(r)
  <2>1. runner[r] # Lazy /\ Retried(r) /\ UNCHANGED <<commits, tags, issues>> /\ lock' \in {lock, lock \ {r}, {r}}
    BY <1>18 DEF SwapRefused, LockTimesOut, MustLock, RunFails, SwapFails, RunAt, libraryVars
  <2>2. DOMAIN pulls' = DOMAIN pulls
    BY <1>18 DEF SwapRefused, LockTimesOut, RunFails, SwapFails, Relabelled, libraryVars
  <2>3. QED
    BY <1>1, <2>1, <2>2, RetriedIsBounded, RunMoves
<1>19. QED
  BY <1>2, <1>5, <1>6, <1>7, <1>8, <1>9, <1>10, <1>11, <1>12, <1>13, <1>14, <1>15, <1>16, <1>17, <1>18 DEF RunStep

\* What people do to the pull requests and branches, and how their tasks begin.
LEMMA PeopleBounded ==
  ASSUME ReleaseTyped, ReleaseBounds, UNCHANGED <<tags, issues, runner, lock>>, DOMAIN pulls' = DOMAIN pulls,
         \A b \in Branch : commits'[b] <= MaxReleasable, \A t \in runs' : t \in runs \/ t.tries = 1
  PROVE  ReleaseBounds'
<1>1. 1 \in 1 .. MaxRunTries
  BY ReleaseAssumption
<1>2. \A t \in runs' : t.tries \in 1 .. MaxRunTries
  BY <1>1 DEF ReleaseBounds
<1>3. \A r \in Runner : RunIsBounded(runner[r])'
  BY DEF ReleaseBounds, RunIsBounded
<1>4. QED
  BY <1>2, <1>3 DEF ReleaseBounds

\* So does every step.
LEMMA ReleaseStaysBounded ==
  ASSUME ReleaseTyped, ReleaseTyped', ReleaseBounds, [ReleaseNext]_releaseVars
  PROVE  ReleaseBounds'
<1>1. \A kind, of, b, released, merged, labels : RunTask(kind, of, b, released, merged, labels).tries = 1
  BY DEF RunTask
<1>2. \A b \in Branch : commits[b] <= MaxReleasable
  BY DEF ReleaseBounds
<1>3. CASE \E r \in Runner : RunStep(r)
  BY <1>3, RunStepBounded
<1>4. CASE LeaseRunsOut
  <2>1. lock' = {} /\ UNCHANGED <<libraryVars, runs, runner>>
    BY <1>4 DEF LeaseRunsOut
  <2>2. QED
    BY <2>1 DEF ReleaseBounds, RunIsBounded, libraryVars
<1>5. ASSUME NEW b \in Branch, PushCommit(b) PROVE ReleaseBounds'
  <2>1. commits' = [commits EXCEPT ![b] = @ + 1] /\ commits[b] < MaxReleasable
    BY <1>5 DEF PushCommit
  <2>2. commits \in [Branch -> Nat] /\ MaxReleasable \in Nat
    BY ReleaseAssumption DEF ReleaseTyped, LibraryTyped
  <2>3. \A c \in Branch : commits'[c] <= MaxReleasable
    <3>1. ASSUME NEW c \in Branch PROVE commits'[c] <= MaxReleasable
      <4>1. commits'[c] = IF c = b THEN commits[c] + 1 ELSE commits[c]
        BY <2>1, <2>2
      <4>2. commits[c] \in Nat /\ commits[c] <= MaxReleasable
        BY <1>2, <2>2
      <4>3. QED
        BY <2>1, <2>2, <4>1, <4>2
    <3>2. QED
      BY <3>1
  <2>4. UNCHANGED <<pulls, tags, issues, runner, lock>> /\ \E of : runs' = runs \cup {RunTask("push", of, b, FALSE, FALSE, {})}
    BY <1>5 DEF PushCommit, ByOthers
  <2>5. QED
    BY <1>1, <2>3, <2>4, PeopleBounded
<1>6. ASSUME NEW b \in Branch, ForceRelease(b) PROVE ReleaseBounds'
  <2>1. UNCHANGED <<commits, pulls, tags, issues, runner, lock>> /\ \E of : runs' = runs \cup {RunTask("labeled", of, b, FALSE, FALSE, {})}
    BY <1>6 DEF ForceRelease, ByOthers
  <2>2. QED
    BY <1>1, <1>2, <2>1, PeopleBounded
<1>7. ASSUME NEW i \in DOMAIN pulls, CloseRelease(i) \/ ReopenRelease(i) \/ MergeRelease(i) PROVE ReleaseBounds'
  <2>1. \E state : ActOn(i, state)
    BY <1>7 DEF CloseRelease, ReopenRelease, MergeRelease
  <2>2. UNCHANGED <<commits, tags, issues, runner, lock>> /\ DOMAIN pulls' = DOMAIN pulls
    BY <2>1 DEF ActOn, ByOthers
  <2>3. \A t \in runs' : t \in runs \/ t.tries = 1
    <3>1. PICK x, y, z, w :
            /\ x = RunTask("closed", i, pulls[i].of[1], FALSE, FALSE, pulls[i].labels)
            /\ y = RunTask("reopened", i, pulls[i].of[1], FALSE, FALSE, pulls[i].labels)
            /\ z = RunTask("closed", i, pulls[i].of[1], FALSE, TRUE, pulls[i].labels)
            /\ w = RunTask("push", i, pulls[i].of[1], TRUE, FALSE, {})
      OBVIOUS
    <3>2. x.tries = 1 /\ y.tries = 1 /\ z.tries = 1 /\ w.tries = 1
      BY <3>1 DEF RunTask
    <3>3. runs' = runs \cup {x} \/ runs' = runs \cup {y} \/ runs' = runs \cup {z, w}
      BY <1>7, <3>1, Zenon DEF CloseRelease, ReopenRelease, MergeRelease
    <3>4. QED
      BY <3>2, <3>3
  <2>4. QED
    BY <1>2, <2>2, <2>3, PeopleBounded
<1>8. CASE UNCHANGED releaseVars
  BY <1>8 DEF releaseVars, libraryVars, ReleaseBounds, RunIsBounded
<1>9. QED
  BY <1>3, <1>4, <1>5, <1>6, <1>7, <1>8 DEF ReleaseNext

\* They hold at first.
LEMMA ReleaseInitBounded ==
  ASSUME NEW configs, ReleaseInit(configs)
  PROVE  ReleaseBounds
<1>1. \A r \in Runner : runner[r] = Lazy
  BY DEF ReleaseInit
<1>2. \A b \in Branch : commits[b] <= MaxReleasable
  BY ReleaseAssumption DEF ReleaseInit
<1>3. QED
  BY <1>1, <1>2 DEF ReleaseInit, ReleaseBounds, RunIsBounded

\* What they give of the types.
LEMMA ReleaseBoundsType ==
  ASSUME ReleaseTyped, ReleaseBounds
  PROVE  ReleaseTypeOK
<1>1. lock \subseteq Runner /\ Cardinality(lock) <= 1
  <2>1. Cardinality({}) = 0 /\ \A r : Cardinality({r}) = 1
    BY FS_EmptySet, FS_Singleton
  <2>2. CASE lock = {}
    BY <2>1, <2>2
  <2>3. CASE \E r \in Runner : lock = {r}
    BY <2>1, <2>3
  <2>4. QED
    BY <2>2, <2>3 DEF ReleaseBounds
<1>2. QED
  BY <1>1 DEF ReleaseTyped, LibraryTyped, PullOf, ReleaseBounds, ReleaseTypeOK

----------------------------------------------------------------------------
(* A pull request and its events: numbers of pushes, acts, calls and tries. *)

IsBounded(e) == e.head <= pull.head /\ e.act <= acts /\ e.tries \in 1 .. MaxVisitTries

EventsBounded ==
  /\ pull.head \in 1 .. acts + 1 /\ acts \in 0 .. MaxActs /\ visitFaults \in 0 .. MaxVisitFaults
  /\ \A e \in events : IsBounded(e)
  /\ \A v \in Visitor : visit[v] # Free => IsBounded(visit[v].event)

\* They hold at first.
LEMMA EventsInitBounded ==
  ASSUME EventsInit
  PROVE  EventsBounded
<1>1. PICK c \in Content, d \in BOOLEAN : pull = [head |-> 1, content |-> c, labels |-> {}, open |-> TRUE, draft |-> d]
  BY DEF EventsInit
<1>2. pull.head = 1 /\ acts = 0 /\ visitFaults = 0 /\ \A v \in Visitor : visit[v] = Free
  BY <1>1 DEF EventsInit
<1>3. \A e \in events : e.head = 1 /\ e.act = 0 /\ e.tries = 1
  BY DEF EventsInit
<1>4. 1 \in 1 .. MaxVisitTries /\ 0 \in 0 .. MaxActs /\ 0 \in 0 .. MaxVisitFaults
  BY VisitAssumption
<1>5. QED
  BY <1>2, <1>3, <1>4 DEF EventsBounded, IsBounded

\* A handler goes on, ends or fails, or takes a task.
LEMMA HandlerBounded ==
  ASSUME NEW places, NEW reads, NEW finds, EventsTyped(places, reads, finds), EventsBounded,
         NEW v \in Visitor, NEW x, visit' = [visit EXCEPT ![v] = x], x # Free => IsBounded(x.event),
         pull'.head = pull.head, acts' = acts, visitFaults' \in 0 .. MaxVisitFaults,
         \A e \in events' : IsBounded(e)
  PROVE  EventsBounded'
<1>1. ASSUME NEW w \in Visitor, visit'[w] # Free PROVE IsBounded(visit[w].event)'
  <2>1. visit'[w] = IF w = v THEN x ELSE visit[w]
    BY DEF EventsTyped
  <2>2. IsBounded(visit'[w].event)
    BY <1>1, <2>1 DEF EventsBounded
  <2>3. QED
    BY <2>2 DEF IsBounded
<1>2. QED
  BY <1>1 DEF EventsBounded, IsBounded

\* A task is delivered again no more often than it may be.
LEMMA TriedAgainBounded ==
  ASSUME NEW places, NEW reads, NEW finds, EventsTyped(places, reads, finds), "free" \notin places, EventsBounded,
         NEW v \in Visitor, visit[v] # Free, TryAgain(v)
  PROVE  visit' = [visit EXCEPT ![v] = Free] /\ \A e \in events' : IsBounded(e)
<1>1. PICK e \in EventOf : e = visit[v].event
  BY AtWork
<1>2. PICK n \in Nat : n = e.tries /\ n \in 1 .. MaxVisitTries
  BY <1>1 DEF EventOf, EventsBounded, IsBounded
<1>3. PICK f : f = [e EXCEPT !.tries = @ + 1]
  OBVIOUS
<1>4. f.head = e.head /\ f.act = e.act /\ f.tries = n + 1
  BY <1>2, <1>3 DEF EventOf
<1>5. n < MaxVisitTries => IsBounded(f)
  <2>1. n < MaxVisitTries => n + 1 \in 1 .. MaxVisitTries
    BY <1>2, VisitAssumption
  <2>2. QED
    BY <1>1, <1>4, <2>1 DEF EventsBounded, IsBounded
<1>6. UNCHANGED events \/ (n < MaxVisitTries /\ events' = events \cup {f})
  BY <1>1, <1>2, <1>3 DEF TryAgain
<1>7. QED
  BY <1>5, <1>6 DEF EventsBounded, TryAgain, Leave, Visits

\* A call fails.
LEMMA FailureBounded ==
  ASSUME NEW places, NEW reads, NEW finds, EventsTyped(places, reads, finds), "free" \notin places, EventsBounded,
         NEW v \in Visitor, NEW heeded, VisitFails(v, heeded)
  PROVE  visit' = [visit EXCEPT ![v] = Free] /\ EventsBounded'
<1>1. visit[v] # Free /\ UNCHANGED <<pull, acts>> /\ (TryAgain(v) \/ Swallow(v))
  BY DEF VisitFails
<1>2. visitFaults' \in 0 .. MaxVisitFaults
  BY VisitAssumption DEF VisitFails, EventsBounded
<1>3. visit' = [visit EXCEPT ![v] = Free] /\ \A e \in events' : IsBounded(e)
  <2>1. CASE TryAgain(v)
    BY <1>1, <2>1, TriedAgainBounded
  <2>2. CASE Swallow(v)
    BY <2>2 DEF Swallow, Leave, Visits, EventsBounded
  <2>3. QED
    BY <1>1, <2>1, <2>2
<1>4. QED
  BY <1>1, <1>2, <1>3, HandlerBounded

\* A task is taken, or needs nothing.
LEMMA TakenBounded ==
  ASSUME NEW places, NEW reads, NEW finds, EventsTyped(places, reads, finds), EventsBounded,
         NEW v \in Visitor, NEW e \in events
  PROVE  /\ IgnoreEvent(v, e) => EventsBounded' /\ UNCHANGED visit
         /\ \A a : TakeEvent(v, e, a) => EventsBounded' /\ \E x : x.at = a /\ visit' = [visit EXCEPT ![v] = x]
<1>1. ASSUME IgnoreEvent(v, e) PROVE EventsBounded'
  BY <1>1 DEF IgnoreEvent, EventsBounded, IsBounded
<1>2. ASSUME NEW a, TakeEvent(v, e, a) PROVE EventsBounded' /\ \E x : x.at = a /\ visit' = [visit EXCEPT ![v] = x]
  <2>1. PICK x : x = [at |-> a, event |-> e, read |-> {}, bad |-> {}]
    OBVIOUS
  <2>2. x.at = a /\ x.event = e
    BY <2>1
  <2>3. visit' = [visit EXCEPT ![v] = x]
    BY <1>2, <2>1 DEF TakeEvent, Visits
  <2>4. UNCHANGED <<pull, acts, visitFaults>> /\ events' \subseteq events
    BY <1>2 DEF TakeEvent
  <2>5. IsBounded(x.event) /\ (\A f \in events' : IsBounded(f)) /\ visitFaults \in 0 .. MaxVisitFaults
    BY <2>2, <2>4 DEF EventsBounded
  <2>6. EventsBounded'
    BY <2>3, <2>4, <2>5, HandlerBounded
  <2>7. QED
    BY <2>2, <2>3, <2>6
<1>3. QED
  BY <1>1, <1>2 DEF IgnoreEvent

\* A handler that stays what it was but for place, reads and findings.
LEMMA StepBounded ==
  ASSUME NEW places, NEW reads, NEW finds, EventsTyped(places, reads, finds), EventsBounded,
         NEW v \in Visitor, visit[v] # Free, NEW x, visit' = [visit EXCEPT ![v] = x], x = Free \/ x.event = visit[v].event,
         pull'.head = pull.head, UNCHANGED <<acts, visitFaults, events>>
  PROVE  EventsBounded'
<1>1. x # Free => IsBounded(x.event)
  BY DEF EventsBounded
<1>2. visitFaults' \in 0 .. MaxVisitFaults /\ \A e \in events' : IsBounded(e)
  BY DEF EventsBounded
<1>3. QED
  BY <1>1, <1>2, HandlerBounded

\* An act tells of the push and the number that it is.
LEMMA ActBounded ==
  ASSUME EventsBounded, UNCHANGED <<visit, visitFaults>>, acts < MaxActs, acts' = acts + 1, pull \in PullRequestOf,
         pull'.head \in {pull.head, pull.head + 1},
         \A e \in events' : e \in events \/ (e.head = pull'.head /\ e.act = acts' /\ e.tries = 1),
         \A e \in events : e \in EventOf, \A v \in Visitor : visit[v] # Free => visit[v].event \in EventOf
  PROVE  EventsBounded'
<1>1. PICK h, n \in Nat : h = pull.head /\ n = acts /\ h \in 1 .. n + 1 /\ n \in 0 .. MaxActs
  BY VisitAssumption DEF EventsBounded, PullRequestOf
<1>2. acts' = n + 1 /\ n + 1 \in 0 .. MaxActs /\ pull'.head \in {h, h + 1} /\ pull'.head \in 1 .. (n + 1) + 1
  BY <1>1, VisitAssumption
<1>3. ASSUME NEW e \in EventOf, IsBounded(e) PROVE IsBounded(e)'
  <2>1. e.head \in Nat /\ e.act \in Nat
    BY DEF EventOf
  <2>2. QED
    BY <1>1, <1>2, <1>3, <2>1 DEF IsBounded
<1>4. 1 \in 1 .. MaxVisitTries
  BY VisitAssumption
<1>5. ASSUME NEW e \in events' PROVE IsBounded(e)'
  <2>1. CASE e \in events
    BY <1>3, <2>1 DEF EventsBounded
  <2>2. CASE e.head = pull'.head /\ e.act = acts' /\ e.tries = 1
    BY <1>1, <1>2, <1>4, <2>2 DEF IsBounded
  <2>3. QED
    BY <2>1, <2>2
<1>6. ASSUME NEW v \in Visitor, visit'[v] # Free PROVE IsBounded(visit[v].event)'
  BY <1>3, <1>6 DEF EventsBounded, IsBounded
<1>7. QED
  BY <1>2, <1>5, <1>6 DEF EventsBounded

\* Whatever people do keeps the bounds.
LEMMA PeopleActBounded ==
  ASSUME NEW places, NEW reads, NEW finds, EventsTyped(places, reads, finds), "free" \notin places, EventsBounded,
         PeopleAct \/ Act("comment", pull, "none") \/ \E c \in Content : PushClosed(c)
  PROVE  EventsBounded'
<1>1. PICK p \in PullRequestOf : p = pull
  BY DEF EventsTyped
<1>2. /\ \A e \in events : e \in EventOf
      /\ \A v \in Visitor : visit[v] # Free => visit[v].event \in EventOf
  BY AtWork DEF EventsTyped
<1>3. ASSUME NEW kind, NEW q, NEW label, Act(kind, q, label), q.head \in {pull.head, pull.head + 1} PROVE EventsBounded'
  <2>1. PICK e : e = Payload(kind, q, label)
    OBVIOUS
  <2>2. e.head = q.head /\ e.act = acts' /\ e.tries = 1
    BY <2>1 DEF Payload
  <2>3. pull' = q /\ events' = events \cup {e} /\ acts < MaxActs /\ acts' = acts + 1 /\ UNCHANGED <<visit, visitFaults>>
    BY <1>3, <2>1 DEF Act
  <2>4. QED
    BY <1>1, <1>2, <1>3, <2>2, <2>3, ActBounded
<1>4. ASSUME NEW c \in Content, PushClosed(c) PROVE EventsBounded'
  <2>1. UNCHANGED <<visit, visitFaults, events>> /\ acts < MaxActs /\ acts' = acts + 1
    BY <1>4 DEF PushClosed
  <2>2. pull'.head = pull.head + 1
    BY <1>1, <1>4 DEF PushClosed, PullRequestOf
  <2>3. QED
    BY <1>1, <1>2, <2>1, <2>2, ActBounded
<1>5. ASSUME NEW c \in Content, Push(c) PROVE EventsBounded'
  <2>1. PICK q : q = [p EXCEPT !.head = @ + 1, !.content = c]
    OBVIOUS
  <2>2. q.head = p.head + 1
    BY <2>1 DEF PullRequestOf
  <2>3. Act("synchronize", q, "none")
    BY <1>1, <1>5, <2>1 DEF Push
  <2>4. QED
    BY <1>1, <1>3, <2>2, <2>3
<1>6. ASSUME NEW l \in PullLabel, AddLabel(l) \/ DropLabel(l) PROVE EventsBounded'
  <2>1. \A ls : [p EXCEPT !.labels = ls].head = p.head
    BY DEF PullRequestOf
  <2>2. \E ls, kind : Act(kind, [p EXCEPT !.labels = ls], l)
    BY <1>1, <1>6 DEF AddLabel, DropLabel
  <2>3. QED
    BY <1>1, <1>3, <2>1, <2>2
<1>7. ASSUME ClosePull \/ ReopenPull PROVE EventsBounded'
  <2>1. PICK x, y : x = [p EXCEPT !.open = TRUE] /\ y = [p EXCEPT !.open = FALSE]
    OBVIOUS
  <2>2. x.head = p.head /\ y.head = p.head
    BY <2>1 DEF PullRequestOf
  <2>3. Act("reopened", x, "none") \/ Act("closed", y, "none")
    BY <1>1, <1>7, <2>1 DEF ClosePull, ReopenPull
  <2>4. QED
    BY <1>1, <1>3, <2>2, <2>3
<1>8. ASSUME MarkReady PROVE EventsBounded'
  <2>1. PICK x : x = [p EXCEPT !.draft = FALSE]
    OBVIOUS
  <2>2. x.head = p.head
    BY <2>1 DEF PullRequestOf
  <2>3. Act("ready_for_review", x, "none")
    BY <1>1, <1>8, <2>1 DEF MarkReady
  <2>4. QED
    BY <1>1, <1>3, <2>2, <2>3
<1>9. ASSUME EditPull \/ Act("comment", pull, "none") PROVE EventsBounded'
  BY <1>3, <1>9 DEF EditPull
<1>10. QED
  BY <1>4, <1>5, <1>6, <1>7, <1>8, <1>9 DEF PeopleAct

----------------------------------------------------------------------------
(* The bots on a pull request: their types.                                 *)

\* What the bounds give of the types.
LEMMA EventsTypes ==
  ASSUME NEW places, NEW reads, NEW finds, EventsTyped(places, reads, finds), EventsBounded,
         checks \in [CheckName -> Conclusion]
  PROVE  EventsTypeOK
<1>1. PICK n \in Nat : n = acts /\ n <= MaxActs
  BY VisitAssumption DEF EventsBounded
<1>2. \A h \in 1 .. n + 1 : h \in 1 .. MaxActs + 1
  BY <1>1, VisitAssumption
<1>3. pull.head \in 1 .. MaxActs + 1
  BY <1>1, <1>2 DEF EventsBounded
<1>4. QED
  BY <1>3 DEF EventsTyped, PullRequestOf, EventsBounded, IsBounded, EventsTypeOK

\* A handler goes to another place.
LEMMA VisitToBounded ==
  ASSUME NEW places, NEW reads, NEW finds, EventsTyped(places, reads, finds), "free" \notin places, EventsBounded,
         NEW v \in Visitor, visit[v] # Free, NEW a, VisitTo(v, a) \/ Leave(v),
         pull'.head = pull.head, UNCHANGED <<acts, visitFaults, events>>
  PROVE  EventsBounded'
<1>1. PICK y \in VisitOf(places, reads, finds) : y = visit[v]
  BY AtWork
<1>2. \E x : visit' = [visit EXCEPT ![v] = x] /\ (x = Free \/ x.event = y.event)
  <2>1. [y EXCEPT !.at = a].event = y.event
    BY DEF VisitOf
  <2>2. QED
    BY <1>1, <2>1 DEF VisitTo, Leave, Visits
<1>3. QED
  BY <1>1, <1>2, StepBounded

\* do-not-merge.
LabelBounds ==
  EventsBounded /\ checks \in [CheckName -> Conclusion] /\ unseen \in BOOLEAN

\* Every step of do-not-merge keeps its bounds.
LEMMA LabelStaysBounded ==
  ASSUME LabelInv, LabelBounds, [DoNotMergeNext]_dnmVars
  PROVE  LabelBounds'
<1>1. /\ EventsTyped(LabelPlaces, SUBSET Nat, {{}}) /\ "free" \notin LabelPlaces /\ EventsBounded
      /\ checks \in [CheckName -> Conclusion]
  BY DEF LabelInv, LabelsTyped, LabelPlaces, LabelBounds
<1>2. CASE UNCHANGED dnmVars
  BY <1>2 DEF dnmVars, eventVars, LabelBounds, EventsBounded, IsBounded
<1>3. ASSUME NEW v \in Visitor, DoNotMergeStep(v) PROVE LabelBounds'
  <2>1. UNCHANGED unseen
    BY <1>3 DEF DoNotMergeStep, DoNotMergeTakes, DoNotMergeChecksConfig, FindCheck, PutCheck, DoNotMergeFails
  <2>2. checks' \in [CheckName -> Conclusion]
    <3>1. CASE DoNotMergeChecksConfig(v)
      <4>1. \E found \in {{<<"schema", "failure">>}, {}} : Posted(visit[v].event, found)
        BY <3>1 DEF DoNotMergeChecksConfig
      <4>2. "schema" \in CheckName /\ "failure" \in Conclusion
        BY HeaderAssumption DEF Conclusion
      <4>3. QED
        BY <1>1, <4>1, <4>2, PostedChecks
    <3>2. CASE UNCHANGED checks
      BY <1>1, <3>2
    <3>3. QED
      BY <1>3, <3>1, <3>2 DEF DoNotMergeStep, DoNotMergeTakes, TakeEvent, IgnoreEvent, FindCheck, PutCheck, DoNotMergeFails, VisitFails
  <2>3. EventsBounded'
    <3>1. ASSUME NEW e \in events, DoNotMergeTakes(v, e) PROVE EventsBounded'
      BY <1>1, <3>1, TakenBounded DEF DoNotMergeTakes
    <3>2. CASE DoNotMergeChecksConfig(v)
      <4>1. visit[v] # Free /\ (VisitTo(v, "find") \/ Leave(v)) /\ UNCHANGED <<pull, acts, visitFaults, events>>
        BY <3>2 DEF DoNotMergeChecksConfig, VisitAt, Inside
      <4>2. QED
        BY <1>1, <4>1, VisitToBounded
    <3>3. CASE FindCheck(v)
      <4>1. visit[v] # Free /\ UNCHANGED <<pull, acts, visitFaults, events>>
        BY <3>3 DEF FindCheck, VisitAt, Inside
      <4>2. PICK y \in LabelVisit : y = visit[v]
        BY <1>1, <4>1, AtWork DEF LabelVisit
      <4>3. PICK read : visit' = [visit EXCEPT ![v] = [y EXCEPT !.at = "put", !.read = read]]
        BY <3>3, <4>2 DEF FindCheck, Visits
      <4>4. [y EXCEPT !.at = "put", !.read = read].event = y.event
        BY DEF LabelVisit, VisitOf
      <4>5. QED
        BY <1>1, <4>1, <4>2, <4>3, <4>4, StepBounded
    <3>4. CASE PutCheck(v)
      <4>1. visit[v] # Free /\ Leave(v) /\ UNCHANGED <<pull, acts, visitFaults, events>>
        BY <3>4 DEF PutCheck, VisitAt, Inside
      <4>2. QED
        BY <1>1, <4>1, VisitToBounded
    <3>5. CASE DoNotMergeFails(v)
      BY <1>1, <3>5, FailureBounded DEF DoNotMergeFails
    <3>6. QED
      BY <1>3, <3>1, <3>2, <3>3, <3>4, <3>5 DEF DoNotMergeStep
  <2>4. QED
    BY <2>1, <2>2, <2>3 DEF LabelBounds
<1>4. ASSUME PeopleAct \/ \E c \in Content : PushClosed(c),
             unseen' = (unseen \/ (~pull.open /\ <<pull'.head, pull'.labels>> # <<pull.head, pull.labels>>))
      PROVE  LabelBounds'
  <2>1. EventsBounded'
    BY <1>1, <1>4, PeopleActBounded
  <2>2. checks' \in [CheckName -> Conclusion]
    <3>1. checks' = checks \/ checks' = NoChecks
      BY <1>4 DEF PeopleAct, Push, AddLabel, DropLabel, ClosePull, ReopenPull, MarkReady, EditPull, PushClosed
    <3>2. NoChecks \in [CheckName -> Conclusion]
      BY DEF NoChecks, Conclusion
    <3>3. QED
      BY <1>1, <3>1, <3>2
  <2>3. unseen' \in BOOLEAN
    BY <1>4, Zenon DEF LabelBounds
  <2>4. QED
    BY <2>1, <2>2, <2>3 DEF LabelBounds
<1>5. QED
  BY <1>2, <1>3, <1>4 DEF DoNotMergeNext

\* What they give of its types.
LEMMA LabelBoundsType ==
  ASSUME LabelInv, LabelBounds
  PROVE  DoNotMergeTypeOK
<1>1. EventsTypeOK
  BY EventsTypes DEF LabelInv, LabelsTyped, LabelBounds
<1>2. checkRuns \in Seq(Conclusion)
  <2>1. checkRuns \in Seq({"success", "failure"})
    BY DEF LabelInv, LabelsTyped
  <2>2. QED
    BY <2>1 DEF Conclusion
<1>3. QED
  BY <1>1, <1>2 DEF LabelBounds, DoNotMergeTypeOK

\* header-checker-lint.
HeaderBounds(configs) == EventsBounded /\ headerConfig \in configs

\* Every step of header-checker-lint keeps its bounds.
LEMMA HeaderStaysBounded ==
  ASSUME NEW configs, HeadersInv, HeaderBounds(configs), [HeaderNext]_headerVars
  PROVE  HeaderBounds(configs)'
<1>1. EventsTyped(HeaderPlaces, HeaderReads, HeaderFinds) /\ "free" \notin HeaderPlaces /\ EventsBounded
  BY DEF HeadersInv, HeadersTyped, HeaderPlaces, HeaderBounds
<1>2. UNCHANGED headerConfig
  BY DEF HeaderNext, headerVars, HeaderStep, HeaderTakes, RemoveForceRun, HeaderChecksConfig, ListHeaders, PostHeaders, HeaderFails
<1>3. ASSUME UNCHANGED headerVars PROVE EventsBounded'
  BY <1>1, <1>3 DEF headerVars, eventVars, EventsBounded, IsBounded
<1>4. ASSUME NEW v \in Visitor, HeaderStep(v) PROVE EventsBounded'
  <2>1. ASSUME NEW e \in events, HeaderTakes(v, e) PROVE EventsBounded'
    BY <1>1, <2>1, TakenBounded DEF HeaderTakes
  <2>2. CASE RemoveForceRun(v)
    <3>1. PICK p \in PullRequestOf : p = pull
      BY <1>1 DEF EventsTyped
    <3>2. \A l : [p EXCEPT !.labels = @ \ l].head = p.head
      BY DEF PullRequestOf
    <3>3. visit[v] # Free /\ VisitTo(v, "check") /\ pull'.head = pull.head /\ UNCHANGED <<acts, visitFaults, events>>
      BY <2>2, <3>1, <3>2 DEF RemoveForceRun, VisitAt
    <3>4. QED
      BY <1>1, <3>3, VisitToBounded
  <2>3. CASE HeaderChecksConfig(v)
    <3>1. visit[v] # Free /\ UNCHANGED <<pull, acts, visitFaults, events>>
      BY <2>3 DEF HeaderChecksConfig, VisitAt, Inside
    <3>2. PICK y \in HeaderVisit : y = visit[v]
      BY <1>1, <3>1, AtWork DEF HeaderVisit
    <3>3. PICK read : visit' = [visit EXCEPT ![v] = [y EXCEPT !.at = "files", !.read = read]]
      BY <2>3, <3>2 DEF HeaderChecksConfig, Visits
    <3>4. [y EXCEPT !.at = "files", !.read = read].event = y.event
      BY DEF HeaderVisit, VisitOf
    <3>5. QED
      BY <1>1, <3>1, <3>2, <3>3, <3>4, StepBounded
  <2>4. CASE ListHeaders(v)
    <3>1. visit[v] # Free /\ UNCHANGED <<pull, acts, visitFaults, events>>
      BY <2>4 DEF ListHeaders, VisitAt, Inside
    <3>2. PICK y \in HeaderVisit : y = visit[v]
      BY <1>1, <3>1, AtWork DEF HeaderVisit
    <3>3. Leave(v) \/ \E bad : visit' = [visit EXCEPT ![v] = [y EXCEPT !.at = "post", !.bad = bad]]
      BY <2>4, <3>2 DEF ListHeaders, Visits
    <3>4. \A bad : [y EXCEPT !.at = "post", !.bad = bad].event = y.event
      BY DEF HeaderVisit, VisitOf
    <3>5. CASE Leave(v)
      BY <1>1, <3>1, <3>5, VisitToBounded
    <3>6. ASSUME NEW bad, visit' = [visit EXCEPT ![v] = [y EXCEPT !.at = "post", !.bad = bad]] PROVE EventsBounded'
      BY <1>1, <3>1, <3>2, <3>4, <3>6, StepBounded
    <3>7. QED
      BY <3>3, <3>5, <3>6
  <2>5. CASE PostHeaders(v)
    <3>1. visit[v] # Free /\ Leave(v) /\ UNCHANGED <<pull, acts, visitFaults, events>>
      BY <2>5 DEF PostHeaders, VisitAt, Inside
    <3>2. QED
      BY <1>1, <3>1, VisitToBounded
  <2>6. CASE HeaderFails(v)
    BY <1>1, <2>6, FailureBounded DEF HeaderFails
  <2>7. QED
    BY <1>4, <2>1, <2>2, <2>3, <2>4, <2>5, <2>6 DEF HeaderStep
<1>5. ASSUME PeopleAct PROVE EventsBounded'
  BY <1>1, <1>5, PeopleActBounded
<1>6. EventsBounded'
  <2>1. CASE UNCHANGED headerVars
    BY <1>3, <2>1
  <2>2. QED
    BY <1>4, <1>5, <2>1 DEF HeaderNext
<1>7. QED
  BY <1>2, <1>6 DEF HeaderBounds

\* snippet-bot: what was read and the comments are of contents.
SnippetBounds(configs) ==
  /\ EventsBounded /\ snippetConfig \in configs
  /\ comments \in Seq(Content)
  /\ \A v \in Visitor : visit[v] # Free /\ visit[v].at \in AfterDiff => visit[v].read \in Content

\* A handler moves, ends or fails.
LEMMA SnippetMoves ==
  ASSUME NEW configs, SnippetInv, SnippetBounds(configs), NEW v \in Visitor, NEW x, visit' = [visit EXCEPT ![v] = x],
         x # Free /\ x.at \in AfterDiff => x.read \in Content, EventsBounded',
         UNCHANGED snippetConfig, comments' \in Seq(Content)
  PROVE  SnippetBounds(configs)'
<1>1. ASSUME NEW w \in Visitor, visit'[w] # Free, visit'[w].at \in AfterDiff PROVE visit'[w].read \in Content
  <2>1. visit'[w] = IF w = v THEN x ELSE visit[w]
    BY DEF SnippetInv, SnippetTyped, EventsTyped
  <2>2. QED
    BY <1>1, <2>1 DEF SnippetBounds
<1>2. QED
  BY <1>1 DEF SnippetBounds, AfterDiff

\* A step of a handler keeps the bounds.
LEMMA SnippetStepBounded ==
  ASSUME NEW configs, SnippetInv, SnippetBounds(configs), NEW v \in Visitor, SnippetStep(v)
  PROVE  SnippetBounds(configs)'
<1> DEFINE Finds == SUBSET {"mismatch", "prefix", "removal", "format"}
<1>1. /\ EventsTyped(SnippetPlaces, Content \cup {{}}, Finds) /\ "free" \notin SnippetPlaces /\ EventsBounded
      /\ comments \in Seq(Content) /\ pull.content \in Content
  BY DEF SnippetInv, SnippetTyped, SnippetPlaces, SnippetBounds, EventsTyped, PullRequestOf
<1>2. Free.at = "free" /\ "free" \notin AfterDiff
  BY DEF Free, AfterDiff
<1>3. ASSUME NEW e \in events, SnippetTakes(v, e) PROVE SnippetBounds(configs)'
  <2>1. UNCHANGED <<snippetConfig, comments, buried>>
    BY <1>3 DEF SnippetTakes
  <2>2. CASE IgnoreEvent(v, e)
    BY <1>1, <2>1, <2>2, TakenBounded DEF SnippetBounds, AfterDiff
  <2>3. ASSUME NEW a \in {"check", "config"}, TakeEvent(v, e, a) PROVE SnippetBounds(configs)'
    <3>1. PICK x : x.at = a /\ visit' = [visit EXCEPT ![v] = x] /\ EventsBounded'
      BY <1>1, <2>3, TakenBounded
    <3>2. x.at \notin AfterDiff
      BY <3>1 DEF AfterDiff
    <3>3. QED
      BY <1>1, <2>1, <3>1, <3>2, SnippetMoves
  <2>4. QED
    BY <1>3, <2>2, <2>3 DEF SnippetTakes
<1>4. ASSUME visit[v] # Free, NEW a \in SnippetPlaces, VisitTo(v, a), a \in AfterDiff => visit[v].at \in AfterDiff,
             pull'.head = pull.head, UNCHANGED <<acts, visitFaults, events, snippetConfig>>, comments' \in Seq(Content)
      PROVE  SnippetBounds(configs)'
  <2>1. PICK y \in SnippetVisit : y = visit[v]
    BY <1>1, <1>4, AtWork DEF SnippetVisit
  <2>2. PICK x : x = [y EXCEPT !.at = a]
    OBVIOUS
  <2>3. x.at = a /\ x.read = y.read
    BY <2>2 DEF SnippetVisit, VisitOf
  <2>4. visit' = [visit EXCEPT ![v] = x]
    BY <1>4, <2>1, <2>2 DEF VisitTo, Visits
  <2>5. x.at \in AfterDiff => x.read \in Content
    BY <1>4, <2>1, <2>3 DEF SnippetBounds
  <2>6. EventsBounded'
    BY <1>1, <1>4, VisitToBounded
  <2>7. QED
    BY <1>4, <2>4, <2>5, <2>6, SnippetMoves
<1>5. ASSUME visit' = [visit EXCEPT ![v] = Free], EventsBounded', UNCHANGED <<snippetConfig, comments, buried>>
      PROVE  SnippetBounds(configs)'
  BY <1>1, <1>5, SnippetMoves
<1>6. ASSUME visit[v] # Free, Leave(v), UNCHANGED <<pull, acts, visitFaults, events, snippetConfig, comments, buried>>
      PROVE  SnippetBounds(configs)'
  <2>1. EventsBounded' /\ visit' = [visit EXCEPT ![v] = Free]
    BY <1>1, <1>6, VisitToBounded DEF Leave, Visits
  <2>2. QED
    BY <1>5, <1>6, <2>1
<1>7. ASSUME NEW heeded, VisitFails(v, heeded), UNCHANGED <<snippetConfig, comments, buried>>
      PROVE  SnippetBounds(configs)'
  BY <1>1, <1>5, <1>7, FailureBounded
<1>8. CASE SnippetChecksConfig(v)
  BY <1>1, <1>4, <1>8 DEF SnippetChecksConfig, VisitAt, Inside, SnippetPlaces, AfterDiff
<1>9. CASE SnippetReadsConfig(v)
  <2>1. visit[v] # Free /\ UNCHANGED <<pull, acts, visitFaults, snippetConfig, comments, buried>>
    BY <1>9 DEF SnippetReadsConfig, VisitAt
  <2>2. CASE SnippetFound = "error"
    <3>1. TryAgain(v)
      BY <1>9, <2>2 DEF SnippetReadsConfig
    <3>2. visit' = [visit EXCEPT ![v] = Free] /\ \A e \in events' : IsBounded(e)
      BY <1>1, <2>1, <3>1, TriedAgainBounded
    <3>3. visitFaults' \in 0 .. MaxVisitFaults
      BY <1>1, <2>1 DEF EventsBounded
    <3>4. EventsBounded'
      BY <1>1, <2>1, <3>2, <3>3, HandlerBounded
    <3>5. QED
      BY <1>5, <2>1, <3>2, <3>4
  <2>3. CASE SnippetFound = "none"
    BY <1>6, <1>9, <2>1, <2>3 DEF SnippetReadsConfig
  <2>4. CASE SnippetFound \notin {"error", "none"}
    <3>1. visit[v].event.kind \in Scanned \cup {"labeled", "comment"}
      BY <2>1 DEF SnippetInv, SnippetTyped, InPlace
    <3>2. Leave(v) \/ \E a \in {"unlabel", "get", "diff"} : VisitTo(v, a)
      BY <1>9, <2>4, <3>1 DEF SnippetReadsConfig
    <3>3. UNCHANGED events
      BY <1>9, <2>4 DEF SnippetReadsConfig
    <3>4. QED
      BY <1>1, <1>4, <1>6, <2>1, <3>2, <3>3 DEF SnippetPlaces, AfterDiff
  <2>5. QED
    BY <2>2, <2>3, <2>4
<1>10. CASE RemoveRefresh(v)
  <2>1. PICK p \in PullRequestOf : p = pull
    BY <1>1 DEF EventsTyped
  <2>2. [p EXCEPT !.labels = @ \ {Refresh}].head = p.head
    BY DEF PullRequestOf
  <2>3. QED
    BY <1>1, <1>4, <1>10, <2>1, <2>2 DEF RemoveRefresh, VisitAt, SnippetPlaces, AfterDiff
<1>11. CASE GetPullRequest(v)
  <2>1. visit[v] # Free /\ UNCHANGED <<pull, acts, visitFaults, events, snippetConfig, comments, buried>>
    BY <1>11 DEF GetPullRequest, VisitAt, Inside
  <2>2. PICK y \in SnippetVisit : y = visit[v] /\ y.event \in EventOf
    BY <1>1, <2>1, AtWork DEF SnippetVisit
  <2>3. PICK x : x = [y EXCEPT !.at = "diff", !.event.head = pull.head, !.event.labels = pull.labels]
    OBVIOUS
  <2>4. x.at = "diff" /\ x.event.head = pull.head /\ x.event.act = y.event.act /\ x.event.tries = y.event.tries
    BY <2>2, <2>3 DEF SnippetVisit, VisitOf, EventOf
  <2>5. visit' = [visit EXCEPT ![v] = x]
    BY <1>11, <2>2, <2>3 DEF GetPullRequest, Visits
  <2>6. IsBounded(x.event)
    <3>1. IsBounded(y.event) /\ pull.head <= pull.head
      BY <1>1, <2>1, <2>2 DEF EventsBounded, EventsTyped, PullRequestOf
    <3>2. QED
      BY <2>4, <3>1 DEF IsBounded
  <2>7. EventsBounded'
    <3>1. visitFaults' \in 0 .. MaxVisitFaults /\ \A e \in events' : IsBounded(e)
      BY <1>1, <2>1 DEF EventsBounded
    <3>2. QED
      BY <1>1, <2>1, <2>5, <2>6, <3>1, HandlerBounded
  <2>8. x.at \notin AfterDiff
    BY <2>4 DEF AfterDiff
  <2>9. QED
    BY <1>1, <2>1, <2>5, <2>7, <2>8, SnippetMoves
<1>12. CASE ParseDiff(v)
  <2>1. visit[v] # Free /\ UNCHANGED <<pull, acts, visitFaults, events, snippetConfig, comments, buried>>
    BY <1>12 DEF ParseDiff, VisitAt, Inside
  <2>2. PICK y \in SnippetVisit : y = visit[v]
    BY <1>1, <2>1, AtWork DEF SnippetVisit
  <2>3. PICK x : x = [y EXCEPT !.at = "file", !.read = pull.content]
    OBVIOUS
  <2>4. x.read = pull.content /\ x.event = y.event
    BY <2>2, <2>3 DEF SnippetVisit, VisitOf
  <2>5. visit' = [visit EXCEPT ![v] = x]
    BY <1>12, <2>2, <2>3 DEF ParseDiff, Visits
  <2>6. EventsBounded'
    BY <1>1, <2>1, <2>2, <2>4, <2>5, StepBounded
  <2>7. QED
    BY <1>1, <2>1, <2>4, <2>5, <2>6, SnippetMoves
<1>13. CASE ScanFile(v)
  <2>1. visit[v] # Free /\ visit[v].at = "file" /\ UNCHANGED <<pull, acts, visitFaults, events, snippetConfig, comments, buried>>
    BY <1>13 DEF ScanFile, VisitAt, Inside
  <2>2. PICK y \in SnippetVisit : y = visit[v]
    BY <1>1, <2>1, AtWork DEF SnippetVisit
  <2>3. PICK bad : bad = ViolationsOf(y.read, pull.content, y.event.labels)
    OBVIOUS
  <2>4. PICK x : x = [y EXCEPT !.at = "list", !.bad = bad]
    OBVIOUS
  <2>5. x.read = y.read /\ x.event = y.event
    BY <2>2, <2>4 DEF SnippetVisit, VisitOf
  <2>6. Leave(v) \/ visit' = [visit EXCEPT ![v] = x]
    BY <1>13, <2>2, <2>3, <2>4 DEF ScanFile, Visits
  <2>7. y.read \in Content
    BY <2>1, <2>2 DEF SnippetBounds, AfterDiff
  <2>8. CASE visit' = [visit EXCEPT ![v] = x]
    <3>1. EventsBounded'
      BY <1>1, <2>1, <2>2, <2>5, <2>8, StepBounded
    <3>2. QED
      BY <1>1, <2>1, <2>5, <2>7, <2>8, <3>1, SnippetMoves
  <2>9. QED
    BY <1>6, <2>1, <2>6, <2>8
<1>14. CASE MismatchNotPosted(v) \/ SnippetFails(v)
  BY <1>7, <1>14 DEF MismatchNotPosted, SnippetFails
<1>15. CASE ListOwnComments(v)
  <2>1. \E a \in {"update", "create", "post"} : VisitTo(v, a)
    BY <1>15 DEF ListOwnComments
  <2>2. QED
    BY <1>1, <1>4, <1>15, <2>1 DEF ListOwnComments, VisitAt, Inside, SnippetPlaces, AfterDiff
<1>16. CASE PutComment(v)
  <2>1. visit[v] # Free /\ visit[v].at \in {"update", "create"} /\ VisitTo(v, "post")
        /\ UNCHANGED <<pull, acts, visitFaults, events, snippetConfig>>
    BY <1>16 DEF PutComment, VisitAt, Inside
  <2>2. PICK c \in Content : c = visit[v].read
    BY <2>1 DEF SnippetBounds, AfterDiff
  <2>3. comments' = [comments EXCEPT ![1] = c] \/ comments' = Append(comments, c)
    BY <1>16, <2>2 DEF PutComment
  <2>4. comments' \in Seq(Content)
    <3>1. PICK n \in Nat : comments \in [1 .. n -> Content]
      BY <1>1, SeqDef
    <3>2. [comments EXCEPT ![1] = c] \in [1 .. n -> Content]
      BY <3>1
    <3>3. [comments EXCEPT ![1] = c] \in Seq(Content)
      BY <3>1, <3>2, SeqDef
    <3>4. QED
      BY <1>1, <2>3, <3>3
  <2>5. QED
    BY <1>4, <2>1, <2>4 DEF SnippetPlaces, AfterDiff
<1>17. CASE PostChecks(v)
  BY <1>6, <1>17 DEF PostChecks, VisitAt, Inside
<1>18. QED
  BY <1>3, <1>8, <1>9, <1>10, <1>11, <1>12, <1>13, <1>14, <1>15, <1>16, <1>17 DEF SnippetStep

\* So does every step.
LEMMA SnippetStaysBounded ==
  ASSUME NEW configs, SnippetInv, SnippetBounds(configs), [SnippetNext]_snippetVars
  PROVE  SnippetBounds(configs)'
<1> DEFINE Finds == SUBSET {"mismatch", "prefix", "removal", "format"}
<1>1. EventsTyped(SnippetPlaces, Content \cup {{}}, Finds) /\ "free" \notin SnippetPlaces /\ EventsBounded
  BY DEF SnippetInv, SnippetTyped, SnippetPlaces, SnippetBounds
<1>2. CASE UNCHANGED <<eventVars, snippetConfig, comments>>
  BY <1>2 DEF eventVars, SnippetBounds, EventsBounded, IsBounded
<1>3. CASE \E v \in Visitor : SnippetStep(v)
  BY <1>3, SnippetStepBounded
<1>4. CASE (PeopleAct \/ Act("comment", pull, "none")) /\ UNCHANGED <<snippetConfig, comments, buried>>
  <2>1. EventsBounded'
    BY <1>1, <1>4, PeopleActBounded
  <2>2. UNCHANGED visit
    BY <1>4 DEF PeopleAct, Push, AddLabel, DropLabel, ClosePull, ReopenPull, MarkReady, EditPull, Act
  <2>3. QED
    BY <1>4, <2>1, <2>2 DEF SnippetBounds
<1>5. QED
  BY <1>2, <1>3, <1>4 DEF SnippetNext, TickRefresh, BuryComments, snippetVars

----------------------------------------------------------------------------
(* The bots of a repository: the checks on a pull request.                  *)

PullRequestInv ==
  /\ job = "snippet" => SnippetInv /\ HeadIsScanned
  /\ job = "label"   => LabelInv
  /\ job = "header"  => HeadersInv

(* Whichever of the bots on pull requests it is, whatever the configurations, the pushes, *)
(* labels, handlers that overlap and failing calls, and the order events are dealt with:  *)
(* its checks tell of the head and its labels.                                            *)
THEOREM ChecksAreOfHead ==
  ASSUME NEW CONSTANT bodies, NEW CONSTANT lists, NEW CONSTANT snippets, NEW CONSTANT labels, NEW CONSTANT headers,
         NEW CONSTANT releasing
  PROVE  BotsSpec(bodies, lists, snippets, labels, headers, releasing) => []ChecksTellOfHead
<1>1. BotsInit(bodies, lists, snippets, labels, headers, releasing) => PullRequestInv
  BY SnippetInitHolds, HeadScanInitHolds, LabelInitHolds, HeadersInitHold DEF BotsInit, PullRequestInv
<1>2. PullRequestInv /\ [BotsNext]_botVars => PullRequestInv'
  <2>1. SUFFICES ASSUME PullRequestInv, [BotsNext]_botVars PROVE PullRequestInv'
    OBVIOUS
  <2>2. UNCHANGED job
    BY <2>1 DEF BotsNext, botVars
  <2>3. ASSUME job = "snippet" PROVE (SnippetInv /\ HeadIsScanned)'
    <3>1. [SnippetNext]_snippetVars
      BY <2>1, <2>3 DEF BotsNext, botVars, snippetVars, snippetOwn
    <3>2. QED
      BY <2>1, <2>3, <3>1, HeadScanKept DEF PullRequestInv
  <2>4. ASSUME job = "label" PROVE LabelInv'
    <3>1. [DoNotMergeNext]_dnmVars
      BY <2>1, <2>4 DEF BotsNext, botVars, dnmVars, labelOwn
    <3>2. QED
      BY <2>1, <2>4, <3>1, LabelInvKept DEF PullRequestInv
  <2>5. ASSUME job = "header" PROVE HeadersInv'
    <3>1. [HeaderNext]_headerVars
      BY <2>1, <2>5 DEF BotsNext, botVars, headerVars
    <3>2. QED
      BY <2>1, <2>5, <3>1, HeadersInvKept DEF PullRequestInv
  <2>6. QED
    BY <2>2, <2>3, <2>4, <2>5 DEF PullRequestInv
<1>3. PullRequestInv => ChecksTellOfHead
  BY ScannedChecksTell, LabelInvTells, HeadersInvTells DEF PullRequestInv, ChecksTellOfHead
<1>4. QED
  BY <1>1, <1>2, <1>3, PTL DEF BotsSpec

----------------------------------------------------------------------------
(* The bots of a repository: the types.                                     *)

ConfigsAreTexts(configs) == \A c \in configs : c.own \in ConfigText /\ c.orgs \in ConfigText

\* The bounds of snippet-bot hold at first.
LEMMA SnippetInitBounded ==
  ASSUME NEW configs, SnippetInit(configs)
  PROVE  SnippetBounds(configs)
<1>1. EventsBounded
  BY EventsInitBounded DEF SnippetInit
<1>2. \A v \in Visitor : visit[v] = Free
  BY DEF SnippetInit, EventsInit
<1>3. QED
  BY <1>1, <1>2 DEF SnippetInit, SnippetBounds

\* What they give of its types.
LEMMA SnippetBoundsType ==
  ASSUME NEW configs, ConfigsAreTexts(configs), SnippetInv, HeadIsScanned, SnippetBounds(configs)
  PROVE  SnippetTypeOK
<1>1. checks \in [CheckName -> Conclusion]
  BY DEF HeadIsScanned
<1>2. EventsTypeOK
  BY <1>1, EventsTypes DEF SnippetInv, SnippetTyped, SnippetBounds
<1>3. QED
  BY <1>2 DEF SnippetInv, SnippetTyped, SnippetBounds, SnippetTypeOK, ConfigsAreTexts

\* The bounds of do-not-merge hold at first.
LEMMA LabelInitBounded ==
  ASSUME NEW configs, DoNotMergeInit(configs)
  PROVE  LabelBounds
<1>1. EventsBounded /\ checks = NoChecks /\ unseen = FALSE
  BY EventsInitBounded DEF DoNotMergeInit, EventsInit
<1>2. NoChecks \in [CheckName -> Conclusion]
  BY DEF NoChecks, Conclusion
<1>3. unseen \in BOOLEAN
  BY <1>1, Zenon
<1>4. QED
  BY <1>1, <1>2, <1>3, Zenon DEF LabelBounds

\* The bounds of header-checker-lint hold at first.
LEMMA HeaderInitBounded ==
  ASSUME NEW configs, HeaderInit(configs)
  PROVE  HeaderBounds(configs)
BY EventsInitBounded DEF HeaderInit, HeaderBounds

\* What they give of its types.
LEMMA HeaderBoundsType ==
  ASSUME NEW configs, ConfigsAreTexts(configs), HeadersInv, HeaderBounds(configs)
  PROVE  HeaderTypeOK
<1>1. EventsTypeOK
  BY EventsTypes DEF HeadersInv, HeadersTyped, HeaderBounds
<1>2. QED
  BY <1>1 DEF HeaderBounds, HeaderTypeOK, ConfigsAreTexts

\* What each of the bots keeps when it is the one that runs.
BotsTyped(snippets, headers) ==
  /\ job = "cron"    => CronTyped /\ CronWays /\ CronInv /\ CronPending
  /\ job = "pick"    => PickTyped
  /\ job = "snippet" => SnippetInv /\ HeadIsScanned /\ SnippetBounds(snippets)
  /\ job = "label"   => LabelInv /\ LabelBounds
  /\ job = "header"  => HeadersInv /\ HeaderBounds(headers)
  /\ job = "release" => ReleaseTyped /\ ReleaseInv /\ ReleaseBounds

(* Whichever bot it is, its variables have the values the code can give them: no event    *)
(* tells of a push that was not made, no event, task or retry outlives its tries, no more *)
(* calls of the fan-out are under way than the batch has room for, the lock has one       *)
(* holder, and tags are of release pull requests.                                         *)
THEOREM BotsTypeCorrect ==
  ASSUME NEW CONSTANT bodies \in SUBSET CronBodies,
         NEW CONSTANT lists \in SUBSET [Installation -> Seq(Repository)],
         NEW CONSTANT snippets, ConfigsAreTexts(snippets), NEW CONSTANT labels,
         NEW CONSTANT headers, ConfigsAreTexts(headers),
         NEW CONSTANT releasing \in SUBSET ReleaseConfig
  PROVE  BotsSpec(bodies, lists, snippets, labels, headers, releasing) => []BotsTypeOK
<1>1. BotsInit(bodies, lists, snippets, labels, headers, releasing) => BotsTyped(snippets, headers)
  <2>1. SUFFICES ASSUME BotsInit(bodies, lists, snippets, labels, headers, releasing)
                 PROVE  BotsTyped(snippets, headers)
    OBVIOUS
  <2>2. CronTyped /\ CronWays /\ CronInv /\ CronPending
    BY <2>1, CronInitHolds, CronPendingInit DEF BotsInit
  <2>3. PickTyped
    BY <2>1, PickInitTyped DEF BotsInit
  <2>4. SnippetInv /\ HeadIsScanned /\ SnippetBounds(snippets)
    BY <2>1, SnippetInitHolds, HeadScanInitHolds, SnippetInitBounded DEF BotsInit
  <2>5. LabelInv /\ LabelBounds
    BY <2>1, LabelInitHolds, LabelInitBounded DEF BotsInit
  <2>6. HeadersInv /\ HeaderBounds(headers)
    BY <2>1, HeadersInitHold, HeaderInitBounded DEF BotsInit
  <2>7. ReleaseTyped /\ ReleaseInv /\ ReleaseBounds
    BY <2>1, ReleaseInitTyped, ReleaseInitBounded DEF BotsInit
  <2>8. QED
    BY <2>2, <2>3, <2>4, <2>5, <2>6, <2>7 DEF BotsTyped
<1>2. BotsTyped(snippets, headers) /\ [BotsNext]_botVars => BotsTyped(snippets, headers)'
  <2>1. SUFFICES ASSUME BotsTyped(snippets, headers), [BotsNext]_botVars PROVE BotsTyped(snippets, headers)'
    OBVIOUS
  <2>2. UNCHANGED job
    BY <2>1 DEF BotsNext, botVars
  <2>3. ASSUME job = "cron" PROVE (CronTyped /\ CronWays /\ CronInv /\ CronPending)'
    <3>1. [CronNext]_cronVars
      BY <2>1, <2>3 DEF BotsNext, botVars
    <3>2. CronTyped' /\ CronWays' /\ CronInv'
      BY <2>1, <2>3, <3>1, CronStepKeeps DEF BotsTyped
    <3>3. QED
      BY <2>1, <2>3, <3>1, <3>2, CronPendingKept DEF BotsTyped
  <2>4. ASSUME job = "pick" PROVE PickTyped'
    <3>1. [PickNext]_pickVars
      BY <2>1, <2>4 DEF BotsNext, botVars
    <3>2. QED
      BY <2>1, <2>4, <3>1, PickNextTyped DEF BotsTyped
  <2>5. ASSUME job = "snippet" PROVE (SnippetInv /\ HeadIsScanned /\ SnippetBounds(snippets))'
    <3>1. [SnippetNext]_snippetVars
      BY <2>1, <2>5 DEF BotsNext, botVars, snippetVars, snippetOwn
    <3>2. QED
      BY <2>1, <2>5, <3>1, HeadScanKept, SnippetStaysBounded DEF BotsTyped
  <2>6. ASSUME job = "label" PROVE (LabelInv /\ LabelBounds)'
    <3>1. [DoNotMergeNext]_dnmVars
      BY <2>1, <2>6 DEF BotsNext, botVars, dnmVars, labelOwn
    <3>2. QED
      BY <2>1, <2>6, <3>1, LabelInvKept, LabelStaysBounded DEF BotsTyped
  <2>7. ASSUME job = "header" PROVE (HeadersInv /\ HeaderBounds(headers))'
    <3>1. [HeaderNext]_headerVars
      BY <2>1, <2>7 DEF BotsNext, botVars, headerVars
    <3>2. QED
      BY <2>1, <2>7, <3>1, HeadersInvKept, HeaderStaysBounded DEF BotsTyped
  <2>8. ASSUME job = "release" PROVE (ReleaseTyped /\ ReleaseInv /\ ReleaseBounds)'
    <3>1. [ReleaseNext]_releaseVars
      BY <2>1, <2>8 DEF BotsNext, botVars
    <3>2. ReleaseTyped' /\ ReleaseInv'
      BY <2>1, <2>8, <3>1, ReleaseStepKeeps DEF BotsTyped
    <3>3. QED
      BY <2>1, <2>8, <3>1, <3>2, ReleaseStaysBounded DEF BotsTyped
  <2>9. QED
    BY <2>2, <2>3, <2>4, <2>5, <2>6, <2>7, <2>8 DEF BotsTyped
<1>3. BotsTyped(snippets, headers) => BotsTypeOK
  BY CronPendingTypes, PickTypedIsType, SnippetBoundsType, LabelBoundsType, HeaderBoundsType, ReleaseBoundsType
     DEF BotsTyped, BotsTypeOK
<1>4. QED
  BY <1>1, <1>2, <1>3, PTL DEF BotsSpec
=============================================================================
