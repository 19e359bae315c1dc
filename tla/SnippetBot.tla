----------------------------- MODULE SnippetBot -----------------------------
(***************************************************************************)
(* packages/snippet-bot: the checks and the comment on what a pull request *)
(* does to region tags.  The diff, the file and the comments are read one  *)
(* after the other, from the pull request as it is then; labels and head   *)
(* are those of the payload.  What the product prefixes and the pages are  *)
(* is taken as given.                                                      *)
(***************************************************************************)
EXTENDS PullRequestEvents, RegionTags, BotConfig, SequencesExt

VARIABLES
  snippetConfig,  \* own, orgs: the configuration files; always, aggregate, ignored: what a good one says
  comments,       \* the comments of the bot, oldest first: the content each tells of
  buried          \* do comments of others fill the page that is read (50) before the bot's first one?

snippetVars == <<eventVars, snippetConfig, comments, buried>>

Refresh  == "snippet-bot:force-run"
NoPrefix == "snippet-bot:no-prefix-req"
SnippetChecks == {"schema", "all", "mismatch", "prefix", "removal", "format"}

ASSUME SnippetAssumption ==
  SnippetChecks \subseteq CheckName /\ \A c \in Content : c.lines \in Seq(TagLine)

SnippetFound == GetConfig(snippetConfig.own, snippetConfig.orgs, FALSE, FALSE, TRUE, TRUE, TRUE)
\* An empty configuration means the defaults.
Says(option, default) == IF SnippetFound = "good" THEN option ELSE default
AlwaysChecks == Says(snippetConfig.always, FALSE)
Aggregates   == Says(snippetConfig.aggregate, TRUE)
IgnoresFile  == Says(snippetConfig.ignored, FALSE)

SnippetTypeOK ==
  /\ EventsTypeOK
  /\ snippetConfig.own \in ConfigText /\ snippetConfig.orgs \in ConfigText
  /\ comments \in Seq(Content) /\ buried \in BOOLEAN

SnippetInit(configs) == EventsInit /\ snippetConfig \in configs /\ comments = <<>> /\ buried = FALSE

----------------------------------------------------------------------------
Scanned == {"opened", "reopened", "synchronize", "ready_for_review"}

SnippetTakes(v, e) ==
  /\ \/ e.kind \in Scanned /\ e.open /\ ~e.draft /\ TakeEvent(v, e, "check")
     \/ e.kind \in {"labeled", "comment"} /\ TakeEvent(v, e, "config")
     \/ e.kind \in Scanned /\ ~(e.open /\ ~e.draft) /\ IgnoreEvent(v, e)
     \/ e.kind \notin Scanned \cup {"labeled", "comment"} /\ IgnoreEvent(v, e)
  /\ UNCHANGED <<snippetConfig, comments, buried>>

\* validateConfigChanges(): only what is wrong is posted.
SnippetChecksConfig(v) ==
  /\ VisitAt(v, "check")
  /\ Posted(visit[v].event,
            IF ConfigErrors(pull.content.config, TRUE) # {} THEN {<<"schema", "failure">>} ELSE {})
  /\ VisitTo(v, "config")
  /\ Inside /\ UNCHANGED <<snippetConfig, comments, buried>>

SnippetReadsConfig(v) ==
  /\ VisitAt(v, "config")
  /\ LET e == visit[v].event
         next == CASE e.kind = "labeled" -> IF Refresh \in e.labels THEN "unlabel" ELSE "end"
                   [] e.kind = "comment" -> "get"
                   [] e.kind \in Scanned -> "diff"
     IN CASE SnippetFound = "error" -> TryAgain(v)
          [] SnippetFound = "none"  -> Leave(v) /\ UNCHANGED <<events, missed>>
          [] SnippetFound \notin {"error", "none"} ->
               /\ IF next = "end" THEN Leave(v) ELSE VisitTo(v, next)
               /\ UNCHANGED <<events, missed>>
  /\ UNCHANGED <<pull, checks, acts, visitFaults, hurried, overlapped, snippetConfig, comments, buried>>

\* That the label is gone already is no error.
RemoveRefresh(v) ==
  /\ VisitAt(v, "unlabel")
  /\ pull' = [pull EXCEPT !.labels = @ \ {Refresh}]
  /\ VisitTo(v, "diff")
  /\ UNCHANGED <<checks, events, acts, visitFaults, hurried, overlapped, missed, snippetConfig, comments, buried>>

\* The payload of a comment has no pull request.
GetPullRequest(v) ==
  /\ VisitAt(v, "get")
  /\ Visits(v, [visit[v] EXCEPT !.at = "diff", !.event.head = pull.head, !.event.labels = pull.labels])
  /\ Inside /\ UNCHANGED <<checks, snippetConfig, comments, buried>>

ParseDiff(v) ==
  /\ VisitAt(v, "diff")
  /\ Visits(v, [visit[v] EXCEPT !.at = "file", !.read = pull.content])
  /\ Inside /\ UNCHANGED <<checks, snippetConfig, comments, buried>>

HasChanges(c) == AddedTags(c) \cup DeletedTags(c) # {}
IsScannedNow(c) == IsScanned(c) /\ ~IgnoresFile
\* The file of the diff is not at the head any more.
IsGone(c, now) == now.status = "deleted" \/ (c.status = "renamed") # (now.status = "renamed")
MismatchConclusion(bad) == <<"mismatch", IF "mismatch" \in bad THEN "failure" ELSE "success">>

\* What is wrong with the changes of c, with the file as it is now.
ViolationsOf(c, now, labels) ==
  {n \in {"mismatch", "prefix", "removal", "format"} :
     CASE n = "mismatch" -> IsScannedNow(c) /\ ~ParseRegionTags(now)
       [] n = "prefix"   -> NoPrefix \notin labels /\ ~IgnoresFile /\ PrefixViolations(c) # {}
       [] n = "removal"  ->
            ~IgnoresFile /\ RemovalViolations(c, IF IsScanned(c) THEN Starts(now, HeadLines(now)) ELSE {}) # {}
       [] n = "format"   -> ~IgnoresFile /\ FormatViolations(c) # {}}

\* A mutant of EndsEarly: the checks that are always wanted are forgotten.
EndsEarlyAlways(v) == ~HasChanges(visit[v].read) /\ visit[v].event.kind \in Scanned /\ ~Aggregates

\* Without changes there is nothing more to say, unless somebody asked for it.
EndsEarly(v) ==
  ~HasChanges(visit[v].read) /\ visit[v].event.kind \in Scanned /\ ~AlwaysChecks /\ ~Aggregates

MismatchDue(c, now) == AlwaysChecks \/ Aggregates \/ (IsScannedNow(c) /\ Starts(now, HeadLines(now)) # {})

ScanFile(v) ==
  /\ VisitAt(v, "file")
  /\ LET c == visit[v].read
         now == pull.content
         bad == ViolationsOf(c, now, visit[v].event.labels)
     IN \/ /\ IsScannedNow(c) /\ IsGone(c, now)
           /\ Leave(v) /\ UNCHANGED checks
        \/ /\ ~(IsScannedNow(c) /\ IsGone(c, now))
           /\ Posted(visit[v].event,
                     IF MismatchDue(c, now) /\ ~Aggregates THEN {MismatchConclusion(bad)} ELSE {})
           /\ IF EndsEarly(v) THEN Leave(v) ELSE Visits(v, [visit[v] EXCEPT !.at = "list", !.bad = bad])
  /\ Inside /\ UNCHANGED <<snippetConfig, comments, buried>>

\* The call is not awaited: that it fails is seen by no one when the handler ends early.
MismatchNotPosted(v) ==
  /\ VisitAt(v, "file") /\ EndsEarly(v)
  /\ VisitFails(v, FALSE) /\ UNCHANGED <<snippetConfig, comments, buried>>

\* A mutant of ListOwnComments: the comment of an earlier scan is not looked for.
CommentsAnew(v) ==
  /\ VisitAt(v, "list")
  /\ VisitTo(v, IF HasChanges(visit[v].read) THEN "create" ELSE "post")
  /\ Inside /\ UNCHANGED <<checks, snippetConfig, comments, buried>>

\* addOrUpdateIssueComment() looks for its comment on one page.  Without changes a comment
\* is only updated.
ListOwnComments(v) ==
  /\ VisitAt(v, "list")
  /\ VisitTo(v, IF comments # <<>> /\ ~buried THEN "update"
                ELSE IF HasChanges(visit[v].read) THEN "create" ELSE "post")
  /\ Inside /\ UNCHANGED <<checks, snippetConfig, comments, buried>>

PutComment(v) ==
  /\ \/ VisitAt(v, "update") /\ comments' = [comments EXCEPT ![1] = visit[v].read]
     \/ VisitAt(v, "create") /\ comments' = Append(comments, visit[v].read)
  /\ VisitTo(v, "post")
  /\ Inside /\ UNCHANGED <<checks, snippetConfig, buried>>

\* One check for all, or one for each kind of violation.
PostChecks(v) ==
  /\ VisitAt(v, "post")
  /\ LET bad == visit[v].bad
         result(n) == <<n, IF n \in bad THEN "failure" ELSE "success">>
     IN Posted(visit[v].event,
               IF Aggregates THEN {<<"all", IF bad # {} THEN "failure" ELSE "success">>}
               ELSE {result(n) : n \in {m \in {"prefix", "removal", "format"} : AlwaysChecks \/ m \in bad}})
  /\ Leave(v)
  /\ Inside /\ UNCHANGED <<snippetConfig, comments, buried>>

SnippetFails(v) == VisitFails(v, TRUE) /\ UNCHANGED <<snippetConfig, comments, buried>>

\* A person ticks the box of the comment.
TickRefresh == comments # <<>> /\ Act("comment", pull, "none") /\ UNCHANGED <<checks, snippetConfig, comments, buried>>

BuryComments ==
  comments = <<>> /\ ~buried /\ buried' = TRUE /\ UNCHANGED <<eventVars, snippetConfig, comments>>

SnippetStep(v) ==
  \/ \E e \in events : SnippetTakes(v, e)
  \/ SnippetChecksConfig(v) \/ SnippetReadsConfig(v) \/ RemoveRefresh(v) \/ GetPullRequest(v) \/ ParseDiff(v)
  \/ ScanFile(v) \/ MismatchNotPosted(v) \/ ListOwnComments(v) \/ PutComment(v) \/ PostChecks(v) \/ SnippetFails(v)

SnippetNext ==
  \/ \E v \in Visitor : SnippetStep(v)
  \/ PeopleAct /\ UNCHANGED <<snippetConfig, comments, buried>>
  \/ TickRefresh \/ BuryComments

SnippetSpec(configs) == SnippetInit(configs) /\ [][SnippetNext]_snippetVars

----------------------------------------------------------------------------
(* The checks on the head tell of the head: once every event has been dealt with, in      *)
(* whatever order, by handlers that overlap each other and pushes and are tried again     *)
(* after failing calls, the latest checks are those its own changes call for.  (Of the    *)
(* prefixes they tell what was so under the labels of some payload.)                      *)
Wrong(c) ==
  (ViolationsOf(c, c, {NoPrefix}) \ {"mismatch"}) \cup
  (IF IsScannedNow(c) /\ ~TagsMatch(c) THEN {"mismatch"} ELSE {})
MayBeWrong(c) == Wrong(c) \cup ViolationsOf(c, c, {})

Verdicts(sure, maybe, due) ==
  IF sure THEN {"failure"} ELSE IF maybe THEN Conclusion ELSE IF due THEN {"success"} ELSE {"none"}
FittingFor(n, c) ==
  CASE n = "schema"   -> {IF ConfigErrors(c.config, TRUE) # {} THEN "failure" ELSE "none"}
    [] n = "all"      -> Verdicts(Wrong(c) # {}, MayBeWrong(c) # {}, TRUE)
    [] n = "mismatch" -> Verdicts(n \in Wrong(c) /\ MismatchDue(c, c), FALSE, MismatchDue(c, c))
    [] n = "prefix"   -> Verdicts(FALSE, n \in MayBeWrong(c), AlwaysChecks)
    [] n \in {"removal", "format"} -> Verdicts(n \in Wrong(c), FALSE, AlwaysChecks)

IsAskedFor(n) == n = "schema" \/ (SnippetFound \notin {"none", "error"} /\ (n = "all" <=> Aggregates))
SnippetDue == Quiet /\ ~missed /\ pull.open /\ ~pull.draft
SnippetChecksTellOfHead ==
  SnippetDue => \A n \in SnippetChecks : IsAskedFor(n) => checks[n] \in FittingFor(n, pull.content)

(* The latest comment tells of the changes of the head, and there is no other, as long    *)
(* as no two handlers ran at a time: they would both create one, or write an older one    *)
(* last.  When others' comments fill the page before the first of the bot, it does not    *)
(* find its own again and writes one for every scan; the latest one tells of the head.    *)
OneCommentOfHead ==
  ~overlapped =>
    /\ ~buried => Len(comments) <= 1
    /\ (SnippetDue /\ SnippetFound \notin {"none", "error"} /\ HasChanges(pull.content)) =>
         comments # <<>> /\ Last(comments) = pull.content
=============================================================================
