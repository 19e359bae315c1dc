--------------------------- MODULE OwlBotConfigs ---------------------------
(***************************************************************************)
(* packages/owl-bot: the store of the repositories' configurations.        *)
(*                                                                         *)
(* The files .OwlBot.yaml and .OwlBot.lock.yaml are kept in Firestore with *)
(* the commit they were read at.  A closed pull request and an hourly scan *)
(* of the organisation refresh them; refreshes of one repository may       *)
(* overlap, and a scan goes on when one repository fails.  Nothing locks:  *)
(* storeConfigs() replaces the configurations only if they are still those *)
(* the refresh started from.                                               *)
(*                                                                         *)
(* Every repository has one default branch, whose commits are numbered and *)
(* which only grows; the branch's name is therefore left out.              *)
(***************************************************************************)
EXTENDS Naturals, Sequences, FiniteSets, SequencesExt

CONSTANTS
  Repo,         \* repositories of the organisation
  Refresher,    \* request slots that refresh configurations
  MaxDigests,   \* bound: images published, numbered in the order they were built
  MaxCommits,   \* bound: commits of a default branch
  MaxFaults     \* bound: failed or dead requests, and odd events, all together

ASSUME ConfigsAssumption ==
  /\ IsFiniteSet(Repo) /\ Repo # {} /\ IsFiniteSet(Refresher)
  /\ MaxDigests \in Nat /\ MaxCommits \in Nat \ {0} /\ MaxFaults \in Nat

Digest == 1 .. MaxDigests
NoLock == 0
\* What collectConfigs() makes of a commit: the lock file's digest, if there is
\* one, and whether a file is broken.
Content == [lock : Digest \cup {NoLock}, bad : BOOLEAN]

\* A document of the collection repo-configs; commit 0 stands for no document.
Configs == [commit : 0 .. MaxCommits, lock : Digest \cup {NoLock}]
NoConfigs == [commit |-> 0, lock |-> NoLock]

\* where a refresh is: what it awaits
RefreshPc == {"idle", "next", "configs", "branch", "store", "issue"}
RefreshState ==
  [pc : RefreshPc,
   scan : BOOLEAN,              \* the scan of the organisation, or one webhook?
   todo : SUBSET Repo,          \* repositories the scan still has to look at
   repo : Repo \cup {"none"},
   seen : 0 .. MaxCommits,      \* configs.commitHash as getConfigs() returned it
   commit : 0 .. MaxCommits]    \* commitHash of the branch
Resting == [pc |-> "idle", scan |-> FALSE, todo |-> {}, repo |-> "none", seen |-> 0, commit |-> 0]

VARIABLES
  commits,    \* GitHub: the default branch of each repository, a sequence of contents
  archived,   \* GitHub: the archived repositories
  issues,     \* GitHub: repositories with an open issue about a broken file
  closed,     \* webhooks pull_request.closed not handled yet
  store,      \* Firestore: the collection repo-configs
  clearing,   \* deletions of clearConfigs() that nobody awaits
  refresh,    \* the refreshes
  faults      \* bound: faults so far

configsVars == <<commits, archived, issues, closed, store, clearing, refresh>>

ConfigsTypeOK ==
  /\ commits \in [Repo -> Seq(Content)] /\ \A r \in Repo : Len(commits[r]) <= MaxCommits
  /\ archived \subseteq Repo /\ issues \subseteq Repo
  /\ closed \subseteq Repo /\ clearing \subseteq Repo
  /\ store \in [Repo -> Configs]
  /\ refresh \in [Refresher -> RefreshState]
  /\ faults \in 0 .. MaxFaults

Tip(r) == Len(commits[r])

ConfigsInit ==
  /\ commits = [r \in Repo |-> <<[lock |-> NoLock, bad |-> FALSE]>>]
  /\ archived = {} /\ issues = {} /\ closed = {} /\ clearing = {}
  /\ store = [r \in Repo |-> NoConfigs]
  /\ refresh = [p \in Refresher |-> Resting]
  /\ faults = 0

Fault == faults < MaxFaults /\ faults' = faults + 1

----------------------------------------------------------------------------
(* People and GitHub. *)

\* A commit lands on the default branch; it comes with a pull request or without.
Land(r, content) ==
  /\ Tip(r) < MaxCommits
  /\ commits' = [commits EXCEPT ![r] = Append(@, content)]

UserCommit(r) ==
  /\ \E bad \in BOOLEAN, event \in BOOLEAN :
       /\ Land(r, [Last(commits[r]) EXCEPT !.bad = bad])
       /\ closed' = IF event THEN closed \cup {r} ELSE closed
  /\ Fault
  /\ UNCHANGED <<archived, issues, store, clearing, refresh>>

Archive(r) ==
  /\ r \notin archived
  /\ archived' = archived \cup {r}
  /\ Fault
  /\ UNCHANGED <<commits, issues, closed, store, clearing, refresh>>

----------------------------------------------------------------------------
(* The refreshes. *)

Scanning(repos) == [Resting EXCEPT !.pc = "next", !.scan = TRUE, !.todo = repos]
Goes(p, pc) == refresh' = [refresh EXCEPT ![p].pc = pc]
\* What comes after a repository: the scan's next one, or the end of the request.
Done(p) ==
  refresh' = [refresh EXCEPT ![p] = IF refresh[p].scan THEN Scanning(refresh[p].todo) ELSE Resting]

\* app.on('pull_request.closed'): of one repository.  A task whose handler fails
\* is delivered again, see RefreshFails.
PullRequestClosed(p, r) ==
  /\ refresh[p].pc = "idle" /\ r \in closed
  /\ closed' = closed \ {r}
  /\ refresh' = [refresh EXCEPT ![p] = [Resting EXCEPT !.pc = "configs", !.repo = r]]
  /\ UNCHANGED <<commits, archived, issues, store, clearing, faults>>

\* scanGithubForConfigs(): the hourly scan lists the organisation's repositories.
ScanGithubForConfigs(p) ==
  /\ refresh[p].pc = "idle"
  /\ refresh' = [refresh EXCEPT ![p] = Scanning(Repo)]
  /\ UNCHANGED <<commits, archived, issues, closed, store, clearing, faults>>

\* An archived repository is skipped; its configurations are cleared some time.
NextRepo(p, r) ==
  /\ refresh[p].pc = "next" /\ r \in refresh[p].todo
  /\ IF r \in archived
       THEN /\ clearing' = clearing \cup {r}
            /\ refresh' = [refresh EXCEPT ![p].todo = @ \ {r}]
       ELSE /\ refresh' = [refresh EXCEPT ![p].pc = "configs", ![p].todo = @ \ {r}, ![p].repo = r]
            /\ UNCHANGED clearing
  /\ UNCHANGED <<commits, archived, issues, closed, store, faults>>

ScanDone(p) ==
  /\ refresh[p].pc = "next" /\ refresh[p].todo = {}
  /\ refresh' = [refresh EXCEPT ![p] = Resting]
  /\ UNCHANGED clearing
  /\ UNCHANGED <<commits, archived, issues, closed, store, faults>>

ClearConfigs(r) ==
  /\ r \in clearing
  /\ clearing' = clearing \ {r}
  /\ store' = [store EXCEPT ![r] = NoConfigs]
  /\ UNCHANGED <<commits, archived, issues, closed, refresh, faults>>

GetConfigs(p) ==
  /\ refresh[p].pc = "configs"
  /\ refresh' = [refresh EXCEPT ![p].pc = "branch", ![p].seen = store[refresh[p].repo].commit]
  /\ UNCHANGED <<commits, archived, issues, closed, store, clearing, faults>>

\* Up to date, or a newer commit is cloned.
GetBranch(p) ==
  LET head == Tip(refresh[p].repo) IN
  /\ refresh[p].pc = "branch"
  /\ IF head = refresh[p].seen
       THEN Done(p)
       ELSE refresh' = [refresh EXCEPT ![p].pc = "store", ![p].commit = head]
  /\ UNCHANGED <<commits, archived, issues, closed, store, clearing, faults>>

\* Mutant: the compare-and-set is forgotten.
StoreConfigsBlindly(p) ==
  LET r == refresh[p].repo
      c == refresh[p].commit
  IN
  /\ refresh[p].pc = "store"
  /\ store' = [store EXCEPT ![r] = [commit |-> c, lock |-> commits[r][c].lock]]
  /\ Done(p)
  /\ UNCHANGED <<commits, archived, issues, closed, clearing, faults>>

\* storeConfigs() and, if it did store, the issue about broken files.
StoreConfigs(p) ==
  LET r == refresh[p].repo
      c == refresh[p].commit
      content == commits[r][c]
  IN
  /\ refresh[p].pc = "store"
  /\ IF store[r].commit = refresh[p].seen
       THEN /\ store' = [store EXCEPT ![r] = [commit |-> c, lock |-> content.lock]]
            /\ IF content.bad THEN Goes(p, "issue") ELSE Done(p)
       ELSE /\ Done(p)      \* Mid-air collision!
            /\ UNCHANGED store
  /\ UNCHANGED <<commits, archived, issues, closed, clearing, faults>>

CreateIssueIfTitleDoesntExist(p) ==
  /\ refresh[p].pc = "issue"
  /\ issues' = issues \cup {refresh[p].repo}
  /\ Done(p)
  /\ UNCHANGED <<commits, archived, closed, store, clearing, faults>>

\* A call fails.  The scan logs it and goes on with the next repository, except
\* when the configurations cannot be read: that ends it.  A webhook is delivered again.
RefreshFails(p) ==
  /\ refresh[p].pc \in {"configs", "branch", "store", "issue"}
  /\ Fault
  /\ IF refresh[p].scan /\ refresh[p].pc # "configs"
       THEN Done(p) /\ UNCHANGED closed
       ELSE /\ refresh' = [refresh EXCEPT ![p] = Resting]
            /\ closed' = IF refresh[p].scan THEN closed ELSE closed \cup {refresh[p].repo}
  /\ UNCHANGED <<commits, archived, issues, store, clearing>>

RefreshStep(p) ==
  \/ \E r \in Repo : NextRepo(p, r)
  \/ ScanDone(p)
  \/ GetConfigs(p) \/ GetBranch(p) \/ StoreConfigs(p) \/ CreateIssueIfTitleDoesntExist(p)

\* What one slot may do; its requests may come from webhooks and from the scan.
Refreshes(p) ==
  \/ \E r \in Repo : PullRequestClosed(p, r)
  \/ ScanGithubForConfigs(p) \/ RefreshStep(p) \/ RefreshFails(p)

ConfigsNext ==
  \/ \E r \in Repo : UserCommit(r) \/ Archive(r) \/ ClearConfigs(r)
  \/ \E p \in Refresher : Refreshes(p)

----------------------------------------------------------------------------
(* Properties. *)

\* The configurations of a repository are never replaced by older ones, however
\* refreshes overlap: each reads the document before the branch, and writes only
\* over what it read.
NeverReplacedByOlder ==
  [][\A r \in Repo : store[r].commit = 0 \/ store'[r].commit = 0
                       \/ store'[r].commit >= store[r].commit]_store

=============================================================================
