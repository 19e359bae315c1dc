--------------------------- MODULE RepositoryBots ---------------------------
(***************************************************************************)
(* The bots of one repository: the cron that fans out to repositories,     *)
(* cherry-pick-bot, snippet-bot, do-not-merge, header-checker-lint and     *)
(* release-please.  Each is a service of its own with its own tasks and    *)
(* its own checks, comments and branches; they share no state, and so a    *)
(* behaviour is of one of them.                                            *)
(***************************************************************************)
EXTENDS CronFanout, CherryPick, SnippetBot, DoNotMerge, HeaderChecker, ReleasePlease

VARIABLE job  \* which of them it is of

BotJobs == {"cron", "pick", "snippet", "label", "header", "release"}

snippetOwn == <<snippetConfig, comments, buried>>
labelOwn   == <<dnmConfig, checkRuns, unseen>>
botVars == <<job, cronVars, pickVars, eventVars, snippetOwn, labelOwn, headerConfig, releaseVars>>

\* The arguments are the requests and listings of the cron and the configurations of the bots.
BotsInit(bodies, lists, snippets, labels, headers, releasing) ==
  /\ job \in BotJobs
  /\ CronInit(bodies, lists) /\ PickInit /\ ReleaseInit(releasing)
  /\ SnippetInit(snippets) /\ DoNotMergeInit(labels) /\ HeaderInit(headers)

BotsNext ==
  /\ UNCHANGED job
  /\ \/ job = "cron" /\ CronNext
        /\ UNCHANGED <<pickVars, eventVars, snippetOwn, labelOwn, headerConfig, releaseVars>>
     \/ job = "pick" /\ PickNext
        /\ UNCHANGED <<cronVars, eventVars, snippetOwn, labelOwn, headerConfig, releaseVars>>
     \/ job = "snippet" /\ SnippetNext
        /\ UNCHANGED <<cronVars, pickVars, labelOwn, headerConfig, releaseVars>>
     \/ job = "label" /\ DoNotMergeNext
        /\ UNCHANGED <<cronVars, pickVars, snippetOwn, headerConfig, releaseVars>>
     \/ job = "header" /\ HeaderNext
        /\ UNCHANGED <<cronVars, pickVars, snippetOwn, labelOwn, releaseVars>>
     \/ job = "release" /\ ReleaseNext
        /\ UNCHANGED <<cronVars, pickVars, eventVars, snippetOwn, labelOwn, headerConfig>>

BotsSpec(bodies, lists, snippets, labels, headers, releasing) ==
  BotsInit(bodies, lists, snippets, labels, headers, releasing) /\ [][BotsNext]_botVars

----------------------------------------------------------------------------
BotsTypeOK ==
  /\ job = "cron"    => CronTypeOK
  /\ job = "pick"    => PickTypeOK
  /\ job = "snippet" => SnippetTypeOK
  /\ job = "label"   => DoNotMergeTypeOK
  /\ job = "header"  => HeaderTypeOK
  /\ job = "release" => ReleaseTypeOK

(* The checks of the three bots on pull requests tell of the head and its labels.         *)
ChecksTellOfHead ==
  /\ job = "snippet" => SnippetChecksTellOfHead
  /\ job = "label"   => LabelIsChecked
  /\ job = "header"  => HeadersAreOfHead
=============================================================================
