----------------------------- MODULE BotConfig -----------------------------
(***************************************************************************)
(* packages/bot-config-utils: how a bot finds its configuration, and the   *)
(* check it puts on a pull request that changes the configuration file.    *)
(***************************************************************************)
EXTENDS FiniteSets

\* What there may be at the path of the configuration, for a bot with a schema.
ConfigText == {"absent", "empty", "good", "not_schema", "not_yaml"}

\* validateConfig(): an empty file counts as an empty object.
IsValidConfig(text, emptyFits) == text = "good" \/ (text = "empty" /\ emptyFits)

\* getConfig(): the file of the repository, else the one of its organization's .github
\* repository, but for that repository itself and when a branch is asked for.  "none" is null.
GetConfig(own, orgs, isOrgs, ofBranch, fallback, hasSchema, emptyFits) ==
  LET load(text) == IF text = "not_yaml" \/ (hasSchema /\ ~IsValidConfig(text, emptyFits)) THEN "error" ELSE text
  IN CASE own # "absent"                   -> load(own)
       [] own = "absent" /\ (isOrgs \/ ~fallback \/ ofBranch) -> "none"
       [] own = "absent" /\ ~(isOrgs \/ ~fallback \/ ofBranch) ->
            IF orgs = "absent" THEN "none" ELSE load(orgs)
GetConfigWithDefault(found, default) == IF found = "none" THEN default ELSE found

\* MultiConfigChecker: the files of the pull request at the path ("right") and at the same path
\* with the other of .yml and .yaml ("wrong").  The configuration it keeps is the valid one.
ConfigErrors(files, emptyFits) ==
  (IF files.wrong # "absent" THEN {"extension"} ELSE {}) \cup
  (IF files.right # "absent" /\ ~IsValidConfig(files.right, emptyFits) THEN {"schema"} ELSE {})
CheckedConfig(files, emptyFits) == IF IsValidConfig(files.right, emptyFits) THEN files.right ELSE "none"
=============================================================================
