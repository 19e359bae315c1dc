--------------------------- MODULE MCOwlBotJobs ---------------------------
(* The jobs of owl-bot for TLC.  As the lock updates and the copying share no state, a    *)
(* behaviour runs one of them.                                                            *)
EXTENDS OwlBotJobs

VARIABLE job    \* "configs": the store alone; "lock": with one refresh at a time and no
                \* edits, and one fault; "copy": one scan at a time; "copies": overlapping scans, no fault

\* One refresh at a time; the scan is started until the store is filled.
OneRefresh ==
  \E p \in Refresher :
    /\ \A q \in Refresher \ {p} : refresh[q] = Resting
    /\ RefreshStep(p) \/ (\E r \in Repo : PullRequestClosed(p, r) \/ (store[r] = NoConfigs /\ ScanGithubForConfigs(p)))

Init ==
  /\ LockUpdateInit /\ CopyInit
  /\ \/ job = "copy"
     \/ job \in {"configs", "lock", "copies"} /\ begin = 0 /\ allowed

Next ==
  /\ UNCHANGED job
  /\ \/ job = "configs" /\ ConfigsNext /\ UNCHANGED <<lockVars, copyVars>>
     \/ job = "lock" /\ (LockNext \/ (OneRefresh /\ UNCHANGED lockVars)) /\ faults' <= 1 /\ UNCHANGED copyVars
     \/ job = "copy" /\ CopyNextWith({CHOOSE s \in Scanner : TRUE}) /\ UNCHANGED allVars
     \/ job = "copies" /\ CopyNext /\ copyFaults' = 0 /\ UNCHANGED allVars

Spec == Init /\ [][Next]_<<allVars, copyVars, job>> /\ LockFairness /\ CopyFairness
=============================================================================
