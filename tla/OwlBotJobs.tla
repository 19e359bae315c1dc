----------------------------- MODULE OwlBotJobs -----------------------------
(***************************************************************************)
(* The jobs of owl-bot that keep code up to date, together: the store of   *)
(* configurations with the updates of lock files that run on it, and the   *)
(* jobs that copy code.  The latter take the configurations as given, so   *)
(* that the two share no state.                                            *)
(***************************************************************************)
EXTENDS OwlBotLockUpdate, OwlBotCopy

OwlBotSpec == LockUpdateSpec /\ CopySpec

\* The types of both: whatever is started again exists, stacks hold work for some files
\* of a commit, and what is to be pushed is there to push to.
OwlBotTypeOK == LockUpdateTypeOK /\ CopyTypeOK
=============================================================================
