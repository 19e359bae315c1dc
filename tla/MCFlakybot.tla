---------------------------- MODULE MCFlakybot ----------------------------
(* Flakybot for TLC: three reports, each handled before the next build ends; or two that  *)
(* may overlap, with a fault or an act of people, both there from the start, which leaves  *)
(* the order of handling them open; or one that finds two issues of one test.  The first   *)
(* report's commit is 1; of overlapping ones it has failures.                                *)
EXTENDS Flakybot, TLC

VARIABLE job

\* An issue of an earlier commit: open, twice even, closed and locked, or closed long ago.
Earlier(open, locked, old) ==
  [title |-> 2, open |-> open, labels |-> {}, locked |-> locked, old |-> old,
   closedAt |-> IF open THEN 0 ELSE 1, failures |-> {}]

Init ==
  \/ job = "serial" /\ FlakybotInit
  \/ job = "duplicates" /\ FlakybotStarts(<<Earlier(TRUE, FALSE, FALSE), Earlier(TRUE, FALSE, FALSE)>>)
  \/ /\ job = "overlap"
     /\ \/ FlakybotInit
        \/ FlakybotStarts(<<Earlier(TRUE, FALSE, FALSE)>>)
        \/ \E locked \in BOOLEAN : FlakybotStarts(<<Earlier(FALSE, locked, ~ locked)>>)

Next ==
  /\ UNCHANGED job
  /\ FlakybotNext
  /\ reports' # <<>> => reports'[1].commit = 1
  /\ \/ /\ job = "serial" /\ serial'
        /\ reports' # reports => handled = DOMAIN reports
     \/ job = "duplicates" /\ serial' /\ Len(reports') <= 1
     \/ /\ job = "overlap" /\ Len(reports') <= 2
        /\ reports' # reports =>
             /\ received = {} /\ reports'[1].failures # {}
             /\ Last(reports').passes \cap Last(reports').failures = {}

Spec == Init /\ [][Next]_<<flakyVars, job>>

Workers == Permutations(Worker)
===========================================================================
