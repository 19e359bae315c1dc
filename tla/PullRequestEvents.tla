------------------------- MODULE PullRequestEvents -------------------------
(***************************************************************************)
(* One pull request as the bots see it that post checks on it: people push *)
(* to it, label, close and reopen it, and each act is delivered to a bot   *)
(* with a payload, a snapshot of the pull request at that moment.  Tasks   *)
(* are taken in any order, several at a time, and tried again when their   *)
(* handler throws; what a handler reads itself, it reads as it is then.    *)
(* GitHub, Cloud Tasks and the people are external to src/.                *)
(***************************************************************************)
EXTENDS Naturals, FiniteSets, Sequences

CONSTANTS
  Visitor,       \* handlers that run at a time
  Content,       \* what a push can make of the pull request
  PullLabel,     \* labels
  CheckName,     \* names of checks
  MaxActs,       \* bound: acts of people
  MaxVisitFaults, \* bound: failing calls
  MaxVisitTries  \* bound: deliveries of a task

ASSUME VisitAssumption == MaxActs \in Nat /\ MaxVisitFaults \in Nat /\ MaxVisitTries \in Nat \ {0}

VARIABLES
  pull,      \* head: number of pushes; content, labels, open, draft
  checks,    \* the latest check of each name on the head
  events,    \* tasks not taken yet
  visit,     \* the handlers
  acts,      \* number of acts
  visitFaults, \* number of failing calls
  hurried,   \* history: has anybody acted before the bot was done with the act before?
  overlapped, \* history: have two handlers run at a time?
  missed     \* history: has a task been given up, or an error been swallowed?

eventVars == <<pull, checks, events, visit, acts, visitFaults, hurried, overlapped, missed>>

Payload(kind, p, label) ==
  [kind |-> kind, act |-> acts', head |-> p.head, labels |-> p.labels, open |-> p.open, draft |-> p.draft,
   label |-> label, tries |-> 1]

Free == [at |-> "free"]
Quiet == events = {} /\ \A v \in Visitor : visit[v] = Free

Conclusion == {"none", "success", "failure"}
NoChecks == [n \in CheckName |-> "none"]

EventsTypeOK ==
  /\ pull.content \in Content /\ pull.labels \subseteq PullLabel /\ pull.head \in 1 .. MaxActs + 1
  /\ pull.open \in BOOLEAN /\ pull.draft \in BOOLEAN
  /\ checks \in [CheckName -> Conclusion]
  /\ \A e \in events : e.head <= pull.head /\ e.act <= acts /\ e.tries \in 1 .. MaxVisitTries
  /\ \A v \in Visitor : visit[v] = Free \/ visit[v].event.head <= pull.head
  /\ acts \in 0 .. MaxActs /\ visitFaults \in 0 .. MaxVisitFaults

EventsInit ==
  /\ \E c \in Content, d \in BOOLEAN :
       pull = [head |-> 1, content |-> c, labels |-> {}, open |-> TRUE, draft |-> d]
  /\ checks = NoChecks
  /\ acts = 0 /\ visitFaults = 0 /\ hurried = FALSE /\ overlapped = FALSE /\ missed = FALSE
  /\ events = {[kind |-> "opened", act |-> 0, head |-> 1, labels |-> {}, open |-> TRUE, draft |-> pull.draft,
                label |-> "none", tries |-> 1]}
  /\ visit = [v \in Visitor |-> Free]

----------------------------------------------------------------------------
(* People *)

Act(kind, p, label) ==
  /\ acts < MaxActs /\ acts' = acts + 1
  /\ pull' = p
  /\ events' = events \cup {Payload(kind, p, label)}
  /\ hurried' = (hurried \/ ~Quiet)
  /\ UNCHANGED <<visit, visitFaults, overlapped, missed>>

\* The checks are those of a commit: a new head has none.
Push(c) ==
  /\ pull.open /\ Act("synchronize", [pull EXCEPT !.head = @ + 1, !.content = c], "none")
  /\ checks' = NoChecks
AddLabel(l) ==
  /\ l \notin pull.labels /\ Act("labeled", [pull EXCEPT !.labels = @ \cup {l}], l)
  /\ UNCHANGED checks
DropLabel(l) ==
  /\ l \in pull.labels /\ Act("unlabeled", [pull EXCEPT !.labels = @ \ {l}], l)
  /\ UNCHANGED checks
ClosePull == pull.open /\ Act("closed", [pull EXCEPT !.open = FALSE], "none") /\ UNCHANGED checks
ReopenPull == ~pull.open /\ Act("reopened", [pull EXCEPT !.open = TRUE], "none") /\ UNCHANGED checks
MarkReady ==
  pull.open /\ pull.draft /\ Act("ready_for_review", [pull EXCEPT !.draft = FALSE], "none") /\ UNCHANGED checks
EditPull == Act("edited", pull, "none") /\ UNCHANGED checks

PeopleAct ==
  \/ \E c \in Content : Push(c)
  \/ \E l \in PullLabel : AddLabel(l) \/ DropLabel(l)
  \/ ClosePull \/ ReopenPull \/ MarkReady \/ EditPull

----------------------------------------------------------------------------
(* What handlers are made of *)

Visits(v, r) == visit' = [visit EXCEPT ![v] = r]
VisitAt(v, at) == visit[v] # Free /\ visit[v].at = at
VisitTo(v, at) == Visits(v, [visit[v] EXCEPT !.at = at])
Leave(v) == Visits(v, Free)

\* A step of a handler that changes no more than its own state, or that and the checks.
Inside == UNCHANGED <<pull, events, acts, visitFaults, hurried, overlapped, missed>>

TakeEvent(v, e, at) ==
  /\ visit[v] = Free /\ e \in events
  /\ events' = events \ {e}
  /\ Visits(v, [at |-> at, event |-> e, read |-> {}, bad |-> {}])
  /\ overlapped' = (overlapped \/ \E w \in Visitor : visit[w] # Free)
  /\ UNCHANGED <<pull, checks, acts, visitFaults, hurried, missed>>
IgnoreEvent(v, e) ==
  /\ visit[v] = Free /\ e \in events
  /\ events' = events \ {e}
  /\ UNCHANGED <<pull, checks, visit, acts, visitFaults, hurried, overlapped, missed>>

\* Check runs are created on the commit of the payload; those of older heads are of no use.
Posted(e, found) ==
  checks' = IF e.head # pull.head THEN checks
            ELSE [n \in CheckName |-> IF \E r \in found : r[1] = n
                                      THEN (CHOOSE r \in found : r[1] = n)[2] ELSE checks[n]]

\* The handler throws: the task is delivered again, or is given up.
TryAgain(v) ==
  /\ Leave(v)
  /\ LET e == visit[v].event
     IN IF e.tries < MaxVisitTries
        THEN events' = events \cup {[e EXCEPT !.tries = @ + 1]} /\ UNCHANGED missed
        ELSE missed' = TRUE /\ UNCHANGED events

\* A call fails and its error is logged alone.
Swallow(v) == Leave(v) /\ missed' = TRUE /\ UNCHANGED events

VisitFails(v, heeded) ==
  /\ visit[v] # Free /\ visitFaults < MaxVisitFaults
  /\ visitFaults' = visitFaults + 1
  /\ IF heeded THEN TryAgain(v) ELSE Swallow(v)
  /\ UNCHANGED <<pull, checks, acts, hurried, overlapped>>
=============================================================================
