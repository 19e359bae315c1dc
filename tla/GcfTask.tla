------------------------------ MODULE GcfTask ------------------------------
(***************************************************************************)
(* packages/gcf-utils: GCFBootstrapper.  A webhook or Pub/Sub message is   *)
(* turned into a Cloud Task (its body in a bucket when it is too big for   *)
(* the queue), the task is delivered to the same service, and the bot's    *)
(* handler runs.  The queue redelivers a task until it is answered with    *)
(* 200: after an error, a lost answer, a dead instance or a passed         *)
(* dispatch deadline, in which case the earlier attempt may still run.     *)
(*                                                                         *)
(* A task is <<e, k>>: the k-th delivery of event e to the service.        *)
(***************************************************************************)
EXTENDS Naturals, FiniteSets

CONSTANTS
  Event,        \* webhooks and Pub/Sub messages
  Limit,        \* getRetryLimit(): maxRetries, maxCronRetries or maxPubSubRetries
  MaxSends,     \* bound: deliveries of one event by its sender
  MaxDispatch   \* bound: the queue delivers a task with retry counts 0 .. MaxDispatch

ASSUME LimitAssumption ==
  Limit \in Nat /\ MaxSends \in Nat \ {0} /\ MaxDispatch \in Nat /\ MaxDispatch > Limit

\* attempt: "done" when it was answered or died
VARIABLES
  big,      \* is the body larger than MAX_BODY_SIZE_FOR_CLOUD_TASK?
  sends,    \* deliveries of the event so far
  trig,     \* where the latest delivery is
  reply,    \* what its sender was answered
  blob,     \* the task's body in the payload bucket
  queue,    \* the task in the Cloud Tasks queue
  retry,    \* X-CloudTasks-TaskRetryCount of its next or current attempt
  attempt,  \* where each attempt of the task is
  handled,  \* history: the attempts that ran the bot's handler
  left      \* history: why the task left the queue

trigVars == <<sends, trig, reply>>
gcfVars == <<big, trigVars, blob, queue, retry, attempt, handled, left>>

Task     == Event \X (1 .. MaxSends)
Attempts == 0 .. MaxDispatch
Phase    == {"none", "boot", "download", "run", "done"}

GcfTypeOK ==
  /\ big \in [Event -> BOOLEAN]
  /\ sends \in [Event -> 0 .. MaxSends]
  /\ trig \in [Event -> {"idle", "allowed", "upload", "create"}]
  /\ reply \in [Event -> {"none", "accepted", "denied", "error", "swallowed"}]
  /\ blob \in [Task -> {"none", "stored", "expired"}]
  /\ queue \in [Task -> {"absent", "queued", "gone"}]
  /\ retry \in [Task -> Attempts]
  /\ attempt \in [Task -> [Attempts -> Phase]]
  /\ handled \in [Task -> SUBSET (0 .. Limit)]
  /\ left \in [Task -> {"no", "served", "exhausted", "expired", "swallowed"}]

GcfInit ==
  /\ big \in [Event -> BOOLEAN]
  /\ sends = [e \in Event |-> 0]
  /\ trig = [e \in Event |-> "idle"]
  /\ reply = [e \in Event |-> "none"]
  /\ blob = [t \in Task |-> "none"]
  /\ queue = [t \in Task |-> "absent"]
  /\ retry = [t \in Task |-> 0]
  /\ attempt = [t \in Task |-> [n \in Attempts |-> "none"]]
  /\ handled = [t \in Task |-> {}]
  /\ left = [t \in Task |-> "no"]

----------------------------------------------------------------------------
(* The request of the event's sender *)

Latest(e) == <<e, sends[e]>>

ReplyTo(e, r) ==
  /\ reply' = [reply EXCEPT ![e] = r]
  /\ trig' = [trig EXCEPT ![e] = "idle"]

\* The sender delivers the event, again if it was answered with an error.
Deliver(e) ==
  /\ trig[e] = "idle"
  /\ reply[e] \in {"none", "error"}
  /\ sends[e] < MaxSends
  /\ sends' = [sends EXCEPT ![e] = @ + 1]
  /\ trig' = [trig EXCEPT ![e] = "allowed"]
  /\ UNCHANGED <<big, reply, blob, queue, retry, attempt, handled, left>>

\* loadProbot() or verify() rejects, outside the handler's try: the server's catch
\* ends the response, which is then a 200.
DeliverySwallowed(e) ==
  /\ trig[e] = "allowed"
  /\ ReplyTo(e, "swallowed")
  /\ UNCHANGED <<big, sends, blob, queue, retry, attempt, handled, left>>

\* isOrganizationAllowed(): a blocked organisation gets a 200 and no task; the
\* lookup of an organisation that is not cached can fail, and so can the parsing of
\* a Pub/Sub message, which has no organisation.
CheckOrganization(e) ==
  /\ trig[e] = "allowed"
  /\ \/ ReplyTo(e, "denied")
     \/ ReplyTo(e, "error")
     \/ /\ trig' = [trig EXCEPT ![e] = IF big[e] THEN "upload" ELSE "create"]
        /\ UNCHANGED reply
  /\ UNCHANGED <<big, sends, blob, queue, retry, attempt, handled, left>>

\* mutant: the upload is not awaited before the task is created
UploadNotAwaited(e) ==
  /\ trig[e] = "upload"
  /\ trig' = [trig EXCEPT ![e] = "create"]
  /\ UNCHANGED <<big, sends, reply, blob, queue, retry, attempt, handled, left>>

\* maybeWriteBodyToTmp(): the body goes to a file of its own
Upload(e) ==
  /\ trig[e] = "upload"
  /\ \/ /\ trig' = [trig EXCEPT ![e] = "create"]
        /\ blob' = [blob EXCEPT ![Latest(e)] = "stored"]
        /\ UNCHANGED reply
     \/ ReplyTo(e, "error") /\ UNCHANGED blob
  /\ UNCHANGED <<big, sends, queue, retry, attempt, handled, left>>

\* cloudTasksClient.createTask(): done, done with the reply lost, or rejected
CreateTask(e) ==
  /\ trig[e] = "create"
  /\ \/ /\ queue' = [queue EXCEPT ![Latest(e)] = "queued"]
        /\ ReplyTo(e, "accepted") \/ ReplyTo(e, "error")
     \/ ReplyTo(e, "error") /\ UNCHANGED queue
  /\ UNCHANGED <<big, sends, blob, retry, attempt, handled, left>>

----------------------------------------------------------------------------
(* The queue *)

Enter(t, n, from, to) ==
  /\ attempt[t][n] = from
  /\ attempt' = [attempt EXCEPT ![t][n] = to]

Dispatch(t) ==
  /\ queue[t] = "queued"
  /\ Enter(t, retry[t], "none", "boot")
  /\ UNCHANGED <<big, trigVars, blob, queue, retry, handled, left>>

\* The deadline passes, the instance dies, or the answer is lost: the queue retries,
\* and the attempt it gave up on may go on.
GiveUpOnAttempt(t) ==
  /\ queue[t] = "queued"
  /\ attempt[t][retry[t]] \in {"boot", "download", "run"}
  /\ retry[t] < MaxDispatch
  /\ retry' = [retry EXCEPT ![t] = @ + 1]
  /\ \/ attempt' = [attempt EXCEPT ![t][retry[t]] = "done"]
     \/ UNCHANGED attempt
  /\ UNCHANGED <<big, trigVars, blob, queue, handled, left>>

\* The bucket's lifecycle rule removes an old body.
ExpireBlob(t) ==
  /\ blob[t] = "stored"
  /\ blob' = [blob EXCEPT ![t] = "expired"]
  /\ UNCHANGED <<big, trigVars, queue, retry, attempt, handled, left>>

\* An answer counts only if it is that of the attempt the queue waits for.
Current(t, n) == queue[t] = "queued" /\ retry[t] = n

Answer200(t, n, why) ==
  /\ IF Current(t, n)
       THEN /\ queue' = [queue EXCEPT ![t] = "gone"]
            /\ left' = [left EXCEPT ![t] = why]
       ELSE UNCHANGED <<queue, left>>
  /\ UNCHANGED retry

\* mutant: an error is logged and never answered
AnswerErrorNever(t, n, from) ==
  /\ Enter(t, n, from, "done")
  /\ UNCHANGED <<queue, retry, left>>

\* 500 or 503.  Bound: what the queue delivers after MaxDispatch is not followed.
AnswerError(t, n, from) ==
  /\ Enter(t, n, from, "done")
  /\ IF Current(t, n) /\ n < MaxDispatch
       THEN retry' = [retry EXCEPT ![t] = @ + 1]
       ELSE UNCHANGED retry
  /\ UNCHANGED <<queue, left>>

----------------------------------------------------------------------------
(* An attempt *)

Boot(t, n) ==
  /\ Enter(t, n, "boot", "download")
  /\ UNCHANGED <<big, trigVars, blob, queue, retry, handled, left>>

\* loadProbot() or verify() rejects outside the handler's try: server.ts ends the
\* response with its default status.
BootSwallowed(t, n) ==
  /\ Enter(t, n, "boot", "done")
  /\ Answer200(t, n, "swallowed")
  /\ UNCHANGED <<big, trigVars, blob, handled>>

HasPayload(t) == ~big[t[1]] \/ blob[t] = "stored"

\* mutant: the retry count is not looked at
TooManyRetriesNever(n) == FALSE

TooManyRetries(n) == n > Limit

\* The payload was found (it may be gone by now) or is not there; the retry count is
\* compared only then.
Abort(t, n) ==
  /\ Enter(t, n, "download", "done")
  /\ \/ TooManyRetries(n) /\ Answer200(t, n, "exhausted")
     \/ ~TooManyRetries(n) /\ ~HasPayload(t) /\ Answer200(t, n, "expired")
  /\ UNCHANGED <<big, trigVars, blob, handled>>

\* maybeDownloadOriginalBody() throws: every failure but a 404
DownloadFails(t, n) ==
  /\ big[t[1]]
  /\ AnswerError(t, n, "download")
  /\ UNCHANGED <<big, trigVars, blob, handled>>

StartHandler(t, n) ==
  /\ ~TooManyRetries(n)
  /\ HasPayload(t)
  /\ Enter(t, n, "download", "run")
  /\ handled' = [handled EXCEPT ![t] = @ \cup {n}]
  /\ UNCHANGED <<big, trigVars, blob, queue, retry, left>>

HandlerDone(t, n) ==
  /\ Enter(t, n, "run", "done")
  /\ Answer200(t, n, "served")
  /\ UNCHANGED <<big, trigVars, blob, handled>>

\* probot.receive() rejects: 503 for a rate limit (if throttling) or a
\* ServiceUnavailable, 500 for anything else
HandlerThrows(t, n) ==
  /\ AnswerError(t, n, "run")
  /\ UNCHANGED <<big, trigVars, blob, handled>>

----------------------------------------------------------------------------

TriggerStep(e) ==
  DeliverySwallowed(e) \/ CheckOrganization(e) \/ Upload(e) \/ CreateTask(e)

AttemptStep(t, n) ==
  \/ Boot(t, n) \/ BootSwallowed(t, n) \/ Abort(t, n) \/ DownloadFails(t, n)
  \/ StartHandler(t, n) \/ HandlerDone(t, n) \/ HandlerThrows(t, n)

GcfNext ==
  \/ \E e \in Event : Deliver(e) \/ TriggerStep(e)
  \/ \E t \in Task :
       \/ Dispatch(t) \/ GiveUpOnAttempt(t) \/ ExpireBlob(t)
       \/ \E n \in Attempts : AttemptStep(t, n)

GcfSpec == GcfInit /\ [][GcfNext]_gcfVars

\* The queue keeps dispatching, and every await of an attempt settles.
GcfFairSpec ==
  /\ GcfSpec
  /\ \A t \in Task : WF_gcfVars(Dispatch(t))
  /\ \A t \in Task, n \in Attempts : WF_gcfVars(AttemptStep(t, n))

----------------------------------------------------------------------------
(* Properties *)

\* The strengthening: bodies are stored before their task exists, and the queue
\* counts its attempts without gaps.
DeliveriesAreCounted ==
  \A e \in Event : trig[e] # "idle" => sends[e] > 0

BodiesPrecedeTasks ==
  \A e \in Event : (trig[e] = "create" /\ big[e]) => blob[Latest(e)] # "none"

RetriesHaveNoGaps ==
  \A t \in Task, n \in Attempts : n < retry[t] => attempt[t][n] # "none"

\* However often a task is redelivered, and however its attempts overlap, the bot's
\* handler runs for it at most 1 + Limit times (gcf-utils.ts:535).
HandlerRunsBounded ==
  \A t \in Task : Cardinality(handled[t]) <= Limit + 1

\* A task is dropped for "too many retries" only after all its retries were
\* delivered (gcf-utils.ts:533-546).
ExhaustedAfterAllRetries ==
  \A t \in Task : left[t] = "exhausted" => attempt[t][Limit + 1] # "none"

\* No task refers to a body that was never stored: a missing file means that it
\* expired, which ends the task (gcf-utils.ts:550, 1155-1181).
TaskBodyWasStored ==
  \A t \in Task : (queue[t] # "absent" /\ big[t[1]]) => blob[t] # "none"

\* A sender told that its event was taken has a task in the queue
\* (gcf-utils.ts:623-640).
AcceptedHasTask ==
  \A e \in Event :
    reply[e] = "accepted" => \E k \in 1 .. MaxSends : queue[<<e, k>>] # "absent"

GcfInv ==
  /\ DeliveriesAreCounted
  /\ BodiesPrecedeTasks
  /\ TaskBodyWasStored
  /\ RetriesHaveNoGaps
  /\ ExhaustedAfterAllRetries
  /\ AcceptedHasTask

\* The last attempt followed could not read the body, although all retries were over:
\* the limit is compared after the download (gcf-utils.ts:516, 535), so that the queue
\* goes on for as long as downloads fail.
CannotBeRead(t) ==
  big[t[1]] /\ retry[t] = MaxDispatch /\ attempt[t][MaxDispatch] = "done"

\* Every task leaves the queue, whatever its attempts end with (gcf-utils.ts:533-557,
\* 642-657), unless its body is in a file that cannot be read.
TasksLeave ==
  \A t \in Task : queue[t] = "queued" ~> (queue[t] = "gone" \/ CannotBeRead(t))

=============================================================================
