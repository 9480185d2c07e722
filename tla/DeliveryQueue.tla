---------------------------- MODULE DeliveryQueue ----------------------------
(***************************************************************************)
(* The PostgreSQL delivery pipeline: the API handlers that accept a        *)
(* webhook and publish it (api/src/routes/webhooks, api/src/db.rs), the    *)
(* worker processes that claim queue rows and run one task per row         *)
(* (worker/src/main.rs), and the reapers that pick up what a crash left    *)
(* behind (worker/src/queue.rs).                                           *)
(*                                                                         *)
(* One step of the model is one SQL statement, one committed transaction   *)
(* or one HTTP exchange.  Clocks are abstracted: a row whose               *)
(* next_retry_at, 5 minute or 10 minute threshold has passed may be picked *)
(* at any moment.  What those thresholds are for, keeping a reaper away    *)
(* from work in progress, is the constant Faults: unless it contains       *)
(* "stall", no process pauses for longer than the threshold.               *)
(***************************************************************************)
EXTENDS Naturals, FiniteSets

CONSTANTS
    Deliveries,     \* ids of the rows of deliveries; at most one queue row each
    Endpoints,      \* ids of the customer endpoints
    endpoint_id,    \* deliveries.endpoint_id
    Workers,        \* worker processes (cloudbuild.yaml runs up to 4)
    MaxAttempts,    \* webhook_queue.max_attempts, DEFAULT 3
    AttemptBound,   \* bound: rows with this attempt_count are not claimed again
    Sources,        \* handlers that accept deliveries in this instance
    Faults          \* "stall": a process may pause past a reaper's threshold
                    \* "lost_reply": an INSERT may be applied but reported failed

AllSources == {"create", "test", "replay", "admin"}

ASSUME ConstAssumption ==
    /\ endpoint_id \in [Deliveries -> Endpoints]
    /\ MaxAttempts \in Nat \ {0}
    /\ AttemptBound \in Nat
    /\ Sources \subseteq AllSources
    /\ Faults \subseteq {"stall", "lost_reply"}

VARIABLES
    deliveries,         \* deliveries.status, "absent" before and "deleted" after
    queue,              \* webhook_queue.status, "none" when there is no row
    attempt_count,      \* webhook_queue.attempt_count
    delivery_attempts,  \* the attempt_numbers recorded in delivery_attempts
    dead_letters,       \* the deliveries with a dead_letters row
    is_active,          \* endpoints.is_active and not auto_disabled
    publisher,          \* the API task that publishes a delivery
    test_mark,          \* the API handler's test-mode UPDATE
    pc,                 \* pc[w][d]: where worker w's task for d is
    attempt,            \* attempt[w][d]: that task's attempt number
    phase,              \* phase[w]: what the main loop of w is doing
    stuck,              \* stuck[w][d]: what w's zombie reaper will do to d
    orphans,            \* rows w's orphan reaper selected and has not inserted
    acked,              \* history: the deliveries answered with a 2xx
    log_purged,         \* history: deliveries whose recorded attempts were deleted
    letters_purged      \* history: deliveries whose dead_letters row was deleted

purgeVars  == <<log_purged, letters_purged>>
apiVars    == <<publisher, test_mark, purgeVars>>
tableVars  == <<deliveries, queue, attempt_count, delivery_attempts, dead_letters>>
taskVars   == <<pc, attempt>>
reaperVars == <<phase, stuck, orphans>>
vars == <<tableVars, is_active, apiVars, taskVars, reaperVars, acked>>

DeliveryStatus == {"absent", "pending", "delivered", "failed", "deleted"}
QueueStatus    == {"none", "pending", "processing", "delivered", "dead_letter"}
Finished       == {"delivered", "dead_letter"}
PublisherState == {"idle", "publish", "publish_replay", "mark_failed", "done"}
TaskState      == {"idle", "claimed", "skip", "checked", "ok", "retryable", "fatal"}
ReapDecision   == {"no", "reset", "bury"}

TypeOK ==
    /\ deliveries \in [Deliveries -> DeliveryStatus]
    /\ queue \in [Deliveries -> QueueStatus]
    /\ attempt_count \in [Deliveries -> Nat]
    /\ delivery_attempts \in [Deliveries -> SUBSET Nat]
    /\ dead_letters \subseteq Deliveries
    /\ is_active \in [Endpoints -> BOOLEAN]
    /\ publisher \in [Deliveries -> PublisherState]
    /\ test_mark \in [Deliveries -> {"no", "todo", "done"}]
    /\ pc \in [Workers -> [Deliveries -> TaskState]]
    /\ attempt \in [Workers -> [Deliveries -> Nat]]
    /\ phase \in [Workers -> {"loop", "reap", "orphan", "insert"}]
    /\ stuck \in [Workers -> [Deliveries -> ReapDecision]]
    /\ orphans \in [Workers -> SUBSET Deliveries]
    /\ acked \subseteq Deliveries
    /\ log_purged \subseteq Deliveries
    /\ letters_purged \subseteq Deliveries

Init ==
    /\ deliveries = [d \in Deliveries |-> "absent"]
    /\ queue = [d \in Deliveries |-> "none"]
    /\ attempt_count = [d \in Deliveries |-> 0]
    /\ delivery_attempts = [d \in Deliveries |-> {}]
    /\ dead_letters = {}
    /\ is_active = [e \in Endpoints |-> TRUE]
    /\ publisher = [d \in Deliveries |-> "idle"]
    /\ test_mark = [d \in Deliveries |-> "no"]
    /\ pc = [w \in Workers |-> [d \in Deliveries |-> "idle"]]
    /\ attempt = [w \in Workers |-> [d \in Deliveries |-> 0]]
    /\ phase = [w \in Workers |-> "loop"]
    /\ stuck = [w \in Workers |-> [d \in Deliveries |-> "no"]]
    /\ orphans = [w \in Workers |-> {}]
    /\ acked = {}
    /\ log_purged = {}
    /\ letters_purged = {}

Exists(d)  == deliveries[d] \notin {"absent", "deleted"}
Live(w, d) == pc[w][d] # "idle"
Owned(d)   == \E w \in Workers : Live(w, d)
Idle(w)    == phase[w] = "loop" /\ \A d \in Deliveries : ~Live(w, d)
Calm       == "stall" \notin Faults

-----------------------------------------------------------------------------
(* The API.                                                                *)

\* The INSERT INTO deliveries of a request; publishing happens afterwards.
Accept(d, publish, mark) ==
    /\ deliveries[d] = "absent"
    /\ deliveries' = [deliveries EXCEPT ![d] = "pending"]
    /\ publisher' = [publisher EXCEPT ![d] = publish]
    /\ test_mark' = [test_mark EXCEPT ![d] = mark]
    /\ UNCHANGED <<queue, attempt_count, delivery_attempts, dead_letters,
                   is_active, purgeVars, taskVars, reaperVars, acked>>

\* create_webhook and batch_webhooks: the publisher is a background task, and
\* with a test key create_webhook also marks the delivery delivered itself.
CreateWebhook(d) ==
    \/ "create" \in Sources /\ Accept(d, "publish", "no")
    \/ "test" \in Sources /\ Accept(d, "publish", "todo")

\* replay_webhook, batch_replay and process_inbound publish in the handler and
\* leave the delivery pending when publishing fails.
ReplayWebhook(d) == "replay" \in Sources /\ Accept(d, "publish_replay", "no")

\* The admin replays insert the delivery and publish nothing.
AdminReplay(d) == "admin" \in Sources /\ Accept(d, "done", "no")

AfterError(d) ==
    IF publisher[d] = "publish" THEN "mark_failed" ELSE "done"

\* publish_to_queue: an INSERT that the foreign key and UNIQUE (delivery_id)
\* may refuse, that may fail, or whose reply may be lost.
PublishToQueue(d) ==
    /\ publisher[d] \in {"publish", "publish_replay"}
    /\ \/ /\ Exists(d) /\ queue[d] = "none"
          /\ queue' = [queue EXCEPT ![d] = "pending"]
          /\ attempt_count' = [attempt_count EXCEPT ![d] = 0]
          /\ \E s \in {"done"} \cup
                      (IF "lost_reply" \in Faults THEN {AfterError(d)} ELSE {}) :
                publisher' = [publisher EXCEPT ![d] = s]
       \/ /\ publisher' = [publisher EXCEPT ![d] = AfterError(d)]
          /\ UNCHANGED <<queue, attempt_count>>
    /\ UNCHANGED <<deliveries, delivery_attempts, dead_letters, is_active,
                   test_mark, purgeVars, taskVars, reaperVars, acked>>

\* The error handler of the background task: UPDATE deliveries SET status =
\* 'failed' WHERE id = $1, its own error ignored.
MarkFailed(d) ==
    /\ publisher[d] = "mark_failed"
    /\ publisher' = [publisher EXCEPT ![d] = "done"]
    /\ \/ Exists(d) /\ deliveries' = [deliveries EXCEPT ![d] = "failed"]
       \/ UNCHANGED deliveries
    /\ UNCHANGED <<queue, attempt_count, delivery_attempts, dead_letters,
                   is_active, test_mark, purgeVars, taskVars, reaperVars, acked>>

\* Test mode: the handler marks the delivery delivered, next to the publisher.
MarkTestDelivered(d) ==
    /\ test_mark[d] = "todo"
    /\ test_mark' = [test_mark EXCEPT ![d] = "done"]
    /\ deliveries' = IF Exists(d)
                     THEN [deliveries EXCEPT ![d] = "delivered"]
                     ELSE deliveries
    /\ UNCHANGED <<queue, attempt_count, delivery_attempts, dead_letters,
                   is_active, publisher, purgeVars, taskVars, reaperVars, acked>>

\* The API process dies with the request's tasks.
ApiCrash(d) ==
    /\ publisher[d] \in {"publish", "publish_replay", "mark_failed"} \/ test_mark[d] = "todo"
    /\ publisher' = [publisher EXCEPT ![d] = "done"]
    /\ test_mark' = [test_mark EXCEPT ![d] = IF @ = "todo" THEN "no" ELSE @]
    /\ UNCHANGED <<tableVars, is_active, purgeVars, taskVars, reaperVars, acked>>

\* A customer, an administrator or a job enables or disables the endpoint.
SetActive(e) ==
    /\ is_active' = [is_active EXCEPT ![e] = ~@]
    /\ UNCHANGED <<tableVars, apiVars, taskVars, reaperVars, acked>>

\* DELETE FROM delivery_attempts: retention and GDPR erasure delete the log
\* in a statement of its own before the deliveries, whatever their status,
\* and stop there when the next statement fails.
PurgeAttempts(d) ==
    /\ delivery_attempts[d] # {}
    /\ delivery_attempts' = [delivery_attempts EXCEPT ![d] = {}]
    /\ log_purged' = log_purged \cup {d}
    /\ UNCHANGED <<deliveries, queue, attempt_count, dead_letters, is_active, publisher,
                   test_mark, letters_purged, taskVars, reaperVars, acked>>

\* Retention deletes dead_letters after 90 days, also where the plan keeps the
\* delivery longer.
PurgeDeadLetter(d) ==
    /\ d \in dead_letters
    /\ dead_letters' = dead_letters \ {d}
    /\ letters_purged' = letters_purged \cup {d}
    /\ UNCHANGED <<deliveries, queue, attempt_count, delivery_attempts, is_active, publisher,
                   test_mark, log_purged, taskVars, reaperVars, acked>>

\* The API's retention job copies an old settled delivery to dead_letters
\* before it deletes it.
ArchiveDelivery(d) ==
    /\ deliveries[d] \in {"delivered", "failed"}
    /\ d \notin dead_letters
    /\ dead_letters' = dead_letters \cup {d}
    /\ UNCHANGED <<deliveries, queue, attempt_count, delivery_attempts, is_active,
                   apiVars, taskVars, reaperVars, acked>>

\* DELETE FROM deliveries (retention, GDPR erasure, with the endpoint), which
\* cascades.
DeleteDelivery(d) ==
    /\ Exists(d)
    /\ deliveries' = [deliveries EXCEPT ![d] = "deleted"]
    /\ queue' = [queue EXCEPT ![d] = "none"]
    /\ attempt_count' = [attempt_count EXCEPT ![d] = 0]
    /\ delivery_attempts' = [delivery_attempts EXCEPT ![d] = {}]
    /\ dead_letters' = dead_letters \ {d}
    /\ log_purged' = log_purged \ {d}
    /\ letters_purged' = letters_purged \ {d}
    /\ UNCHANGED <<is_active, publisher, test_mark, taskVars, reaperVars, acked>>

\* cleanup_webhook_queue removes rows processed more than 7 days ago, longer
\* than any task or reaper holds on to a row.
CleanupWebhookQueue(d) ==
    /\ queue[d] \in Finished
    /\ ~Owned(d) /\ publisher[d] = "done"
    /\ \A w \in Workers : stuck[w][d] = "no" /\ d \notin orphans[w]
    /\ queue' = [queue EXCEPT ![d] = "none"]
    /\ attempt_count' = [attempt_count EXCEPT ![d] = 0]
    /\ UNCHANGED <<deliveries, delivery_attempts, dead_letters, is_active,
                   apiVars, taskVars, reaperVars, acked>>
-----------------------------------------------------------------------------
(* The worker: process_pending and the task it spawns for each claimed row. *)

Claimable ==
    {d \in Deliveries :
        /\ queue[d] = "pending"
        /\ is_active[endpoint_id[d]]
        /\ attempt_count[d] < AttemptBound
        /\ Calm => \A v \in Workers : stuck[v][d] = "no"}

\* UPDATE ... SET status = 'processing' ... FOR UPDATE SKIP LOCKED over the
\* due rows, the secrets of their endpoints, one task per row.  When the
\* secrets cannot be read the function returns and the rows stay claimed.
ClaimPending(w, S, secretsRead) ==
    /\ Idle(w)
    /\ S # {} /\ S \subseteq Claimable
    /\ queue' = [d \in Deliveries |-> IF d \in S THEN "processing" ELSE queue[d]]
    /\ IF secretsRead
       THEN /\ pc' = [pc EXCEPT ![w] = [d \in Deliveries |->
                            IF d \in S THEN "claimed" ELSE "idle"]]
            /\ attempt' = [attempt EXCEPT ![w] = [d \in Deliveries |->
                            IF d \in S THEN attempt_count[d] + 1 ELSE 0]]
       ELSE UNCHANGED taskVars
    /\ UNCHANGED <<deliveries, attempt_count, delivery_attempts, dead_letters,
                   is_active, apiVars, reaperVars, acked>>

\* UPDATE webhook_queue SET status = s WHERE id = $1: nothing without a row.
SetQueue(d, s) ==
    queue' = IF queue[d] = "none" THEN queue ELSE [queue EXCEPT ![d] = s]

Advance(w, d, s) == pc' = [pc EXCEPT ![w][d] = s] /\ UNCHANGED attempt

EndTask(w, d) ==
    /\ pc' = [pc EXCEPT ![w][d] = "idle"]
    /\ attempt' = [attempt EXCEPT ![w][d] = 0]

\* Mutant: any settled status counts as delivered.
MutGuardSettled(d) == IF deliveries[d] \in {"delivered", "failed"} THEN "skip" ELSE "checked"

\* The idempotency guard reads deliveries.status; a missing row passes.
GuardOutcome(d) == IF deliveries[d] = "delivered" THEN "skip" ELSE "checked"

CheckDelivered(w, d) ==
    /\ pc[w][d] = "claimed"
    /\ Advance(w, d, GuardOutcome(d))
    /\ UNCHANGED <<tableVars, is_active, apiVars, reaperVars, acked>>

\* Mutant: the queue row gets a status of the deliveries table.
MutSkipFailed(w, d) ==
    /\ pc[w][d] = "skip"
    /\ SetQueue(d, "failed")
    /\ EndTask(w, d)
    /\ UNCHANGED <<deliveries, attempt_count, delivery_attempts, dead_letters,
                   is_active, apiVars, reaperVars, acked>>

\* ... and settles the queue row of a delivery that is already delivered.
SkipDelivered(w, d) ==
    /\ pc[w][d] = "skip"
    /\ SetQueue(d, "delivered")
    /\ EndTask(w, d)
    /\ UNCHANGED <<deliveries, attempt_count, delivery_attempts, dead_letters,
                   is_active, apiVars, reaperVars, acked>>

\* Circuit open, or an earlier FIFO item is unfinished: back to the queue.
Defer(w, d) ==
    /\ pc[w][d] = "checked"
    /\ SetQueue(d, "pending")
    /\ EndTask(w, d)
    /\ UNCHANGED <<deliveries, attempt_count, delivery_attempts, dead_letters,
                   is_active, apiVars, reaperVars, acked>>

\* Mutant: the delivery is not marked failed.
MutBuryQueueOnly(w, d) ==
    /\ pc[w][d] = "checked"
    /\ SetQueue(d, "dead_letter")
    /\ dead_letters' = IF Exists(d) THEN dead_letters \cup {d} ELSE dead_letters
    /\ EndTask(w, d)
    /\ UNCHANGED <<deliveries, attempt_count, delivery_attempts, is_active,
                   apiVars, reaperVars, acked>>

\* No signing secret: dead-letter without an attempt.
BuryUnsigned(w, d) ==
    /\ pc[w][d] = "checked"
    /\ SetQueue(d, "dead_letter")
    /\ IF Exists(d)
       THEN /\ deliveries' = [deliveries EXCEPT ![d] = "failed"]
            /\ dead_letters' = dead_letters \cup {d}
       ELSE UNCHANGED <<deliveries, dead_letters>>
    /\ EndTask(w, d)
    /\ UNCHANGED <<attempt_count, delivery_attempts, is_active, apiVars,
                   reaperVars, acked>>

\* deliver_with_routing: the HTTP exchange and how its status is classified
\* (2xx, is_non_retryable, anything else).
Send(w, d, result) ==
    /\ pc[w][d] = "checked"
    /\ Advance(w, d, result)
    /\ acked' = IF result = "ok" THEN acked \cup {d} ELSE acked
    /\ UNCHANGED <<tableVars, is_active, apiVars, reaperVars>>

\* A statement of the task fails, its commit fails, or the task panics: the
\* task ends and its row stays as it is.
TaskError(w, d) ==
    /\ Live(w, d)
    /\ EndTask(w, d)
    /\ UNCHANGED <<tableVars, is_active, apiVars, reaperVars, acked>>

\* What every outcome transaction writes to the queue row and to the log; the
\* log's foreign key makes it fail once the delivery is gone.
RecordOutcome(w, d, status) ==
    /\ Exists(d)
    /\ SetQueue(d, status)
    /\ attempt_count' = IF queue[d] = "none" THEN attempt_count
                        ELSE [attempt_count EXCEPT ![d] = attempt[w][d]]
    /\ delivery_attempts' = [delivery_attempts EXCEPT ![d] = @ \cup {attempt[w][d]}]
    /\ EndTask(w, d)
    /\ UNCHANGED <<is_active, apiVars, reaperVars, acked>>

\* Mutant: a retryable answer is taken for a success.
MutCommitAnyAnswer(w, d) ==
    /\ pc[w][d] \in {"ok", "retryable"}
    /\ RecordOutcome(w, d, "delivered")
    /\ deliveries' = [deliveries EXCEPT ![d] = "delivered"]
    /\ UNCHANGED dead_letters

\* A 2xx: queue row and delivery become delivered in one transaction.
CommitDelivered(w, d) ==
    /\ pc[w][d] = "ok"
    /\ RecordOutcome(w, d, "delivered")
    /\ deliveries' = [deliveries EXCEPT ![d] = "delivered"]
    /\ UNCHANGED dead_letters

\* Mutant: off by one, an exhausted row is retried.
MutGiveUpLate(w, d) ==
    \/ pc[w][d] = "fatal"
    \/ pc[w][d] = "retryable" /\ attempt[w][d] > MaxAttempts

GiveUp(w, d) ==
    \/ pc[w][d] = "fatal"
    \/ pc[w][d] = "retryable" /\ attempt[w][d] >= MaxAttempts

\* Mutant: the INSERT INTO dead_letters is missing.
MutDeadLetterUnlogged(w, d) ==
    /\ GiveUp(w, d)
    /\ RecordOutcome(w, d, "dead_letter")
    /\ deliveries' = [deliveries EXCEPT ![d] = "failed"]
    /\ UNCHANGED dead_letters

\* dead_letter_delivery.
DeadLetterDelivery(w, d) ==
    /\ GiveUp(w, d)
    /\ RecordOutcome(w, d, "dead_letter")
    /\ deliveries' = [deliveries EXCEPT ![d] = "failed"]
    /\ dead_letters' = dead_letters \cup {d}

\* Mutant: the delivery is written back to pending with its row.
MutRetryPending(w, d) ==
    /\ pc[w][d] = "retryable" /\ ~GiveUp(w, d)
    /\ RecordOutcome(w, d, "pending")
    /\ deliveries' = [deliveries EXCEPT ![d] = "pending"]
    /\ UNCHANGED dead_letters

\* retry_delivery.
RetryDelivery(w, d) ==
    /\ pc[w][d] = "retryable" /\ ~GiveUp(w, d)
    /\ RecordOutcome(w, d, "pending")
    /\ UNCHANGED <<deliveries, dead_letters>>

Commit(w, d) ==
    CommitDelivered(w, d) \/ DeadLetterDelivery(w, d) \/ RetryDelivery(w, d)

TaskStep(w, d) ==
    \/ CheckDelivered(w, d) \/ SkipDelivered(w, d)
    \/ Defer(w, d) \/ BuryUnsigned(w, d)
    \/ \E r \in {"ok", "retryable", "fatal"} : Send(w, d, r)
    \/ Commit(w, d)
    \/ TaskError(w, d)

\* The process dies and is started again; its tasks and snapshots are gone.
WorkerCrash(w) ==
    /\ ~Idle(w)
    /\ pc' = [pc EXCEPT ![w] = [d \in Deliveries |-> "idle"]]
    /\ attempt' = [attempt EXCEPT ![w] = [d \in Deliveries |-> 0]]
    /\ phase' = [phase EXCEPT ![w] = "loop"]
    /\ stuck' = [stuck EXCEPT ![w] = [d \in Deliveries |-> "no"]]
    /\ orphans' = [orphans EXCEPT ![w] = {}]
    /\ UNCHANGED <<tableVars, is_active, apiVars, acked>>

-----------------------------------------------------------------------------
(* The reapers, one after the other in the same arm of the worker's loop.  *)

\* Mutants: no 5 minute threshold; no status filter.
MutStuckAtOnce(d)    == queue[d] = "processing"
MutStuckAnyStatus(d) == queue[d] \notin {"none", "pending"} /\ (Calm => ~Owned(d))

\* In 'processing' for more than 5 minutes.
Stuck(d) == queue[d] = "processing" /\ (Calm => ~Owned(d))

\* reap_zombies, first statement: the stuck rows, with the attempt counts the
\* decision is based on.
SelectStuck(w, S) ==
    /\ Idle(w)
    /\ \A d \in S : Stuck(d)
    /\ stuck' = [stuck EXCEPT ![w] = [d \in Deliveries |->
                    IF d \notin S THEN "no"
                    ELSE IF attempt_count[d] >= MaxAttempts THEN "bury" ELSE "reset"]]
    /\ phase' = [phase EXCEPT ![w] = IF S = {} THEN "orphan" ELSE "reap"]
    /\ UNCHANGED <<tableVars, is_active, apiVars, taskVars, orphans, acked>>

\* reap_zombies, the transaction over the selected rows, by id only.  Whether
\* or not it commits, the loop goes on to the orphans.
ReapZombies(w, commits) ==
    LET bury == {d \in Deliveries : commits /\ stuck[w][d] = "bury" /\ Exists(d)}
        row  == {d \in Deliveries : commits /\ stuck[w][d] # "no" /\ queue[d] # "none"}
    IN  /\ phase[w] = "reap"
        /\ queue' = [d \in Deliveries |->
              IF d \notin row THEN queue[d]
              ELSE IF stuck[w][d] = "bury" THEN "dead_letter" ELSE "pending"]
        /\ attempt_count' = [d \in Deliveries |->
              IF d \in row /\ stuck[w][d] = "bury" THEN attempt_count[d] + 1
              ELSE attempt_count[d]]
        /\ deliveries' = [d \in Deliveries |->
              IF d \in bury THEN "failed" ELSE deliveries[d]]
        /\ dead_letters' = dead_letters \cup bury
        /\ stuck' = [stuck EXCEPT ![w] = [d \in Deliveries |-> "no"]]
        /\ phase' = [phase EXCEPT ![w] = "orphan"]
        /\ UNCHANGED <<delivery_attempts, is_active, apiVars, taskVars, orphans, acked>>

\* Mutant: looks for the deliveries the publisher marked failed.
MutOrphanedFailed(d) ==
    /\ deliveries[d] = "failed"
    /\ queue[d] \notin {"pending", "processing"}
    /\ Calm => publisher[d] = "done" /\ test_mark[d] # "todo"

\* Pending for more than 10 minutes, without a pending or processing row.
Orphaned(d) ==
    /\ deliveries[d] = "pending"
    /\ queue[d] \notin {"pending", "processing"}
    /\ Calm => publisher[d] = "done" /\ test_mark[d] # "todo"

\* reap_orphaned_deliveries, the SELECT.
SelectOrphans(w, S) ==
    /\ phase[w] = "orphan"
    /\ \A d \in S : Orphaned(d)
    /\ orphans' = [orphans EXCEPT ![w] = S]
    /\ phase' = [phase EXCEPT ![w] = IF S = {} THEN "loop" ELSE "insert"]
    /\ UNCHANGED <<tableVars, is_active, apiVars, taskVars, stuck, acked>>

NextPhase(w) == IF orphans'[w] = {} THEN "loop" ELSE "insert"

\* One INSERT ... ON CONFLICT (delivery_id) DO NOTHING of its loop; an error
\* (a deleted delivery's foreign key, a lost connection) ends the loop.
InsertOrphan(w, d) ==
    /\ phase[w] = "insert" /\ d \in orphans[w]
    /\ \/ /\ Exists(d)
          /\ queue' = IF queue[d] = "none" THEN [queue EXCEPT ![d] = "pending"] ELSE queue
          /\ orphans' = [orphans EXCEPT ![w] = @ \ {d}]
       \/ /\ orphans' = [orphans EXCEPT ![w] = {}]
          /\ UNCHANGED queue
    /\ phase' = [phase EXCEPT ![w] = NextPhase(w)]
    /\ UNCHANGED <<deliveries, attempt_count, delivery_attempts, dead_letters,
                   is_active, apiVars, taskVars, stuck, acked>>

-----------------------------------------------------------------------------
ApiStep(d) ==
    \/ CreateWebhook(d) \/ ReplayWebhook(d) \/ AdminReplay(d)
    \/ PublishToQueue(d) \/ MarkFailed(d) \/ MarkTestDelivered(d) \/ ApiCrash(d)
    \/ PurgeAttempts(d) \/ PurgeDeadLetter(d) \/ ArchiveDelivery(d)
    \/ DeleteDelivery(d) \/ CleanupWebhookQueue(d)

ReaperStep(w) ==
    \/ \E S \in SUBSET Deliveries : SelectStuck(w, S) \/ SelectOrphans(w, S)
    \/ \E b \in BOOLEAN : ReapZombies(w, b)
    \/ \E d \in Deliveries : InsertOrphan(w, d)

WorkerStep(w) ==
    \/ \E S \in SUBSET Deliveries, b \in BOOLEAN : ClaimPending(w, S, b)
    \/ \E d \in Deliveries : TaskStep(w, d)
    \/ ReaperStep(w)
    \/ WorkerCrash(w)

Next ==
    \/ \E d \in Deliveries : ApiStep(d)
    \/ \E e \in Endpoints : SetActive(e)
    \/ \E w \in Workers : WorkerStep(w)

Spec == Init /\ [][Next]_vars
-----------------------------------------------------------------------------
(* Safety.                                                                 *)

\* A delivery that is still pending can always be picked up again: its queue
\* row, if any, is not finished.  (The orphan reaper's ON CONFLICT DO NOTHING
\* could never revive a pending delivery behind a finished row.)
NoStrandedDelivery ==
    \A d \in Deliveries : deliveries[d] = "pending" => queue[d] \notin Finished

\* A delivery is reported delivered only if its endpoint answered 2xx, or the
\* test-mode handler said so; the idempotency guard never settles a row of a
\* delivery nobody received.
DeliveredMeansReceived ==
    \A d \in Deliveries :
        deliveries[d] = "delivered" \/ queue[d] = "delivered"
            => d \in acked \/ test_mark[d] = "done"

\* A dead-lettered queue row goes with a dead_letters row and a failed
\* delivery, whichever of the three dead-letter transactions wrote it; only
\* the 90 day retention may take the dead_letters row away, and only the
\* test-mode UPDATE may repaint the delivery.
DeadLetterAccounted ==
    \A d \in Deliveries :
        queue[d] = "dead_letter" =>
            /\ d \in dead_letters \cup letters_purged
            /\ deliveries[d] = "failed" \/ test_mark[d] = "done"

\* Without stalls, a claimed row has one owner among all tasks of all
\* workers, and no reaper is about to reset it.
OneOwner ==
    Calm => \A d \in Deliveries, w \in Workers : Live(w, d) =>
        /\ \A v \in Workers : Live(v, d) => v = w
        /\ \A v \in Workers : stuck[v][d] = "no"

\* Past the idempotency guard a task only sends what the endpoint has not
\* accepted yet: "Prevents duplicate delivery if worker crashed after HTTP
\* success but before DB commit" (worker/src/main.rs).
GuardStopsDuplicates ==
    \A w \in Workers, d \in Deliveries : pc[w][d] = "checked" => d \notin acked

\* No two workers deliver the same row at once: "advisory locks prevent
\* duplicate delivery by concurrent workers" (docs/adr/003).
NoConcurrentDelivery ==
    \A d \in Deliveries, v, w \in Workers : Live(v, d) /\ Live(w, d) => v = w

\* The log of an unfinished row holds its latest attempts, from the first on
\* unless retention has deleted some, and ends with attempt_count.
LogOf(d) ==
    \E first \in 1..attempt_count[d] + 1 :
        /\ delivery_attempts[d] = first..attempt_count[d]
        /\ first = 1 \/ d \in log_purged

\* Without stalls, the attempt log and the queue row agree: an unfinished row
\* has been attempted fewer than max_attempts times, no attempt is missing from
\* its log but the oldest ones after a retention pass, and the attempt in
\* progress is the next one.
AttemptsLogged ==
    Calm => \A d \in Deliveries :
        /\ queue[d] \in {"pending", "processing"} =>
              attempt_count[d] < MaxAttempts /\ LogOf(d)
        /\ Exists(d) => \A w \in Workers : Live(w, d) => attempt[w][d] = attempt_count[d] + 1

\* Without stalls, a finished queue row is never taken up again: it stays
\* finished until it is removed.
FinishedStays ==
    [][Calm => \A d \in Deliveries :
          queue[d] \in Finished => queue'[d] \in {queue[d], "none"}]_vars

Contract == INSTANCE DeliveryContract WITH status <- deliveries

\* In an undisturbed deployment (no stalls, no lost replies) the pipeline
\* implements the contract for every delivery that is not in test mode.
ImplementsContract == Contract!ContractSpec

\* Whatever stalls, crashes or loses its reply, a webhook without a test key is
\* never pending again, never comes back, and is never reported delivered
\* before its endpoint accepted it.
KeepsLooseContract == Contract!LooseSpec

-----------------------------------------------------------------------------
(* Liveness.                                                               *)

\* A worker's task runs on, and a claimed batch is worked off.
TaskProgress == \A w \in Workers, d \in Deliveries : WF_vars(TaskStep(w, d))

\* The API task finishes; the main loop polls and its reaper arm is taken
\* again and again, so a due row and an expired row are picked eventually.
LoopProgress ==
    /\ \A d \in Deliveries :
          /\ WF_vars(PublishToQueue(d) \/ MarkFailed(d) \/ MarkTestDelivered(d))
          /\ SF_vars(\E w \in Workers, S \in SUBSET Deliveries :
                        d \in S /\ ClaimPending(w, S, TRUE))
          /\ SF_vars(\E w \in Workers, S \in SUBSET Deliveries :
                        d \in S /\ SelectStuck(w, S))
          /\ SF_vars(\E w \in Workers, S \in SUBSET Deliveries :
                        d \in S /\ SelectOrphans(w, S))
          /\ SF_vars(\E w \in Workers : d \in orphans[w] /\ InsertOrphan(w, d) /\ queue'[d] # "none")
    /\ \A w \in Workers : SF_vars(ReapZombies(w, TRUE)) /\ WF_vars(ReaperStep(w))

\* A delivery that is tried over and over is sent some of the time: circuits
\* close again and guards can be read.
SendProgress ==
    \A w \in Workers, d \in Deliveries :
        /\ SF_vars(CheckDelivered(w, d)) /\ SF_vars(SkipDelivered(w, d))
        /\ SF_vars(\E r \in {"ok", "retryable", "fatal"} : Send(w, d, r))

\* The outcome of a delivery that is sent over and over is committed some of
\* the time.
CommitProgress == \A w \in Workers, d \in Deliveries : SF_vars(Commit(w, d))

FairSpec == Spec /\ TaskProgress /\ LoopProgress /\ SendProgress /\ CommitProgress

\* The same without CommitProgress: after the send a task may fail every time.
FaultySpec == Spec /\ TaskProgress /\ LoopProgress /\ SendProgress

\* Every accepted webhook is settled, unless its endpoint is disabled: no
\* crash, lost task or failed publish leaves it pending for ever.
EventuallySettled ==
    \A d \in Deliveries :
        deliveries[d] = "pending"
            ~> deliveries[d] # "pending" \/ ~is_active[endpoint_id[d]]
=============================================================================
