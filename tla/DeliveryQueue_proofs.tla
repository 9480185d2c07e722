------------------------- MODULE DeliveryQueue_proofs -------------------------
(***************************************************************************)
(* Proofs about DeliveryQueue and RedisPath, for every number of           *)
(* deliveries, endpoints and workers, every max_attempts and every choice  *)
(* of Sources and Faults.                                                  *)
(***************************************************************************)
EXTENDS RedisPath, SequenceTheorems, TLAPS

-----------------------------------------------------------------------------
(* Type correctness.                                                       *)

\* The API's steps keep the types.
LEMMA ApiType ==
    ASSUME TypeOK, NEW d \in Deliveries, ApiStep(d)
    PROVE  TypeOK'
<1> USE DEF TypeOK, DeliveryStatus, QueueStatus, PublisherState
<1>1. CASE \E p \in {"publish", "publish_replay", "done"}, m \in {"no", "todo"} : Accept(d, p, m)
  BY <1>1 DEF Accept, purgeVars, taskVars, reaperVars
<1>2. CASE PublishToQueue(d)
  <2>1. AfterError(d) \in PublisherState
    BY DEF AfterError
  <2>2. \E s \in PublisherState : publisher' = [publisher EXCEPT ![d] = s]
    BY <1>2, <2>1 DEF PublishToQueue
  <2>3. publisher' \in [Deliveries -> PublisherState]
    BY <2>2
  <2>4. queue' \in [Deliveries -> QueueStatus] /\ attempt_count' \in [Deliveries -> Nat]
    <3>1. CASE UNCHANGED <<queue, attempt_count>>
      BY <3>1
    <3>2. CASE /\ queue' = [queue EXCEPT ![d] = "pending"]
               /\ attempt_count' = [attempt_count EXCEPT ![d] = 0]
      BY <3>2
    <3> QED
      BY <1>2, <3>1, <3>2 DEF PublishToQueue
  <2> QED
    BY <1>2, <2>3, <2>4 DEF PublishToQueue, purgeVars, taskVars, reaperVars
<1>3. CASE MarkFailed(d)
  BY <1>3 DEF MarkFailed, purgeVars, taskVars, reaperVars
<1>4. CASE MarkTestDelivered(d)
  BY <1>4 DEF MarkTestDelivered, purgeVars, taskVars, reaperVars
<1>5. CASE ApiCrash(d)
  BY <1>5 DEF ApiCrash, tableVars, purgeVars, taskVars, reaperVars
<1>6. CASE DeleteDelivery(d)
  BY <1>6 DEF DeleteDelivery, apiVars, purgeVars, taskVars, reaperVars
<1>7. CASE CleanupWebhookQueue(d)
  BY <1>7 DEF CleanupWebhookQueue, apiVars, purgeVars, taskVars, reaperVars
<1>8. CASE PurgeAttempts(d) \/ PurgeDeadLetter(d) \/ ArchiveDelivery(d)
  BY <1>8 DEF PurgeAttempts, PurgeDeadLetter, ArchiveDelivery, apiVars, purgeVars, taskVars, reaperVars
<1> QED
  BY <1>1, <1>2, <1>3, <1>4, <1>5, <1>6, <1>7, <1>8
  DEF ApiStep, CreateWebhook, ReplayWebhook, AdminReplay

\* Claiming a batch keeps the types.
LEMMA ClaimType ==
    ASSUME TypeOK, NEW w \in Workers, NEW S \in SUBSET Deliveries, NEW b \in BOOLEAN,
           ClaimPending(w, S, b)
    PROVE  TypeOK'
<1> DEFINE p == [d \in Deliveries |-> IF d \in S THEN "claimed" ELSE "idle"]
           a == [d \in Deliveries |-> IF d \in S THEN attempt_count[d] + 1 ELSE 0]
<1>1. p \in [Deliveries -> TaskState] /\ a \in [Deliveries -> Nat]
  BY DEF TypeOK, TaskState
<1>2. pc' \in [Workers -> [Deliveries -> TaskState]] /\ attempt' \in [Workers -> [Deliveries -> Nat]]
  <2> HIDE DEF p, a
  <2> SUFFICES ASSUME pc' = [pc EXCEPT ![w] = p] /\ attempt' = [attempt EXCEPT ![w] = a]
      PROVE <1>2!:
    BY DEF ClaimPending, TypeOK, taskVars, p, a
  <2> QED
    BY <1>1 DEF TypeOK
<1>3. queue' \in [Deliveries -> QueueStatus]
  BY DEF TypeOK, ClaimPending, QueueStatus
<1> QED
  BY <1>2, <1>3 DEF TypeOK, ClaimPending, apiVars, purgeVars, reaperVars

\* An UPDATE of a queue row's status keeps its type.
LEMMA SetQueueType ==
    ASSUME TypeOK, NEW d \in Deliveries, NEW s \in QueueStatus, SetQueue(d, s)
    PROVE  queue' \in [Deliveries -> QueueStatus]
BY DEF TypeOK, SetQueue

\* Ending a task keeps the types of the tasks.
LEMMA EndTaskType ==
    ASSUME TypeOK, NEW w \in Workers, NEW d \in Deliveries, EndTask(w, d)
    PROVE  /\ pc' \in [Workers -> [Deliveries -> TaskState]]
           /\ attempt' \in [Workers -> [Deliveries -> Nat]]
BY DEF TypeOK, EndTask, TaskState

\* An outcome transaction keeps the types of what it writes.
LEMMA OutcomeType ==
    ASSUME TypeOK, NEW w \in Workers, NEW d \in Deliveries, NEW s \in QueueStatus,
           RecordOutcome(w, d, s)
    PROVE  /\ queue' \in [Deliveries -> QueueStatus]
           /\ attempt_count' \in [Deliveries -> Nat]
           /\ delivery_attempts' \in [Deliveries -> SUBSET Nat]
           /\ pc' \in [Workers -> [Deliveries -> TaskState]]
           /\ attempt' \in [Workers -> [Deliveries -> Nat]]
<1>1. SetQueue(d, s) /\ EndTask(w, d)
  BY DEF RecordOutcome
<1>2. attempt[w][d] \in Nat
  BY DEF TypeOK
<1> QED
  BY <1>1, <1>2, SetQueueType, EndTaskType DEF RecordOutcome, TypeOK

\* A task's steps keep the types.
LEMMA TaskType ==
    ASSUME TypeOK, NEW w \in Workers, NEW d \in Deliveries, TaskStep(w, d)
    PROVE  TypeOK'
<1>1. CASE CheckDelivered(w, d)
  BY <1>1 DEF CheckDelivered, Advance, GuardOutcome, TaskState, TypeOK,
              tableVars, apiVars, purgeVars, reaperVars
<1>2. CASE SkipDelivered(w, d) \/ Defer(w, d)
  <2>1. queue' \in [Deliveries -> QueueStatus]
    BY <1>2, SetQueueType DEF SkipDelivered, Defer, QueueStatus
  <2> QED
    BY <1>2, <2>1, EndTaskType DEF SkipDelivered, Defer, TypeOK, apiVars, purgeVars, reaperVars
<1>3. CASE BuryUnsigned(w, d)
  <2>1. queue' \in [Deliveries -> QueueStatus]
    BY <1>3, SetQueueType DEF BuryUnsigned, QueueStatus
  <2>2. deliveries' \in [Deliveries -> DeliveryStatus] /\ dead_letters' \subseteq Deliveries
    BY <1>3 DEF BuryUnsigned, TypeOK, DeliveryStatus
  <2>3. UNCHANGED <<attempt_count, delivery_attempts, is_active, apiVars, reaperVars, acked>> /\ EndTask(w, d)
    BY <1>3 DEF BuryUnsigned
  <2> QED
    BY <2>1, <2>2, <2>3, EndTaskType DEF TypeOK, apiVars, purgeVars, reaperVars
<1>4. ASSUME NEW r \in {"ok", "retryable", "fatal"}, Send(w, d, r)
      PROVE  TypeOK'
  BY <1>4 DEF Send, Advance, TaskState, TypeOK, tableVars, apiVars, purgeVars, reaperVars
<1>5. CASE Commit(w, d)
  <2>1. PICK s \in QueueStatus : RecordOutcome(w, d, s)
    BY <1>5 DEF Commit, CommitDelivered, DeadLetterDelivery, RetryDelivery, QueueStatus
  <2>2. /\ deliveries' \in [Deliveries -> DeliveryStatus]
        /\ dead_letters' \subseteq Deliveries
    BY <1>5 DEF Commit, CommitDelivered, DeadLetterDelivery, RetryDelivery, TypeOK, DeliveryStatus
  <2>3. /\ queue' \in [Deliveries -> QueueStatus]
        /\ attempt_count' \in [Deliveries -> Nat]
        /\ delivery_attempts' \in [Deliveries -> SUBSET Nat]
        /\ pc' \in [Workers -> [Deliveries -> TaskState]]
        /\ attempt' \in [Workers -> [Deliveries -> Nat]]
    BY <2>1, OutcomeType
  <2>4. UNCHANGED <<is_active, apiVars, reaperVars, acked>>
    BY <2>1 DEF RecordOutcome
  <2> QED
    BY <2>2, <2>3, <2>4 DEF TypeOK, apiVars, purgeVars, reaperVars
<1>6. CASE TaskError(w, d)
  BY <1>6, EndTaskType DEF TaskError, TypeOK, tableVars, apiVars, purgeVars, reaperVars
<1> QED
  BY <1>1, <1>2, <1>3, <1>4, <1>5, <1>6 DEF TaskStep

\* A crash keeps the types.
LEMMA WorkerCrashType ==
    ASSUME TypeOK, NEW w \in Workers, WorkerCrash(w)
    PROVE  TypeOK'
BY DEF TypeOK, WorkerCrash, TaskState, ReapDecision, tableVars, apiVars, purgeVars

\* The reapers' steps keep the types.
LEMMA ReaperType ==
    ASSUME TypeOK, NEW w \in Workers, ReaperStep(w)
    PROVE  TypeOK'
<1>1. ASSUME NEW S \in SUBSET Deliveries, SelectStuck(w, S)
      PROVE  TypeOK'
  BY <1>1 DEF SelectStuck, TypeOK, ReapDecision, tableVars, apiVars, purgeVars, taskVars
<1>2. ASSUME NEW S \in SUBSET Deliveries, SelectOrphans(w, S)
      PROVE  TypeOK'
  BY <1>2 DEF SelectOrphans, TypeOK, tableVars, apiVars, purgeVars, taskVars
<1>3. ASSUME NEW b \in BOOLEAN, ReapZombies(w, b)
      PROVE  TypeOK'
  BY <1>3 DEF ReapZombies, TypeOK, QueueStatus, DeliveryStatus, ReapDecision, apiVars, purgeVars, taskVars
<1>4. ASSUME NEW d \in Deliveries, InsertOrphan(w, d)
      PROVE  TypeOK'
  BY <1>4 DEF InsertOrphan, NextPhase, TypeOK, QueueStatus, apiVars, purgeVars, taskVars
<1> QED
  BY <1>1, <1>2, <1>3, <1>4 DEF ReaperStep

\* Every step of the API, of an administrator, of a task, of the main loop and
\* of the reapers keeps the types.
LEMMA StepType ==
    ASSUME TypeOK, [Next]_vars
    PROVE  TypeOK'
<1>1. ASSUME NEW e \in Endpoints, SetActive(e) PROVE TypeOK'
  BY <1>1 DEF SetActive, TypeOK, tableVars, apiVars, purgeVars, taskVars, reaperVars
<1>2. ASSUME NEW w \in Workers, WorkerStep(w) PROVE TypeOK'
  BY <1>2, ClaimType, TaskType, ReaperType, WorkerCrashType DEF WorkerStep
<1>3. CASE UNCHANGED vars
  BY <1>3 DEF TypeOK, vars, tableVars, apiVars, purgeVars, taskVars, reaperVars
<1> QED
  BY <1>1, <1>2, <1>3, ApiType DEF Next

\* The tables start within their types.
LEMMA InitType == Init => TypeOK
BY DEF Init, TypeOK, DeliveryStatus, QueueStatus, PublisherState, TaskState, ReapDecision

\* Every table, task and snapshot stays within its type.
THEOREM TypeCorrect == Spec => []TypeOK
<1>1. TypeOK /\ [Next]_vars => TypeOK'
  BY StepType
<1> QED
  BY <1>1, InitType, PTL DEF Spec
-----------------------------------------------------------------------------
(* The inductive invariant behind the unconditional safety properties.     *)

\* webhook_queue.delivery_id references deliveries(id).
ForeignKey(d) == ~Exists(d) => queue[d] = "none"

\* A task that is about to settle a row of a delivered delivery never finds
\* it pending again: deliveries.status does not return to 'pending'.
SkipSettled(d) ==
    \A w \in Workers : pc[w][d] = "skip" => deliveries[d] \notin {"absent", "pending"}

Unstranded(d) == deliveries[d] = "pending" => queue[d] \notin Finished

\* What a task learnt from the endpoint or from the guard stays true.
Received(d) ==
    /\ deliveries[d] = "delivered" \/ queue[d] = "delivered"
           => d \in acked \/ test_mark[d] = "done"
    /\ \A w \in Workers :
          /\ pc[w][d] = "ok" => d \in acked
          /\ pc[w][d] = "skip" => d \in acked \/ test_mark[d] = "done"

Accounted(d) ==
    queue[d] = "dead_letter" =>
        d \in dead_letters \cup letters_purged /\ (deliveries[d] = "failed" \/ test_mark[d] = "done")

RowInv(d) ==
    ForeignKey(d) /\ SkipSettled(d) /\ Unstranded(d) /\ Received(d) /\ Accounted(d)

SafeInv == TypeOK /\ \A d \in Deliveries : RowInv(d)


\* A step that is about another delivery leaves everything about x alone (the
\* orphan reaper may drop x from its list).
Same(x) ==
    /\ deliveries'[x] = deliveries[x] /\ queue'[x] = queue[x]
    /\ attempt_count'[x] = attempt_count[x] /\ delivery_attempts'[x] = delivery_attempts[x]
    /\ publisher'[x] = publisher[x] /\ test_mark'[x] = test_mark[x]
    /\ x \in dead_letters' <=> x \in dead_letters
    /\ x \in letters_purged' <=> x \in letters_purged
    /\ x \in log_purged' <=> x \in log_purged
    /\ x \in acked' <=> x \in acked
    /\ \A w \in Workers :
          /\ pc'[w][x] = pc[w][x] /\ attempt'[w][x] = attempt[w][x]
          /\ stuck'[w][x] = stuck[w][x] /\ (x \in orphans'[w] => x \in orphans[w])

\* An API step for d is about no other delivery.
LEMMA ApiFrame ==
    ASSUME TypeOK, NEW d \in Deliveries, ApiStep(d), NEW x \in Deliveries, x # d
    PROVE  Same(x)
<1> USE DEF TypeOK, Same, apiVars, purgeVars, tableVars, taskVars, reaperVars
<1>1. ASSUME NEW p, NEW m, Accept(d, p, m) PROVE Same(x)
  BY <1>1 DEF Accept
<1>2. CASE PublishToQueue(d)
  <2>1. \E s : publisher' = [publisher EXCEPT ![d] = s]
    BY <1>2 DEF PublishToQueue
  <2>2. publisher'[x] = publisher[x]
    BY <2>1
  <2>3. queue'[x] = queue[x] /\ attempt_count'[x] = attempt_count[x]
    BY <1>2 DEF PublishToQueue
  <2> QED
    BY <1>2, <2>2, <2>3 DEF PublishToQueue
<1>3. CASE MarkFailed(d)
  BY <1>3 DEF MarkFailed
<1>4. CASE MarkTestDelivered(d)
  BY <1>4 DEF MarkTestDelivered
<1>5. CASE ApiCrash(d)
  BY <1>5 DEF ApiCrash
<1>6. CASE DeleteDelivery(d)
  BY <1>6 DEF DeleteDelivery
<1>7. CASE CleanupWebhookQueue(d)
  BY <1>7 DEF CleanupWebhookQueue
<1>8. CASE PurgeAttempts(d) \/ PurgeDeadLetter(d) \/ ArchiveDelivery(d)
  BY <1>8 DEF PurgeAttempts, PurgeDeadLetter, ArchiveDelivery
<1> QED
  BY <1>1, <1>2, <1>3, <1>4, <1>5, <1>6, <1>7, <1>8
  DEF ApiStep, CreateWebhook, ReplayWebhook, AdminReplay

\* A task's step for d is about no other delivery.
LEMMA TaskFrame ==
    ASSUME TypeOK, NEW w \in Workers, NEW d \in Deliveries, TaskStep(w, d),
           NEW x \in Deliveries, x # d
    PROVE  Same(x)
<1> USE DEF TypeOK, apiVars, purgeVars, tableVars, taskVars, reaperVars
<1>1. \A v \in Workers : pc'[v][x] = pc[v][x] /\ attempt'[v][x] = attempt[v][x]
  <2>1. EndTask(w, d) \/ \E t : Advance(w, d, t)
    BY DEF TaskStep, CheckDelivered, SkipDelivered, Defer, BuryUnsigned, Send, TaskError,
           Commit, CommitDelivered, DeadLetterDelivery, RetryDelivery, RecordOutcome
  <2>2. \E t : pc' = [pc EXCEPT ![w][d] = t]
    BY <2>1 DEF EndTask, Advance
  <2>3. \E t : attempt' = attempt \/ attempt' = [attempt EXCEPT ![w][d] = t]
    BY <2>1 DEF EndTask, Advance
  <2> QED
    BY <2>2, <2>3
<1>2. CASE CheckDelivered(w, d) \/ TaskError(w, d) \/ \E r \in {"ok", "retryable", "fatal"} : Send(w, d, r)
  <2>1. UNCHANGED <<tableVars, apiVars, reaperVars>> /\ (x \in acked' <=> x \in acked)
    BY <1>2 DEF CheckDelivered, TaskError, Send
  <2> QED
    BY <1>1, <2>1 DEF Same
<1>3. CASE SkipDelivered(w, d) \/ Defer(w, d)
  <2>1. queue'[x] = queue[x]
    BY <1>3 DEF SkipDelivered, Defer, SetQueue
  <2> QED
    BY <1>1, <1>3, <2>1 DEF Same, SkipDelivered, Defer
<1>4. CASE BuryUnsigned(w, d)
  <2>1. queue'[x] = queue[x]
    BY <1>4 DEF BuryUnsigned, SetQueue
  <2>2. deliveries'[x] = deliveries[x] /\ (x \in dead_letters' <=> x \in dead_letters)
    BY <1>4 DEF BuryUnsigned
  <2> QED
    BY <1>1, <1>4, <2>1, <2>2 DEF Same, BuryUnsigned
<1>5. CASE Commit(w, d)
  <2>1. PICK s : RecordOutcome(w, d, s)
    BY <1>5 DEF Commit, CommitDelivered, DeadLetterDelivery, RetryDelivery
  <2>2. /\ queue'[x] = queue[x] /\ attempt_count'[x] = attempt_count[x]
        /\ delivery_attempts'[x] = delivery_attempts[x]
    BY <2>1 DEF RecordOutcome, SetQueue
  <2>3. deliveries'[x] = deliveries[x] /\ (x \in dead_letters' <=> x \in dead_letters)
    BY <1>5 DEF Commit, CommitDelivered, DeadLetterDelivery, RetryDelivery
  <2>4. UNCHANGED <<apiVars, reaperVars, acked>>
    BY <2>1 DEF RecordOutcome
  <2> QED
    BY <1>1, <2>2, <2>3, <2>4 DEF Same
<1> QED
  BY <1>2, <1>3, <1>4, <1>5 DEF TaskStep

\* Re-queueing an orphan is about no other delivery.
LEMMA InsertFrame ==
    ASSUME TypeOK, NEW w \in Workers, NEW d \in Deliveries, InsertOrphan(w, d),
           NEW x \in Deliveries, x # d
    PROVE  Same(x)
BY DEF InsertOrphan, TypeOK, Same, apiVars, purgeVars, tableVars, taskVars, reaperVars

\* The row invariant only depends on what Same keeps.
LEMMA RowFrame ==
    ASSUME NEW x \in Deliveries, Same(x), RowInv(x)
    PROVE  RowInv(x)'
<1>1. Exists(x)' <=> Exists(x)
  BY DEF Exists, Same
<1> QED
  BY <1>1 DEF Same, RowInv, ForeignKey, SkipSettled, Unstranded, Received, Accounted, Exists

\* The API's steps keep the row invariant of their delivery.
LEMMA ApiRow ==
    ASSUME TypeOK, NEW d \in Deliveries, RowInv(d), ApiStep(d)
    PROVE  RowInv(d)'
<1> USE DEF TypeOK, RowInv, ForeignKey, SkipSettled, Unstranded, Received, Accounted, Exists,
            Finished, apiVars, purgeVars, tableVars, taskVars, reaperVars
<1>1. ASSUME NEW p, NEW m \in {"no", "todo"}, Accept(d, p, m) PROVE RowInv(d)'
  BY <1>1 DEF Accept
<1>2. CASE PublishToQueue(d)
  <2>1. queue'[d] = queue[d] \/ (queue'[d] = "pending" /\ Exists(d))
    BY <1>2 DEF PublishToQueue
  <2> QED
    BY <1>2, <2>1 DEF PublishToQueue
<1>3. CASE MarkFailed(d)
  BY <1>3 DEF MarkFailed
<1>4. CASE MarkTestDelivered(d)
  BY <1>4 DEF MarkTestDelivered
<1>5. CASE ApiCrash(d)
  BY <1>5 DEF ApiCrash
<1>6. CASE DeleteDelivery(d)
  BY <1>6 DEF DeleteDelivery
<1>7. CASE CleanupWebhookQueue(d)
  BY <1>7 DEF CleanupWebhookQueue
<1>8. CASE PurgeAttempts(d) \/ PurgeDeadLetter(d) \/ ArchiveDelivery(d)
  BY <1>8 DEF PurgeAttempts, PurgeDeadLetter, ArchiveDelivery
<1> QED
  BY <1>1, <1>2, <1>3, <1>4, <1>5, <1>6, <1>7, <1>8
  DEF ApiStep, CreateWebhook, ReplayWebhook, AdminReplay

\* What a task leaves behind when it ends: no other task of d is touched.
LEMMA EndTaskRow ==
    ASSUME TypeOK, NEW w \in Workers, NEW d \in Deliveries, EndTask(w, d)
    PROVE  \A v \in Workers : pc'[v][d] = "idle" \/ pc'[v][d] = pc[v][d]
BY DEF TypeOK, EndTask

\* A task's steps keep the row invariant of its delivery.
LEMMA TaskRow ==
    ASSUME TypeOK, NEW w \in Workers, NEW d \in Deliveries, RowInv(d), TaskStep(w, d)
    PROVE  RowInv(d)'
<1> USE DEF TypeOK, RowInv, ForeignKey, SkipSettled, Unstranded, Received, Accounted, Exists,
            Finished, apiVars, purgeVars, tableVars, taskVars, reaperVars
<1>1. CASE CheckDelivered(w, d)
  <2>1. \A v \in Workers : \/ pc'[v][d] = pc[v][d]
                           \/ pc'[v][d] = "checked"
                           \/ pc'[v][d] = "skip" /\ deliveries[d] = "delivered"
    BY <1>1 DEF CheckDelivered, Advance, GuardOutcome
  <2> QED
    BY <1>1, <2>1 DEF CheckDelivered
<1>2. CASE SkipDelivered(w, d) \/ Defer(w, d)
  <2>1. \A v \in Workers : pc'[v][d] = "idle" \/ pc'[v][d] = pc[v][d]
    BY <1>2, EndTaskRow DEF SkipDelivered, Defer
  <2>2. \/ queue'[d] = queue[d]
        \/ queue[d] # "none" /\ queue'[d] = "pending"
        \/ queue[d] # "none" /\ queue'[d] = "delivered" /\ pc[w][d] = "skip"
    BY <1>2 DEF SkipDelivered, Defer, SetQueue
  <2>3. UNCHANGED <<deliveries, dead_letters, letters_purged, test_mark, acked>>
    BY <1>2 DEF SkipDelivered, Defer
  <2> QED
    BY <2>1, <2>2, <2>3
<1>3. CASE BuryUnsigned(w, d)
  <2>1. \A v \in Workers : pc'[v][d] = "idle" \/ pc'[v][d] = pc[v][d]
    BY <1>3, EndTaskRow DEF BuryUnsigned
  <2>2. CASE Exists(d)
    BY <1>3, <2>1, <2>2 DEF BuryUnsigned, SetQueue
  <2>3. CASE ~Exists(d)
    BY <1>3, <2>1, <2>3 DEF BuryUnsigned, SetQueue
  <2> QED
    BY <2>2, <2>3
<1>4. ASSUME NEW r \in {"ok", "retryable", "fatal"}, Send(w, d, r)
      PROVE  RowInv(d)'
  <2>1. \A v \in Workers : pc'[v][d] = pc[v][d] \/ pc'[v][d] = r
    BY <1>4 DEF Send, Advance
  <2>2. r = "ok" => d \in acked'
    BY <1>4 DEF Send
  <2>3. d \in acked => d \in acked'
    BY <1>4 DEF Send
  <2> QED
    BY <1>4, <2>1, <2>2, <2>3 DEF Send
<1>5. CASE Commit(w, d)
  <2>1. Exists(d)
    BY <1>5 DEF Commit, CommitDelivered, DeadLetterDelivery, RetryDelivery, RecordOutcome
  <2>2. \A v \in Workers : pc'[v][d] = "idle" \/ pc'[v][d] = pc[v][d]
    BY <1>5, EndTaskRow DEF Commit, CommitDelivered, DeadLetterDelivery, RetryDelivery, RecordOutcome
  <2>3. CASE CommitDelivered(w, d)
    BY <2>1, <2>2, <2>3 DEF CommitDelivered, RecordOutcome, SetQueue
  <2>4. CASE DeadLetterDelivery(w, d)
    BY <2>1, <2>2, <2>4 DEF DeadLetterDelivery, RecordOutcome, SetQueue
  <2>5. CASE RetryDelivery(w, d)
    BY <2>1, <2>2, <2>5 DEF RetryDelivery, RecordOutcome, SetQueue
  <2> QED
    BY <1>5, <2>3, <2>4, <2>5 DEF Commit
<1>6. CASE TaskError(w, d)
  <2>1. \A v \in Workers : pc'[v][d] = "idle" \/ pc'[v][d] = pc[v][d]
    BY <1>6, EndTaskRow DEF TaskError
  <2> QED
    BY <1>6, <2>1 DEF TaskError
<1> QED
  BY <1>1, <1>2, <1>3, <1>4, <1>5, <1>6 DEF TaskStep

\* The worker's steps over many rows keep each row's invariant.
LEMMA WorkerRow ==
    ASSUME TypeOK, NEW w \in Workers, NEW x \in Deliveries, RowInv(x),
           \/ \E S \in SUBSET Deliveries, b \in BOOLEAN : ClaimPending(w, S, b)
           \/ WorkerCrash(w)
           \/ \E S \in SUBSET Deliveries : SelectStuck(w, S) \/ SelectOrphans(w, S)
           \/ \E b \in BOOLEAN : ReapZombies(w, b)
    PROVE  RowInv(x)'
<1> USE DEF TypeOK, RowInv, ForeignKey, SkipSettled, Unstranded, Received, Accounted, Exists,
            Finished, apiVars, purgeVars, tableVars, taskVars, reaperVars
<1>1. ASSUME NEW S \in SUBSET Deliveries, NEW b \in BOOLEAN, ClaimPending(w, S, b)
      PROVE  RowInv(x)'
  <2>1. \A v \in Workers : pc'[v][x] = pc[v][x] \/ pc'[v][x] \in {"idle", "claimed"}
    <3> DEFINE p == [d \in Deliveries |-> IF d \in S THEN "claimed" ELSE "idle"]
    <3>1. p[x] \in {"idle", "claimed"}
      OBVIOUS
    <3>2. pc' = pc \/ pc' = [pc EXCEPT ![w] = p]
      BY <1>1 DEF ClaimPending
    <3> QED
      BY <3>1, <3>2
  <2>2. queue'[x] = queue[x] \/ (queue[x] = "pending" /\ queue'[x] = "processing")
    BY <1>1 DEF ClaimPending, Claimable
  <2> QED
    BY <1>1, <2>1, <2>2 DEF ClaimPending
<1>2. CASE WorkerCrash(w)
  <2>1. \A v \in Workers : pc'[v][x] = pc[v][x] \/ pc'[v][x] = "idle"
    BY <1>2 DEF WorkerCrash
  <2> QED
    BY <1>2, <2>1 DEF WorkerCrash
<1>3. CASE \E S \in SUBSET Deliveries : SelectStuck(w, S) \/ SelectOrphans(w, S)
  BY <1>3 DEF SelectStuck, SelectOrphans
<1>4. ASSUME NEW b \in BOOLEAN, ReapZombies(w, b)
      PROVE  RowInv(x)'
  <2>1. \/ queue'[x] = queue[x] /\ deliveries'[x] = deliveries[x]
        \/ queue[x] # "none" /\ queue'[x] = "pending" /\ deliveries'[x] = deliveries[x]
        \/ queue[x] # "none" /\ queue'[x] = "dead_letter" /\ deliveries'[x] = "failed" /\ x \in dead_letters'
        \/ queue[x] = "none" /\ queue'[x] = "none" /\ deliveries'[x] = "failed" /\ Exists(x)
    <3>1. CASE ~b \/ stuck[w][x] = "no" \/ (stuck[w][x] # "bury" /\ queue[x] = "none")
      BY <1>4, <3>1 DEF ReapZombies
    <3>2. CASE b /\ stuck[w][x] \notin {"no", "bury"} /\ queue[x] # "none"
      BY <1>4, <3>2 DEF ReapZombies
    <3>3. CASE b /\ stuck[w][x] = "bury" /\ queue[x] # "none"
      <4>1. Exists(x)
        BY <3>3
      <4> QED
        BY <1>4, <3>3, <4>1 DEF ReapZombies
    <3>4. CASE b /\ stuck[w][x] = "bury" /\ queue[x] = "none"
      BY <1>4, <3>4 DEF ReapZombies
    <3> QED
      BY <3>1, <3>2, <3>3, <3>4
  <2>2. x \in dead_letters => x \in dead_letters'
    BY <1>4 DEF ReapZombies
  <2> QED
    BY <1>4, <2>1, <2>2 DEF ReapZombies
<1> QED
  BY <1>1, <1>2, <1>3, <1>4

\* Re-queueing an orphan keeps its row invariant.
LEMMA InsertRow ==
    ASSUME TypeOK, NEW w \in Workers, NEW d \in Deliveries, RowInv(d), InsertOrphan(w, d)
    PROVE  RowInv(d)'
<1>1. queue'[d] = queue[d] \/ (queue'[d] = "pending" /\ Exists(d))
  BY DEF InsertOrphan, TypeOK
<1> QED
  BY <1>1 DEF InsertOrphan, TypeOK, RowInv, ForeignKey, SkipSettled, Unstranded, Received,
              Accounted, Exists, Finished, apiVars, purgeVars, taskVars

\* The row invariant holds at the start.
LEMMA InitSafe == Init => SafeInv
BY DEF Init, SafeInv, TypeOK, DeliveryStatus, QueueStatus, PublisherState, TaskState,
       ReapDecision, RowInv, ForeignKey, SkipSettled, Unstranded, Received, Accounted,
       Exists, Finished

\* Every step keeps the row invariant of every delivery.
LEMMA StepSafe ==
    ASSUME SafeInv, [Next]_vars
    PROVE  SafeInv'
<1>1. TypeOK /\ TypeOK'
  BY StepType DEF SafeInv
<1> SUFFICES ASSUME NEW x \in Deliveries PROVE RowInv(x)'
  BY <1>1 DEF SafeInv
<1>2. RowInv(x)
  BY DEF SafeInv
<1>3. ASSUME NEW d \in Deliveries, ApiStep(d) PROVE RowInv(x)'
  BY <1>1, <1>2, <1>3, ApiFrame, RowFrame, ApiRow
<1>4. ASSUME NEW e \in Endpoints, SetActive(e) PROVE RowInv(x)'
  BY <1>2, <1>4 DEF SetActive, RowInv, ForeignKey, SkipSettled, Unstranded, Received,
     Accounted, Exists, tableVars, apiVars, purgeVars, taskVars, reaperVars
<1>5. ASSUME NEW w \in Workers, WorkerStep(w) PROVE RowInv(x)'
  <2>1. ASSUME NEW d \in Deliveries, TaskStep(w, d) PROVE RowInv(x)'
    BY <1>1, <1>2, <2>1, TaskFrame, RowFrame, TaskRow
  <2>2. ASSUME NEW d \in Deliveries, InsertOrphan(w, d) PROVE RowInv(x)'
    BY <1>1, <1>2, <2>2, InsertFrame, RowFrame, InsertRow
  <2> QED
    BY <1>1, <1>2, <1>5, <2>1, <2>2, WorkerRow DEF WorkerStep, ReaperStep
<1>6. CASE UNCHANGED vars
  BY <1>2, <1>6 DEF vars, RowInv, ForeignKey, SkipSettled, Unstranded, Received,
     Accounted, Exists, tableVars, apiVars, purgeVars, taskVars, reaperVars
<1> QED
  BY <1>3, <1>4, <1>5, <1>6 DEF Next

\* The row invariant of every delivery holds in every reachable state.
THEOREM SafeInvariant == Spec => []SafeInv
<1>1. SafeInv /\ [Next]_vars => SafeInv'
  BY StepSafe
<1> QED
  BY <1>1, InitSafe, PTL DEF Spec

\* No pending delivery is left behind a finished queue row, whatever crashes,
\* stalls, lost replies and test-mode updates happen.
THEOREM NeverStranded == Spec => []NoStrandedDelivery
<1>1. SafeInv => NoStrandedDelivery
  BY DEF SafeInv, RowInv, Unstranded, NoStrandedDelivery
<1> QED
  BY <1>1, SafeInvariant, PTL

\* Nothing is reported delivered that no endpoint accepted, test mode aside.
THEOREM DeliveredSound == Spec => []DeliveredMeansReceived
<1>1. SafeInv => DeliveredMeansReceived
  BY DEF SafeInv, RowInv, Received, DeliveredMeansReceived
<1> QED
  BY <1>1, SafeInvariant, PTL

\* A dead-lettered queue row has a failed delivery, or one the test-mode UPDATE
\* repainted, and its dead_letters row unless the 90 day retention deleted it.
THEOREM DeadLetterSound == Spec => []DeadLetterAccounted
<1>1. SafeInv => DeadLetterAccounted
  BY DEF SafeInv, RowInv, Accounted, DeadLetterAccounted
<1> QED
  BY <1>1, SafeInvariant, PTL

-----------------------------------------------------------------------------
(* Without stalls: who owns a row, and what the attempt log says.          *)

Publishing(d) == publisher[d] \in {"publish", "publish_replay"}

\* A row has one task, which knows its attempt number, and no reaper holds it.
OwnerInv(d) ==
    \A w \in Workers : Live(w, d) =>
        /\ deliveries[d] # "absent"
        /\ \A v \in Workers : Live(v, d) => v = w
        /\ \A v \in Workers : stuck[v][d] = "no"
        /\ Exists(d) => queue[d] = "processing" /\ attempt[w][d] = attempt_count[d] + 1

\* A reaper's snapshot is at worst out of date about a reset.
StuckInv(d) ==
    \A w \in Workers : stuck[w][d] # "no" =>
        stuck[w][d] = "reset" /\ queue[d] \notin Finished /\ deliveries[d] # "absent"

CountInv(d) ==
    /\ queue[d] \in {"pending", "processing"} => attempt_count[d] < MaxAttempts
    /\ queue[d] = "none" => attempt_count[d] = 0

\* A row is only created by the delivery's publisher or, after it, by a reaper.
FreshInv(d) ==
    /\ deliveries[d] = "absent" =>
          /\ publisher[d] = "idle" /\ test_mark[d] = "no" /\ queue[d] = "none"
          /\ \A w \in Workers : d \notin orphans[w]
    /\ Publishing(d) => queue[d] = "none" /\ \A w \in Workers : d \notin orphans[w]
    /\ \A w \in Workers : d \in orphans[w] => publisher[d] = "done"

CalmInv(d) == OwnerInv(d) /\ StuckInv(d) /\ CountInv(d) /\ FreshInv(d)

AllCalm == Calm => \A d \in Deliveries : CalmInv(d)

\* The ownership invariant only depends on what Same keeps.
LEMMA CalmFrame ==
    ASSUME NEW x \in Deliveries, Same(x), CalmInv(x)
    PROVE  CalmInv(x)'
BY DEF Same, CalmInv, OwnerInv, StuckInv, CountInv, FreshInv, Publishing, Live, Exists, Finished

\* The API's steps keep the ownership invariant of their delivery.
LEMMA ApiCalm ==
    ASSUME TypeOK, NEW d \in Deliveries, RowInv(d), CalmInv(d), ApiStep(d)
    PROVE  CalmInv(d)'
<1> USE ConstAssumption DEF TypeOK, CalmInv, OwnerInv, StuckInv, CountInv, FreshInv, Publishing, Live, Exists,
            Finished, apiVars, purgeVars, tableVars, taskVars, reaperVars
<1>1. ASSUME NEW p \in {"publish", "publish_replay", "done"}, NEW m \in {"no", "todo"}, Accept(d, p, m)
      PROVE  CalmInv(d)'
  BY <1>1 DEF Accept
<1>2. CASE PublishToQueue(d)
  <2>1. /\ publisher'[d] \in {"done", "mark_failed"}
        /\ deliveries[d] # "absent"
        /\ queue[d] = "none" /\ attempt_count[d] = 0
        /\ \A w \in Workers : d \notin orphans[w]
    BY <1>2 DEF PublishToQueue, AfterError
  <2>2. UNCHANGED <<deliveries, taskVars, reaperVars>>
    BY <1>2 DEF PublishToQueue
  <2>3. CASE Exists(d) /\ queue'[d] = "pending" /\ attempt_count'[d] = 0
    <3>1. \A w \in Workers : ~Live(w, d)
      BY <2>1, <2>3
    <3> QED
      BY <2>1, <2>2, <2>3, <3>1
  <2>4. CASE UNCHANGED <<queue, attempt_count>>
    BY <2>1, <2>2, <2>4
  <2> QED
    BY <1>2, <2>3, <2>4 DEF PublishToQueue
<1>3. CASE MarkFailed(d)
  BY <1>3 DEF MarkFailed
<1>4. CASE MarkTestDelivered(d)
  BY <1>4 DEF MarkTestDelivered
<1>5. CASE ApiCrash(d)
  BY <1>5 DEF ApiCrash
<1>6. CASE DeleteDelivery(d)
  BY <1>6 DEF DeleteDelivery
<1>7. CASE CleanupWebhookQueue(d)
  BY <1>7 DEF CleanupWebhookQueue, Owned, RowInv, Unstranded
<1>8. CASE PurgeAttempts(d) \/ PurgeDeadLetter(d) \/ ArchiveDelivery(d)
  BY <1>8 DEF PurgeAttempts, PurgeDeadLetter, ArchiveDelivery
<1> QED
  BY <1>1, <1>2, <1>3, <1>4, <1>5, <1>6, <1>7, <1>8
  DEF ApiStep, CreateWebhook, ReplayWebhook, AdminReplay

\* EndTask as the invariant sees it.
LEMMA EndTaskLive ==
    ASSUME TypeOK, NEW w \in Workers, NEW d \in Deliveries, EndTask(w, d)
    PROVE  /\ ~Live(w, d)'
           /\ \A v \in Workers \ {w} : pc'[v][d] = pc[v][d] /\ attempt'[v][d] = attempt[v][d]
BY DEF TypeOK, EndTask, Live

\* A task's steps keep the ownership invariant: the task is the row's only owner.
LEMMA TaskCalm ==
    ASSUME TypeOK, NEW w \in Workers, NEW d \in Deliveries, RowInv(d), CalmInv(d), TaskStep(w, d)
    PROVE  CalmInv(d)'
<1> USE ConstAssumption DEF TypeOK, apiVars, purgeVars, tableVars, taskVars, reaperVars
<1>0. Live(w, d)
  BY DEF TaskStep, CheckDelivered, SkipDelivered, Defer, BuryUnsigned, Send, TaskError, Live,
         Commit, CommitDelivered, DeadLetterDelivery, RetryDelivery, GiveUp
<1>1. /\ deliveries[d] # "absent"
      /\ \A v \in Workers : v # w => ~Live(v, d)
      /\ \A v \in Workers : stuck[v][d] = "no"
      /\ Exists(d) => queue[d] = "processing" /\ attempt[w][d] = attempt_count[d] + 1
  BY <1>0 DEF CalmInv, OwnerInv
<1>2. CASE CheckDelivered(w, d) \/ \E r \in {"ok", "retryable", "fatal"} : Send(w, d, r)
  <2>1. UNCHANGED <<tableVars, apiVars, reaperVars, attempt>>
    BY <1>2 DEF CheckDelivered, Send, Advance
  <2>2. \A v \in Workers : v # w => pc'[v][d] = pc[v][d]
    BY <1>2 DEF CheckDelivered, Send, Advance
  <2>3. \A v \in Workers : v # w => ~Live(v, d)'
    BY <1>1, <2>2 DEF Live
  <2>4. OwnerInv(d)'
    BY <1>1, <2>1, <2>3 DEF OwnerInv, Exists
  <2>5. StuckInv(d)' /\ CountInv(d)' /\ FreshInv(d)'
    BY <2>1 DEF CalmInv, StuckInv, CountInv, FreshInv, Publishing
  <2> QED
    BY <2>4, <2>5 DEF CalmInv
<1>3. ASSUME EndTask(w, d) PROVE \A v \in Workers : ~Live(v, d)'
  <2>1. ~Live(w, d)' /\ \A v \in Workers : v # w => pc'[v][d] = pc[v][d]
    BY <1>3, EndTaskLive
  <2> QED
    BY <1>1, <2>1 DEF Live
<1>4. CASE SkipDelivered(w, d) \/ Defer(w, d)
  <2>1. \A v \in Workers : ~Live(v, d)'
    BY <1>3, <1>4 DEF SkipDelivered, Defer
  <2>2. \/ queue'[d] = queue[d]
        \/ queue[d] # "none" /\ queue'[d] \in {"pending", "delivered"}
    BY <1>4 DEF SkipDelivered, Defer, SetQueue
  <2>3. UNCHANGED <<deliveries, attempt_count, apiVars, reaperVars>>
    BY <1>4 DEF SkipDelivered, Defer
  <2>4. queue[d] # "none" => queue[d] = "processing"
    BY <1>1 DEF RowInv, ForeignKey
  <2> QED
    BY <1>1, <2>1, <2>2, <2>3, <2>4 DEF CalmInv, OwnerInv, StuckInv, CountInv, FreshInv, Publishing, Exists, Finished
<1>5. CASE BuryUnsigned(w, d)
  <2>1. \A v \in Workers : ~Live(v, d)'
    BY <1>3, <1>5 DEF BuryUnsigned
  <2>2. queue'[d] = queue[d] \/ (queue[d] # "none" /\ queue'[d] = "dead_letter")
    BY <1>5 DEF BuryUnsigned, SetQueue
  <2>3. deliveries'[d] = deliveries[d] \/ deliveries'[d] = "failed"
    BY <1>5 DEF BuryUnsigned
  <2>4. UNCHANGED <<attempt_count, apiVars, reaperVars>>
    BY <1>5 DEF BuryUnsigned
  <2> QED
    BY <1>1, <2>1, <2>2, <2>3, <2>4 DEF CalmInv, OwnerInv, StuckInv, CountInv, FreshInv, Publishing, Exists, Finished
<1>6. CASE Commit(w, d)
  <2>1. PICK s \in {"delivered", "dead_letter", "pending"} :
            RecordOutcome(w, d, s) /\ (s = "pending" => RetryDelivery(w, d))
    BY <1>6 DEF Commit, CommitDelivered, DeadLetterDelivery, RetryDelivery
  <2>2. Exists(d) /\ queue[d] = "processing" /\ attempt[w][d] = attempt_count[d] + 1
    BY <1>1, <2>1 DEF RecordOutcome
  <2>3. \A v \in Workers : ~Live(v, d)'
    BY <1>3, <2>1 DEF RecordOutcome
  <2>4. queue'[d] = s /\ attempt_count'[d] = attempt_count[d] + 1
    BY <2>1, <2>2 DEF RecordOutcome, SetQueue
  <2>5. s = "pending" => attempt_count[d] + 1 < MaxAttempts
    BY <2>1, <2>2 DEF RetryDelivery, GiveUp
  <2>6. deliveries'[d] # "absent"
    BY <1>6, <1>1 DEF Commit, CommitDelivered, DeadLetterDelivery, RetryDelivery
  <2>7. UNCHANGED <<apiVars, reaperVars>>
    BY <2>1 DEF RecordOutcome
  <2>8. OwnerInv(d)' /\ StuckInv(d)'
    BY <1>1, <2>3, <2>7 DEF OwnerInv, StuckInv
  <2>9. CountInv(d)'
    BY <2>4, <2>5 DEF CountInv
  <2>10. FreshInv(d)'
    BY <2>2, <2>4, <2>6, <2>7 DEF CalmInv, FreshInv, Publishing
  <2> QED
    BY <2>8, <2>9, <2>10 DEF CalmInv
<1>7. CASE TaskError(w, d)
  <2>1. \A v \in Workers : ~Live(v, d)'
    BY <1>3, <1>7 DEF TaskError
  <2> QED
    BY <1>7, <2>1 DEF TaskError, CalmInv, OwnerInv, StuckInv, CountInv, FreshInv, Publishing
<1> QED
  BY <1>2, <1>4, <1>5, <1>6, <1>7 DEF TaskStep

\* Claims, crashes and the reapers keep the ownership invariant of each row.
LEMMA WorkerCalm ==
    ASSUME Calm, TypeOK, NEW w \in Workers, NEW x \in Deliveries, RowInv(x), CalmInv(x),
           \/ \E S \in SUBSET Deliveries, b \in BOOLEAN : ClaimPending(w, S, b)
           \/ WorkerCrash(w)
           \/ \E S \in SUBSET Deliveries : SelectStuck(w, S) \/ SelectOrphans(w, S)
           \/ \E b \in BOOLEAN : ReapZombies(w, b)
    PROVE  CalmInv(x)'
<1> USE ConstAssumption DEF TypeOK, apiVars, purgeVars, tableVars, taskVars, reaperVars
<1>1. ASSUME NEW S \in SUBSET Deliveries, NEW b \in BOOLEAN, ClaimPending(w, S, b)
      PROVE  CalmInv(x)'
  <2> DEFINE p == [d \in Deliveries |-> IF d \in S THEN "claimed" ELSE "idle"]
             a == [d \in Deliveries |-> IF d \in S THEN attempt_count[d] + 1 ELSE 0]
  <2>1. \/ UNCHANGED <<pc, attempt>>
        \/ pc' = [pc EXCEPT ![w] = p] /\ attempt' = [attempt EXCEPT ![w] = a]
    BY <1>1 DEF ClaimPending
  <2>2. UNCHANGED <<deliveries, attempt_count, apiVars, reaperVars>>
    BY <1>1 DEF ClaimPending
  <2>3. CASE x \in S
    <3>1. queue[x] = "pending" /\ queue'[x] = "processing" /\ \A v \in Workers : stuck[v][x] = "no"
      BY <1>1, <2>3 DEF ClaimPending, Claimable
    <3>2. Exists(x) /\ \A v \in Workers : ~Live(v, x)
      BY <3>1 DEF RowInv, ForeignKey, CalmInv, OwnerInv
    <3>3. /\ p[x] = "claimed" /\ a[x] = attempt_count[x] + 1
      BY <2>3
    <3>4. \A v \in Workers : Live(v, x)' => v = w /\ attempt'[v][x] = attempt_count[x] + 1
      <4> HIDE DEF p, a
      <4> QED
        BY <2>1, <3>2, <3>3 DEF Live
    <3> QED
      BY <2>2, <3>1, <3>2, <3>4 DEF CalmInv, OwnerInv, StuckInv, CountInv, FreshInv, Publishing, Exists, Finished
  <2>4. CASE x \notin S
    <3>1. queue'[x] = queue[x]
      BY <1>1, <2>4 DEF ClaimPending
    <3>2. p[x] = "idle" /\ ~Live(w, x)
      BY <1>1, <2>4 DEF ClaimPending, Idle
    <3>3. \A v \in Workers : Live(v, x)' => Live(v, x) /\ attempt'[v][x] = attempt[v][x]
      <4> HIDE DEF p, a
      <4> QED
        BY <2>1, <3>2 DEF Live
    <3> QED
      BY <2>2, <3>1, <3>3 DEF CalmInv, OwnerInv, StuckInv, CountInv, FreshInv, Publishing, Exists
  <2> QED
    BY <2>3, <2>4
<1>2. CASE WorkerCrash(w)
  <2>1. \A v \in Workers : /\ Live(v, x)' => Live(v, x) /\ attempt'[v][x] = attempt[v][x]
                           /\ stuck'[v][x] # "no" => stuck'[v][x] = stuck[v][x]
                           /\ x \in orphans'[v] => x \in orphans[v]
    BY <1>2 DEF WorkerCrash, Live
  <2> QED
    BY <1>2, <2>1 DEF WorkerCrash, CalmInv, OwnerInv, StuckInv, CountInv, FreshInv, Publishing, Exists
<1>3. ASSUME NEW S \in SUBSET Deliveries, SelectStuck(w, S)
      PROVE  CalmInv(x)'
  <2>1. \A v \in Workers : \/ stuck'[v][x] = stuck[v][x]
                           \/ stuck'[v][x] = "no"
                           \/ /\ queue[x] = "processing" /\ ~Owned(x)
                              /\ stuck'[v][x] = IF attempt_count[x] >= MaxAttempts THEN "bury" ELSE "reset"
    BY <1>3 DEF SelectStuck, Stuck
  <2>2. queue[x] = "processing" => attempt_count[x] < MaxAttempts /\ deliveries[x] # "absent"
    BY DEF CalmInv, CountInv, RowInv, ForeignKey, Exists
  <2>3. \A v \in Workers : \/ stuck'[v][x] = stuck[v][x]
                           \/ stuck'[v][x] = "no"
                           \/ stuck'[v][x] = "reset" /\ queue[x] = "processing" /\ ~Owned(x)
    BY <2>1, <2>2
  <2> QED
    BY <1>3, <2>2, <2>3 DEF SelectStuck, Owned, CalmInv, OwnerInv, StuckInv, CountInv, FreshInv, Publishing,
                     Live, Exists, Finished
<1>4. ASSUME NEW S \in SUBSET Deliveries, SelectOrphans(w, S)
      PROVE  CalmInv(x)'
  <2>1. \A v \in Workers : x \in orphans'[v] =>
            x \in orphans[v] \/ (deliveries[x] = "pending" /\ publisher[x] = "done")
    BY <1>4 DEF SelectOrphans, Orphaned
  <2> QED
    BY <1>4, <2>1 DEF SelectOrphans, CalmInv, OwnerInv, StuckInv, CountInv, FreshInv, Publishing, Live, Exists
<1>5. ASSUME NEW b \in BOOLEAN, ReapZombies(w, b)
      PROVE  CalmInv(x)'
  <2>1. stuck[w][x] \in {"no", "reset"}
    BY DEF CalmInv, StuckInv
  <2>2. deliveries'[x] = deliveries[x] /\ attempt_count'[x] = attempt_count[x]
    BY <1>5, <2>1 DEF ReapZombies
  <2>3. \/ queue'[x] = queue[x]
        \/ queue[x] # "none" /\ queue'[x] = "pending" /\ stuck[w][x] # "no"
    BY <1>5, <2>1 DEF ReapZombies
  <2>4. \A v \in Workers : stuck'[v][x] # "no" => stuck'[v][x] = stuck[v][x]
    BY <1>5 DEF ReapZombies
  <2>5. queue'[x] = queue[x] \/ (queue[x] \in {"pending", "processing"} /\ queue'[x] = "pending" /\ \A v \in Workers : ~Live(v, x))
    BY <2>1, <2>3 DEF CalmInv, StuckInv, OwnerInv, QueueStatus, Finished
  <2>6. UNCHANGED <<apiVars, taskVars, orphans>>
    BY <1>5 DEF ReapZombies
  <2> QED
    BY <2>2, <2>4, <2>5, <2>6 DEF CalmInv, OwnerInv, StuckInv, CountInv, FreshInv, Publishing, Live, Exists, Finished
<1> QED
  BY <1>1, <1>2, <1>3, <1>4, <1>5

\* Re-queueing an orphan keeps the ownership invariant: its new row has no owner.
LEMMA InsertCalm ==
    ASSUME TypeOK, NEW w \in Workers, NEW d \in Deliveries, RowInv(d), CalmInv(d), InsertOrphan(w, d)
    PROVE  CalmInv(d)'
<1> USE ConstAssumption DEF TypeOK, apiVars, purgeVars, tableVars, taskVars, reaperVars
<1>1. queue'[d] = queue[d] \/ (queue[d] = "none" /\ queue'[d] = "pending" /\ Exists(d) /\ d \in orphans[w])
  BY DEF InsertOrphan
<1>2. \A v \in Workers : d \in orphans'[v] => d \in orphans[v]
  BY DEF InsertOrphan
<1>3. UNCHANGED <<deliveries, attempt_count, apiVars, taskVars, stuck>>
  BY DEF InsertOrphan
<1>4. CASE queue'[d] = queue[d]
  BY <1>2, <1>3, <1>4 DEF CalmInv, OwnerInv, StuckInv, CountInv, FreshInv, Publishing, Live, Exists
<1>5. CASE queue[d] = "none" /\ queue'[d] = "pending" /\ Exists(d) /\ d \in orphans[w]
  <2>1. /\ \A v \in Workers : ~Live(v, d)
        /\ deliveries[d] # "absent" /\ ~Publishing(d)
        /\ attempt_count[d] = 0
    BY <1>5 DEF CalmInv, OwnerInv, CountInv, FreshInv
  <2>2. OwnerInv(d)' /\ StuckInv(d)'
    BY <1>3, <1>5, <2>1 DEF CalmInv, OwnerInv, StuckInv, Live, Finished
  <2>3. CountInv(d)' /\ FreshInv(d)'
    BY <1>2, <1>3, <1>5, <2>1 DEF CalmInv, CountInv, FreshInv, Publishing
  <2> QED
    BY <2>2, <2>3 DEF CalmInv
<1> QED
  BY <1>1, <1>4, <1>5

\* The ownership invariant holds at the start.
LEMMA InitCalm == Init => AllCalm
<1> SUFFICES ASSUME Init, NEW d \in Deliveries PROVE CalmInv(d)
  BY DEF AllCalm
<1> QED
  BY DEF Init, CalmInv, OwnerInv, StuckInv, CountInv, FreshInv, Publishing, Live

\* Without stalls every step keeps the ownership invariant.
LEMMA StepCalm ==
    ASSUME SafeInv, AllCalm, [Next]_vars
    PROVE  AllCalm'
<1> SUFFICES ASSUME Calm, NEW x \in Deliveries PROVE CalmInv(x)'
  BY DEF AllCalm, Calm
<1>1. TypeOK /\ RowInv(x) /\ CalmInv(x)
  BY DEF SafeInv, AllCalm
<1>2. ASSUME NEW d \in Deliveries, ApiStep(d) PROVE CalmInv(x)'
  BY <1>1, <1>2, ApiFrame, CalmFrame, ApiCalm
<1>3. ASSUME Same(x) PROVE CalmInv(x)'
  BY <1>1, <1>3, CalmFrame
<1>4. ASSUME NEW e \in Endpoints, SetActive(e) PROVE CalmInv(x)'
  BY <1>3, <1>4 DEF SetActive, Same, tableVars, apiVars, purgeVars, taskVars, reaperVars
<1>5. ASSUME NEW w \in Workers, WorkerStep(w) PROVE CalmInv(x)'
  <2>1. ASSUME NEW d \in Deliveries, TaskStep(w, d) PROVE CalmInv(x)'
    BY <1>1, <2>1, TaskFrame, CalmFrame, TaskCalm
  <2>2. ASSUME NEW d \in Deliveries, InsertOrphan(w, d) PROVE CalmInv(x)'
    BY <1>1, <2>2, InsertFrame, CalmFrame, InsertCalm
  <2> QED
    BY <1>1, <1>5, <2>1, <2>2, WorkerCalm DEF WorkerStep, ReaperStep
<1>6. CASE UNCHANGED vars
  BY <1>3, <1>6 DEF vars, Same, tableVars, apiVars, purgeVars, taskVars, reaperVars
<1> QED
  BY <1>2, <1>4, <1>5, <1>6 DEF Next

\* Without stalls, the ownership invariant holds in every reachable state.
THEOREM CalmInvariant == Spec => []AllCalm
<1>1. SafeInv /\ AllCalm /\ [Next]_vars => AllCalm'
  BY StepCalm
<1> QED
  BY <1>1, InitCalm, SafeInvariant, PTL DEF Spec

\* Without stalls every claimed row has one owner among all workers' tasks, and
\* no reaper holds a decision about it.
THEOREM SingleOwner == Spec => []OneOwner
<1>1. AllCalm => OneOwner
  BY DEF AllCalm, CalmInv, OwnerInv, OneOwner
<1> QED
  BY <1>1, CalmInvariant, PTL

\* What "advisory locks prevent duplicate delivery by concurrent workers"
\* (docs/adr/003) promises holds as long as no process pauses past the reapers'
\* thresholds: the claim and the thresholds do it, without any such lock.
THEOREM CalmNotConcurrent == ASSUME Calm PROVE Spec => []NoConcurrentDelivery
<1>1. OneOwner => NoConcurrentDelivery
  BY DEF OneOwner, NoConcurrentDelivery
<1> QED
  BY <1>1, SingleOwner, PTL

\* The log of an unfinished row has its latest attempts, and a row is only
\* created for a delivery that has no attempts.
LogInv(d) ==
    /\ queue[d] \in {"pending", "processing"} => LogOf(d)
    /\ deliveries[d] = "absent" \/ Publishing(d) => delivery_attempts[d] = {}
    /\ queue[d] = "none" /\ (deliveries[d] = "pending" \/ \E w \in Workers : d \in orphans[w])
          => delivery_attempts[d] = {}

AllLogged == Calm => \A d \in Deliveries : LogInv(d)

\* What LogOf depends on.
LEMMA LogKept ==
    ASSUME NEW d \in Deliveries, attempt_count'[d] = attempt_count[d],
           delivery_attempts'[d] = delivery_attempts[d], log_purged' = log_purged
    PROVE  LogOf(d)' <=> LogOf(d)
BY DEF LogOf

\* A row without attempts has an empty log.
LEMMA NoAttempts ==
    ASSUME NEW d \in Deliveries, attempt_count'[d] = 0, delivery_attempts'[d] = {}
    PROVE  LogOf(d)'
BY DEF LogOf

\* So has one whose log was just deleted.
LEMMA PurgedLog ==
    ASSUME TypeOK, NEW d \in Deliveries, PurgeAttempts(d)
    PROVE  LogOf(d)'
<1>1. attempt_count'[d] = attempt_count[d] /\ attempt_count[d] \in Nat /\ delivery_attempts'[d] = {}
  BY DEF PurgeAttempts, TypeOK
<1>2. d \in log_purged'
  BY DEF PurgeAttempts
<1>3. attempt_count[d] + 1 \in 1..attempt_count[d] + 1 /\ {} = (attempt_count[d] + 1)..attempt_count[d]
  BY <1>1
<1> QED
  BY <1>1, <1>2, <1>3 DEF LogOf

\* Recording the next attempt prolongs the log.
LEMMA LoggedNext ==
    ASSUME TypeOK, NEW d \in Deliveries, LogOf(d),
           attempt_count'[d] = attempt_count[d] + 1,
           delivery_attempts'[d] = delivery_attempts[d] \cup {attempt_count[d] + 1},
           log_purged' = log_purged
    PROVE  LogOf(d)'
<1>1. attempt_count[d] \in Nat
  BY DEF TypeOK
<1>2. PICK first \in 1..attempt_count[d] + 1 :
          delivery_attempts[d] = first..attempt_count[d] /\ (first = 1 \/ d \in log_purged)
  BY DEF LogOf
<1>3. delivery_attempts'[d] = first..(attempt_count[d] + 1)
  BY <1>1, <1>2
<1>4. first \in 1..(attempt_count[d] + 1) + 1
  BY <1>1, <1>2
<1> QED
  BY <1>2, <1>3, <1>4 DEF LogOf

\* The log's invariant only depends on what Same keeps.
LEMMA LogFrame ==
    ASSUME NEW x \in Deliveries, Same(x), LogInv(x)
    PROVE  LogInv(x)'
BY DEF Same, LogInv, LogOf, Publishing

\* The API's steps keep the log's invariant of their delivery.
LEMMA ApiLog ==
    ASSUME TypeOK, NEW d \in Deliveries, RowInv(d), CalmInv(d), LogInv(d), ApiStep(d)
    PROVE  LogInv(d)'
<1> USE DEF TypeOK, CalmInv, CountInv, FreshInv, LogInv, Publishing, Exists,
            apiVars, purgeVars, tableVars, taskVars, reaperVars
<1>1. ASSUME NEW p \in {"publish", "publish_replay", "done"}, NEW m \in {"no", "todo"}, Accept(d, p, m)
      PROVE  LogInv(d)'
  BY <1>1 DEF Accept
<1>2. CASE PublishToQueue(d)
  <2>1. /\ publisher'[d] \in {"done", "mark_failed"} /\ Publishing(d)
        /\ queue[d] = "none" /\ delivery_attempts[d] = {} /\ attempt_count[d] = 0
    BY <1>2 DEF PublishToQueue, AfterError
  <2>2. UNCHANGED <<deliveries, delivery_attempts, orphans>>
    BY <1>2 DEF PublishToQueue
  <2>3. attempt_count'[d] = 0
    BY <1>2, <2>1 DEF PublishToQueue
  <2> QED
    BY <2>1, <2>2, <2>3, NoAttempts
<1>3. CASE MarkFailed(d)
  BY <1>3, LogKept DEF MarkFailed
<1>4. CASE MarkTestDelivered(d)
  BY <1>4, LogKept DEF MarkTestDelivered
<1>5. CASE ApiCrash(d)
  BY <1>5, LogKept DEF ApiCrash
<1>6. CASE DeleteDelivery(d)
  BY <1>6 DEF DeleteDelivery
<1>7. CASE CleanupWebhookQueue(d)
  BY <1>7 DEF CleanupWebhookQueue, RowInv, Unstranded
<1>8. CASE PurgeAttempts(d)
  BY <1>8, PurgedLog DEF PurgeAttempts
<1>9. CASE PurgeDeadLetter(d) \/ ArchiveDelivery(d)
  BY <1>9, LogKept DEF PurgeDeadLetter, ArchiveDelivery
<1> QED
  BY <1>1, <1>2, <1>3, <1>4, <1>5, <1>6, <1>7, <1>8, <1>9
  DEF ApiStep, CreateWebhook, ReplayWebhook, AdminReplay

\* A task's steps keep the log's invariant: an outcome logs the next attempt.
LEMMA TaskLog ==
    ASSUME TypeOK, NEW w \in Workers, NEW d \in Deliveries, RowInv(d), CalmInv(d), LogInv(d), TaskStep(w, d)
    PROVE  LogInv(d)'
<1> USE DEF TypeOK, apiVars, purgeVars, tableVars, taskVars, reaperVars
<1>1. /\ deliveries[d] # "absent" /\ (queue[d] # "none" => Exists(d))
      /\ Exists(d) => queue[d] = "processing" /\ attempt[w][d] = attempt_count[d] + 1
  <2>1. Live(w, d)
    BY DEF TaskStep, CheckDelivered, SkipDelivered, Defer, BuryUnsigned, Send, TaskError, Live,
           Commit, CommitDelivered, DeadLetterDelivery, RetryDelivery, GiveUp
  <2> QED
    BY <2>1 DEF CalmInv, OwnerInv, RowInv, ForeignKey
<1>2. CASE CheckDelivered(w, d) \/ TaskError(w, d) \/ \E r \in {"ok", "retryable", "fatal"} : Send(w, d, r)
  BY <1>2, LogKept DEF CheckDelivered, TaskError, Send, LogInv, Publishing
<1>3. CASE SkipDelivered(w, d) \/ Defer(w, d) \/ BuryUnsigned(w, d)
  <2>1. \/ queue'[d] = queue[d]
        \/ queue[d] = "processing" /\ queue'[d] \in {"pending", "delivered", "dead_letter"}
    BY <1>1, <1>3 DEF SkipDelivered, Defer, BuryUnsigned, SetQueue
  <2>2. deliveries'[d] = deliveries[d] \/ (Exists(d) /\ deliveries'[d] = "failed")
    BY <1>3 DEF SkipDelivered, Defer, BuryUnsigned
  <2>3. UNCHANGED <<attempt_count, delivery_attempts, apiVars, reaperVars>>
    BY <1>3 DEF SkipDelivered, Defer, BuryUnsigned
  <2> QED
    BY <1>1, <2>1, <2>2, <2>3, LogKept DEF LogInv, Publishing
<1>4. CASE Commit(w, d)
  <2>1. PICK s \in {"delivered", "dead_letter", "pending"} : RecordOutcome(w, d, s)
    BY <1>4 DEF Commit, CommitDelivered, DeadLetterDelivery, RetryDelivery
  <2>2. Exists(d) /\ queue[d] = "processing" /\ attempt[w][d] = attempt_count[d] + 1
    BY <1>1, <2>1 DEF RecordOutcome
  <2>3. /\ queue'[d] = s /\ attempt_count'[d] = attempt_count[d] + 1
        /\ delivery_attempts'[d] = delivery_attempts[d] \cup {attempt_count[d] + 1}
    BY <2>1, <2>2 DEF RecordOutcome, SetQueue
  <2>4. LogOf(d)'
    BY <2>1, <2>2, <2>3, LoggedNext DEF LogInv, RecordOutcome
  <2>5. deliveries'[d] # "absent"
    BY <1>1, <1>4 DEF Commit, CommitDelivered, DeadLetterDelivery, RetryDelivery
  <2>6. UNCHANGED <<apiVars, reaperVars>>
    BY <2>1 DEF RecordOutcome
  <2> QED
    BY <2>2, <2>3, <2>4, <2>5, <2>6 DEF CalmInv, FreshInv, LogInv, Publishing
<1> QED
  BY <1>2, <1>3, <1>4 DEF TaskStep

\* Claims, crashes and the reapers keep the log's invariant of each row.
LEMMA WorkerLog ==
    ASSUME Calm, TypeOK, NEW w \in Workers, NEW x \in Deliveries, RowInv(x), CalmInv(x), LogInv(x),
           \/ \E S \in SUBSET Deliveries, b \in BOOLEAN : ClaimPending(w, S, b)
           \/ WorkerCrash(w)
           \/ \E S \in SUBSET Deliveries : SelectStuck(w, S) \/ SelectOrphans(w, S)
           \/ \E b \in BOOLEAN : ReapZombies(w, b)
           \/ InsertOrphan(w, x)
    PROVE  LogInv(x)'
<1> USE DEF TypeOK, LogInv, Publishing, apiVars, purgeVars, tableVars, taskVars, reaperVars
<1>1. ASSUME NEW S \in SUBSET Deliveries, NEW b \in BOOLEAN, ClaimPending(w, S, b)
      PROVE  LogInv(x)'
  <2>1. queue'[x] = queue[x] \/ (queue[x] = "pending" /\ queue'[x] = "processing")
    BY <1>1 DEF ClaimPending, Claimable
  <2> QED
    BY <1>1, <2>1, LogKept DEF ClaimPending
<1>2. CASE WorkerCrash(w)
  BY <1>2, LogKept DEF WorkerCrash
<1>3. ASSUME NEW S \in SUBSET Deliveries, SelectStuck(w, S) PROVE LogInv(x)'
  BY <1>3, LogKept DEF SelectStuck
<1>4. ASSUME NEW S \in SUBSET Deliveries, SelectOrphans(w, S) PROVE LogInv(x)'
  <2>1. \A v \in Workers : x \in orphans'[v] => x \in orphans[v] \/ deliveries[x] = "pending"
    BY <1>4 DEF SelectOrphans, Orphaned
  <2> QED
    BY <1>4, <2>1, LogKept DEF SelectOrphans
<1>5. ASSUME NEW b \in BOOLEAN, ReapZombies(w, b) PROVE LogInv(x)'
  <2>1. stuck[w][x] \in {"no", "reset"} /\ (stuck[w][x] # "no" => queue[x] \notin Finished)
    BY DEF CalmInv, StuckInv
  <2>2. deliveries'[x] = deliveries[x] /\ attempt_count'[x] = attempt_count[x]
    BY <1>5, <2>1 DEF ReapZombies
  <2>3. queue'[x] = queue[x] \/ (queue[x] \in {"pending", "processing"} /\ queue'[x] = "pending")
    BY <1>5, <2>1 DEF ReapZombies, QueueStatus, Finished
  <2>4. UNCHANGED <<delivery_attempts, apiVars, orphans>>
    BY <1>5 DEF ReapZombies
  <2> QED
    BY <2>2, <2>3, <2>4, LogKept
<1>6. CASE InsertOrphan(w, x)
  <2>1. queue'[x] = queue[x] \/ (queue[x] = "none" /\ queue'[x] = "pending" /\ x \in orphans[w])
    BY <1>6 DEF InsertOrphan
  <2>2. \A v \in Workers : x \in orphans'[v] => x \in orphans[v]
    BY <1>6 DEF InsertOrphan
  <2>3. queue[x] = "none" => attempt_count[x] = 0
    BY DEF CalmInv, CountInv
  <2>4. UNCHANGED <<deliveries, attempt_count, delivery_attempts, apiVars>>
    BY <1>6 DEF InsertOrphan
  <2> QED
    BY <2>1, <2>2, <2>3, <2>4, NoAttempts, LogKept
<1> QED
  BY <1>1, <1>2, <1>3, <1>4, <1>5, <1>6

\* Without stalls, the log's invariant holds in every reachable state.
THEOREM LogInvariant == Spec => []AllLogged
<1>1. Init => AllLogged
  BY DEF Init, AllLogged, LogInv, Publishing
<1>2. SafeInv /\ AllCalm /\ AllLogged /\ [Next]_vars => AllLogged'
  <2> SUFFICES ASSUME Calm, SafeInv, AllCalm, AllLogged, [Next]_vars, NEW x \in Deliveries
               PROVE  LogInv(x)'
    BY DEF AllLogged, Calm
  <2>1. TypeOK /\ RowInv(x) /\ CalmInv(x) /\ LogInv(x)
    BY DEF SafeInv, AllCalm, AllLogged
  <2>2. ASSUME NEW d \in Deliveries, ApiStep(d) PROVE LogInv(x)'
    BY <2>1, <2>2, ApiFrame, LogFrame, ApiLog
  <2>3. ASSUME Same(x) PROVE LogInv(x)'
    BY <2>1, <2>3, LogFrame
  <2>4. ASSUME NEW e \in Endpoints, SetActive(e) PROVE LogInv(x)'
    BY <2>3, <2>4 DEF SetActive, Same, tableVars, apiVars, purgeVars, taskVars, reaperVars
  <2>5. ASSUME NEW w \in Workers, WorkerStep(w) PROVE LogInv(x)'
    <3>1. ASSUME NEW d \in Deliveries, TaskStep(w, d) PROVE LogInv(x)'
      BY <2>1, <3>1, TaskFrame, LogFrame, TaskLog
    <3>2. ASSUME NEW d \in Deliveries, InsertOrphan(w, d) PROVE LogInv(x)'
      BY <2>1, <3>2, InsertFrame, LogFrame, WorkerLog
    <3> QED
      BY <2>1, <2>5, <3>1, <3>2, WorkerLog DEF WorkerStep, ReaperStep
  <2>6. CASE UNCHANGED vars
    BY <2>3, <2>6 DEF vars, Same, tableVars, apiVars, purgeVars, taskVars, reaperVars
  <2> QED
    BY <2>2, <2>4, <2>5, <2>6 DEF Next
<1> QED
  BY <1>1, <1>2, SafeInvariant, CalmInvariant, PTL DEF Spec

\* Without stalls the attempt log of an unfinished row is first..attempt_count,
\* below max_attempts, from the first attempt on unless retention has deleted
\* some, and the running attempt is the next.
THEOREM LogAgrees == Spec => []AttemptsLogged
<1>1. AllCalm /\ AllLogged => AttemptsLogged
  BY DEF AllCalm, AllLogged, CalmInv, OwnerInv, CountInv, LogInv, AttemptsLogged
<1> QED
  BY <1>1, CalmInvariant, LogInvariant, PTL

\* Without stalls no step takes a finished row up again.
LEMMA StepFinished ==
    ASSUME SafeInv, AllCalm, Next, Calm, NEW x \in Deliveries, queue[x] \in Finished
    PROVE  queue'[x] \in {queue[x], "none"}
<1> USE DEF TypeOK, Finished, apiVars, purgeVars, tableVars, taskVars, reaperVars
<1>0. TypeOK /\ RowInv(x) /\ CalmInv(x)
  BY DEF SafeInv, AllCalm
<1>1. \A w \in Workers : ~Live(w, x) /\ stuck[w][x] = "no"
  BY <1>0 DEF RowInv, ForeignKey, CalmInv, OwnerInv, StuckInv
<1>2. ASSUME Same(x) PROVE queue'[x] = queue[x]
  BY <1>2 DEF Same
<1>3. ASSUME NEW d \in Deliveries, ApiStep(d) PROVE queue'[x] \in {queue[x], "none"}
  <2>1. CASE d # x
    BY <1>0, <1>2, <1>3, <2>1, ApiFrame
  <2>2. CASE d = x
    BY <1>0, <1>3, <2>2 DEF ApiStep, CreateWebhook, ReplayWebhook, AdminReplay, Accept, PublishToQueue,
       MarkFailed, MarkTestDelivered, ApiCrash, PurgeAttempts, PurgeDeadLetter, ArchiveDelivery,
       DeleteDelivery, CleanupWebhookQueue
  <2> QED
    BY <2>1, <2>2
<1>4. ASSUME NEW e \in Endpoints, SetActive(e) PROVE queue'[x] = queue[x]
  BY <1>4 DEF SetActive
<1>5. ASSUME NEW w \in Workers, WorkerStep(w) PROVE queue'[x] \in {queue[x], "none"}
  <2>1. ASSUME NEW d \in Deliveries, TaskStep(w, d) PROVE queue'[x] = queue[x]
    <3>1. Live(w, d)
      BY <2>1 DEF TaskStep, CheckDelivered, SkipDelivered, Defer, BuryUnsigned, Send, TaskError,
                  Live, Commit, CommitDelivered, DeadLetterDelivery, RetryDelivery, GiveUp
    <3>2. d # x
      BY <1>1, <3>1
    <3> QED
      BY <1>0, <1>2, <2>1, <3>2, TaskFrame
  <2>2. ASSUME NEW d \in Deliveries, InsertOrphan(w, d) PROVE queue'[x] = queue[x]
    BY <1>0, <2>2 DEF InsertOrphan
  <2>3. ASSUME NEW S \in SUBSET Deliveries, NEW b \in BOOLEAN, ClaimPending(w, S, b)
        PROVE  queue'[x] = queue[x]
    BY <1>0, <2>3 DEF ClaimPending, Claimable
  <2>4. ASSUME NEW b \in BOOLEAN, ReapZombies(w, b) PROVE queue'[x] = queue[x]
    BY <1>0, <1>1, <2>4 DEF ReapZombies
  <2>5. CASE WorkerCrash(w) \/ \E S \in SUBSET Deliveries : SelectStuck(w, S) \/ SelectOrphans(w, S)
    BY <2>5 DEF WorkerCrash, SelectStuck, SelectOrphans
  <2> QED
    BY <1>5, <2>1, <2>2, <2>3, <2>4, <2>5 DEF WorkerStep, ReaperStep
<1> QED
  BY <1>3, <1>4, <1>5 DEF Next

\* Without stalls no statement of any process takes a finished row up again.
THEOREM FinishedRowsStay == Spec => FinishedStays
<1> DEFINE Stays == Calm => \A d \in Deliveries :
                        queue[d] \in Finished => queue'[d] \in {queue[d], "none"}
<1>1. SafeInv /\ AllCalm /\ [Next]_vars => [Stays]_vars
  BY StepFinished
<1> QED
  BY <1>1, SafeInvariant, CalmInvariant, PTL DEF Spec, FinishedStays

-----------------------------------------------------------------------------
(* Without stalls, lost replies and test keys: the state that implements   *)
(* the contract.                                                           *)

Undisturbed == Faults = {} /\ "test" \notin Sources

\* A row that may still be worked on belongs to a pending delivery.
SettleInv(d) ==
    /\ test_mark[d] = "no"
    /\ queue[d] \in {"pending", "processing"} => deliveries[d] = "pending"
    /\ publisher[d] = "mark_failed" => queue[d] = "none" /\ \A w \in Workers : d \notin orphans[w]
    /\ queue[d] = "none" /\ Exists(d) /\
       (Publishing(d) \/ publisher[d] = "mark_failed" \/ \E w \in Workers : d \in orphans[w])
          => deliveries[d] = "pending"

AllSettle == Undisturbed => \A d \in Deliveries : SettleInv(d)

\* The settlement invariant only depends on what Same keeps.
LEMMA SettleFrame ==
    ASSUME NEW x \in Deliveries, Same(x), SettleInv(x)
    PROVE  SettleInv(x)'
BY DEF Same, SettleInv, Publishing, Exists

\* The step of a task is taken for a delivery that is pending or erased.
LEMMA LivePending ==
    ASSUME NEW w \in Workers, NEW d \in Deliveries, Live(w, d), TypeOK, CalmInv(d), SettleInv(d)
    PROVE  deliveries[d] \in {"pending", "deleted"}
BY DEF CalmInv, OwnerInv, SettleInv, Exists, TypeOK, DeliveryStatus

\* The API's steps keep the settlement invariant of their delivery.
LEMMA ApiSettle ==
    ASSUME Undisturbed, TypeOK, NEW d \in Deliveries, RowInv(d), CalmInv(d), SettleInv(d), ApiStep(d)
    PROVE  SettleInv(d)'
<1> USE DEF TypeOK, SettleInv, Publishing, Exists, apiVars, purgeVars, tableVars, taskVars, reaperVars
<1>1. ASSUME NEW p \in {"publish", "publish_replay", "done"}, Accept(d, p, "no")
      PROVE  SettleInv(d)'
  BY <1>1 DEF Accept, CalmInv, FreshInv
<1>2. CASE PublishToQueue(d)
  <2>1. queue[d] = "none" /\ \A w \in Workers : d \notin orphans[w]
    BY <1>2 DEF PublishToQueue, CalmInv, FreshInv
  <2>2. UNCHANGED <<deliveries, test_mark, orphans>>
    BY <1>2 DEF PublishToQueue
  <2>3. \/ Exists(d) /\ queue'[d] = "pending" /\ publisher'[d] = "done"
        \/ queue'[d] = queue[d] /\ publisher'[d] \in {"mark_failed", "done"}
    BY <1>2 DEF PublishToQueue, AfterError, Undisturbed
  <2>4. Exists(d) => deliveries[d] = "pending"
    BY <1>2, <2>1 DEF PublishToQueue
  <2> QED
    BY <2>1, <2>2, <2>3, <2>4
<1>3. CASE MarkFailed(d)
  BY <1>3 DEF MarkFailed
<1>4. CASE MarkTestDelivered(d)
  BY <1>4 DEF MarkTestDelivered
<1>5. CASE ApiCrash(d)
  BY <1>5 DEF ApiCrash
<1>6. CASE DeleteDelivery(d)
  BY <1>6 DEF DeleteDelivery
<1>7. CASE CleanupWebhookQueue(d)
  BY <1>7 DEF CleanupWebhookQueue
<1>8. CASE PurgeAttempts(d) \/ PurgeDeadLetter(d) \/ ArchiveDelivery(d)
  BY <1>8 DEF PurgeAttempts, PurgeDeadLetter, ArchiveDelivery
<1> QED
  BY <1>1, <1>2, <1>3, <1>4, <1>5, <1>6, <1>7, <1>8
  DEF ApiStep, CreateWebhook, ReplayWebhook, AdminReplay, Undisturbed

\* A task's steps keep the settlement invariant of its delivery.
LEMMA TaskSettle ==
    ASSUME TypeOK, NEW w \in Workers, NEW d \in Deliveries, RowInv(d), CalmInv(d), SettleInv(d), TaskStep(w, d)
    PROVE  SettleInv(d)'
<1> USE DEF TypeOK, apiVars, purgeVars, tableVars, taskVars, reaperVars
<1>1. Live(w, d)
  BY DEF TaskStep, CheckDelivered, SkipDelivered, Defer, BuryUnsigned, Send, TaskError, Live,
         Commit, CommitDelivered, DeadLetterDelivery, RetryDelivery, GiveUp
<1>2. Exists(d) => queue[d] = "processing"
  BY <1>1 DEF CalmInv, OwnerInv
<1>3. ~Exists(d) => queue[d] = "none"
  BY DEF RowInv, ForeignKey
<1>4. UNCHANGED <<apiVars, reaperVars>>
  BY DEF TaskStep, CheckDelivered, SkipDelivered, Defer, BuryUnsigned, Send, TaskError,
         Commit, CommitDelivered, DeadLetterDelivery, RetryDelivery, RecordOutcome
<1>5. \/ queue'[d] = queue[d] /\ deliveries'[d] = deliveries[d]
      \/ Exists(d) /\ queue'[d] = "pending" /\ deliveries'[d] = deliveries[d]
      \/ Exists(d) /\ queue'[d] \in Finished
  <2>1. CASE CheckDelivered(w, d) \/ TaskError(w, d) \/ \E r \in {"ok", "retryable", "fatal"} : Send(w, d, r)
    BY <2>1 DEF CheckDelivered, TaskError, Send
  <2>2. CASE SkipDelivered(w, d) \/ Defer(w, d)
    BY <1>3, <2>2 DEF SkipDelivered, Defer, SetQueue, Finished
  <2>3. CASE BuryUnsigned(w, d)
    BY <1>2, <1>3, <2>3 DEF BuryUnsigned, SetQueue, Finished
  <2>4. CASE CommitDelivered(w, d) \/ DeadLetterDelivery(w, d)
    BY <1>2, <2>4 DEF CommitDelivered, DeadLetterDelivery, RecordOutcome, SetQueue, Finished
  <2>5. CASE RetryDelivery(w, d)
    BY <1>2, <2>5 DEF RetryDelivery, RecordOutcome, SetQueue, Finished
  <2> QED
    BY <2>1, <2>2, <2>3, <2>4, <2>5 DEF TaskStep, Commit
<1> QED
  BY <1>2, <1>4, <1>5 DEF SettleInv, Publishing, Exists, Finished

\* Claims, crashes and the reapers keep the settlement invariant.
LEMMA WorkerSettle ==
    ASSUME Calm, TypeOK, NEW w \in Workers, NEW x \in Deliveries, RowInv(x), CalmInv(x), SettleInv(x),
           \/ \E S \in SUBSET Deliveries, b \in BOOLEAN : ClaimPending(w, S, b)
           \/ WorkerCrash(w)
           \/ \E S \in SUBSET Deliveries : SelectStuck(w, S) \/ SelectOrphans(w, S)
           \/ \E b \in BOOLEAN : ReapZombies(w, b)
           \/ InsertOrphan(w, x)
    PROVE  SettleInv(x)'
<1> USE DEF TypeOK, SettleInv, Publishing, Exists, apiVars, purgeVars, tableVars, taskVars, reaperVars
<1>1. ASSUME NEW S \in SUBSET Deliveries, NEW b \in BOOLEAN, ClaimPending(w, S, b)
      PROVE  SettleInv(x)'
  <2>1. queue'[x] = queue[x] \/ (queue[x] = "pending" /\ queue'[x] = "processing")
    BY <1>1 DEF ClaimPending, Claimable
  <2> QED
    BY <1>1, <2>1 DEF ClaimPending
<1>2. CASE WorkerCrash(w)
  BY <1>2 DEF WorkerCrash
<1>3. ASSUME NEW S \in SUBSET Deliveries, SelectStuck(w, S) PROVE SettleInv(x)'
  BY <1>3 DEF SelectStuck
<1>4. ASSUME NEW S \in SUBSET Deliveries, SelectOrphans(w, S) PROVE SettleInv(x)'
  <2>1. \A v \in Workers : x \in orphans'[v] =>
            x \in orphans[v] \/ (deliveries[x] = "pending" /\ publisher[x] = "done")
    BY <1>4 DEF SelectOrphans, Orphaned
  <2> QED
    BY <1>4, <2>1 DEF SelectOrphans
<1>5. ASSUME NEW b \in BOOLEAN, ReapZombies(w, b) PROVE SettleInv(x)'
  <2>1. stuck[w][x] \in {"no", "reset"}
    BY DEF CalmInv, StuckInv
  <2>2. deliveries'[x] = deliveries[x]
    BY <1>5, <2>1 DEF ReapZombies
  <2>3. queue'[x] = queue[x] \/ (queue[x] # "none" /\ queue'[x] = "pending" /\ stuck[w][x] # "no")
    BY <1>5, <2>1 DEF ReapZombies
  <2>4. queue'[x] = queue[x] \/ (queue[x] \in {"pending", "processing"} /\ queue'[x] = "pending")
    BY <2>3 DEF CalmInv, StuckInv, QueueStatus, Finished
  <2>5. UNCHANGED <<apiVars, orphans>>
    BY <1>5 DEF ReapZombies
  <2> QED
    BY <2>2, <2>4, <2>5
<1>6. CASE InsertOrphan(w, x)
  <2>1. queue'[x] = queue[x] \/ (queue[x] = "none" /\ queue'[x] = "pending" /\ Exists(x) /\ x \in orphans[w])
    BY <1>6 DEF InsertOrphan
  <2>2. \A v \in Workers : x \in orphans'[v] => x \in orphans[v]
    BY <1>6 DEF InsertOrphan
  <2>3. x \in orphans[w] => publisher[x] = "done"
    BY DEF CalmInv, FreshInv
  <2>4. UNCHANGED <<deliveries, apiVars>>
    BY <1>6 DEF InsertOrphan
  <2> QED
    BY <2>1, <2>2, <2>3, <2>4
<1> QED
  BY <1>1, <1>2, <1>3, <1>4, <1>5, <1>6

\* In an undisturbed deployment a row that may still be worked on belongs to a
\* pending delivery, in every reachable state.
THEOREM SettleInvariant == Spec => []AllSettle
<1>1. Init => AllSettle
  BY DEF Init, AllSettle, SettleInv, Publishing
<1>2. TypeOK /\ SafeInv /\ AllCalm /\ AllSettle /\ [Next]_vars => AllSettle'
  <2> SUFFICES ASSUME Undisturbed, TypeOK, SafeInv, AllCalm, AllSettle, [Next]_vars, NEW x \in Deliveries
               PROVE  SettleInv(x)'
    BY DEF AllSettle, Undisturbed
  <2>0. Calm /\ RowInv(x) /\ CalmInv(x) /\ SettleInv(x)
    BY DEF SafeInv, AllCalm, AllSettle, Calm, Undisturbed
  <2>1. ASSUME NEW d \in Deliveries, ApiStep(d) PROVE SettleInv(x)'
    BY <2>0, <2>1, ApiFrame, SettleFrame, ApiSettle
  <2>2. ASSUME Same(x) PROVE SettleInv(x)'
    BY <2>0, <2>2, SettleFrame
  <2>3. ASSUME NEW e \in Endpoints, SetActive(e) PROVE SettleInv(x)'
    BY <2>2, <2>3 DEF SetActive, Same, tableVars, apiVars, purgeVars, taskVars, reaperVars
  <2>4. ASSUME NEW w \in Workers, WorkerStep(w) PROVE SettleInv(x)'
    <3>1. ASSUME NEW d \in Deliveries, TaskStep(w, d) PROVE SettleInv(x)'
      BY <2>0, <3>1, TaskFrame, SettleFrame, TaskSettle
    <3>2. ASSUME NEW d \in Deliveries, InsertOrphan(w, d) PROVE SettleInv(x)'
      BY <2>0, <3>2, InsertFrame, SettleFrame, WorkerSettle
    <3> QED
      BY <2>0, <2>4, <3>1, <3>2, WorkerSettle DEF WorkerStep, ReaperStep
  <2>5. CASE UNCHANGED vars
    BY <2>2, <2>5 DEF vars, Same, tableVars, apiVars, purgeVars, taskVars, reaperVars
  <2> QED
    BY <2>1, <2>3, <2>4, <2>5 DEF Next
<1> QED
  BY <1>1, <1>2, TypeCorrect, SafeInvariant, CalmInvariant, PTL DEF Spec

\* The contract's step for what the API does to a delivery.
LEMMA ApiRefines ==
    ASSUME Undisturbed, TypeOK, NEW d \in Deliveries, CalmInv(d), SettleInv(d), ApiStep(d)
    PROVE  Contract!ContractNext \/ UNCHANGED <<deliveries, acked>>
<1> USE DEF TypeOK, apiVars, purgeVars, tableVars, taskVars, reaperVars, Exists, Contract!ContractNext, Contract!Become
<1>1. ASSUME NEW p, NEW m, Accept(d, p, m) PROVE Contract!ContractNext
  BY <1>1 DEF Accept, Contract!AcceptWebhook
<1>2. CASE PublishToQueue(d) \/ ApiCrash(d) \/ CleanupWebhookQueue(d)
           \/ PurgeAttempts(d) \/ PurgeDeadLetter(d) \/ ArchiveDelivery(d)
  BY <1>2 DEF PublishToQueue, ApiCrash, CleanupWebhookQueue, PurgeAttempts, PurgeDeadLetter, ArchiveDelivery
<1>3. CASE MarkFailed(d)
  <2>1. Exists(d) => deliveries[d] = "pending"
    BY <1>3 DEF MarkFailed, SettleInv
  <2> QED
    BY <1>3, <2>1 DEF MarkFailed, Contract!SettleFailed
<1>4. CASE MarkTestDelivered(d)
  BY <1>4 DEF MarkTestDelivered, SettleInv
<1>5. CASE DeleteDelivery(d)
  BY <1>5 DEF DeleteDelivery, Contract!Erase
<1> QED
  BY <1>1, <1>2, <1>3, <1>4, <1>5 DEF ApiStep, CreateWebhook, ReplayWebhook, AdminReplay

\* The contract's step for what a delivery task does.
LEMMA TaskRefines ==
    ASSUME TypeOK, NEW w \in Workers, NEW d \in Deliveries, RowInv(d), CalmInv(d), SettleInv(d), TaskStep(w, d)
    PROVE  Contract!ContractNext \/ UNCHANGED <<deliveries, acked>>
<1> USE DEF TypeOK, apiVars, purgeVars, tableVars, taskVars, reaperVars, Contract!ContractNext, Contract!Become
<1>1. deliveries[d] \in {"pending", "deleted"}
  <2>1. Live(w, d)
    BY DEF TaskStep, CheckDelivered, SkipDelivered, Defer, BuryUnsigned, Send, TaskError, Live,
           Commit, CommitDelivered, DeadLetterDelivery, RetryDelivery, GiveUp
  <2> QED
    BY <2>1, LivePending
<1>2. CASE CheckDelivered(w, d) \/ SkipDelivered(w, d) \/ Defer(w, d) \/ TaskError(w, d)
  BY <1>2 DEF CheckDelivered, SkipDelivered, Defer, TaskError
<1>3. ASSUME NEW r \in {"ok", "retryable", "fatal"}, Send(w, d, r)
      PROVE  Contract!ContractNext \/ UNCHANGED <<deliveries, acked>>
  BY <1>1, <1>3 DEF Send, Contract!EndpointAccepts
<1>4. CASE BuryUnsigned(w, d)
  BY <1>1, <1>4 DEF BuryUnsigned, Exists, RecordOutcome, Contract!SettleFailed
<1>5. CASE CommitDelivered(w, d)
  <2>1. d \in acked
    BY <1>5 DEF CommitDelivered, RowInv, Received
  <2> QED
    BY <1>1, <1>5, <2>1 DEF CommitDelivered, RecordOutcome, Exists, Contract!SettleDelivered
<1>6. CASE DeadLetterDelivery(w, d)
  BY <1>1, <1>6 DEF DeadLetterDelivery, RecordOutcome, Exists, Contract!SettleFailed
<1>7. CASE RetryDelivery(w, d)
  BY <1>7 DEF RetryDelivery, RecordOutcome
<1> QED
  BY <1>2, <1>3, <1>4, <1>5, <1>6, <1>7 DEF TaskStep, Commit

\* Without stalls, lost replies and test keys, the pipeline implements the
\* contract: it settles every webhook once, reports it delivered only after
\* the endpoint accepted it, and does not call the endpoint once it is settled.
THEOREM Implementation ==
    ASSUME Undisturbed
    PROVE  Spec => ImplementsContract
<1>1. Init => Contract!ContractInit
  BY DEF Init, Contract!ContractInit
<1>2. TypeOK /\ SafeInv /\ AllCalm /\ AllSettle /\ [Next]_vars => [Contract!ContractNext]_(Contract!cvars)
  <2> SUFFICES ASSUME TypeOK, SafeInv, AllCalm, AllSettle, [Next]_vars
               PROVE  Contract!ContractNext \/ UNCHANGED <<deliveries, acked>>
    BY DEF Contract!cvars
  <2>0. \A x \in Deliveries : RowInv(x) /\ CalmInv(x) /\ SettleInv(x)
    BY DEF SafeInv, AllCalm, AllSettle, Calm, Undisturbed
  <2>1. ASSUME NEW d \in Deliveries, ApiStep(d)
        PROVE  Contract!ContractNext \/ UNCHANGED <<deliveries, acked>>
    BY <2>0, <2>1, ApiRefines
  <2>2. ASSUME NEW e \in Endpoints, SetActive(e) PROVE UNCHANGED <<deliveries, acked>>
    BY <2>2 DEF SetActive, tableVars
  <2>3. ASSUME NEW w \in Workers, WorkerStep(w)
        PROVE  Contract!ContractNext \/ UNCHANGED <<deliveries, acked>>
    <3>1. ASSUME NEW d \in Deliveries, TaskStep(w, d)
          PROVE  Contract!ContractNext \/ UNCHANGED <<deliveries, acked>>
      BY <2>0, <3>1, TaskRefines
    <3>2. ASSUME NEW b \in BOOLEAN, ReapZombies(w, b) PROVE UNCHANGED <<deliveries, acked>>
      <4>1. \A x \in Deliveries : stuck[w][x] # "bury"
        BY <2>0 DEF CalmInv, StuckInv
      <4>2. deliveries' = [x \in Deliveries |-> deliveries[x]]
        BY <3>2, <4>1 DEF ReapZombies
      <4> QED
        BY <3>2, <4>2 DEF ReapZombies, TypeOK
    <3>3. CASE \/ WorkerCrash(w)
               \/ \E S \in SUBSET Deliveries, b \in BOOLEAN : ClaimPending(w, S, b)
               \/ \E S \in SUBSET Deliveries : SelectStuck(w, S) \/ SelectOrphans(w, S)
               \/ \E d \in Deliveries : InsertOrphan(w, d)
      BY <3>3 DEF WorkerCrash, ClaimPending, SelectStuck, SelectOrphans, InsertOrphan, tableVars
    <3> QED
      BY <2>3, <3>1, <3>2, <3>3 DEF WorkerStep, ReaperStep
  <2>4. CASE UNCHANGED vars
    BY <2>4 DEF vars, tableVars
  <2> QED
    BY <2>1, <2>2, <2>3, <2>4 DEF Next
<1> QED
  BY <1>1, <1>2, TypeCorrect, SafeInvariant, CalmInvariant, SettleInvariant, PTL
  DEF Spec, ImplementsContract, Contract!ContractSpec

-----------------------------------------------------------------------------
(* The Redis path: the tables.                                             *)

\* The steps the composition adds: Redis instead of the queue table, and what
\* a consumer records of a delivery.
OwnStep ==
    \/ \E d \in Deliveries : TryRedis(d)
    \/ \E w \in Workers : BuryEntry(w) \/ \E ok \in BOOLEAN : SendEntry(w, ok)

\* A consumer with a result holds the entry it is about.
Holding == \A w \in Workers : sent[w] # "no" => batch[w] # <<>>

RedisInv == RedisTypeOK /\ Holding

\* To the tables every other step of the composition is one of the pipeline's.
LEMMA StepKinds ==
    ASSUME [RedisNext]_allVars
    PROVE  OwnStep \/ [Next]_vars
<1> USE DEF Next, ApiStep, WorkerStep
<1>1. ASSUME NEW d \in Deliveries, PublishToPostgres(d) PROVE [Next]_vars
  BY <1>1 DEF PublishToPostgres
<1>2. CASE CloseRedisCircuit
  BY <1>2 DEF CloseRedisCircuit
<1>3. ASSUME NEW w \in Workers, ConsumerStep(w) PROVE OwnStep \/ [Next]_vars
  BY <1>3 DEF ConsumerStep, OwnStep, ReadStream, StopConsumer, AckUnsigned, LeavePending, AckEntry
<1>4. ASSUME NEW w \in Workers, Restart(w) PROVE [Next]_vars
  BY <1>4 DEF Restart
<1>5. ASSUME NEW d \in Deliveries, HandlerStep(d) PROVE Next
  BY <1>5 DEF HandlerStep
<1>6. ASSUME NEW w \in Workers, PollingStep(w) PROVE Next
  BY <1>6 DEF PollingStep
<1>7. CASE UNCHANGED allVars
  BY <1>7 DEF allVars
<1> QED
  BY <1>1, <1>2, <1>3, <1>4, <1>5, <1>6, <1>7 DEF RedisNext, OwnStep

\* The head of a sequence, and what is left of it.
LEMMA TailEntries ==
    ASSUME NEW S, NEW s \in Seq(S), s # <<>>
    PROVE  /\ Head(s) \in S /\ Head(s) = s[1] /\ 1 \in DOMAIN s
           /\ Tail(s) \in Seq(S)
           /\ \A i \in DOMAIN Tail(s) : i \in Nat /\ i + 1 \in DOMAIN s /\ Tail(s)[i] = s[i + 1] /\ i + 1 # 1
<1>1. /\ Tail(s) \in Seq(S) /\ Head(s) \in S /\ Len(Tail(s)) = Len(s) - 1
      /\ \A i \in 1 .. Len(Tail(s)) : Tail(s)[i] = s[i + 1]
  BY HeadTailProperties
<1>2. Len(s) \in Nat \ {0} /\ DOMAIN s = 1 .. Len(s)
  BY EmptySeq, LenProperties
<1>3. DOMAIN Tail(s) = 1 .. Len(Tail(s))
  BY <1>1, LenProperties
<1> QED
  BY <1>1, <1>2, <1>3

\* An XADD appends its entry, and may trim the oldest one.
LEMMA AddedEntries ==
    ASSUME stream \in Seq(Deliveries), NEW d \in Deliveries, NEW t \in Added(d)
    PROVE  /\ t \in Seq(Deliveries)
           /\ \E k \in {0, 1} : \A i \in DOMAIN t :
                 /\ i \in Nat
                 /\ \/ i + k \in DOMAIN stream /\ t[i] = stream[i + k]
                    \/ t[i] = d /\ i + k = Len(stream) + 1
<1> DEFINE s == Append(stream, d)
<1>1. /\ s \in Seq(Deliveries) /\ Len(s) = Len(stream) + 1
      /\ \A i \in 1 .. Len(s) : s[i] = IF i <= Len(stream) THEN stream[i] ELSE d
  BY AppendProperties
<1>2. Len(stream) \in Nat /\ DOMAIN stream = 1 .. Len(stream) /\ DOMAIN s = 1 .. Len(s)
  BY <1>1, LenProperties
<1>3. \A i \in DOMAIN s : /\ i \in Nat
                          /\ \/ i \in DOMAIN stream /\ s[i] = stream[i]
                             \/ s[i] = d /\ i = Len(stream) + 1
  BY <1>1, <1>2
<1>4. s # <<>>
  BY <1>1, <1>2, EmptySeq
<1> HIDE DEF s
<1>5. CASE t = s
  <2>1. \A i \in DOMAIN t : /\ i \in Nat
                            /\ \/ i + 0 \in DOMAIN stream /\ t[i] = stream[i + 0]
                               \/ t[i] = d /\ i + 0 = Len(stream) + 1
    BY <1>3, <1>5
  <2> QED BY <1>1, <1>5, <2>1
<1>6. CASE t = Tail(s)
  <2>1. Tail(s) \in Seq(Deliveries) /\ \A i \in DOMAIN Tail(s) : i \in Nat /\ i + 1 \in DOMAIN s /\ Tail(s)[i] = s[i + 1]
    BY <1>1, <1>4, TailEntries
  <2>2. \A i \in DOMAIN t : /\ i \in Nat
                            /\ \/ i + 1 \in DOMAIN stream /\ t[i] = stream[i + 1]
                               \/ t[i] = d /\ i + 1 = Len(stream) + 1
    BY <1>3, <1>6, <2>1
  <2> QED BY <1>6, <2>1, <2>2
<1> QED
  BY <1>5, <1>6 DEF Added, s

\* A consumer's next entry.
LEMMA NextEntryType ==
    ASSUME RedisInv, NEW w \in Workers, batch[w] # <<>>, NextEntry(w)
    PROVE  /\ batch' \in [Workers -> Seq(Deliveries)]
           /\ sent' \in [Workers -> {"no", "failed", "handled", "delivered"}]
           /\ Holding'
<1>1. batch[w] \in Seq(Deliveries)
  BY DEF RedisInv, RedisTypeOK
<1>2. Tail(batch[w]) \in Seq(Deliveries)
  BY <1>1, TailEntries
<1>3. batch' = [batch EXCEPT ![w] = Tail(batch[w])] /\ sent' = [sent EXCEPT ![w] = "no"]
  BY DEF NextEntry, RedisInv, RedisTypeOK
<1> QED
  BY <1>2, <1>3 DEF RedisInv, RedisTypeOK, Holding

\* Every consumer's entries are deliveries.
LEMMA HeadEntry ==
    ASSUME RedisInv, NEW w \in Workers, batch[w] # <<>>
    PROVE  Head(batch[w]) \in Deliveries
<1>1. batch[w] \in Seq(Deliveries)
  BY DEF RedisInv, RedisTypeOK
<1> QED
  BY <1>1, TailEntries

\* dead_letter_delivery for a stream entry: no queue row is touched.
Buried(d) ==
    /\ Exists(d)
    /\ deliveries' = [deliveries EXCEPT ![d] = "failed"]
    /\ dead_letters' = dead_letters \cup {d}
    /\ delivery_attempts' = [delivery_attempts EXCEPT ![d] = @ \cup {1}]
    /\ UNCHANGED <<queue, attempt_count, is_active, apiVars, taskVars, reaperVars, acked>>

\* A consumer buries the delivery of its entry, or fails to.
LEMMA BuryKinds ==
    ASSUME RedisInv, NEW w \in Workers, BuryEntry(w)
    PROVE  UNCHANGED vars \/ \E d \in Deliveries : Buried(d)
<1>1. Head(batch[w]) \in Deliveries
  BY HeadEntry DEF BuryEntry, RedisInv, Holding
<1>2. 0 + 1 = 1
  OBVIOUS
<1>3. UNCHANGED vars \/ Buried(Head(batch[w]))
  BY <1>2 DEF BuryEntry, Buried, vars, tableVars
<1> QED
  BY <1>1, <1>3

\* What the Redis path adds keeps the types of the tables.
LEMMA OwnTables ==
    ASSUME RedisInv, OwnStep
    PROVE  TypeOK'
<1> USE DEF tableVars, apiVars, purgeVars, taskVars, reaperVars
<1>1. ASSUME NEW d \in Deliveries, TryRedis(d) PROVE TypeOK'
  <2>1. publisher' = publisher \/ publisher' = [publisher EXCEPT ![d] = "done"]
    BY <1>1 DEF TryRedis, Tried
  <2>2. publisher' \in [Deliveries -> PublisherState]
    BY <2>1 DEF RedisInv, RedisTypeOK, TypeOK, PublisherState
  <2> QED
    BY <1>1, <2>2 DEF TryRedis, RedisInv, RedisTypeOK, TypeOK, purgeVars
<1>2. ASSUME NEW w \in Workers, NEW ok \in BOOLEAN, SendEntry(w, ok) PROVE TypeOK'
  BY <1>2, HeadEntry DEF SendEntry, Fresh, RedisInv, RedisTypeOK, TypeOK, purgeVars
<1>3. ASSUME NEW d \in Deliveries, Buried(d) PROVE TypeOK'
  <2>1. deliveries' \in [Deliveries -> DeliveryStatus] /\ dead_letters' \subseteq Deliveries
    BY <1>3 DEF Buried, RedisInv, RedisTypeOK, TypeOK, DeliveryStatus
  <2>2. delivery_attempts' \in [Deliveries -> SUBSET Nat]
    BY <1>3 DEF Buried, RedisInv, RedisTypeOK, TypeOK, purgeVars
  <2> QED
    BY <1>3, <2>1, <2>2 DEF Buried, RedisInv, RedisTypeOK, TypeOK, purgeVars
<1>4. CASE UNCHANGED vars
  BY <1>4, StepType DEF RedisInv, RedisTypeOK
<1> QED
  BY <1>1, <1>2, <1>3, <1>4, BuryKinds DEF OwnStep

\* What the Redis path adds to the state.
RedisState ==
    /\ xadd \in [Deliveries -> {"todo", "tried"}]
    /\ circuit_open \in BOOLEAN
    /\ stream \in Seq(Deliveries)
    /\ pel \subseteq Deliveries
    /\ consuming \in [Workers -> BOOLEAN]
    /\ batch \in [Workers -> Seq(Deliveries)]
    /\ sent \in [Workers -> {"no", "failed", "handled", "delivered"}]
    /\ redis_done \subseteq Deliveries
    /\ Holding

\* Every step keeps the stream, the pending list and the consumers within
\* their types, and no consumer loses the entry it has handled.
LEMMA StepRedisState ==
    ASSUME RedisInv, [RedisNext]_allVars
    PROVE  RedisState'
<1> USE DEF RedisState, RedisInv, RedisTypeOK, consumerVars
<1>0. RedisState /\ \A w \in Workers : batch[w] \in Seq(Deliveries)
  OBVIOUS
<1>1. ASSUME NEW d \in Deliveries, TryRedis(d) PROVE RedisState'
  <2>1. stream' \in Seq(Deliveries)
    BY <1>1, AddedEntries DEF TryRedis
  <2>2. xadd' \in [Deliveries -> {"todo", "tried"}] /\ circuit_open' \in BOOLEAN
    BY <1>1 DEF TryRedis, Tried
  <2> QED
    BY <1>1, <2>1, <2>2 DEF TryRedis, Holding
<1>2. CASE UNCHANGED redisVars
  BY <1>2 DEF redisVars, Holding
<1>3. CASE CloseRedisCircuit
  BY <1>3 DEF CloseRedisCircuit, Holding
<1>4. ASSUME NEW w \in Workers, ReadStream(w) PROVE RedisState'
  <2>1. {stream[i] : i \in 1..Len(stream)} \subseteq Deliveries
    BY ElementOfSeq
  <2>2. <<>> \in Seq(Deliveries)
    BY EmptySeq
  <2> QED
    BY <1>4, <2>1, <2>2 DEF ReadStream, Holding
<1>5. ASSUME NEW w \in Workers, StopConsumer(w) PROVE RedisState'
  BY <1>5 DEF StopConsumer, Holding
<1>6. ASSUME NEW w \in Workers, AckUnsigned(w) \/ LeavePending(w) \/ AckEntry(w) PROVE RedisState'
  <2>1. batch[w] # <<>> /\ NextEntry(w)
    BY <1>6 DEF AckUnsigned, LeavePending, AckEntry, Fresh, Holding
  <2>2. Head(batch[w]) \in Deliveries
    BY <1>0, <2>1, TailEntries
  <2>3. pel' \subseteq Deliveries /\ redis_done' \subseteq Deliveries
    BY <1>6, <2>2 DEF AckUnsigned, LeavePending, AckEntry, Ack
  <2>4. UNCHANGED <<xadd, circuit_open, stream, consuming>>
    BY <1>6 DEF AckUnsigned, LeavePending, AckEntry
  <2>5. /\ batch' \in [Workers -> Seq(Deliveries)]
        /\ sent' \in [Workers -> {"no", "failed", "handled", "delivered"}]
        /\ Holding'
    BY <2>1, NextEntryType
  <2> QED
    BY <2>3, <2>4, <2>5
<1>7. ASSUME NEW w \in Workers, NEW ok \in BOOLEAN, SendEntry(w, ok) PROVE RedisState'
  BY <1>7 DEF SendEntry, Fresh, Holding
<1>8. ASSUME NEW w \in Workers, BuryEntry(w) PROVE RedisState'
  BY <1>8 DEF BuryEntry, Holding
<1>9. ASSUME NEW w \in Workers, Restart(w) PROVE RedisState'
  <2>1. <<>> \in Seq(Deliveries)
    BY EmptySeq
  <2> QED
    BY <1>9, <2>1 DEF Restart, Holding
<1> QED
  BY <1>1, <1>2, <1>3, <1>4, <1>5, <1>6, <1>7, <1>8, <1>9
  DEF RedisNext, ConsumerStep, PublishToPostgres, allVars

\* Types and the consumers' entries, in every reachable state of both paths.
THEOREM RedisInvariant == RedisSpec => []RedisInv
<1>1. RedisInit => RedisInv
  BY InitType, EmptySeq DEF RedisInit, RedisInv, RedisTypeOK, Holding
<1>2. RedisInv /\ [RedisNext]_allVars => RedisInv'
  <2> SUFFICES ASSUME RedisInv, [RedisNext]_allVars PROVE RedisInv'
    OBVIOUS
  <2>1. TypeOK'
    BY StepKinds, OwnTables, StepType DEF RedisInv, RedisTypeOK
  <2>2. RedisState'
    BY StepRedisState
  <2> QED
    BY <2>1, <2>2 DEF RedisState, RedisInv, RedisTypeOK
<1> QED
  BY <1>1, <1>2, PTL DEF RedisSpec

\* Stream, pending list and consumers stay within their types, next to the
\* tables they share with the polling loop.
THEOREM RedisTypeCorrect == RedisSpec => []RedisTypeOK
<1>1. RedisInv => RedisTypeOK
  BY DEF RedisInv
<1> QED
  BY <1>1, RedisInvariant, PTL

\* What the Redis path adds keeps the row invariant of every delivery.
LEMMA OwnRow ==
    ASSUME RedisInv, SafeInv, OwnStep
    PROVE  SafeInv'
<1> USE DEF tableVars, apiVars, purgeVars, taskVars, reaperVars
<1>1. TypeOK' /\ TypeOK
  BY OwnTables DEF SafeInv
<1> SUFFICES ASSUME NEW x \in Deliveries PROVE RowInv(x)'
  BY <1>1 DEF SafeInv
<1>2. RowInv(x)
  BY DEF SafeInv
<1>3. ASSUME UNCHANGED <<tableVars, test_mark, letters_purged, taskVars>>, acked \subseteq acked'
      PROVE  RowInv(x)'
  BY <1>2, <1>3 DEF RowInv, ForeignKey, SkipSettled, Unstranded, Received, Accounted, Exists
<1>4. ASSUME NEW d \in Deliveries, TryRedis(d) PROVE RowInv(x)'
  BY <1>3, <1>4 DEF TryRedis
<1>5. ASSUME NEW w \in Workers, NEW ok \in BOOLEAN, SendEntry(w, ok) PROVE RowInv(x)'
  BY <1>3, <1>5 DEF SendEntry
<1>6. ASSUME NEW d \in Deliveries, Buried(d) PROVE RowInv(x)'
  <2>1. deliveries'[x] = deliveries[x] \/ (Exists(x) /\ deliveries'[x] = "failed")
    BY <1>1, <1>6 DEF Buried, TypeOK
  <2>2. x \in dead_letters => x \in dead_letters'
    BY <1>6 DEF Buried
  <2>3. UNCHANGED <<queue, test_mark, letters_purged, taskVars, acked>>
    BY <1>6 DEF Buried
  <2> QED
    BY <1>2, <2>1, <2>2, <2>3
    DEF RowInv, ForeignKey, SkipSettled, Unstranded, Received, Accounted, Exists
<1>7. CASE UNCHANGED vars
  BY <1>3, <1>7 DEF vars
<1> QED
  BY <1>4, <1>5, <1>6, <1>7, BuryKinds DEF OwnStep

\* The row invariant of every delivery holds with both paths at work.
THEOREM RedisSafeInvariant == RedisSpec => []SafeInv
<1>1. RedisInit => SafeInv
  BY InitSafe DEF RedisInit
<1>2. RedisInv /\ SafeInv /\ [RedisNext]_allVars => SafeInv'
  BY StepKinds, OwnRow, StepSafe
<1> QED
  BY <1>1, <1>2, RedisInvariant, PTL DEF RedisSpec

\* No pending delivery is left behind a finished queue row, although consumers
\* of the stream fail deliveries that also have a row.
THEOREM RedisNeverStranded == RedisSpec => []NoStrandedDelivery
<1>1. SafeInv => NoStrandedDelivery
  BY DEF SafeInv, RowInv, Unstranded, NoStrandedDelivery
<1> QED
  BY <1>1, RedisSafeInvariant, PTL

\* Nothing is reported delivered that no endpoint accepted, whichever path sent it.
THEOREM RedisDeliveredSound == RedisSpec => []DeliveredMeansReceived
<1>1. SafeInv => DeliveredMeansReceived
  BY DEF SafeInv, RowInv, Received, DeliveredMeansReceived
<1> QED
  BY <1>1, RedisSafeInvariant, PTL

\* The same of a dead-lettered queue row with both paths over the tables,
\* whichever of them wrote the dead_letters row.
THEOREM RedisDeadLetterSound == RedisSpec => []DeadLetterAccounted
<1>1. SafeInv => DeadLetterAccounted
  BY DEF SafeInv, RowInv, Accounted, DeadLetterAccounted
<1> QED
  BY <1>1, RedisSafeInvariant, PTL

\* Without stalls, what the Redis path adds keeps the ownership invariant.
LEMMA OwnCalm ==
    ASSUME RedisInv, SafeInv, AllCalm, OwnStep
    PROVE  AllCalm'
<1> USE DEF tableVars, apiVars, purgeVars, taskVars, reaperVars
<1> SUFFICES ASSUME Calm, NEW x \in Deliveries PROVE CalmInv(x)'
  BY DEF AllCalm, Calm
<1>1. TypeOK /\ CalmInv(x)
  BY DEF SafeInv, AllCalm
<1>2. ASSUME UNCHANGED <<queue, attempt_count, test_mark, taskVars, reaperVars>>,
             deliveries'[x] = deliveries[x] \/ (Exists(x) /\ deliveries'[x] = "failed"),
             publisher'[x] = publisher[x] \/ (Publishing(x) /\ publisher'[x] = "done")
      PROVE  CalmInv(x)'
  <2>1. Exists(x)' <=> Exists(x)
    BY <1>2 DEF Exists
  <2>2. deliveries'[x] = "absent" => deliveries[x] = "absent"
    BY <1>2
  <2> QED
    BY <1>1, <1>2, <2>1, <2>2 DEF CalmInv, OwnerInv, StuckInv, CountInv, FreshInv, Publishing, Live
<1>3. ASSUME NEW d \in Deliveries, TryRedis(d) PROVE CalmInv(x)'
  <2>1. publisher'[x] = publisher[x] \/ (Publishing(x) /\ publisher'[x] = "done")
    BY <1>1, <1>3 DEF TryRedis, Tried, TypeOK, Publishing
  <2> QED
    BY <1>2, <1>3, <2>1 DEF TryRedis
<1>4. ASSUME NEW w \in Workers, NEW ok \in BOOLEAN, SendEntry(w, ok) PROVE CalmInv(x)'
  BY <1>2, <1>4 DEF SendEntry
<1>5. ASSUME NEW d \in Deliveries, Buried(d) PROVE CalmInv(x)'
  <2>1. deliveries'[x] = deliveries[x] \/ (Exists(x) /\ deliveries'[x] = "failed")
    BY <1>1, <1>5 DEF Buried, TypeOK
  <2> QED
    BY <1>2, <1>5, <2>1 DEF Buried
<1>6. CASE UNCHANGED vars
  BY <1>2, <1>6 DEF vars
<1> QED
  BY <1>3, <1>4, <1>5, <1>6, BuryKinds DEF OwnStep

\* Without stalls, the ownership invariant holds with both paths at work.
THEOREM RedisCalmInvariant == RedisSpec => []AllCalm
<1>1. RedisInit => AllCalm
  BY InitCalm DEF RedisInit
<1>2. RedisInv /\ SafeInv /\ AllCalm /\ [RedisNext]_allVars => AllCalm'
  BY StepKinds, OwnCalm, StepCalm
<1> QED
  BY <1>1, <1>2, RedisInvariant, RedisSafeInvariant, PTL DEF RedisSpec

\* Without stalls every claimed row has one owner, although a lost reply of the
\* XADD brings its delivery onto both paths.
THEOREM RedisSingleOwner == RedisSpec => []OneOwner
<1>1. AllCalm => OneOwner
  BY DEF AllCalm, CalmInv, OwnerInv, OneOwner
<1> QED
  BY <1>1, RedisCalmInvariant, PTL

\* Without stalls no statement of either path takes a finished row up again.
THEOREM RedisFinishedRowsStay == RedisSpec => FinishedStays
<1> DEFINE Stays == Calm => \A d \in Deliveries :
                        queue[d] \in Finished => queue'[d] \in {queue[d], "none"}
<1>1. RedisInv /\ SafeInv /\ AllCalm /\ [RedisNext]_allVars => [Stays]_vars
  <2> SUFFICES ASSUME RedisInv, SafeInv, AllCalm, [RedisNext]_allVars PROVE [Stays]_vars
    OBVIOUS
  <2>1. CASE [Next]_vars
    BY <2>1, StepFinished
  <2>2. CASE OwnStep
    <3>1. queue' = queue
      BY <2>2, BuryKinds DEF OwnStep, TryRedis, SendEntry, Buried, tableVars, vars
    <3> QED
      BY <3>1
  <2> QED
    BY <2>1, <2>2, StepKinds
<1> QED
  BY <1>1, RedisInvariant, RedisSafeInvariant, RedisCalmInvariant, PTL DEF RedisSpec, FinishedStays

-----------------------------------------------------------------------------
(* The Redis path: who handles an entry of the stream.                     *)

\* A delivery that its publisher has not tried to put into the stream yet.
Unsent(d) == deliveries[d] = "absent" \/ (publisher[d] = "publish" /\ xadd[d] = "todo")

\* Nothing publishes a delivery before it is accepted.
Untouched(d) == deliveries[d] = "absent" => publisher[d] = "idle" /\ test_mark[d] = "no"

\* An unsent delivery has no entry, neither unread nor pending.
UnsentInv(d) ==
    Untouched(d) /\ (Unsent(d) => d \notin pel /\ \A i \in DOMAIN stream : stream[i] # d)

\* Unread entries are distinct, and not pending.
UnreadInv ==
    /\ \A i, j \in DOMAIN stream : stream[i] = stream[j] => i = j
    /\ \A i \in DOMAIN stream : stream[i] \notin pel

\* What the consumers hold is distinct, and pending.
HeldInv ==
    \A w \in Workers : \A i \in DOMAIN batch[w] :
        /\ batch[w][i] \in pel
        /\ \A v \in Workers : \A j \in DOMAIN batch[v] :
              batch[v][j] = batch[w][i] => v = w /\ j = i

EntryInv == UnreadInv /\ HeldInv /\ \A d \in Deliveries : UnsentInv(d)

\* In the pipeline a delivery is accepted once: it does not become absent
\* again, and only an absent one gets a publisher.
LEMMA AcceptedOnce ==
    ASSUME TypeOK, [Next]_vars, NEW x \in Deliveries, Untouched(x)
    PROVE  /\ deliveries'[x] = "absent" => deliveries[x] = "absent" /\ Untouched(x)'
           /\ publisher'[x] = "publish" => publisher[x] = "publish" \/ deliveries[x] = "absent"
<1> DEFINE Once == /\ deliveries'[x] = "absent" => deliveries[x] = "absent" /\ Untouched(x)'
                   /\ publisher'[x] = "publish" => publisher[x] = "publish" \/ deliveries[x] = "absent"
<1> USE DEF TypeOK, Untouched, Exists, tableVars, apiVars, purgeVars, taskVars, reaperVars
<1>1. ASSUME deliveries'[x] = deliveries[x], publisher'[x] = publisher[x], test_mark'[x] = test_mark[x]
      PROVE  Once
  BY <1>1
<1>2. ASSUME Exists(x), deliveries'[x] # "absent", publisher'[x] = publisher[x] PROVE Once
  BY <1>2
<1>3. ASSUME NEW d \in Deliveries, ApiStep(d) PROVE Once
  <2>1. CASE d # x
    BY <1>1, <1>3, <2>1, ApiFrame DEF Same
  <2>2. CASE d = x
    <3>1. ASSUME NEW p, NEW m, Accept(x, p, m) PROVE Once
      BY <3>1 DEF Accept
    <3>2. CASE PublishToQueue(x)
      BY <3>2 DEF PublishToQueue, AfterError
    <3>3. CASE MarkFailed(x) \/ MarkTestDelivered(x) \/ ApiCrash(x)
      BY <3>3 DEF MarkFailed, MarkTestDelivered, ApiCrash
    <3>4. CASE DeleteDelivery(x) \/ CleanupWebhookQueue(x)
               \/ PurgeAttempts(x) \/ PurgeDeadLetter(x) \/ ArchiveDelivery(x)
      BY <3>4 DEF DeleteDelivery, CleanupWebhookQueue, PurgeAttempts, PurgeDeadLetter, ArchiveDelivery
    <3> QED
      BY <1>3, <2>2, <3>1, <3>2, <3>3, <3>4 DEF ApiStep, CreateWebhook, ReplayWebhook, AdminReplay
  <2> QED BY <2>1, <2>2
<1>4. ASSUME NEW e \in Endpoints, SetActive(e) PROVE Once
  BY <1>1, <1>4 DEF SetActive
<1>5. ASSUME NEW w \in Workers, WorkerStep(w) PROVE Once
  <2>1. publisher' = publisher /\ test_mark' = test_mark
    BY <1>5 DEF WorkerStep, ClaimPending, TaskStep, CheckDelivered, SkipDelivered, Defer, BuryUnsigned,
       Send, TaskError, Commit, CommitDelivered, DeadLetterDelivery, RetryDelivery, RecordOutcome,
       ReaperStep, SelectStuck, SelectOrphans, ReapZombies, InsertOrphan, WorkerCrash
  <2>2. deliveries'[x] = deliveries[x] \/ (Exists(x) /\ deliveries'[x] # "absent")
    <3>1. ASSUME NEW d \in Deliveries, TaskStep(w, d) PROVE <2>2
      <4>1. deliveries' = deliveries \/ (Exists(d) /\ \E s \in {"failed", "delivered"} : deliveries' = [deliveries EXCEPT ![d] = s])
        BY <3>1 DEF TaskStep, CheckDelivered, SkipDelivered, Defer, BuryUnsigned, Send, TaskError,
           Commit, CommitDelivered, DeadLetterDelivery, RetryDelivery, RecordOutcome
      <4> QED BY <4>1
    <3>2. ASSUME NEW b \in BOOLEAN, ReapZombies(w, b) PROVE <2>2
      BY <3>2 DEF ReapZombies
    <3>3. CASE \/ WorkerCrash(w)
               \/ \E S \in SUBSET Deliveries, b \in BOOLEAN : ClaimPending(w, S, b)
               \/ \E S \in SUBSET Deliveries : SelectStuck(w, S) \/ SelectOrphans(w, S)
               \/ \E d \in Deliveries : InsertOrphan(w, d)
      BY <3>3 DEF WorkerCrash, ClaimPending, SelectStuck, SelectOrphans, InsertOrphan
    <3> QED
      BY <1>5, <3>1, <3>2, <3>3 DEF WorkerStep, ReaperStep
  <2> QED BY <1>1, <1>2, <2>1, <2>2
<1>6. CASE UNCHANGED vars
  BY <1>1, <1>6 DEF vars
<1> QED
  BY <1>3, <1>4, <1>5, <1>6 DEF Next

\* A delivery that is unsent after a step was so before, and is still untouched
\* when it is not accepted yet.
LEMMA StepUnsent ==
    ASSUME RedisInv, [RedisNext]_allVars, NEW x \in Deliveries, Untouched(x)
    PROVE  Untouched(x)' /\ (Unsent(x)' => Unsent(x))
<1> USE DEF RedisInv, RedisTypeOK
<1>1. TypeOK
  OBVIOUS
<1>2. CASE [Next]_vars
  <2>1. xadd'[x] = "todo" => xadd[x] = "todo"
    BY <1>2 DEF RedisNext, TryRedis, Tried, PublishToPostgres, CloseRedisCircuit, ConsumerStep,
       ReadStream, StopConsumer, AckUnsigned, LeavePending, SendEntry, BuryEntry, AckEntry, Restart,
       redisVars, allVars
  <2> QED
    BY <1>1, <1>2, <2>1, AcceptedOnce DEF Unsent, Untouched
<1>3. CASE OwnStep
  <2>1. ASSUME NEW d \in Deliveries, TryRedis(d) PROVE Untouched(x)' /\ (Unsent(x)' => Unsent(x))
    BY <2>1 DEF TryRedis, Tried, Unsent, Untouched, TypeOK, tableVars
  <2>2. ASSUME NEW w \in Workers, NEW ok \in BOOLEAN, SendEntry(w, ok)
        PROVE  Untouched(x)' /\ (Unsent(x)' => Unsent(x))
    BY <2>2 DEF SendEntry, Unsent, Untouched, tableVars, apiVars, purgeVars
  <2>3. ASSUME NEW w \in Workers, BuryEntry(w) PROVE Untouched(x)' /\ (Unsent(x)' => Unsent(x))
    <3>1. xadd' = xadd /\ UNCHANGED apiVars
      BY <2>3 DEF BuryEntry
    <3>2. deliveries'[x] = deliveries[x] \/ (Exists(x) /\ deliveries'[x] = "failed")
      BY <1>1, <2>3, BuryKinds DEF Buried, TypeOK, vars, tableVars
    <3> QED
      BY <3>1, <3>2 DEF Unsent, Untouched, Exists, apiVars, purgeVars
  <2> QED
    BY <1>3, <2>1, <2>2, <2>3 DEF OwnStep
<1> QED
  BY <1>2, <1>3, StepKinds

\* The publisher's XADD adds an entry that is nowhere yet, and is the last one.
LEMMA TryEntry ==
    ASSUME RedisInv, EntryInv, NEW d \in Deliveries, TryRedis(d)
    PROVE  /\ UnreadInv' /\ HeldInv'
           /\ \A x \in Deliveries : Unsent(x)' => x \notin pel' /\ \A i \in DOMAIN stream' : stream'[i] # x
<1> USE DEF consumerVars
<1>1. /\ Unsent(d) /\ deliveries[d] # "absent" /\ d \notin pel /\ \A i \in DOMAIN stream : stream[i] # d
      /\ \A x \in Deliveries : Unsent(x)' => Unsent(x)
  BY StepUnsent DEF TryRedis, Unsent, EntryInv, UnsentInv, Untouched, RedisNext
<1>2. HeldInv' /\ pel' = pel
  BY DEF TryRedis, EntryInv, HeldInv
<1>3. CASE stream' = stream
  BY <1>1, <1>2, <1>3 DEF EntryInv, UnreadInv, UnsentInv
<1>4. CASE stream' \in Added(d) /\ (publisher' = [publisher EXCEPT ![d] = "done"] \/ Tried(d))
  <2>1. stream \in Seq(Deliveries) /\ Len(stream) \in Nat
    BY LenProperties DEF RedisInv, RedisTypeOK
  <2>2. PICK k \in {0, 1} : \A i \in DOMAIN stream' :
            /\ i \in Nat
            /\ \/ i + k \in DOMAIN stream /\ stream'[i] = stream[i + k]
               \/ stream'[i] = d /\ i + k = Len(stream) + 1
    BY <1>4, <2>1, AddedEntries
  <2>3. ASSUME NEW i \in DOMAIN stream', NEW j \in DOMAIN stream', stream'[i] = stream'[j] PROVE i = j
    <3>1. i \in Nat /\ j \in Nat /\ k \in Nat /\ i + k = j + k
      BY <1>1, <2>2, <2>3 DEF EntryInv, UnreadInv
    <3> QED BY <3>1
  <2>4. \A i \in DOMAIN stream' : stream'[i] \notin pel
    BY <1>1, <2>2 DEF EntryInv, UnreadInv
  <2>5. ~Unsent(d)'
    BY <1>1, <1>4 DEF TryRedis, Tried, Unsent, RedisInv, RedisTypeOK, TypeOK, tableVars
  <2>6. ASSUME NEW x \in Deliveries, Unsent(x)' PROVE x \notin pel /\ \A i \in DOMAIN stream' : stream'[i] # x
    BY <1>1, <2>2, <2>5, <2>6 DEF EntryInv, UnsentInv
  <2> QED
    BY <1>2, <2>3, <2>4, <2>6 DEF UnreadInv
<1> QED
  BY <1>3, <1>4 DEF TryRedis

\* XREADGROUP hands what was unread to one consumer.
LEMMA ReadEntry ==
    ASSUME RedisInv, EntryInv, NEW w \in Workers, ReadStream(w)
    PROVE  /\ UnreadInv' /\ HeldInv'
           /\ \A x \in Deliveries : Unsent(x)' => x \notin pel' /\ \A i \in DOMAIN stream' : stream'[i] # x
<1>1. /\ DOMAIN stream = 1 .. Len(stream) /\ DOMAIN stream' = {}
      /\ pel' = pel \cup {stream[i] : i \in DOMAIN stream}
  BY LenProperties, EmptySeq DEF ReadStream, RedisInv, RedisTypeOK
<1>2. UnreadInv'
  BY <1>1 DEF UnreadInv
<1>3. \A x \in Deliveries : Unsent(x)' => Unsent(x)
  BY StepUnsent DEF EntryInv, UnsentInv, RedisNext, ConsumerStep
<1>4. \A x \in Deliveries : Unsent(x)' => x \notin pel' /\ \A i \in DOMAIN stream' : stream'[i] # x
  BY <1>1, <1>3 DEF EntryInv, UnsentInv
<1>5. HeldInv'
  <2>1. batch[w] = <<>> /\ DOMAIN <<>> = {}
    BY DEF ReadStream
  <2>2. CASE batch' = batch
    BY <1>1, <2>2 DEF EntryInv, HeldInv
  <2>3. CASE batch' = [batch EXCEPT ![w] = stream]
    <3>1. /\ batch'[w] = stream
          /\ \A v \in Workers : v # w => batch'[v] = batch[v]
      BY <2>3 DEF RedisInv, RedisTypeOK
    <3>2. ASSUME NEW v \in Workers, NEW i \in DOMAIN batch'[v],
                 NEW u \in Workers, NEW j \in DOMAIN batch'[u], batch'[u][j] = batch'[v][i]
          PROVE  u = v /\ j = i
      BY <3>1, <3>2 DEF EntryInv, HeldInv, UnreadInv
    <3>3. \A v \in Workers : \A i \in DOMAIN batch'[v] : batch'[v][i] \in pel'
      BY <1>1, <3>1 DEF EntryInv, HeldInv
    <3> QED BY <3>2, <3>3 DEF HeldInv
  <2> QED BY <2>2, <2>3 DEF ReadStream
<1> QED BY <1>2, <1>4, <1>5

\* A consumer drops the head of its batch, and may take it off the pending list.
LEMMA DropEntry ==
    ASSUME RedisInv, EntryInv, NEW w \in Workers, batch[w] # <<>>, NextEntry(w),
           Ack(Head(batch[w])) \/ UNCHANGED pel, UNCHANGED stream
    PROVE  UnreadInv' /\ HeldInv' /\ pel' \subseteq pel
<1>1. /\ batch[w] \in Seq(Deliveries)
      /\ batch'[w] = Tail(batch[w])
      /\ \A v \in Workers : v # w => batch'[v] = batch[v]
  BY DEF NextEntry, RedisInv, RedisTypeOK
<1>2. /\ Head(batch[w]) = batch[w][1] /\ 1 \in DOMAIN batch[w]
      /\ \A i \in DOMAIN batch'[w] :
            i \in Nat /\ i + 1 \in DOMAIN batch[w] /\ batch'[w][i] = batch[w][i + 1] /\ i + 1 # 1
  BY <1>1, TailEntries
<1>3. pel' = pel \/ pel' = pel \ {batch[w][1]}
  BY <1>2 DEF Ack
<1>4. UnreadInv'
  BY <1>3 DEF EntryInv, UnreadInv
<1>5. ASSUME NEW v \in Workers, NEW i \in DOMAIN batch'[v]
      PROVE  \E k \in DOMAIN batch[v] : /\ batch'[v][i] = batch[v][k]
                                        /\ v = w => k = i + 1 /\ k # 1 /\ i \in Nat
                                        /\ v # w => k = i
  BY <1>1, <1>2, <1>5
<1>6. ASSUME NEW v \in Workers, NEW i \in DOMAIN batch'[v] PROVE batch'[v][i] \in pel'
  <2>1. PICK k \in DOMAIN batch[v] : batch'[v][i] = batch[v][k] /\ (v = w => k # 1)
    BY <1>5
  <2>2. batch[v][k] \in pel /\ batch[v][k] # batch[w][1]
    BY <1>2, <2>1 DEF EntryInv, HeldInv
  <2> QED BY <1>3, <2>1, <2>2
<1>7. ASSUME NEW v \in Workers, NEW i \in DOMAIN batch'[v],
             NEW u \in Workers, NEW j \in DOMAIN batch'[u], batch'[u][j] = batch'[v][i]
      PROVE  u = v /\ j = i
  <2>1. PICK k \in DOMAIN batch[v] : /\ batch'[v][i] = batch[v][k]
                                     /\ v = w => k = i + 1 /\ i \in Nat
                                     /\ v # w => k = i
    BY <1>5
  <2>2. PICK m \in DOMAIN batch[u] : /\ batch'[u][j] = batch[u][m]
                                     /\ u = w => m = j + 1 /\ j \in Nat
                                     /\ u # w => m = j
    BY <1>5
  <2>3. u = v /\ m = k
    BY <1>7, <2>1, <2>2 DEF EntryInv, HeldInv
  <2> QED BY <2>1, <2>2, <2>3
<1> QED BY <1>3, <1>4, <1>6, <1>7 DEF HeldInv

\* Unread, held by one consumer or only pending: in every reachable state.
THEOREM EntryInvariant == RedisSpec => []EntryInv
<1>1. RedisInit => EntryInv
  <2> SUFFICES ASSUME RedisInit PROVE EntryInv
    OBVIOUS
  <2>1. DOMAIN <<>> = {}
    OBVIOUS
  <2>2. stream = <<>> /\ pel = {} /\ \A w \in Workers : batch[w] = <<>>
    BY DEF RedisInit
  <2>3. UnreadInv /\ HeldInv
    BY <2>1, <2>2 DEF UnreadInv, HeldInv
  <2>4. \A d \in Deliveries : UnsentInv(d)
    BY <2>1, <2>2 DEF RedisInit, Init, UnsentInv, Untouched
  <2> QED BY <2>3, <2>4 DEF EntryInv
<1>2. RedisInv /\ EntryInv /\ [RedisNext]_allVars => EntryInv'
  <2> SUFFICES ASSUME RedisInv, EntryInv, [RedisNext]_allVars PROVE EntryInv'
    OBVIOUS
  <2> DEFINE Goal == /\ UnreadInv' /\ HeldInv'
                     /\ \A x \in Deliveries :
                           Unsent(x)' => x \notin pel' /\ \A i \in DOMAIN stream' : stream'[i] # x
  <2>1. \A x \in Deliveries : Untouched(x)' /\ (Unsent(x)' => Unsent(x))
    BY StepUnsent DEF EntryInv, UnsentInv
  <2>2. ASSUME UnreadInv', HeldInv', UNCHANGED stream, pel' \subseteq pel PROVE Goal
    BY <2>1, <2>2 DEF EntryInv, UnsentInv
  <2>3. ASSUME UNCHANGED <<stream, pel, batch>> PROVE Goal
    BY <2>2, <2>3 DEF EntryInv, UnreadInv, HeldInv
  <2>4. ASSUME \/ UNCHANGED redisVars \/ UNCHANGED allVars \/ CloseRedisCircuit
               \/ \E d \in Deliveries : PublishToPostgres(d)
        PROVE  Goal
    <3>1. UNCHANGED <<stream, pel, batch>>
      BY <2>4 DEF redisVars, consumerVars, allVars, CloseRedisCircuit, PublishToPostgres
    <3> QED BY <2>3, <3>1
  <2>5. ASSUME NEW w \in Workers, ConsumerStep(w) PROVE Goal
    <3>1. CASE AckUnsigned(w) \/ LeavePending(w) \/ AckEntry(w)
      <4>1. batch[w] # <<>>
        BY <3>1 DEF AckUnsigned, LeavePending, AckEntry, Fresh, RedisInv, Holding
      <4>2. NextEntry(w) /\ (Ack(Head(batch[w])) \/ UNCHANGED pel) /\ UNCHANGED stream
        BY <3>1 DEF AckUnsigned, LeavePending, AckEntry
      <4>3. UnreadInv' /\ HeldInv' /\ pel' \subseteq pel
        BY <4>1, <4>2, DropEntry
      <4> QED BY <2>2, <4>2, <4>3
    <3>2. CASE StopConsumer(w) \/ BuryEntry(w) \/ \E ok \in BOOLEAN : SendEntry(w, ok)
      BY <2>3, <3>2 DEF StopConsumer, BuryEntry, SendEntry
    <3> QED BY <2>5, <3>1, <3>2, ReadEntry DEF ConsumerStep
  <2>6. ASSUME NEW w \in Workers, Restart(w) PROVE Goal
    <3>1. /\ UNCHANGED stream /\ pel' = pel /\ DOMAIN batch'[w] = {}
          /\ \A v \in Workers : v # w => batch'[v] = batch[v]
      BY <2>6 DEF Restart, Recovered, RedisInv, RedisTypeOK
    <3>2. UnreadInv' /\ HeldInv'
      BY <3>1 DEF EntryInv, UnreadInv, HeldInv
    <3> QED BY <2>2, <3>1, <3>2
  <2>7. ASSUME NEW d \in Deliveries, TryRedis(d) PROVE Goal
    BY <2>7, TryEntry
  <2>8. Goal
    <3> HIDE DEF Goal
    <3> QED BY <2>4, <2>5, <2>6, <2>7 DEF RedisNext
  <2> QED BY <2>1, <2>8 DEF EntryInv, UnsentInv
<1> QED
  BY <1>1, <1>2, RedisInvariant, PTL DEF RedisSpec

\* Whatever is lost, trimmed, left pending or acknowledged in vain: an entry is
\* unread or at one place of one consumer's batch, and pending meanwhile.
THEOREM ConsumedOnce == RedisSpec => []OneConsumer
<1>1. EntryInv => OneConsumer
  BY DEF EntryInv, UnreadInv, HeldInv, OneConsumer
<1> QED
  BY <1>1, EntryInvariant, PTL

-----------------------------------------------------------------------------
(* The loose contract, of both paths and any of the faults.                *)

\* Without test keys a webhook is never marked delivered unsent; tasks work on
\* webhooks that were accepted.
LooseInv ==
    \A d \in Deliveries :
        /\ test_mark[d] = "no"
        /\ deliveries[d] = "absent" => \A w \in Workers : ~Live(w, d)

LEMMA InitLoose == Init => LooseInv
BY DEF Init, LooseInv, Live

\* The API's steps keep it, and do to a webhook what the loose contract allows.
LEMMA ApiLoose ==
    ASSUME TypeOK, SafeInv, LooseInv, "test" \notin Sources, NEW d \in Deliveries, ApiStep(d)
    PROVE  LooseInv' /\ Contract!LooseNext
<1> USE DEF TypeOK, LooseInv, Live, Exists, apiVars, purgeVars, tableVars, taskVars, reaperVars,
            Contract!LooseNext, Contract!Kept, Contract!Known
<1>1. ASSUME NEW p, Accept(d, p, "no") PROVE LooseInv' /\ Contract!LooseNext
  BY <1>1 DEF Accept
<1>2. CASE PublishToQueue(d)
  BY <1>2 DEF PublishToQueue
<1>3. CASE MarkFailed(d)
  BY <1>3 DEF MarkFailed
<1>4. CASE ApiCrash(d) \/ CleanupWebhookQueue(d)
           \/ PurgeAttempts(d) \/ PurgeDeadLetter(d) \/ ArchiveDelivery(d)
  BY <1>4 DEF ApiCrash, CleanupWebhookQueue, PurgeAttempts, PurgeDeadLetter, ArchiveDelivery
<1>5. CASE DeleteDelivery(d)
  BY <1>5 DEF DeleteDelivery
<1>6. ~MarkTestDelivered(d)
  BY DEF MarkTestDelivered
<1> QED
  BY <1>1, <1>2, <1>3, <1>4, <1>5, <1>6 DEF ApiStep, CreateWebhook, ReplayWebhook, AdminReplay

\* So do the delivery tasks.
LEMMA TaskLoose ==
    ASSUME TypeOK, SafeInv, LooseInv, NEW w \in Workers, NEW d \in Deliveries, TaskStep(w, d)
    PROVE  LooseInv' /\ Contract!LooseNext
<1> USE DEF TypeOK, apiVars, purgeVars, tableVars, taskVars, reaperVars
<1>1. deliveries[d] # "absent"
  BY DEF LooseInv, TaskStep, CheckDelivered, SkipDelivered, Defer, BuryUnsigned, Send, TaskError, Live,
         Commit, CommitDelivered, DeadLetterDelivery, RetryDelivery, GiveUp
<1>2. LooseInv'
  <2> DEFINE Settled(s) == deliveries' = [deliveries EXCEPT ![d] = s]
             Goal == /\ test_mark' = test_mark
                     /\ \/ deliveries' = deliveries \/ Settled("failed") \/ Settled("delivered")
                     /\ \E s : pc' = [pc EXCEPT ![w][d] = s]
  <2>1. ASSUME CheckDelivered(w, d) \/ SkipDelivered(w, d) \/ Defer(w, d) \/ TaskError(w, d)
        PROVE  Goal
    BY <2>1 DEF CheckDelivered, SkipDelivered, Defer, TaskError, Advance, EndTask
  <2>2. ASSUME BuryUnsigned(w, d) PROVE Goal
    BY <2>2 DEF BuryUnsigned, EndTask
  <2>3. ASSUME NEW r \in {"ok", "retryable", "fatal"}, Send(w, d, r) PROVE Goal
    BY <2>3 DEF Send, Advance
  <2>4. ASSUME Commit(w, d) PROVE Goal
    BY <2>4 DEF Commit, CommitDelivered, DeadLetterDelivery, RetryDelivery, RecordOutcome, EndTask
  <2>5. Goal
    <3> HIDE DEF Goal
    <3> QED BY <2>1, <2>2, <2>3, <2>4 DEF TaskStep
  <2>6. \A x \in Deliveries : deliveries'[x] = "absent" => deliveries[x] = "absent" /\ x # d
    BY <1>1, <2>5
  <2>7. \A x \in Deliveries \ {d}, v \in Workers : pc'[v][x] = pc[v][x]
    BY <2>5
  <2> QED
    BY <2>5, <2>6, <2>7 DEF LooseInv, Live
<1>3. CASE CheckDelivered(w, d) \/ SkipDelivered(w, d) \/ Defer(w, d) \/ TaskError(w, d)
  BY <1>2, <1>3 DEF CheckDelivered, SkipDelivered, Defer, TaskError, Contract!LooseNext, Contract!Kept
<1>4. ASSUME NEW r \in {"ok", "retryable", "fatal"}, Send(w, d, r) PROVE Contract!LooseNext
  BY <1>1, <1>4 DEF Send, Contract!LooseNext, Contract!Kept
<1>5. CASE BuryUnsigned(w, d)
  BY <1>2, <1>5 DEF BuryUnsigned, Exists, Contract!LooseNext, Contract!Kept, Contract!Known
<1>6. CASE CommitDelivered(w, d)
  <2>1. d \in acked
    BY <1>6 DEF CommitDelivered, SafeInv, RowInv, Received
  <2> QED
    BY <1>2, <1>6, <2>1
    DEF CommitDelivered, RecordOutcome, Exists, Contract!LooseNext, Contract!Kept, Contract!Known
<1>7. CASE DeadLetterDelivery(w, d)
  BY <1>2, <1>7
  DEF DeadLetterDelivery, RecordOutcome, Exists, Contract!LooseNext, Contract!Kept, Contract!Known
<1>8. CASE RetryDelivery(w, d)
  BY <1>2, <1>8 DEF RetryDelivery, RecordOutcome, Contract!LooseNext, Contract!Kept
<1> QED
  BY <1>2, <1>3, <1>4, <1>5, <1>6, <1>7, <1>8 DEF TaskStep, Commit

\* And the batch steps of a worker; the zombie reaper may fail many webhooks at
\* once.
LEMMA WorkerLoose ==
    ASSUME TypeOK, SafeInv, LooseInv, NEW w \in Workers, WorkerStep(w)
    PROVE  LooseInv' /\ Contract!LooseNext
<1> USE DEF TypeOK, apiVars, purgeVars, tableVars, taskVars, reaperVars
<1>1. ASSUME NEW S \in SUBSET Deliveries, NEW b \in BOOLEAN, ClaimPending(w, S, b)
      PROVE  LooseInv' /\ Contract!LooseNext
  <2>1. \A x \in S : deliveries[x] # "absent"
    BY <1>1 DEF ClaimPending, Claimable, SafeInv, RowInv, ForeignKey, Exists
  <2>2. UNCHANGED <<deliveries, test_mark, acked>>
    BY <1>1 DEF ClaimPending
  <2>3. \A x \in Deliveries, v \in Workers : pc'[v][x] \in {pc[v][x], "idle"} \/ x \in S
    <3>1. CASE b
      <4>1. pc' = [pc EXCEPT ![w] = [d \in Deliveries |-> IF d \in S THEN "claimed" ELSE "idle"]]
        BY <1>1, <3>1 DEF ClaimPending
      <4>2. ASSUME NEW x \in Deliveries, NEW v \in Workers, x \notin S
            PROVE  pc'[v][x] \in {pc[v][x], "idle"}
        BY <4>1, <4>2
      <4> QED BY <4>2
    <3>2. CASE ~b
      BY <1>1, <3>2 DEF ClaimPending
    <3> QED BY <3>1, <3>2
  <2> QED
    BY <2>1, <2>2, <2>3 DEF LooseInv, Live, Contract!LooseNext, Contract!Kept
<1>2. ASSUME NEW b \in BOOLEAN, ReapZombies(w, b) PROVE LooseInv' /\ Contract!LooseNext
  <2>1. \A x \in Deliveries : deliveries'[x] = deliveries[x] \/ (Exists(x) /\ deliveries'[x] = "failed")
    BY <1>2 DEF ReapZombies
  <2>2. UNCHANGED <<test_mark, pc, acked>>
    BY <1>2 DEF ReapZombies
  <2> QED
    BY <2>1, <2>2 DEF LooseInv, Live, Exists, Contract!LooseNext, Contract!Kept, Contract!Known
<1>3. CASE WorkerCrash(w)
  <2>1. UNCHANGED <<deliveries, test_mark, acked>>
    BY <1>3 DEF WorkerCrash
  <2>2. \A x \in Deliveries, v \in Workers : pc'[v][x] \in {pc[v][x], "idle"}
    BY <1>3 DEF WorkerCrash
  <2> QED
    BY <2>1, <2>2 DEF LooseInv, Live, Contract!LooseNext, Contract!Kept
<1>4. CASE \/ \E S \in SUBSET Deliveries : SelectStuck(w, S) \/ SelectOrphans(w, S)
           \/ \E d \in Deliveries : InsertOrphan(w, d)
  BY <1>4 DEF SelectStuck, SelectOrphans, InsertOrphan, LooseInv, Live, Contract!LooseNext, Contract!Kept
<1> QED
  BY <1>1, <1>2, <1>3, <1>4, TaskLoose DEF WorkerStep, ReaperStep

LEMMA StepLoose ==
    ASSUME SafeInv, LooseInv, "test" \notin Sources, [Next]_vars
    PROVE  LooseInv' /\ [Contract!LooseNext]_(Contract!cvars)
<1> USE DEF SafeInv
<1>1. CASE UNCHANGED vars
  BY <1>1 DEF vars, tableVars, apiVars, purgeVars, taskVars, LooseInv, Live, Contract!cvars
<1>2. ASSUME NEW e \in Endpoints, SetActive(e)
      PROVE  LooseInv' /\ UNCHANGED Contract!cvars
  BY <1>2 DEF SetActive, tableVars, apiVars, purgeVars, taskVars, LooseInv, Live, Contract!cvars
<1> QED
  BY <1>1, <1>2, ApiLoose, WorkerLoose DEF Next

\* The steps Redis adds: a consumer only sends what was accepted, because it was
\* in the stream.
LEMMA OwnLoose ==
    ASSUME RedisInv, EntryInv, LooseInv, OwnStep
    PROVE  LooseInv' /\ [Contract!LooseNext]_(Contract!cvars)
<1> USE DEF RedisInv, RedisTypeOK, tableVars, apiVars, purgeVars, taskVars, reaperVars
<1>1. ASSUME NEW d \in Deliveries, TryRedis(d)
      PROVE  LooseInv' /\ UNCHANGED Contract!cvars
  BY <1>1 DEF TryRedis, LooseInv, Live, Contract!cvars
<1>2. ASSUME NEW w \in Workers, NEW ok \in BOOLEAN, SendEntry(w, ok)
      PROVE  LooseInv' /\ Contract!LooseNext
  <2> DEFINE d == Head(batch[w])
  <2>1. batch[w] \in Seq(Deliveries) /\ batch[w] # <<>>
    BY <1>2 DEF SendEntry, Fresh
  <2>2. 1 \in DOMAIN batch[w] /\ d = batch[w][1] /\ d \in Deliveries
    BY <2>1, TailEntries
  <2>3. d \in pel
    BY <2>2 DEF EntryInv, HeldInv
  <2>4. deliveries[d] # "absent"
    BY <2>2, <2>3 DEF EntryInv, UnsentInv, Unsent
  <2>5. UNCHANGED <<deliveries, test_mark, pc>> /\ (acked' = acked \cup {d} \/ acked' = acked)
    BY <1>2 DEF SendEntry
  <2> QED
    BY <2>4, <2>5 DEF LooseInv, Live, Contract!LooseNext, Contract!Kept
<1>3. ASSUME NEW d \in Deliveries, Buried(d) PROVE LooseInv' /\ Contract!LooseNext
  <2>1. \A x \in Deliveries : deliveries'[x] = deliveries[x] \/ (Exists(x) /\ deliveries'[x] = "failed")
    BY <1>3 DEF Buried, TypeOK
  <2>2. UNCHANGED <<test_mark, pc, acked>>
    BY <1>3 DEF Buried
  <2> QED
    BY <2>1, <2>2 DEF LooseInv, Live, Exists, Contract!LooseNext, Contract!Kept, Contract!Known
<1>4. CASE UNCHANGED vars
  BY <1>4 DEF vars, LooseInv, Live, Contract!cvars
<1> QED
  BY <1>1, <1>2, <1>3, <1>4, BuryKinds DEF OwnStep

\* Whatever stalls, crashes or loses its reply, the pipeline implements the
\* loose contract for webhooks without a test key.
THEOREM LooseImplementation ==
    ASSUME "test" \notin Sources
    PROVE  Spec => KeepsLooseContract
<1>1. Init => Contract!ContractInit
  BY DEF Init, Contract!ContractInit
<1>2. SafeInv /\ LooseInv /\ [Next]_vars => LooseInv' /\ [Contract!LooseNext]_(Contract!cvars)
  BY StepLoose
<1> QED
  BY <1>1, <1>2, InitLoose, SafeInvariant, PTL DEF Spec, KeepsLooseContract, Contract!LooseSpec

\* And so does the composition of both paths, in which a consumer settles what
\* the polling loop may settle too and neither knows of the other.
THEOREM RedisLooseImplementation ==
    ASSUME "test" \notin Sources
    PROVE  RedisSpec => KeepsLooseContract
<1>1. RedisInit => Contract!ContractInit /\ LooseInv
  BY InitLoose DEF RedisInit, Init, Contract!ContractInit
<1>2. RedisInv /\ SafeInv /\ EntryInv /\ LooseInv /\ [RedisNext]_allVars
          => LooseInv' /\ [Contract!LooseNext]_(Contract!cvars)
  BY StepKinds, StepLoose, OwnLoose
<1> QED
  BY <1>1, <1>2, RedisInvariant, RedisSafeInvariant, EntryInvariant, PTL
  DEF RedisSpec, KeepsLooseContract, Contract!LooseSpec

\* The loose contract leaves nothing out that the strict one has: whatever keeps
\* the strict contract keeps it.
THEOREM StrictIsLoose == Contract!ContractSpec => Contract!LooseSpec
<1> DEFINE Statuses == {"absent", "pending", "delivered", "failed", "deleted"}
           Typed == deliveries \in [Deliveries -> Statuses]
<1>1. Contract!ContractInit => Typed
  BY DEF Contract!ContractInit
<1>2. Typed /\ [Contract!ContractNext]_(Contract!cvars)
          => Typed' /\ [Contract!LooseNext]_(Contract!cvars)
  BY DEF Contract!ContractNext, Contract!AcceptWebhook, Contract!EndpointAccepts,
         Contract!SettleDelivered, Contract!SettleFailed, Contract!Erase, Contract!Become,
         Contract!LooseNext, Contract!Kept, Contract!Known, Contract!cvars
<1> QED
  BY <1>1, <1>2, PTL DEF Contract!ContractSpec, Contract!LooseSpec
=============================================================================
