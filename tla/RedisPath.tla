------------------------------ MODULE RedisPath ------------------------------
(***************************************************************************)
(* The Redis Streams fast path next to the PostgreSQL queue: with          *)
(* USE_REDIS_QUEUE=true create_webhook and batch_webhooks publish with     *)
(* publish_to_queue_fast (api/src/db.rs, api/src/queue.rs), and every      *)
(* worker process runs a consumer of the stream (worker/src/main.rs)       *)
(* beside its polling loop.  The composition shares the deliveries table:  *)
(* a delivery that went to Redis has no webhook_queue row until the orphan *)
(* reaper gives it one.                                                    *)
(***************************************************************************)
EXTENDS DeliveryQueue, Sequences

CONSTANTS
    PolicyAttempts,  \* max_attempts of the endpoint's retry policy, in the message
    MaxStreamLen     \* XADD ... MAXLEN

ASSUME RedisAssumption == PolicyAttempts \in Nat \ {0} /\ MaxStreamLen \in Nat \ {0}

VARIABLES
    xadd,            \* xadd[d]: has the publisher of d tried Redis
    circuit_open,    \* REDIS_CIRCUIT_OPEN in the API process
    stream,          \* the entries no consumer of the group has read, oldest first
    pel,             \* the group's pending entries: read and not acknowledged
    consuming,       \* is the consumer task of worker w in its loop
    batch,           \* batch[w]: entries the consumer has read and not handled
    sent,            \* sent[w]: what has been done for the head of the batch
    redis_done       \* history: delivered by a consumer, which acknowledged it

consumerVars == <<consuming, batch, sent>>
redisVars    == <<xadd, circuit_open, stream, pel, consumerVars, redis_done>>
allVars      == <<vars, redisVars>>

RedisTypeOK ==
    /\ TypeOK
    /\ xadd \in [Deliveries -> {"todo", "tried"}]
    /\ circuit_open \in BOOLEAN
    /\ stream \in Seq(Deliveries)
    /\ pel \subseteq Deliveries
    /\ consuming \in [Workers -> BOOLEAN]
    /\ batch \in [Workers -> Seq(Deliveries)]
    /\ sent \in [Workers -> {"no", "failed", "handled", "delivered"}]
    /\ redis_done \subseteq Deliveries

RedisInit ==
    /\ Init
    /\ xadd = [d \in Deliveries |-> "todo"]
    /\ circuit_open = FALSE
    /\ stream = <<>>
    /\ pel = {}
    /\ consuming = [w \in Workers |-> TRUE]
    /\ batch = [w \in Workers |-> <<>>]
    /\ sent = [w \in Workers |-> "no"]
    /\ redis_done = {}

-----------------------------------------------------------------------------
(* publish_to_queue_fast.                                                  *)

\* XADD with MAXLEN ~: beyond the limit the oldest entry may be trimmed.
Added(d) ==
    LET s == Append(stream, d)
    IN  IF Len(s) > MaxStreamLen THEN {s, Tail(s)} ELSE {s}

Tried(d) == xadd' = [xadd EXCEPT ![d] = "tried"] /\ UNCHANGED publisher

\* Redis first.  An error that names memory or rate limits opens the circuit;
\* after any error the publisher falls back to PostgreSQL.
TryRedis(d) ==
    /\ publisher[d] = "publish" /\ xadd[d] = "todo" /\ ~circuit_open
    /\ \/ /\ stream' \in Added(d)
          /\ publisher' = [publisher EXCEPT ![d] = "done"]
          /\ UNCHANGED <<xadd, circuit_open>>
       \/ /\ "lost_reply" \in Faults
          /\ stream' \in Added(d)
          /\ Tried(d)
          /\ UNCHANGED circuit_open
       \/ /\ circuit_open' \in BOOLEAN
          /\ Tried(d)
          /\ UNCHANGED stream
    /\ UNCHANGED <<tableVars, is_active, test_mark, purgeVars, taskVars, reaperVars, acked,
                   pel, consumerVars, redis_done>>

\* The 60 s cooldown is over.
CloseRedisCircuit ==
    /\ circuit_open
    /\ circuit_open' = FALSE
    /\ UNCHANGED <<vars, xadd, stream, pel, consumerVars, redis_done>>

\* The fallback, and the handlers that publish to PostgreSQL directly.
PublishToPostgres(d) ==
    /\ publisher[d] = "publish" => xadd[d] = "tried" \/ circuit_open
    /\ PublishToQueue(d)
    /\ UNCHANGED redisVars

-----------------------------------------------------------------------------
(* The consumer task of worker w, one entry at a time.  Its in-memory      *)
(* IdempotencyCache is not part of the state: a delivery is in the stream  *)
(* once and XREADGROUP hands an entry out once, whatever the cache says,   *)
(* so the consumer that marked a delivery never meets it again             *)
(* (OneConsumer).                                                          *)

\* Mutant: the entries are read but stay unread for the group.
MutReadStream(w) ==
    /\ consuming[w] /\ batch[w] = <<>> /\ stream # <<>>
    /\ pel' = pel \cup {stream[i] : i \in 1..Len(stream)}
    /\ batch' = [batch EXCEPT ![w] = stream]
    /\ UNCHANGED <<vars, xadd, circuit_open, stream, consuming, sent, redis_done>>

\* XREADGROUP ... ">": the unread entries become pending; when the reply is
\* lost they stay so and no consumer sees them.
ReadStream(w) ==
    /\ consuming[w] /\ batch[w] = <<>> /\ stream # <<>>
    /\ pel' = pel \cup {stream[i] : i \in 1..Len(stream)}
    /\ stream' = <<>>
    /\ \/ batch' = [batch EXCEPT ![w] = stream]
       \/ "lost_reply" \in Faults /\ UNCHANGED batch
    /\ UNCHANGED <<vars, xadd, circuit_open, consuming, sent, redis_done>>

\* A rate limit or out-of-memory error ends the consumer for good.
StopConsumer(w) ==
    /\ consuming[w] /\ batch[w] = <<>>
    /\ consuming' = [consuming EXCEPT ![w] = FALSE]
    /\ UNCHANGED <<vars, xadd, circuit_open, stream, pel, batch, sent, redis_done>>

\* The entry at the head, before anything has been done for it.
Fresh(w) == batch[w] # <<>> /\ sent[w] = "no"

NextEntry(w) ==
    /\ batch' = [batch EXCEPT ![w] = Tail(@)]
    /\ sent' = [sent EXCEPT ![w] = "no"]

\* XACK, its error ignored.
Ack(d) == pel' \in {pel, pel \ {d}}

\* No signing secret in the message nor in the table.
AckUnsigned(w) ==
    /\ Fresh(w)
    /\ Ack(Head(batch[w])) /\ NextEntry(w)
    /\ UNCHANGED <<vars, xadd, circuit_open, stream, consuming, redis_done>>

\* Circuit open or endpoint throttled: the entry is left pending.
LeavePending(w) ==
    /\ Fresh(w)
    /\ NextEntry(w)
    /\ UNCHANGED <<vars, xadd, circuit_open, stream, pel, consuming, redis_done>>

\* DeliveryRouter::deliver and what is recorded of its result; the message
\* always has attempt 0.
SendEntry(w, ok) ==
    LET d == Head(batch[w]) IN
    /\ Fresh(w)
    /\ acked' = IF ok THEN acked \cup {d} ELSE acked
    /\ sent' = [sent EXCEPT ![w] = IF ok THEN "delivered"
                                   ELSE IF 0 + 1 >= PolicyAttempts THEN "failed"
                                   ELSE "handled"]
    /\ UNCHANGED <<tableVars, is_active, apiVars, taskVars, reaperVars,
                   xadd, circuit_open, stream, pel, consuming, batch, redis_done>>

\* Mutant: dead_letter_delivery without its INSERT INTO dead_letters, and on
\* the delivery's own queue row.
MutBuryEntry(w) ==
    LET d == Head(batch[w]) IN
    /\ sent[w] = "failed"
    /\ sent' = [sent EXCEPT ![w] = "handled"]
    /\ SetQueue(d, "dead_letter")
    /\ UNCHANGED <<deliveries, attempt_count, delivery_attempts, dead_letters, is_active,
                   apiVars, taskVars, reaperVars, acked,
                   xadd, circuit_open, stream, pel, consuming, batch, redis_done>>

\* Mutant: the delivery gets a status of the queue table.
MutBuryStatus(w) ==
    LET d == Head(batch[w]) IN
    /\ sent[w] = "failed" /\ Exists(d)
    /\ sent' = [sent EXCEPT ![w] = "handled"]
    /\ deliveries' = [deliveries EXCEPT ![d] = "dead_letter"]
    /\ dead_letters' = dead_letters \cup {d}
    /\ UNCHANGED <<queue, attempt_count, delivery_attempts, is_active,
                   apiVars, taskVars, reaperVars, acked,
                   xadd, circuit_open, stream, pel, consuming, batch, redis_done>>

\* dead_letter_delivery with the nil queue id: no queue row matches.  Its
\* error is ignored.
BuryEntry(w) ==
    LET d == Head(batch[w]) IN
    /\ sent[w] = "failed"
    /\ sent' = [sent EXCEPT ![w] = "handled"]
    /\ \/ /\ Exists(d)
          /\ deliveries' = [deliveries EXCEPT ![d] = "failed"]
          /\ dead_letters' = dead_letters \cup {d}
          /\ delivery_attempts' = [delivery_attempts EXCEPT ![d] = @ \cup {0 + 1}]
       \/ UNCHANGED <<deliveries, dead_letters, delivery_attempts>>
    /\ UNCHANGED <<queue, attempt_count, is_active, apiVars, taskVars, reaperVars, acked,
                   xadd, circuit_open, stream, pel, consuming, batch, redis_done>>

\* The XACK after the delivery, whatever its result.
AckEntry(w) ==
    LET d == Head(batch[w]) IN
    /\ sent[w] \in {"handled", "delivered"}
    /\ redis_done' = IF sent[w] = "delivered" THEN redis_done \cup {d} ELSE redis_done
    /\ Ack(d) /\ NextEntry(w)
    /\ UNCHANGED <<vars, xadd, circuit_open, stream, consuming>>

\* parse_xreadgroup_response on the reply of XAUTOCLAIM, [cursor, entries,
\* deleted], which it takes for a list of streams: no entry id comes out of it
\* (at most the name of a field, whose XACK fails).
Recovered(claimed) == {}

\* The worker process is started again: XAUTOCLAIM moves the pending entries
\* to the new consumer, which acknowledges the ones it can parse.
Restart(w) ==
    /\ WorkerCrash(w) \/ (Idle(w) /\ UNCHANGED vars)
    /\ ~Idle(w) \/ batch[w] # <<>> \/ ~consuming[w] \/ pel # {}
    /\ consuming' = [consuming EXCEPT ![w] = TRUE]
    /\ batch' = [batch EXCEPT ![w] = <<>>]
    /\ sent' = [sent EXCEPT ![w] = "no"]
    /\ pel' = pel \ Recovered(pel)
    /\ UNCHANGED <<xadd, circuit_open, stream, redis_done>>

ConsumerStep(w) ==
    \/ ReadStream(w) \/ StopConsumer(w)
    \/ AckUnsigned(w) \/ LeavePending(w)
    \/ \E ok \in BOOLEAN : SendEntry(w, ok)
    \/ BuryEntry(w) \/ AckEntry(w)

-----------------------------------------------------------------------------
HandlerStep(d) ==
    \/ CreateWebhook(d) \/ ReplayWebhook(d) \/ AdminReplay(d)
    \/ MarkFailed(d) \/ MarkTestDelivered(d) \/ ApiCrash(d)
    \/ PurgeAttempts(d) \/ PurgeDeadLetter(d) \/ ArchiveDelivery(d)
    \/ DeleteDelivery(d) \/ CleanupWebhookQueue(d)

PollingStep(w) ==
    \/ \E S \in SUBSET Deliveries, b \in BOOLEAN : ClaimPending(w, S, b)
    \/ \E d \in Deliveries : TaskStep(w, d)
    \/ ReaperStep(w)

RedisNext ==
    \/ \E d \in Deliveries : TryRedis(d) \/ PublishToPostgres(d)
    \/ CloseRedisCircuit
    \/ \E w \in Workers : ConsumerStep(w) \/ Restart(w)
    \/ /\ \/ \E d \in Deliveries : HandlerStep(d)
          \/ \E e \in Endpoints : SetActive(e)
          \/ \E w \in Workers : PollingStep(w)
       /\ UNCHANGED redisVars

RedisSpec == RedisInit /\ [][RedisNext]_allVars

-----------------------------------------------------------------------------
(* Properties of the composition, next to those of DeliveryQueue.          *)

\* Each entry is handled by one consumer, once: it is unread, or at one place
\* of one consumer's batch, and what a consumer has is pending in the group.
OneConsumer ==
    /\ \A i, j \in DOMAIN stream : stream[i] = stream[j] => i = j
    /\ \A w \in Workers : \A i \in DOMAIN batch[w] :
          /\ batch[w][i] \in pel
          /\ \A j \in DOMAIN stream : stream[j] # batch[w][i]
          /\ \A v \in Workers : \A j \in DOMAIN batch[v] :
                batch[v][j] = batch[w][i] => v = w /\ j = i

\* An entry that was sent leaves the pending list only if its webhook has been
\* delivered: "Ack: XACK after successful delivery" (api/src/queue.rs).
AckAfterSuccess ==
    [][\A w \in Workers : sent[w] # "no" /\ Head(batch[w]) \in pel /\ Head(batch[w]) \notin pel'
          => Head(batch[w]) \in acked]_allVars

\* A webhook that a consumer has delivered and acknowledged is not sent again
\* by the polling loop: "Idempotency guard: check if this delivery was already
\* successfully delivered" (worker/src/main.rs).
RedisDeliveryFinal ==
    \A w \in Workers, d \in Deliveries : pc[w][d] = "checked" => d \notin redis_done

\* The workers run on, restart and read the stream; fair as in DeliveryQueue.
RedisFairness ==
    /\ \A d \in Deliveries :
          /\ WF_allVars(TryRedis(d) \/ PublishToPostgres(d))
          /\ WF_allVars((MarkFailed(d) \/ MarkTestDelivered(d)) /\ UNCHANGED redisVars)
          /\ SF_allVars(\E w \in Workers, S \in SUBSET Deliveries :
                d \in S /\ ClaimPending(w, S, TRUE) /\ UNCHANGED redisVars)
          /\ SF_allVars(\E w \in Workers, S \in SUBSET Deliveries :
                d \in S /\ SelectStuck(w, S) /\ UNCHANGED redisVars)
          /\ SF_allVars(\E w \in Workers, S \in SUBSET Deliveries :
                d \in S /\ SelectOrphans(w, S) /\ UNCHANGED redisVars)
          /\ SF_allVars(\E w \in Workers :
                d \in orphans[w] /\ InsertOrphan(w, d) /\ queue'[d] # "none" /\ UNCHANGED redisVars)
    /\ \A w \in Workers :
          /\ WF_allVars(ReaperStep(w) /\ UNCHANGED redisVars)
          /\ SF_allVars(ReapZombies(w, TRUE) /\ UNCHANGED redisVars)
          /\ WF_allVars(AckEntry(w) \/ BuryEntry(w))
          /\ WF_allVars(ReadStream(w) \/ \E ok \in BOOLEAN : SendEntry(w, ok))
    /\ \A w \in Workers, d \in Deliveries :
          /\ WF_allVars(TaskStep(w, d) /\ UNCHANGED redisVars)
          /\ SF_allVars(CheckDelivered(w, d) /\ UNCHANGED redisVars)
          /\ SF_allVars(SkipDelivered(w, d) /\ UNCHANGED redisVars)
          /\ SF_allVars((\E r \in {"ok", "retryable", "fatal"} : Send(w, d, r)) /\ UNCHANGED redisVars)
          /\ SF_allVars(Commit(w, d) /\ UNCHANGED redisVars)

RedisFairSpec == RedisSpec /\ RedisFairness

\* The same with workers that are restarted again and again.
RestartingSpec == RedisFairSpec /\ \A w \in Workers : SF_allVars(Restart(w))

\* An entry that was left pending is picked up again: "Don't ACK - XAUTOCLAIM
\* will pick it up later" (worker/src/main.rs).
PendingPickedUp == \A d \in Deliveries : d \in pel ~> d \notin pel
=============================================================================
