----------------------------- MODULE WebhookQuota -----------------------------
(***************************************************************************)
(* The webhook quota of one customer: customers.webhook_count, the buffer  *)
(* of increments every API process keeps (api/src/webhook_count_buffer.rs) *)
(* and the handlers that check and charge the quota: create_webhook and    *)
(* batch_webhooks through the buffer, the replays with an UPDATE           *)
(* (api/src/routes/webhooks).                                              *)
(*                                                                         *)
(* The flush is two memory accesses and one SQL statement; other threads   *)
(* of the process run between them.                                        *)
(***************************************************************************)
EXTENDS Integers, FiniteSetsExt

CONSTANTS
    Apis,          \* API processes
    Requests,      \* requests, each handled once
    Kinds,         \* handlers of this instance: "create", "batch", "replay"
    Sizes,         \* lengths of the batches
    WebhookLimit,  \* customers.webhook_limit
    AllowOverage,  \* customers.allow_overage
    MaxDoubled,    \* bound: increments counted twice by lost replies
    QuotaFaults    \* "error": a statement fails, "crash": a process dies,
                   \* "lost_reply": a statement is applied but reported failed,
                   \* "reset": the counter is reset

ASSUME QuotaAssumption ==
    /\ IsFiniteSet(Apis) /\ IsFiniteSet(Requests)
    /\ Kinds \subseteq {"create", "batch", "replay"}
    /\ Sizes \subseteq Nat \ {0}
    /\ WebhookLimit \in Nat /\ MaxDoubled \in Nat
    /\ AllowOverage \in BOOLEAN
    /\ QuotaFaults \subseteq {"error", "crash", "lost_reply", "reset"}

VARIABLES
    webhook_count, \* customers.webhook_count
    pending,       \* pending[i]: the buffer of process i, 0 without an entry
    flushing,      \* flushing[i]: what the flush of process i is doing
    taken,         \* taken[i]: the value its flush has read
    at,            \* at[r]: where the handler of request r is
    api,           \* api[r]: the process that handles it
    size,          \* size[r]: webhooks in its batch
    made,          \* made[r]: created_count of its batch
    seen,          \* seen[r]: the webhook_count it has read
    accepted,      \* history: deliveries accepted
    charged,       \* history: what the handlers have counted
    lost,          \* history: counted, but dropped from a buffer
    doubled,       \* history: counted twice, in the table and in a buffer
    forgiven       \* history: counted, and cleared by a reset

flushVars   == <<flushing, taken>>
requestVars == <<at, api, size, made, seen>>
flowVars    == <<lost, doubled, forgiven>>
historyVars == <<accepted, charged, flowVars>>
qvars == <<webhook_count, pending, flushVars, requestVars, historyVars>>

Stages == {"new", "counting", "checking", "allowed", "inserting", "rollback", "replaying", "done", "uncounted"}

QuotaTypeOK ==
    /\ webhook_count \in Int
    /\ pending \in [Apis -> Int] /\ taken \in [Apis -> Int]
    /\ flushing \in [Apis -> {"idle", "read", "sending"}]
    /\ at \in [Requests -> Stages] /\ api \in [Requests -> Apis]
    /\ size \in [Requests -> Nat] /\ made \in [Requests -> Nat] /\ seen \in [Requests -> Int]
    /\ accepted \in Nat /\ charged \in Int /\ lost \in Int /\ doubled \in Int /\ forgiven \in Int

QuotaInit ==
    /\ webhook_count = 0
    /\ pending = [i \in Apis |-> 0]
    /\ flushing = [i \in Apis |-> "idle"]
    /\ taken = [i \in Apis |-> 0]
    /\ at = [r \in Requests |-> "new"]
    /\ api \in [Requests -> Apis]
    /\ size = [r \in Requests |-> 0]
    /\ made = [r \in Requests |-> 0]
    /\ seen = [r \in Requests |-> 0]
    /\ accepted = 0 /\ charged = 0 /\ lost = 0 /\ doubled = 0 /\ forgiven = 0

Goto(r, stage) == at' = [at EXCEPT ![r] = stage]

\* WebhookCountBuffer::increment.
Increment(i, n) ==
    /\ pending' = [pending EXCEPT ![i] = @ + n]
    /\ charged' = charged + n

-----------------------------------------------------------------------------
(* create_webhook.                                                         *)

\* The limit_check of the INSERT: the counter in the table, without a buffer.
WithinLimit == AllowOverage \/ webhook_count < WebhookLimit

CreateWebhook(r) ==
    /\ "create" \in Kinds /\ at[r] = "new"
    /\ IF WithinLimit
       THEN /\ accepted' = accepted + 1
            /\ \/ Goto(r, "counting")
               \/ "lost_reply" \in QuotaFaults /\ Goto(r, "uncounted")
       ELSE UNCHANGED accepted /\ Goto(r, "done")
    /\ UNCHANGED <<webhook_count, pending, flushVars, api, size, made, seen, charged, flowVars>>

CountCreated(r) ==
    /\ at[r] = "counting"
    /\ Increment(api[r], 1)
    /\ Goto(r, "done")
    /\ UNCHANGED <<webhook_count, flushVars, api, size, made, seen, accepted, flowVars>>

-----------------------------------------------------------------------------
(* batch_webhooks.                                                         *)

ReadCount(r, n) ==
    /\ "batch" \in Kinds /\ at[r] = "new"
    /\ size' = [size EXCEPT ![r] = n]
    /\ seen' = [seen EXCEPT ![r] = webhook_count]
    /\ Goto(r, "checking")
    /\ UNCHANGED <<webhook_count, pending, flushVars, api, made, historyVars>>

CheckBatch(r) ==
    /\ at[r] = "checking"
    /\ IF ~AllowOverage /\ seen[r] + pending[api[r]] + size[r] > WebhookLimit
       THEN Goto(r, "done") ELSE Goto(r, "allowed")
    /\ UNCHANGED <<webhook_count, pending, flushVars, api, size, made, seen, historyVars>>

CountBatch(r) ==
    /\ at[r] = "allowed"
    /\ Increment(api[r], size[r])
    /\ Goto(r, "inserting")
    /\ UNCHANGED <<webhook_count, flushVars, api, size, made, seen, accepted, flowVars>>

\* How many deliveries the bulk INSERT of n rows creates: its VALUES list
\* numbers seven placeholders a row and uses six, so that PostgreSQL refuses
\* any statement of two rows or more.
Insertable(n) == {0, 1}

\* Filtered and invalid webhooks are left out, and unpublished ones marked
\* failed: created_count may be less than the batch.  An error of the
\* endpoint query or of the INSERT returns at once.
InsertBatch(r) ==
    /\ at[r] = "inserting"
    /\ \/ \E m \in Insertable(size[r]) :
             /\ made' = [made EXCEPT ![r] = m]
             /\ accepted' = accepted + m
             /\ Goto(r, "rollback")
       \/ /\ "error" \in QuotaFaults \/ size[r] > 1
          /\ Goto(r, "done")
          /\ UNCHANGED <<made, accepted>>
       \/ /\ "lost_reply" \in QuotaFaults
          /\ \E m \in Insertable(size[r]) : accepted' = accepted + m
          /\ Goto(r, "done")
          /\ UNCHANGED made
    /\ UNCHANGED <<webhook_count, pending, flushVars, api, size, seen, charged, flowVars>>

\* Mutant: the whole batch is rolled back.
MutRollBack(r) ==
    /\ at[r] = "rollback"
    /\ Increment(api[r], -size[r])
    /\ Goto(r, "done")
    /\ UNCHANGED <<webhook_count, flushVars, api, size, made, seen, accepted, flowVars>>

RollBack(r) ==
    /\ at[r] = "rollback"
    /\ Increment(api[r], made[r] - size[r])
    /\ Goto(r, "done")
    /\ UNCHANGED <<webhook_count, flushVars, api, size, made, seen, accepted, flowVars>>

-----------------------------------------------------------------------------
(* replay_webhook, and one delivery of batch_replay.                       *)

\* reserve_webhook_slot.
ReserveSlot(r) ==
    /\ "replay" \in Kinds /\ at[r] = "new"
    /\ IF AllowOverage \/ webhook_count + 1 <= WebhookLimit
       THEN /\ webhook_count' = webhook_count + 1
            /\ charged' = charged + 1
            /\ Goto(r, "replaying")
       ELSE Goto(r, "done") /\ UNCHANGED <<webhook_count, charged>>
    /\ UNCHANGED <<pending, flushVars, api, size, made, seen, accepted, flowVars>>

InsertReplay(r) ==
    /\ at[r] = "replaying"
    /\ \/ accepted' = accepted + 1
       \/ "error" \in QuotaFaults /\ UNCHANGED accepted
    /\ Goto(r, "done")
    /\ UNCHANGED <<webhook_count, pending, flushVars, api, size, made, seen, charged, flowVars>>

-----------------------------------------------------------------------------
(* WebhookCountBuffer::flush, every 5 seconds.                             *)

\* Mutant: only a positive count is written.
MutBuffered(i) == pending[i] > 0

\* The map has an entry; rollbacks leave negative ones.
Buffered(i) == pending[i] # 0

FlushRead(i) ==
    /\ flushing[i] = "idle" /\ Buffered(i)
    /\ taken' = [taken EXCEPT ![i] = pending[i]]
    /\ flushing' = [flushing EXCEPT ![i] = "read"]
    /\ UNCHANGED <<webhook_count, pending, requestVars, historyVars>>

\* Mutant: an entry goes and readers do not expect it.
MutRemoved(i) == [j \in Apis \ {i} |-> pending[j]]

\* The buffer without the entry of the customer.
Removed(i) == [pending EXCEPT ![i] = 0]

\* pending.remove: the entry goes, with what was added since it was read.
FlushRemove(i) ==
    /\ flushing[i] = "read"
    /\ pending' = Removed(i)
    /\ lost' = lost + pending[i] - taken[i]
    /\ flushing' = [flushing EXCEPT ![i] = "sending"]
    /\ UNCHANGED <<webhook_count, taken, requestVars, accepted, charged, doubled, forgiven>>

\* Mutant: after a failed UPDATE nothing is added back.
MutFailedFlush(i) == pending

\* Failed entries are added back to the buffer.
FailedFlush(i) == [pending EXCEPT ![i] = @ + taken[i]]

Flushed(i) == webhook_count' = webhook_count + taken[i] /\ UNCHANGED <<pending, doubled>>

\* The UPDATE is applied and its reply lost.
LostReply(i) ==
    /\ "lost_reply" \in QuotaFaults /\ doubled + taken[i] \in 0 .. MaxDoubled
    /\ webhook_count' = webhook_count + taken[i]
    /\ pending' = FailedFlush(i)
    /\ doubled' = doubled + taken[i]

FlushUpdate(i) ==
    /\ flushing[i] = "sending"
    /\ \/ Flushed(i)
       \/ "error" \in QuotaFaults /\ pending' = FailedFlush(i) /\ UNCHANGED <<webhook_count, doubled>>
       \/ LostReply(i)
    /\ taken' = [taken EXCEPT ![i] = 0]
    /\ flushing' = [flushing EXCEPT ![i] = "idle"]
    /\ UNCHANGED <<requestVars, accepted, charged, lost, forgiven>>

InFlight(i) == IF flushing[i] = "sending" THEN taken[i] ELSE 0

\* The process dies with its buffer and its requests; flush_all is not called.
\* A delivery that was accepted and not counted yet never is.
Crash(i) ==
    /\ "crash" \in QuotaFaults
    /\ pending[i] # 0 \/ flushing[i] # "idle" \/ \E r \in Requests : api[r] = i /\ at[r] \notin {"done", "uncounted"}
    /\ lost' = lost + pending[i] + InFlight(i)
    /\ pending' = [pending EXCEPT ![i] = 0]
    /\ taken' = [taken EXCEPT ![i] = 0]
    /\ flushing' = [flushing EXCEPT ![i] = "idle"]
    /\ at' = [r \in Requests |-> IF api[r] # i \/ at[r] \in {"new", "uncounted"} THEN at[r]
                                ELSE IF at[r] = "counting" THEN "uncounted" ELSE "done"]
    /\ UNCHANGED <<webhook_count, api, size, made, seen, accepted, charged, doubled, forgiven>>

\* reset_monthly_webhook_counts and reset_daily_webhook_counts.
ResetCounts ==
    /\ "reset" \in QuotaFaults /\ webhook_count > 0
    /\ webhook_count' = 0
    /\ forgiven' = forgiven + webhook_count
    /\ UNCHANGED <<pending, flushVars, requestVars, accepted, charged, lost, doubled>>

RequestStep(r) ==
    \/ CreateWebhook(r) \/ CountCreated(r)
    \/ (\E n \in Sizes : ReadCount(r, n)) \/ CheckBatch(r) \/ CountBatch(r)
    \/ InsertBatch(r) \/ RollBack(r)
    \/ ReserveSlot(r) \/ InsertReplay(r)

FlushStep(i) == FlushRead(i) \/ FlushRemove(i) \/ FlushUpdate(i)

QuotaNext ==
    \/ \E r \in Requests : RequestStep(r)
    \/ \E i \in Apis : FlushStep(i) \/ Crash(i)
    \/ ResetCounts

QuotaSpec == QuotaInit /\ [][QuotaNext]_qvars

-----------------------------------------------------------------------------
Sum(f) == MapThenSumSet(LAMBDA i : f[i], Apis)

\* What is counted is in one place: in the table, in a buffer, on its way,
\* cleared by a reset, or lost.  Failed flushes, resets and concurrent handlers count nothing twice;
\* only the lost reply of a flush does.
CountedOnce ==
    webhook_count + Sum(pending) + Sum([i \in Apis |-> InFlight(i)]) + lost + forgiven
        = charged + doubled

\* Deliveries that are accepted and not counted: their handler has yet to count
\* them, has not learned of its INSERT, or has died with its process.
Uncounted == {r \in Requests : at[r] \in {"counting", "uncounted"}}

\* No delivery is free, however the handlers, their failures after the charge
\* and their rollbacks interleave: all but those are charged.  What goes wrong
\* between the charge and the rollback of a batch only charges too much.
NothingUncharged == accepted <= charged + Cardinality(Uncounted)

\* "Clear the map BEFORE flushing to avoid losing concurrent increments"
\* (api/src/webhook_count_buffer.rs): while no process dies nothing is lost.
NoLostIncrement == "crash" \notin QuotaFaults => lost = 0

\* "This atomically checks the customer's webhook limit and inserts the
\* delivery" (create.rs): before the first reset no more deliveries are accepted
\* than the limit.
LimitRespected == AllowOverage \/ forgiven # 0 \/ accepted <= WebhookLimit

\* "Rollback excess webhook_count for failed/filtered items via buffer"
\* (create.rs): when no request is in progress the charge is the number of
\* accepted deliveries.
ChargeIsAccepted == (\A r \in Requests : at[r] \in {"new", "done"}) => charged = accepted

\* The buffer's task ticks on, and the table can be written now and then.
QuotaFairness ==
    \A i \in Apis :
        /\ WF_qvars(FlushStep(i))
        /\ SF_qvars(FlushUpdate(i) /\ Flushed(i))

QuotaFairSpec == QuotaSpec /\ QuotaFairness

\* Once the requests stop, every buffer is written to the table for good:
\* failed flushes are repeated and none is left behind.
BuffersDrain == <>[](\A i \in Apis : pending[i] = 0 /\ flushing[i] = "idle")
=============================================================================
