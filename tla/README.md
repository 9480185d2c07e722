# HookSniff verification project

HookSniff accepts webhooks from its customers, stores them, and delivers them to
the customers' HTTP endpoints, with retries, dead-lettering, quotas and billing.
Its dashboard, a Next.js application, shows them and keeps a user signed in for days.
This directory holds TLA+ modules of the parts of both where several processes,
tabs, failures and clocks meet, TLC configurations that check them on small instances,
and proofs, checked by TLAPS, of what matters most for every instance.

Contents

1. [Inventory of the system](#1-inventory-of-the-system)
2. [Modules and how they correspond to the code](#2-modules-and-how-they-correspond-to-the-code)
3. [Runs](#3-runs)
4. [Bounds](#4-bounds)
5. [Fairness](#5-fairness)
6. [Proofs](#6-proofs)
7. [Where the code departs from what is said of it](#7-where-the-code-departs-from-what-is-said-of-it)
8. [Not modelled](#8-not-modelled)
9. [Plan](#9-plan)

Paths are relative to the repository's root.

To check a configuration: `tlc -config DeliveryQueue_calm.cfg MCDeliveryQueue.tla`
(the module of each configuration is in the tables of section 3). To check the
proofs: `tlapm DeliveryQueue_proofs.tla`.

---

## 1. Inventory of the system

Two Rust programs do the work, each running as several processes
(`cloudbuild.yaml`), over one PostgreSQL database and one Redis:

- the **API** (`api/`), an axum server with a dozen background loops,
- the **worker** (`worker/`), a polling loop, an optional Redis consumer and
  their periodic arms.

They share no memory: everything between them goes through tables and Redis keys.
The **dashboard** (`dashboard/`) runs in the browsers of their users, each with any
number of tabs that share `localStorage` and a `BroadcastChannel`; it talks to the
API over HTTP and one WebSocket.

```
 customer --> API handler --INSERT--> deliveries --task--> webhook_queue --claim--> worker task --HTTP--> endpoint
                  |                                   \--> Redis stream --XREADGROUP--> consumer --HTTP--^
                  |                                          (USE_REDIS_QUEUE=true)
                  +-- count buffer --flush--> customers.webhook_count
                  +-- idempotency_keys
 API jobs: invoicing, retention, dunning, Cortex        worker arms: zombie reaper, orphan reaper, retention

 tab --apiFetch, 401, refresh--> API: access and refresh tokens       tabs share localStorage, BroadcastChannel
 tab --WebSocket (token)-------> gateway: at most 10 per customer     events and polling invalidate queries
 tab: screens <-- query cache --fetch / mutate, invalidate--> API

 anyone --HTTP--> /playground-api/in/[token] --push--> history in Redis <--poll-- playground page, sandbox page
```

### Modelled

| Component | State it keeps | Operations | Hard behaviour | What makes it correct |
|---|---|---|---|---|
| PostgreSQL delivery queue (`worker/src/main.rs`, `worker/src/queue.rs`, `api/src/db.rs`, `api/src/routes/webhooks/`) | tables `deliveries`, `webhook_queue`, `delivery_attempts`, `dead_letters`; the tasks and reaper snapshots of every worker | accept, publish, mark failed, claim, guard, send, commit / retry / dead-letter, reap zombies, reap orphans, purge logs and dead letters, archive, delete, clean up | a crash at any await; publishing in a background task after the answer; claims committed before the secrets are read; reapers acting on snapshots; lost replies; retention in statements that are committed one by one | nothing accepted is stranded; delivered means received; a dead letter is accounted for in three tables until retention takes it; one owner; the log agrees with the counter; every webhook is settled |
| Redis Streams fast path (`api/src/queue.rs`, `api/src/db.rs`, the consumer in `worker/src/main.rs`) | the stream, the group's pending list, the API's Redis circuit, each consumer's batch | XADD with fallback, XREADGROUP, send, dead-letter, XACK, XAUTOCLAIM, stop | lost replies, trimming, restart between read and ack, two paths to one row | an entry is with one consumer once; the fallback path strands nothing; what Redis loses the reaper settles |
| Circuit breaker (`worker/src/circuit_breaker.rs`) | one circuit per endpoint and process, one Redis key per endpoint | allow, record success, record failure, save, load, expire | the save happens after the lock is released; restart from what another process saved | state and counter never contradict each other, anywhere; an open circuit is always tested again |
| Webhook quota and count buffer (`api/src/webhook_count_buffer.rs`, `api/src/routes/webhooks/create.rs`, `replay.rs`) | `customers.webhook_count`, a buffer per API process | check, charge, roll back, reserve, flush in three steps, reset | threads between the steps of a flush; failed flushes; lost replies; negative entries | what is counted is in one place; what is accepted is charged; buffers drain |
| Overage invoicing (`api/src/jobs/overage_invoicing.rs`, `api/src/background.rs`, `try_acquire_lock` of `api/src/jobs/job_queue.rs`) | invoices, a Redis lock with a lifetime, the sleep of every process | sleep, lock, query, check, insert | the lock fails open and expires; check and insert are two statements; a run may pass midnight or a plan change | invoices are justified |
| Idempotency keys (`api/src/middleware/idempotency.rs`, `api/src/routes/webhooks/create.rs`) | table `idempotency_keys` | look up, create, store in the background, clean up | retries while the store is under way; keys shared by customers; rows that have expired and still block | an answer from the table is of the sender's own customer, key and data |
| Dashboard session (`dashboard/src/lib/api.ts`, `store.tsx`, `useIdleTimeout.ts`; `api/src/routes/auth/session.rs`) | issued tokens at the server; two keys of `localStorage`; per tab the token, the timers, one refresh promise; messages between tabs | sign in and out, refresh, restore at mount, call with 401 and repeat, idle, hear other tabs | tabs that refresh at once with a token that is used up; answers in any order; reload or sleep while one is on its way; sign-out racing a refresh | the session is not lost while it is wanted; the stored refresh token is good; no call hangs |
| Live updates (`dashboard/src/hooks/useWebSocket.ts`, `useRealtime.ts`; `api/src/ws/`) | the page's sockets, module globals, one timer | connect, open, close, retry, rotate the token, sign out, visit, leave, go online | close events that come after the next connection; a gateway that accepts and then refuses; five code paths that connect | "connected" means a socket is open; the hook ends connected or polling |
| Query cache (`ReactQueryProvider.tsx`, 26 hooks and 18 pages of `dashboard/src`) | one entry, its fetch, the calls of a mutation | open, leave, fetch, mutate, edit ahead of the answer, roll back, invalidate | overlapping optimistic calls, lost replies, calls applied after the page has given them up, fetches from before the call, screens that come and go | a valid entry is current but for such late writes; an open screen catches up and is never blank |
| Playground (`dashboard/src/lib/redis.ts`, `app/playground-api/`, `app/[locale]/playground/page.tsx`, `app/[locale]/(dashboard)/sandbox/content.tsx`) | a history per token, in a Redis key that is a string or a list, with a map of arrays in the server's memory behind it; a counter per address; the page's session, list and clock | issue a token, capture in up to five Redis calls, delete, expire, poll, send, new session, reload | captures that race through a fallback that reads and writes the whole history; Redis errors that are half applied; commands the client sends again; arrays changed in place; a page that polls while it sends and starts over | only the client's re-sending makes copies of a record; an undisturbed capture is kept |

### Not modelled, or planned

`PROJECT.json` lists every part. The ones with behaviour worth a module are in
the [plan](#9-plan): the subscription life cycle with coupons and dunning,
Cortex self-healing, the delivery throttle, retention, the Redis job queue, FIFO
and the API's rate limits. The rest is I/O, presentation, request
authorisation or statistics (section 8).

### How the components meet

- `deliveries` is written by the API handlers, the queue's tasks, the Redis
  consumer, both reapers, retention and test mode. `DeliveryQueue` has all of
  these as actions, and `RedisPath` EXTENDS it with the stream, so that the
  composition runs both paths over the same tables.
- A worker asks the circuit breaker before each send; in `DeliveryQueue` its
  refusal is `Defer`, in `RedisPath` `LeavePending`. The circuits share nothing
  with the queue tables, so `CircuitBreaker` is a module of its own.
- Cortex and the dashboard disable endpoints; the queue sees that as `SetActive`.
- The handlers that accept deliveries also charge the quota; `WebhookQuota` has
  the charges and the acceptance, `DeliveryQueue` what happens afterwards.
- Invoicing reads plans and daily usage, written by billing and usage tracking;
  `OverageInvoicing` lets both change at any time.

- `Session` rotates access tokens; `LiveSocket` takes the rotation as `TokenChanges`
  and reconnects. `Session` does not depend on the socket, so each is checked with
  the other as its environment.
- Events of the socket invalidate queries, which `QueryCache` has as `Refetch`: a
  fetch of a query that a screen shows may begin at any time.

- `Playground` shares nothing with the rest: it is served by the Next.js application
  alone, with a Redis of its own.

The hazards of this code, each at its line with the properties that would catch
it, are in `PROJECT.json` ("hazards"); lesser ones are in section 9.

---

## 2. Modules and how they correspond to the code

`PROJECT.json` ("map") gives the source lines of every definition that models
code. Operators whose name begins with `Mut` are deliberately wrong versions of
the definition that follows them: replacing the definition by one of them
violates a property, which shows that the property depends on that code. No
specification uses them.

### DeliveryQueue, DeliveryContract

`DeliveryQueue` is the core. One step is one SQL statement, one committed
transaction or one HTTP exchange: what other processes can get between.

| Code | Model |
|---|---|
| a row of `deliveries`, its `status` | `deliveries[d]`, "absent" before and "deleted" after |
| the row of `webhook_queue` for it (`delivery_id` is unique) | `queue[d]`, `attempt_count[d]` |
| `delivery_attempts`, `dead_letters` | sets of attempt numbers, set of deliveries |
| the background task of `create_webhook` / `batch_webhooks`, the inline publisher of the replays | `publisher[d]` |
| the test-mode `UPDATE` | `test_mark[d]` |
| the tasks spawned by `process_pending`, joined before the next arm | `pc[w][d]`, `attempt[w][d]`; `Idle(w)` is the join |
| the arm that reaps, one reaper after the other | `phase[w]`, with the rows it has selected in `stuck[w]` and `orphans[w]` |
| `process_pending`: claim, secrets | `ClaimPending` |
| idempotency guard | `CheckDelivered`, `SkipDelivered` |
| circuit open, FIFO | `Defer` |
| no secret | `BuryUnsigned` |
| `deliver_with_routing` | `Send` with one of three classes of result |
| outcome transactions, `dead_letter_delivery`, `retry_delivery` | `CommitDelivered`, `DeadLetterDelivery`, `RetryDelivery` over `RecordOutcome` |
| `?` after the claim, a failed commit, a panic | `TaskError` |
| `reap_zombies`, SELECT and transaction | `SelectStuck`, `ReapZombies` |
| `reap_orphaned_deliveries`, SELECT and each INSERT | `SelectOrphans`, `InsertOrphan` |
| `cleanup_expired_retention` of the worker, GDPR erasure: each DELETE | `PurgeAttempts`, `DeleteDelivery`, `PurgeDeadLetter` |
| `run_retention` of the API: INSERT and DELETE | `ArchiveDelivery`, `DeleteDelivery` |
| `cleanup_webhook_queue` | `CleanupWebhookQueue` |

The statements of retention are autocommitted one by one, so the log of a delivery may
be gone before the delivery is, for good when the next statement fails; and dead
letters are deleted after 90 days although pro and enterprise customers keep their
deliveries for longer, and although a row the zombie reaper buried has no
`processed_at` and is never cleaned up. `log_purged` and `letters_purged` remember it,
as history: `AttemptsLogged` lets the log of such a delivery begin late, and
`DeadLetterAccounted` lets its dead letter be missing.

Clocks: a row that waits for `next_retry_at` becomes due at some moment, so
`ClaimPending` takes any set of due rows. The reapers' thresholds, 5 minutes for
a row in `processing` and 10 minutes for a pending delivery without a live row,
exist to keep a reaper away from work in progress. The constant `Faults` decides
whether they succeed: without `"stall"` ("calm") no process pauses longer than
the threshold, and a reaper does not select what a live task or publisher
still holds; with it every such selection is allowed. Properties guarded by
`Calm` are those that hold only because of the thresholds.

Crashes (`WorkerCrash`, `ApiCrash`) are part of every instance: processes are
restarted at each deployment.

`DeliveryContract` is the abstract specification: the status a customer sees and
which webhooks their endpoint has accepted. A webhook is settled once, reported
delivered only after the endpoint accepted it, and the endpoint is not called
again once it is settled. `DeliveryQueue` implements it with `status <-
deliveries` (property `ImplementsContract`) when nothing stalls, no reply is
lost and no test key is used; queue, tasks and reapers are stutters.

With stalls, lost replies or both paths at work the code does not keep that
contract: a webhook may be sent and settled again. `LooseSpec`, the second
specification of `DeliveryContract`, is what it keeps then: a customer never
sees a webhook return to pending or come back after it was erased, it is
reported delivered only after its endpoint accepted it, and an endpoint never
receives what was not accepted from the customer first. `KeepsLooseContract` is
the property; every webhook may move in one of its steps, because the zombie
reaper settles many at once.

### RedisPath

EXTENDS `DeliveryQueue` and adds `publish_to_queue_fast` (`TryRedis`,
`PublishToPostgres`) and the consumer task of each worker process (`ReadStream` ...
`AckEntry`). A delivery that went to Redis has no `webhook_queue` row until the
orphan reaper gives it one; when that happens both paths may deliver it.

Details that matter and are modelled as the code has them: the consumer records
nothing in the database on success; `dead_letter_delivery` is called with the
nil queue id, so it settles the delivery and no queue row; the retry counter of
a stream message is always 0; XACK follows the send whatever its result; a
rate-limit error of Redis ends the consumer for the life of the process; the
reply of XAUTOCLAIM has another shape than the parser expects, so `Recovered` is
empty. The in-memory `IdempotencyCache` is left out because it cannot act:
`OneConsumer` shows that no consumer meets a delivery twice.

### CircuitBreaker

One endpoint's circuit in each worker process and its Redis key. A task holds
the lock while it changes the circuit (`AllowRequest`, `Record`) and saves
after it has released it (`PersistCircuit`), so saves may be applied in any order.
`cooled` stands for "cooldown_secs have passed since opened_at". Failures are
counted up to the threshold, beyond which the code does not tell them apart.

### WebhookQuota

One customer, several API processes. `FlushRead`, `FlushRemove` and
`FlushUpdate` are the three steps of `WebhookCountBuffer::flush`; requests run
between them. `InsertBatch` models the bulk INSERT as it is built: its
placeholders are numbered seven to a row while six values are bound per row, so
a statement of two rows or more is refused (`Insertable`). `QuotaFaults` says
which faults the instance has: statements that fail, processes that die, flushes
whose reply is lost, and the reset of the counter. History variables
(`accepted`, `charged`, `lost`, `doubled`, `forgiven`, and the phase "uncounted" of a
handler that inserted and could not count) state the properties and guard nothing
but the bound.

### OverageInvoicing

Every API process sleeps for a day, asks for a lock that lives an hour, and
invoices the month before. Time is counted in slots, so that a day, the lock's
lifetime and a month are small numbers in the right order. An error of Redis
counts as a grant (`AcquireError`), as in `unwrap_or(true)`.

### Idempotency

The look-up, the creation and the background store of one `POST /v1/webhooks`
with an `Idempotency-Key`. `rows` is the table, whose primary key is the key
alone. A row is looked up by key, customer, body and expiry and stored with
`ON CONFLICT (key) DO NOTHING`. What the code calls the body is the `data` of the
request alone; endpoint and event are its `target`, which no look-up compares.

### Session

One user, any number of tabs, one server. A token pair has a number; the server's
side is the state of each access token (`ok`, `expired`, `revoked`) and of each refresh
token (`live`, `grace` after a rotation, `dead`).

| Code | Model |
|---|---|
| `hooksniff_token`, `hooksniff_refresh` | `local` |
| `tokenRef`; timers, listeners and `onTokenRefreshed` of `startProactiveRefresh` | `tab[t].token`, `tab[t].timers` |
| a call of `apiFetch` | `tab[t].call`: `sent`, then `waiting` for a refresh |
| a `POST /auth/refresh` under way | a member of `requests`; `current` says that `refreshPromise` still points to it, `timer` and `call` who awaits it |
| `doRefresh` | `DoRefresh`, `GotToken`, `ReceiveRefresh` |
| the 401 branch of `apiFetch` | `CallAnswered`, `GotToken`, `RepeatFails`, `GiveUpCall` |
| the mount effect of `AuthProvider` | `Reload`, `ReceiveRestore` |
| the `BroadcastChannel` | `bell`, `Told`, `Hear` |
| `logout`, also by either timer of inactivity | `SignOut`, `Logout`, `Idle` |
| `refresh_token`, `logout` of the API | `ServeRefresh`, `ServeLogout` |
| the hour of an access token, the five minutes after a rotation | `AccessExpires`, `GraceEnds` |

The code does end sessions that are still wanted. Each way it has is a named mishap
(`Mishaps`): a reload while a refresh is on its way, the restore of the mount, the
idle timer of a background tab, a failing request, a laptop asleep for five minutes
between request and answer, and a second sign-in that meets what is left of the
first. `Allow` chooses which of them the instance may take, and `disturbed`
remembers that one has happened: the properties say that nothing else ends the
session. `"on"` lets the user work on after a mishap, to see its effect.

### LiveSocket

The module globals of `useWebSocket.ts` under their names; a socket's `phase` is what
the browser and the gateway know of it. A step is one callback or one commit of React
with its effects, in the order of the file. `Closed` is `onclose` of any socket
the page has opened, also of one that has been replaced. Delays are left open: the
timer fires at some time, and both outcomes of "lasted more than ten seconds" and
"failed within three" are taken.

### QueryTables, QueryCache

`QueryTables` has, one definition per hook or page, the query keys with the tables of the
database behind them, and the mutations with the tables they write and the keys they
cancel, edit and invalidate, after an answer (`S`) or after any outcome (`M`).
A key's ids are those of the same row in a mutation and a query. `Ways` is what the
cache can see of each pair of a mutation and a query of data it writes.

`QueryCache` is one entry with its screens and the calls of one mutation, for each
of the `Ways`. The server's data is the set of calls applied to it, so "current" means
that the entry shows exactly the applied calls. `Begin`, `Invalidate`, `Turn`, `Leave` and
`Receive` are what `@tanstack/react-query` 5 does with the options of
`ReactQueryProvider`; they are marked external. `apiFetch` aborts an attempt after 30
seconds and repeats one that met an error, and the API may apply either afterwards:
`ApplyLate`, for the calls in `late`. No handler runs then, so nothing can bring the
entry up to date; `UpToDate` leaves these calls out and `GivenUpIsOver`, which does
not, is violated. `Promised` names what the code does
not undertake: keys the mutation does not invalidate (`covers`), an invalidation
during a first load, which the library does not restart (`overlooked`), and a lost
reply of a page that invalidates after success only (`settled`).

### Playground

Redis keys have a type, and this code depends on it without saying so. The token
route SETs an empty history, a string; LPUSH and LRANGE on it are WRONGTYPE errors,
and the `catch` of `lib/redis.ts` takes them for a Redis that is down: the whole
history is read, changed and written back. Only after a deletion or an expiry does
LPUSH make a list, and from then on GET fails and what is read is the server's own
map. `kind[t]` and `data[t]` are the key; `memory[t]` names the array the map has for it.

What the map answers is the array itself, so a capture that gets it from there changes
it for every reader at once, whether its SET then succeeds or not. `array` is the heap,
with one place for each token route and each capture that may make an array;
`held[r]` is the one a fallback has in hand, `arr[r]` what was in it when its SET was sent, and
`Collect` forgets what nobody refers to. The Upstash client is made with its
default options and sends a command again when its reply is lost: `PushAgain`,
`WriteAgain` and `Counted` have that. The library is not in the repository; the number of
its retries (five by default) is `MaxResends`.

| Code | Model |
|---|---|
| `POST /playground-api/token` | `IssueToken`; its answer is `offered` until `TokenArrives` or `TokenFails` |
| `handleRequest` | `Receive` or `Send`, `SetWindow`, `BuildRecord`, a push, `Trim`; `pc[r]` says how far it is |
| `checkRateLimit` | `Counted`, `SetWindow`; the end of the window is `WindowOver` |
| `playgroundLpush` | `PushList` when the key takes it, `PushAgain` before it for every lost reply; else `PushString` or `PushFails`, then `ReadHistory` and `WriteHistory` |
| `playgroundGet`, `playgroundSet`, `playgroundLrange` | `Remembered`, `Set` or `SetFails`, `Ranged` |
| `GET`, `DELETE /playground-api/history/[id]` | `AnswerPoll`, `Delete` |
| `history`, `lastPollRef` of the page | `shown`, `lastPoll` |
| `pollHistory`, `fetchHistory` | `Poll`, then `PollArrives` or `PollFails` |
| `handleSend`, `handleNewSession`, "Clear all" | `Send` with `SendAnswered` or `SendFails`, `NewSession`, `ClearAll` |

A call of the library is one step where it is one Redis command. `Faults` has
`"error"` for commands that fail, applied or not, or whose reply is lost, and `"crash"` for a handler
that is cut off (`Crash`) and for a process that ends with all of them and its
memory (`Restart`). Page and server share one clock, one page is open, and all
requests come from one address and reach one server process. The two pages are one
module because they differ in little: `page` says which one it is, the sandbox keeps
its token in `localStorage` and fails on every answer of a poll.

`clean` and `kept` are history variables: a capture is clean while no other of its
token, no deletion and no error comes in between, and kept once it is done.

### MC modules

`MCDeliveryQueue`, `MCRedisPath` and `MCIdempotency` define the functions and
sets of records a configuration file cannot write (`endpoint_id`, `Senders`), and
`MCPlayground` the bounds that differ between the two pages. Where the elements of a
set are interchangeable (the workers and deliveries of the queue, the requests) they
also define the `SYMMETRY` that the runs of safety properties use; no liveness run does.
The other modules are checked as they are.

---

## 3. Runs

`expect: pass` unless noted. Times are those of two TLC workers on a small
machine.

| Run | Instance | Properties | What it shows |
|---|---|---|---|
| `DeliveryQueue_calm` (MCDeliveryQueue) | 1 delivery, 3 workers, 3 attempts, every handler, lost replies | `TypeOK`, `NoStrandedDelivery`, `DeliveredMeansReceived`, `DeadLetterAccounted`, `OneOwner`, `AttemptsLogged`, `FinishedStays` | every interleaving of three workers' tasks, crashes, reapers and retention over the whole life of a delivery. 32,000 states under symmetry |
| `DeliveryQueue_contract` (MCDeliveryQueue) | 2 deliveries, 2 workers, 3 attempts | `ImplementsContract` | batches of claims and reaper snapshots with several rows; the pipeline implements the contract. 491,000 states under symmetry |
| `RedisPath_safe` (MCRedisPath) | 1 delivery, 2 workers, stalls and lost replies | `RedisTypeOK`, `NoStrandedDelivery`, `DeliveredMeansReceived`, `DeadLetterAccounted`, `OneConsumer`, `KeepsLooseContract` | both paths over the same tables keep them consistent, even when both deliver, and implement the loose contract. 2 million states under symmetry, over three minutes |
| `RedisPath_live` (MCRedisPath) | 1 delivery, 1 worker | `EventuallySettled` | whatever Redis loses, the orphan reaper and the polling loop settle. 15,000 states |
| `CircuitBreaker_all` (CircuitBreaker) | 2 workers, 2 tasks each, threshold 2, failing Redis | `BreakerTypeOK`, `TripConsistent`, `OpenIsTested` | saves in any order, restarts and expiry. 197,000 states, two minutes |
| `WebhookQuota_all` (WebhookQuota) | 2 processes, 2 requests of any kind, batches of 1 and 2, every fault | `QuotaTypeOK`, `CountedOnce`, `NothingUncharged`, `BuffersDrain` | nothing is counted twice except by a lost reply, nothing is accepted without a charge except by a handler that could not count, and every buffer empties. 199,000 states |
| `OverageInvoicing_all` (OverageInvoicing) | 2 processes, 1 customer, two months, every fault | `InvoicingTypeOK`, `InvoiceJustified` | runs that overlap, restart and pass midnight. 1.3 million states |
| `Idempotency_answers` (MCIdempotency) | 3 requests, keys shared between customers, data and targets, every fault | `IdempotencyTypeOK`, `CachedIsOwn` | nobody is answered with the response to another customer, key or data, across expiry and cleanup. 93,000 states |
| `Session_all` (Session) | 2 tabs, 3 pairs of tokens, every mishap once | `SessionTypeOK`, `SessionKept`, `StoredTokenUsable`, `CallsEnd` | tabs that refresh at once, hear of each other, reload and lose answers keep the session. 927,000 states, under two minutes |
| `LiveSocket_all` (LiveSocket) | 3 sockets at a time, 3 tokens, 2 attempts, limit 2 | `LiveTypeOK`, `ConnectedIsOpen`, `Settles` | late close events, refusals and every path that connects. 146,000 states |
| `QueryCache_all` (QueryCache) | 2 calls, lost replies, late writes, failing fetches, every pair of the tables | `CacheTypeOK`, `ValidIsCurrent`, `NeverBlank`, `ScreenCatchesUp` | optimistic edits, rollbacks, cancelled and restarted fetches in any order. 435,000 states, two minutes |
| `Playground_all` (MCPlayground) | 1 token, 1 poll at a time, histories of 2, one re-send a capture; 1 request on the public page and 3 on the sandbox, with errors and crashes until a second one comes | `PlaygroundTypeOK`, `OnlyResendsCopy`, `LoneCaptureKept` | captures, their fallback, re-sent commands, deletions, polls and new sessions in any order; the requests are interchangeable (`SYMMETRY`). 869,000 states, under two minutes |

Deadlock is checked in the runs of `DeliveryQueue`, `RedisPath` and
`CircuitBreaker`: those systems never stop. The instances of `WebhookQuota`,
`OverageInvoicing` and `Idempotency` do stop, when all requests are handled or
time is at its bound; so do those of `Session` when no token is left and the session
has ended, of `LiveSocket` when tokens and pokes are used up and the hook polls, and of
`QueryCache`, where nothing has to happen once the calls are over, and of `Playground`
when the requests are used up and nobody presses a button.

### Further configurations

These ask the remaining questions about the same modules. Their results were
obtained with TLC; they are kept apart from the runs above to keep the regular
set short. Those marked `-continue` have several violated properties: with that
option TLC goes on after the first and reports each. Processes that stall are in
`RedisPath_safe`, and what holds of them is proved for both modules.

| Configuration | Result | Shows |
|---|---|---|
| `DeliveryQueue_forever` | `EventuallySettled` violated | without `CommitProgress`: see section 7 |
| `DeliveryQueue_duplicate`, `DeliveryQueue_concurrent` | `GuardStopsDuplicates`, `NoConcurrentDelivery` violated | section 7 |
| `RedisPath_two` | pass: `RedisTypeOK`, `DeadLetterAccounted`, `OneConsumer` | two deliveries of one attempt each in a stream of one entry: trimming. 2.8 million states under symmetry |
| `RedisPath_open` (`-continue`), `RedisPath_pending` | `AckAfterSuccess`, `RedisDeliveryFinal`, `PendingPickedUp` violated | section 7 |
| `CircuitBreaker_open` (`-continue`) | `OneTestRequest`, `SavedIsCurrent` violated | section 7 |
| `WebhookQuota_open` (`-continue`), `WebhookQuota_batch` | `LimitRespected`, `NoLostIncrement`, `ChargeIsAccepted` violated | section 7 |
| `OverageInvoicing_open` (`-continue`) | `OverageInvoiced`, `OneInvoice` violated | section 7 |
| `Idempotency_retry` | pass: `RetryReturnsFirst` | with keys of their own, and within the lifetime of a key, customers get the first response |
| `Idempotency_race` (`-continue`) | `OneDelivery`, `AnswersSameRequest` violated | section 7 |
| `Idempotency_shared` | `RetryReturnsFirst` violated | section 7 |
| `Session_drops`, `Session_logout` | `SessionNeverDrops`, `LogoutIsFinal` violated | section 7 |
| `LiveSocket_singleton` | `Singleton` violated | section 7 |
| `QueryCache_open` (`-continue`) | `ScreenIsCurrent`, `ScreenIsWhole`, `EveryWriteSeen`, `GivenUpIsOver` violated | section 7 |
| `Playground_race`, `Playground_missed`, `Playground_session`, `Playground_sandbox`, `Playground_window` | `NoneOverwritten`, `PublicShows`, `ScreenIsOwn` and `ListedOnce` (`-continue`), `SandboxShows`, `WindowEnds` violated | section 7 |

---

## 4. Bounds

| Bound | Where | Why it is enough |
|---|---|---|
| `Deliveries` 1 or 2 | DeliveryQueue | rows of different deliveries interact only by being claimed or reaped in the same batch, and by FIFO, which is never active; two rows show batches, one row with three workers shows every contention for a row. The proofs hold for any number |
| `Workers` 1 to 3 | DeliveryQueue, RedisPath | a row has at most one old owner, one new owner and one reaper with a snapshot |
| `MaxAttempts` 3 (2 with two paths, 1 in `RedisPath_two`) | DeliveryQueue | a first, a middle and a last attempt. 3 is the column's default |
| `AttemptBound` | DeliveryQueue | caps claims of a row whose count passed it; it only matters with stalls, where a reset row may pass `MaxAttempts`. Without stalls `AttemptsLogged` shows that it is never reached |
| `MaxStreamLen` 1 | RedisPath | one more entry trims; the code's limit is reached by load alone |
| `PolicyAttempts` 1 or 5 | RedisPath | the message always says attempt 0, so the two cases are "dead-lettered at once" and "never" |
| `FailureThreshold` 2 | CircuitBreaker | distinguishes the first failure from the tripping one |
| `MaxDoubled` 1, `Sizes` {1, 2}, `WebhookLimit` 2 | WebhookQuota | one increment counted twice by a lost reply; a batch that can and one that cannot be inserted; requests on both sides of the limit |
| `Day` 2, `LockTTL` 1, `Month` 4, `End` 8 or 12 | OverageInvoicing | a day is longer than the lock's life and a month has several runs; two months and the start of a third, or three months for `OverageInvoicing_open` |
| `MaxInvoices` 2 | OverageInvoicing | a second invoice is enough to violate any of the properties |
| `Senders` | Idempotency | what requests may carry: two customers, two keys, two data, two targets, in the combinations that share a key; `MCIdempotency` has them |
| `TTL` 2, `End` 5 | Idempotency | a row is stored, expires, blocks, and is cleaned, with room for another |
| `Tabs` 2, `MaxTokens` 3 | Session | two tabs race for one rotation and a third pair shows what follows; with three pairs a token can be replaced twice while an answer is out. `InBudget` keeps a pair for what is under way, so no step waits for the bound |
| `Sockets` 3, `MaxTokens` 3, `MaxPokes` 2, `maxAttempts` 2, `Limit` 2 | LiveSocket | one old socket, one current, one that a late close event opens; one more than the gateway admits; a first and a last attempt. The code has 5 attempts and 10 sockets |
| `Calls` 2 | QueryCache | a second call while the first is under way; rollback and invalidation of one meet edits of the other, and each may be applied late. The proofs hold for any number |
| `Tokens` 1, `Polls` 1 | Playground | tokens have separate keys, and a second one (`Playground_session`) matters to the page's list alone; answers of polls are merged one by one. The proofs hold for any number |
| `MaxCalls` 1 and 3, `MaxTroubled` 1 and 1 (public page, sandbox) | Playground | how many requests come, and up to how many come faults happen. A list on the screen multiplies the states, and records come to it one by one, so one capture with every fault, re-sent and polled in any order, shows how it gets there; where the list is always empty three captures race, after any faults of the first, and overflow the history. Two captures on the sandbox with faults at any time were checked too (979,000 states, no error) |
| `MaxResends` 1 | Playground | the first re-sending makes the copy. The library's default is 5; the proofs hold for any number |
| `MaxHistory` 2, `RateMax` 1, `MaxTime` 2 | Playground | a history that fills up and one that overflows; a request that is refused; a record older than, as old as and newer than `lastPoll`. The code has 100 records and 120 requests a minute |

`AttemptBound`, `MaxDoubled`, `MaxInvoices`, `MaxTokens`, `MaxPokes`, `MaxTime`, `MaxCalls`, `MaxTroubled`, `MaxResends` and `End` stand in guards. The
proofs hold for every value of them.

---

## 5. Fairness

Liveness needs assumptions; each of these is something the code's scheduling
provides, and nothing assumes that an endpoint answers well.

`DeliveryQueue!FairSpec`
- `TaskProgress` (weak): the runtime polls a spawned task until it ends.
- `LoopProgress`: the publisher ends (weak). The worker's loop claims, and takes
  its reaper arm, again and again while the process lives, and some worker is up
  often enough to pick a given row; claims, selections and the reaper's
  statements succeed now and then although each may fail (strong). `is_active`
  may switch off between two claims, hence strong.
- `SendProgress` (strong): a delivery that is taken up over and over is sent some
  of the time: circuits cool down, which `OpenIsTested` shows.
- `CommitProgress` (strong): the outcome of a row that is sent over and over is
  committed some of the time. The code does *not* guarantee it against an outcome
  that fails every time: a panic on a response body (`main.rs:1246`) recurs with
  the same answer. `FaultySpec` drops the assumption and `DeliveryQueue_forever`
  shows the consequence.

`EventuallySettled` is stated with "or its endpoint is disabled", because the
claim ignores rows of disabled endpoints.

`RedisPath!RedisFairness` is the same for the composition plus weak fairness of the
publisher's two attempts and of the consumer's read, send, bury and ack. It does
not assume that Redis keeps anything, that a consumer is ever restarted, or that
a stopped one comes back. `RestartingSpec` adds restarts, to refute
`PendingPickedUp` under the most favourable assumption.

`CircuitBreaker!BreakerFairness`: time passes (weak); deliveries for the endpoint
keep coming and ask the breaker (strong: a late failure may restart the
cooldown in between); a process's tasks go on (weak). Nothing says that an
individual task is scheduled.

`WebhookQuota!QuotaFairness`: the flush timer ticks (weak), and the UPDATE succeeds
now and then (strong). A process that crashes is started again.

`Session!SessionFairness` (weak, per tab): the refresh a call waits for is served, or its
answer lost, and what came back reaches the page. Browsers end every `fetch`. No
tab is assumed to do anything.

`LiveSocket!LiveFairness` (weak): a socket that is opening opens or fails, one that the
page closed or the gateway refused gets its close event, and the timer fires. Nothing is
said of the network: an open socket may close at any time or never.

`QueryCache!CacheFairness` (weak): a fetch is answered and received, and each call is applied
or fails and its outcome is received. A fetch may also fail whenever it likes.

`Playground!PlaygroundFairness`, for the liveness properties of the further
configurations: a handler goes on (weak), the page polls, and now and then a poll is
answered and its answer arrives (strong), a request of the page ends, and a key with a
lifetime expires (weak). It is what would have to hold for them; they are violated
under it.

---

## 6. Proofs

All theorems hold for every value of the constants that satisfies the named
assumption of the module, which says no more than the configuration of the
program does: `ConstAssumption`, `RedisAssumption`, `BreakerAssumption`,
`QuotaAssumption`, `InvoicingAssumption`, `IdempotencyAssumption`,
`SessionAssumption`, `LiveSocketAssumption`, `QueryCacheAssumption`,
`PlaygroundAssumption`. In particular for any set of deliveries, endpoints,
workers, requests and customers (finite or not), any `MaxAttempts`, stream
length, threshold, lock lifetime and month length. The API processes of
`WebhookQuota` are finitely many, because their buffers are summed.

A theorem of a configuration's property holds for the instances the property is
meant for. Where the code breaks a promise in general and keeps it in a part of
the instances, the theorem has an ASSUME ... PROVE that names that part, and
section 7 has the counterexample outside of it: `CalmNotConcurrent`,
`RetryFindsFirst`.

### DeliveryQueue_proofs

| Theorem | Property | Argument |
|---|---|---|
| `TypeCorrect` | `TypeOK` | one lemma per group of actions |
| `NeverStranded` | `NoStrandedDelivery` | from `SafeInv` |
| `DeliveredSound` | `DeliveredMeansReceived` | from `SafeInv` |
| `DeadLetterSound` | `DeadLetterAccounted` | from `SafeInv` |
| `SingleOwner` | `OneOwner` | from `AllCalm` |
| `LogAgrees` | `AttemptsLogged` | from `AllCalm` |
| `FinishedRowsStay` | `FinishedStays` | from `SafeInv` and `AllCalm` |
| `CalmNotConcurrent` | (`NoConcurrentDelivery`, for instances without stalls) | from `AllCalm` |
| `Implementation` | `ImplementsContract` | from `SafeInv`, `AllCalm` and `AllSettle` |
| `LooseImplementation` | `KeepsLooseContract` | from `SafeInv` and `LooseInv` |
| `StrictIsLoose` | | what implements the strict contract implements the loose one |

| Theorem for `RedisSpec` | Property | Argument |
|---|---|---|
| `RedisTypeCorrect` | `RedisTypeOK` | with `Holding`: a consumer that has sent still holds the entry |
| `RedisNeverStranded`, `RedisDeliveredSound`, `RedisDeadLetterSound` | `NoStrandedDelivery`, `DeliveredMeansReceived`, `DeadLetterAccounted` | from `SafeInv` |
| `RedisSingleOwner`, `RedisFinishedRowsStay` | `OneOwner`, `FinishedStays` | from `AllCalm` |
| `ConsumedOnce` | `OneConsumer` | from `EntryInv` |
| `RedisLooseImplementation` | `KeepsLooseContract` | from `SafeInv`, `EntryInv` and `LooseInv` |

Every invariant is a statement about one delivery, and a step is about one
delivery, except for batch steps of a worker. So each preservation proof has three
parts: a step that is about another delivery keeps all the invariant depends on
(`Same`, with the frame lemmas `ApiFrame`, `TaskFrame`, ...); a step of the API or
of a task for this delivery; a batch step.

- `SafeInv` is `TypeOK` and, per delivery, `RowInv`. The three safety properties are not
  inductive alone: a task may settle a row much later, from what it learnt from
  the endpoint or the guard. `RowInv` adds that this stays true (`Received`,
  `SkipSettled`) and that a queue row has a delivery (`ForeignKey`). It holds with
  stalls, lost replies and test mode.
- `AllCalm` adds, for instances without stalls, what the thresholds protect: the
  task of a row is its only one and knows its attempt number (`OwnerInv`), a
  reaper's decision is at worst out of date about a reset (`StuckInv`), counters
  stay below the maximum (`CountInv`), and a row is only ever created by the
  delivery's publisher or, after it, by a reaper (`FreshInv`), which keeps the
  publisher and the orphan reaper apart.
- `AllLogged` adds to it that the log and the counter of an unfinished row agree,
  and that a delivery without a row has no attempts (`LogInv`). It is apart from
  `AllCalm` because it is true of the polling loop only: with both paths at
  work a consumer's dead letter logs attempt 1 beside the log of the queue row.
- `AllSettle` adds, for `Faults = {}` and no test keys, that a row that may still
  be worked on belongs to a pending delivery: the remaining part of the
  refinement. Each action then maps to a contract action or a stutter
  (`ApiRefines`, `TaskRefines`).
- `LooseInv` needs no instance without faults: it says that no delivery is marked
  by a test key and that tasks work on accepted webhooks. It rules out test keys,
  which report a webhook delivered that was never sent.

The composition reuses these invariants. `StepKinds` shows that, to the tables,
every step of `RedisNext` is a step of the pipeline, a stutter, or one of three
that Redis adds (`OwnStep`): an XADD, a send by a consumer, and its dead-letter
statement, which settles a delivery and no queue row. So `SafeInv`, `AllCalm` and
`LooseInv` are preserved by the lemmas of the pipeline and one lemma each for
the three (`OwnRow`, `OwnCalm`, `OwnLoose`).

`EntryInv` is about the stream alone: unread entries are distinct and not pending, a
consumer's entries are pending and at one place of one consumer, and a delivery
whose publisher has not tried Redis yet has no entry. The last part is why an XADD
cannot add a second entry: a publisher tries once, and a delivery has one
publisher in its life (`AcceptedOnce`). Pending entries need no holder: that is what
a restart leaves, and `Recovered` brings none of them back.

### CircuitBreaker_proofs

`BreakerTypeCorrect` (`BreakerTypeOK`) and `TripsAtThreshold` (`TripConsistent`). The
set `Sound` of well-formed circuits whose state and counter agree is closed under
the functions that compute a new circuit (`Closed`, `Failed`, `HalfOpen`, the
cooldown), and values only move between the memory of a process, a pending save
and Redis. `BreakerInv` says that all of them are in `Sound`.

### Billing_proofs

Of `OverageInvoicing`: `InvoicingTypeCorrect` (`InvoicingTypeOK`); `InvoicesJustified` (`InvoiceJustified`),
which needs `RunsJustified`: what a run still has to treat has overage in the
month it took at its start, and that month stays over while time goes on.

Of `WebhookQuota`: `QuotaTypeCorrect` (`QuotaTypeOK`) and `QuotaCountedOnce`
(`CountedOnce`): the table, the buffers and what is on its way add up to what the
handlers charged, apart from what a flush lost or counted twice. The buffers are
summed with `MapThenSumSet`, whose laws are proved first: `SubsetInduction` is
induction over the subsets of a finite set with a set in place of a
predicate, and `FoldIsSum`, `SumExists` and `SumUnique` identify the fold with the
function its recursion defines, so that a step that changes one buffer changes the sum by
the difference.

`NothingFree` (`NothingUncharged`) is the half of a promise section 7 refutes that the
code keeps, for any batch sizes and whatever fails: it may charge for what it does not
accept, but does not accept what it does not charge, except where a handler counts
after its INSERT and dies, or loses the reply, in between. `ChargeInv` is the
invariant: the charges and those exceptions cover what is accepted together with what
requests under way have charged for and may still accept or roll back (`Owed`).

### Idempotency_proofs

`IdempotencyTypeCorrect` (`IdempotencyTypeOK`, with the keys of the table unique) and
`AnswersOwn` (`CachedIsOwn`). The invariant adds `RowsOwn`: a row names a delivery
that exists and was created for exactly the row's customer, key and data, and a
request has no answer before it is done, so that an answer given from the table is
never overwritten.

`RetryFindsFirst` is `RetryReturnsFirst` for the instances of `Idempotency_retry`, of any
size: keys of which each has one sender, no failing store, rows in their first
lifetime. `RowsCover` says that whatever is created and no longer being stored
has a row for its key; `FirstOfSender` that a request which creates, or is about
to, looked before any other of its sender was created and stored.

### Session_proofs

`SessionTypeCorrect` (`SessionTypeOK`), `SessionKeptCorrect` (`SessionKept`) and
`StoredTokenUsableCorrect` (`StoredTokenUsable`) for any set of tabs, any number of
tokens and any choice of mishaps. That no tab is thrown out is not inductive: a tab
is thrown out when a refresh returns nothing or the repeated call meets a token that
is no longer good. `SInv` adds, for a session that is wanted and undisturbed (`Healthy`): every
refresh under way was sent with a token that is live or in its grace; an answer on
its way carries an access token that is good and a refresh token that is live, that no
other request uses and that is not stored yet; and a stored refresh token that is
in its grace has its successor among the answers.

### LiveSocket_proofs

`LiveTypeCorrect` (`LiveTypeOK`) and `ConnectedIsOpenCorrect` (`ConnectedIsOpen`). The
bound on the attempts needs an argument: a socket that failed quickly counts twice
and may do so after the last attempt. `AttemptsBounded` ties the counter to the sockets
that are still there: a timer is set only below the maximum, and the counter exceeds
it by no more than the sockets that have gone, plus one.

### QueryCache_proofs

`CacheTypeCorrect` (`CacheTypeOK`), `ValidIsCurrentCorrect` (`ValidIsCurrent`) and
`NeverBlankCorrect` (`NeverBlank`), for any set of calls and every pair of the tables.
The link between the tables and the cache is the lemma `CancelsCovered`, proved hook by
hook: a mutation that cancels a fetch invalidates everything it cancels, after any
outcome. Calls that are applied after their end are left out of both claims that name
them (`UpToDate`): no code of the page runs then. `Current` is the invariant: unless a call that is applied but unanswered, or a
settled one still on its way, excuses it, an entry at rest is current and so is an
answer on its way. `Supplied` says that only an optimistic call under way may leave a
screen without a fetch.

### Playground_proofs

`TypeInvariant` (`PlaygroundTypeOK`), `CopiesAreResends` (`OnlyResendsCopy`) and `LoneKept`
(`LoneCaptureKept`), for any tokens, requests, polls and number of re-sends.

`StoreBound` counts for each record how often its LPUSH was sent (`Sent`) and whether
the fallback has put it in front of a history (`Written`): a list holds it at most
the first number of times, a string, an array of the server and what a handler is about to
write at most the second. The fallback cannot add a copy to what LPUSH may have stored
already, because such a history is a list, GET of a list is an error, and what is read
instead is the server's memory, which no record reaches before its own fallback
changes it, in place or not. `ScreenBound` adds that an answer holds a record no more
often than the history did, and that the page takes it from one answer only.

`CleanAlone` and `KeptStored` are the argument for the lone captures: while a clean
capture runs no other one of its token does, so any fallback that writes later has
read the history with the record in it; and it has read the history and not the
memory, because a fallback without an error means a string, which stays one. What is
changed in the memory reaches the history only through an error.

### Only model-checked

- Liveness: `EventuallySettled`, `OpenIsTested`, `BuffersDrain`, `CallsEnd`, `Settles`,
  `ScreenCatchesUp`. TLAPS does not prove properties that rest on fairness. These are
  the only properties of the runs that no theorem states.
- That the violated properties of the further configurations are violated.

---

## 7. Where the code departs from what is said of it

While the modules were written these statements of the repository turned out not
to hold of the code. Each can be reproduced with the configuration named.

| Statement | What the code does | Configuration |
|---|---|---|
| "While the user is active, the session never drops." (`dashboard/src/lib/api.ts:99`) | the mount effect refreshes an expired session on its own, keeps the new access token and drops the new refresh token (`store.tsx:128`); the stored one has just been rotated, so five minutes later nothing can refresh, and the next 401 sends the user to `/login` | `Session_drops` |
| signing out stops, revokes and clears (`dashboard/src/lib/store.tsx:237`) | a refresh whose answer comes after the sign-out writes a good pair into `localStorage` again, and hands it to the page | `Session_logout` |
| "Get a unique URL that captures any HTTP request" (`dashboard/src/messages/en.json:4733`) | a poll of the session before that is answered after "New session" puts its records into the new list (`page.tsx:88`) | `Playground_session` |
| "if it sends HTTP requests, this captures it" (`dashboard/src/messages/en.json:4748`) | two captures at once read the same history and the second write drops the first (`lib/redis.ts:83`) | `Playground_race` |
| "Polls every 2 seconds. New requests appear instantly in the list." (`dashboard/src/messages/en.json:4752`) | the page asks next for what is newer than the arrival of the last answer: a record captured before that and after the server's read never comes (`page.tsx:95`) | `Playground_missed` |
| the same, in the sandbox of the dashboard | it reads `data.data`, the route answers `requests`; the error is caught and no record ever shows (`sandbox/content.tsx:124`) | `Playground_sandbox` |
| "if (existing.has(data.request.id)) return prev;" (`playground/page.tsx`) | records are left out that are in the list already, and not twice in one answer: a re-sent LPUSH is listed twice | `Playground_session` |
| 120 requests a minute (`dashboard/src/lib/redis.ts:117`) | an end of the process between INCR and EXPIRE leaves a counter without a lifetime, and the address is refused for good once it is full | `Playground_window` |
| "Global singleton — prevent multiple WS connections across components" (`dashboard/src/hooks/useWebSocket.ts:18`) | `onclose` of the replaced socket clears the global whichever socket it holds and schedules another: after each rotation two sockets are open | `LiveSocket_singleton` |
| "önceki veriyi göster, arka planda güncelle" (show the previous data, update in the background; `ReactQueryProvider.tsx:22`) | with `refetchOnMount: false` an entry invalidated while nobody showed it is shown as it is and not fetched | `QueryCache_open` |
| the optimistic edit of an endpoint (`useEndpoints.ts:62`) | without an entry it creates one that has `is_active` and nothing else, and counts as fresh | `QueryCache_open` |
| "Request timed out. Please try again." (`dashboard/src/lib/api.ts:327`) | the API may apply the call after the timeout: the entry has been fetched again by then and counts as valid without it | `QueryCache_open` |
| a mutation invalidates what it changes | 'security' events, a user's status and plan, a team's members, the collection of inbound configurations and others: keys that are forgotten or match no query (`Gaps` in `QueryTables`) | `QueryCache_open` |
| "check if this delivery was already successfully delivered" (`worker/src/main.rs:1042`) | the Redis consumer never writes `deliveries.status` on success; ten minutes later the orphan reaper queues the delivery and it is sent again | `RedisPath_open` |
| "Clear the map BEFORE flushing to avoid losing concurrent increments" (`api/src/webhook_count_buffer.rs:69`) | entries are read, then removed by key: an increment in between is removed unread | `WebhookQuota_open` |
| "Generates one invoice per qualifying customer" (`api/src/jobs/overage_invoicing.rs:22`) | the existing invoice is looked for in the invoiced month, but created in the next: each daily run creates another | `OverageInvoicing_open` |
| "Check with body hash - must match both key and body" (`api/src/middleware/idempotency.rs:38`) | `create.rs:52` hashes `req.data` only: the same key and data for another endpoint or event is answered with the delivery of the first | `Idempotency_race` |
| "Keys are scoped per customer" (`docs/api-reference.md:863`) | the table's primary key is the key alone: a key stored by one customer keeps the responses of all others from being stored | `Idempotency_shared` |
| "Prevents duplicate delivery if worker crashed after HTTP success but before DB commit" (`worker/src/main.rs`) | the guard reads the status that commit would have written | `DeliveryQueue_duplicate` |
| "advisory locks prevent duplicate delivery by concurrent workers" (`docs/adr/003`) | there is no advisory lock on a delivery; a worker that pauses past 5 minutes and the one the row was given to both deliver it | `DeliveryQueue_concurrent` |
| "Failed deliveries go to a dead letter queue" (`README.md:21`) | the zombie reaper resets a row without counting its attempt, so a task that fails after every send is repeated for ever | `DeliveryQueue_forever` |
| "Ack: XACK after successful delivery" (`api/src/queue.rs`) | XACK follows every send | `RedisPath_open` |
| "Don't ACK - XAUTOCLAIM will pick it up later" (`worker/src/main.rs`) | its reply is parsed as if it came from XREADGROUP; no id comes out | `RedisPath_pending` |
| "allows one test request" (`worker/src/circuit_breaker.rs`) | a half-open circuit lets every request through until the first answer is recorded | `CircuitBreaker_open` |
| "State is persisted to Redis when available" (`worker/src/circuit_breaker.rs`) | saves run outside the lock: an older value may be the last to arrive | `CircuitBreaker_open` |
| "This atomically checks the customer's webhook limit" (`api/src/routes/webhooks/create.rs`) | the check is atomic, but the counter lags behind the buffers | `WebhookQuota_open` |
| "Rollback excess webhook_count for failed/filtered items via buffer" (`api/src/routes/webhooks/create.rs`) | an error between charge and rollback returns at once, and the bulk INSERT of two rows or more is one | `WebhookQuota_batch` |
| "At the start of each month, generates overage invoices for the previous month" (`api/src/jobs/overage_invoicing.rs`) | the overage invoice of the month before that, created in the invoiced month, passes for the existing one: overage of two months in a row is invoiced for the first only | `OverageInvoicing_open` |
| "Prevents duplicate deliveries on network retries" (`docs/api-reference.md`) | look-up and store are two statements: retries that overlap both create | `Idempotency_race` |

---

## 8. Not modelled

- Payloads, headers, signatures, URL checks, transformations, templates, schema
  validation, industry packs: functions of a payload; the models see only whether
  a webhook is accepted and how an exchange ends.
- Authentication, SSO, OAuth, teams, the middleware filters: the models begin
  with an authorised request.
- Retry delays: a retry becomes due at some time.
- Fan-out, batching, workflows and activities of the worker, the API's own copy of
  the circuit breaker, `flush_all`, the stream functions of `api/src/queue.rs`
  that nothing calls, replay protection: code without a caller.
- FIFO: `enqueue` has no caller, so no row of `fifo_queue` exists and
  `should_deliver_fifo` always answers true; its error is one of the reasons of
  `Defer`.
- Notifications, mails, operational webhooks, metrics, health: observers.
- Cortex's statistics: floating-point analysis of the tables. What Cortex does to
  endpoints is `SetActive`.
- Event publishing, the gateway's broadcast and its channel of 256 messages, and what each event
  invalidates: views beside the delivery path.
- Of the dashboard: the screens. Of its 76,000 lines of TypeScript three quarters are
  pages and components that render (`*.tsx`, the documentation pages and the articles of the
  blog among them), response schemas and types, and the list of API calls. They keep no
  state of their own beyond forms, and there is nothing in them for a model. What
  state the dashboard has is the session, the socket, the query cache and the playground. Pages that fetch into
  `useState` are not in the tables of `QueryTables`; they read anew at each visit.
- In `Session`: the steps before a pair is issued (2FA, SSO, e-mail verification), the
  cookie of 24 hours that only the Next.js middleware reads, and `apiFetch`'s
  retries of 502 to 504, which repeat a call that has not met a 401.
- In `Playground`: a server without any Redis, where the map in memory is all there is;
  the counter of the token route (it may always refuse); `app/api/playground`, an
  older copy of the routes that no page links to; the API console of
  `sandbox/playground`.
- Portal, CLI, MCP server, SDKs, edge workers, deployment: clients and
  infrastructure. The numbers of processes they allow are the constants of the
  models.

---

## 9. Plan

Order by how much of the product's promise rests on it.

Done: `DeliveryQueue` with both contracts, `RedisPath` composed with it,
`CircuitBreaker`, `WebhookQuota`, `OverageInvoicing` and `Idempotency`; of the
dashboard `Session`, `LiveSocket`, `QueryCache` and `Playground`; a proof of every
safety property of their runs.

Next, models:

1. `Subscription`: cancel, pause, resume, upgrade with its coupon, provider
   webhooks, pause activation and expiry, grace period and dunning, all over one
   row of `customers` and written by handlers, jobs and webhooks of the payment
   provider that may be repeated or reordered. Abstract specification: a customer
   has exactly the plan last paid for and never keeps one after its period.
   Properties: no job undoes a newer decision; a coupon is counted as often as it
   is redeemed; one reminder per period and stage.
2. `Healing`: Cortex's auto-disable, recovery test and advisory lock, composed
   with claims. Property: a disabled endpoint that recovered is enabled again
   (the code asks for ten recent deliveries, and the worker claims none for it).
3. `Throttle`: attempt window, backoff and its Redis copy, asked by the consumer
   and only fed by the polling loop.
4. `Retention`: monthly and daily resets against the flush of the counter, composed
   with `WebhookQuota` (what retention does to deliveries is in `DeliveryQueue`).
5. `JobQueue`: shared retry counter, delayed set moved by several processes.
6. The API's rate limits and `Fifo`, as operators over bounded inputs.

Next, proofs: conditions under which the other promises of section 7 hold, as
`CalmNotConcurrent` and `RetryFindsFirst` do for theirs (`OneInvoice`,
`SavedIsCurrent`, `LogoutIsFinal`, `Singleton`); then the safety invariants of
`Subscription` and its refinement.

Hazards met on the way and not in `PROJECT.json`, for these modules, or covered by the
property or configuration named:

- `worker/src/main.rs:1442`: the polling loop feeds the throttle and never asks it.
- `api/src/jobs/dunning.rs:68`: a reminder is recorded without its period.
- `api/src/routes/billing/subscription/subscription_cancel.rs:202`: jobs and provider
  webhooks write subsets of the same columns from states read earlier.
- `api/src/jobs/retention.rs:55`, `:183`: the monthly reset skips customers whose row the
  flush has just touched; the archive of old deliveries cascades away with them.
- `api/src/routes/webhooks/create.rs:526`: an error between charge and rollback
  (`WebhookQuota_batch`).
- `api/src/routes/webhooks/create.rs:261`: the limit is checked against a counter that
  lags (`WebhookQuota_open`).
- `api/src/routes/billing/subscription/subscription_upgrade.rs:217`: a coupon is counted
  before it is checked, in statements of its own.
- `api/src/cortex/healing_engine.rs:256`: a disabled endpoint has no deliveries to
  recover by.
- `dashboard/src/app/[locale]/admin/security/page.tsx:161`: an invalidation that
  matches no query (`QueryCache_open`).
- `dashboard/src/lib/redis.ts:128`, `playground/page.tsx:88`, `sandbox/content.tsx:124`:
  a counter without its expiry, an answer for the session before, a field that does
  not exist (`Playground_window`, `Playground_session`, `Playground_sandbox`).
- `workers/api-cache/src/index.js:48`: rows inserted one by one.
- `worker/src/circuit_breaker.rs:130`: a restart loads what another worker saved last
  (`TripConsistent`, `OpenIsTested`).
- `api/src/background.rs:285`: the lock of the invoicing job lives an hour and fails open
  (`InvoiceJustified`; `OneInvoice` is violated even without it).
- `dashboard/src/hooks/useWebSocket.ts:234`: five paths that connect (`Settles`).
- `dashboard/src/lib/api.ts:314`: every method is retried, and failed mutations once more.
- `dashboard/src/lib/api.ts:300`: any refusal of the repeated call ends the session
  (a mishap of `Session`); `dashboard/src/lib/store.tsx:243`: sign-out does not wait.
- `dashboard/src/hooks/useWebSocket.ts:78`: a half-open socket stays "connected";
  `dashboard/src/lib/store.tsx:237`: signing out leaves the socket to the next user.

The regular set of runs is kept to a dozen. When modules are added, the violated
properties that stand for one divergence each move to the further
configurations, and passing runs of one module are merged.
