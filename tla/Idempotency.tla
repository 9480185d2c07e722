----------------------------- MODULE Idempotency -----------------------------
(***************************************************************************)
(* The Idempotency-Key header of POST /v1/webhooks: create_webhook looks   *)
(* for a stored response, creates a delivery without one, answers, and     *)
(* stores the response in a background task                                *)
(* (api/src/middleware/idempotency.rs, api/src/routes/webhooks/create.rs). *)
(*                                                                         *)
(* A delivery is named by the request that creates it.  What is stored of   *)
(* a request is its customer, its key and a hash of its data; where it is  *)
(* to go (endpoint_id) and its event are not part of it.                   *)
(***************************************************************************)
EXTENDS Integers

CONSTANTS
    Requests,  \* requests with an Idempotency-Key
    Senders,   \* what a request may carry: records [customer, key, data,
               \* target], target being its endpoint_id and event
    None,      \* no answer
    TTL,       \* lifetime of a stored response, 24 hours
    End,       \* bound: last instant
    Faults     \* "error": a statement fails, "crash": the process dies

ASSUME IdempotencyAssumption ==
    /\ None \notin Requests
    /\ \A s \in Senders :
          s = [customer |-> s.customer, key |-> s.key, data |-> s.data, target |-> s.target]
    /\ TTL \in Nat \ {0} /\ End \in Nat
    /\ Faults \subseteq {"error", "crash"}

VARIABLES
    now,       \* the current instant
    sent,      \* sent[r]: what request r carries
    at,        \* at[r]: where its handler is
    answer,    \* answer[r]: the delivery it has answered with
    storing,   \* requests whose background store is to come
    rows,      \* the table idempotency_keys
    before     \* history: the finished deliveries of the same sender at its check

ivars == <<now, sent, at, answer, storing, rows, before>>

Created == {r \in Requests : answer[r] = r}

Row == [key : {s.key : s \in Senders}, customer : {s.customer : s \in Senders},
        data : {s.data : s \in Senders}, delivery : Requests, expires : Nat]

IdempotencyTypeOK ==
    /\ now \in Nat
    /\ sent \in [Requests -> Senders]
    /\ at \in [Requests -> {"new", "create", "done"}]
    /\ answer \in [Requests -> Requests \cup {None}]
    /\ storing \subseteq Created
    /\ rows \subseteq Row
    /\ \A x, y \in rows : x.key = y.key => x = y
    /\ before \in [Requests -> SUBSET Requests]

IdempotencyInit ==
    /\ now = 0
    /\ sent \in [Requests -> Senders]
    /\ at = [r \in Requests |-> "new"]
    /\ answer = [r \in Requests |-> None]
    /\ storing = {}
    /\ rows = {}
    /\ before = [r \in Requests |-> {}]

\* Mutant: the customer is not compared.
MutMatches(x, r) == x.key = sent[r].key /\ x.expires > now /\ x.data = sent[r].data

\* check_idempotency: a live row of the same key, customer and data.
Matches(x, r) ==
    /\ x.key = sent[r].key /\ x.customer = sent[r].customer
    /\ x.expires > now
    /\ x.data = sent[r].data

Check(r) ==
    /\ at[r] = "new"
    /\ \/ \E x \in rows :
             /\ Matches(x, r)
             /\ answer' = [answer EXCEPT ![r] = x.delivery]
             /\ at' = [at EXCEPT ![r] = "done"]
       \/ /\ "error" \in Faults \/ \A x \in rows : ~Matches(x, r)
          /\ at' = [at EXCEPT ![r] = "create"]
          /\ UNCHANGED answer
    /\ before' = [before EXCEPT ![r] = {d \in Created \ storing : sent[d] = sent[r]}]
    /\ UNCHANGED <<now, sent, storing, rows>>

\* The delivery is inserted and answered, unless a check or a statement in
\* between refuses the request.
Create(r) ==
    /\ at[r] = "create"
    /\ \/ answer' = [answer EXCEPT ![r] = r] /\ storing' = storing \cup {r}
       \/ UNCHANGED <<answer, storing>>
    /\ at' = [at EXCEPT ![r] = "done"]
    /\ UNCHANGED <<now, sent, rows, before>>

\* Mutant: a key in use is stored again.
MutStoredAgain(r) ==
    rows \cup {[key |-> sent[r].key, customer |-> sent[r].customer, data |-> sent[r].data,
                delivery |-> r, expires |-> now + TTL]}

\* store_idempotency: ON CONFLICT (key) DO NOTHING.
Stored(r) ==
    IF \E x \in rows : x.key = sent[r].key
    THEN rows
    ELSE rows \cup {[key |-> sent[r].key, customer |-> sent[r].customer, data |-> sent[r].data,
                     delivery |-> r, expires |-> now + TTL]}

Store(r) ==
    /\ r \in storing
    /\ storing' = storing \ {r}
    /\ \/ rows' = Stored(r)
       \/ "error" \in Faults /\ UNCHANGED rows
    /\ UNCHANGED <<now, sent, at, answer, before>>

\* The process dies with its handlers and background tasks.
Crash ==
    /\ "crash" \in Faults /\ (storing # {} \/ \E r \in Requests : at[r] = "create")
    /\ storing' = {}
    /\ at' = [r \in Requests |-> IF at[r] = "create" THEN "done" ELSE at[r]]
    /\ UNCHANGED <<now, sent, answer, rows, before>>

\* The cleanup of every six hours.
Cleanup ==
    /\ \E x \in rows : x.expires < now
    /\ rows' = {x \in rows : x.expires >= now}
    /\ UNCHANGED <<now, sent, at, answer, storing, before>>

Tick == now < End /\ now' = now + 1 /\ UNCHANGED <<sent, at, answer, storing, rows, before>>

IdempotencyNext ==
    \/ \E r \in Requests : Check(r) \/ Create(r) \/ Store(r)
    \/ Crash \/ Cleanup \/ Tick

IdempotencySpec == IdempotencyInit /\ [][IdempotencyNext]_ivars

-----------------------------------------------------------------------------
\* What identifies a request to the code.
Asked(r) == [customer |-> sent[r].customer, key |-> sent[r].key, data |-> sent[r].data]

\* "Keys are scoped per customer" (docs/api-reference.md), for the answers:
\* a response from the table is that of a delivery created for the same
\* customer, key and data, whoever else uses the key and whatever fails.
CachedIsOwn ==
    \A r \in Requests : answer[r] \notin {None, r} =>
        answer[r] \in Created /\ Asked(answer[r]) = Asked(r)

\* "must match both key and body" (idempotency.rs): the response is that of the
\* same request, its endpoint and event included.
AnswersSameRequest ==
    \A r \in Requests : answer[r] \notin {None, r} => sent[answer[r]] = sent[r]

\* What makes CachedIsOwn inductive: a request has no answer before it is done,
\* and a row names a delivery of the customer, key and data it is stored for.
RowsOwn ==
    /\ \A r \in Requests : at[r] # "done" => answer[r] = None
    /\ \A x \in rows :
          /\ x.delivery \in Created
          /\ Asked(x.delivery) = [customer |-> x.customer, key |-> x.key, data |-> x.data]

\* "Same key within 24 hours -> returns cached response": a request that
\* begins when an earlier one of its sender is finished, its store included,
\* creates nothing.  "Keys are scoped per customer": also when another customer
\* uses the key.
RetryReturnsFirst == \A r \in Created : before[r] = {}

\* "Prevents duplicate deliveries on network retries" (docs/api-reference.md):
\* the same customer, key, data and target never create two deliveries.
OneDelivery == \A r, s \in Created : sent[r] = sent[s] => r = s
=============================================================================
