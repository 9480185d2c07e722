-------------------------- MODULE Idempotency_proofs --------------------------
(***************************************************************************)
(* Proofs about Idempotency, for any number of requests, customers and     *)
(* keys, any lifetime of a row and any of the faults.                      *)
(***************************************************************************)
EXTENDS Idempotency, TLAPS

IInv == IdempotencyTypeOK /\ RowsOwn /\ CachedIsOwn

\* The invariant only depends on what these steps leave alone.
LEMMA IdleInv ==
    ASSUME IInv, UNCHANGED <<sent, at, answer, storing, before>>,
           now' \in Nat, rows' \subseteq rows
    PROVE  IInv'
  BY DEF IInv, IdempotencyTypeOK, RowsOwn, CachedIsOwn, Created, Row, Asked

\* A look-up answers with a delivery of the same sender, or with none.
LEMMA CheckInv ==
    ASSUME IInv, NEW r \in Requests, Check(r)
    PROVE  IInv'
<1> USE IdempotencyAssumption DEF IdempotencyAssumption, IInv, IdempotencyTypeOK, RowsOwn
<1>1. answer[r] = None /\ at' \in [Requests -> {"new", "create", "done"}]
  BY DEF Check
<1>2. ASSUME NEW x \in rows, Matches(x, r),
             answer' = [answer EXCEPT ![r] = x.delivery]
      PROVE  /\ answer'[r] \in Created /\ answer'[r] # r
             /\ Asked(answer'[r]) = Asked(r)
  <2>0. x.delivery \in Created
    OBVIOUS
  <2>1. x.delivery # r
    BY <1>1, <2>0 DEF Created
  <2>2. Asked(x.delivery) = Asked(r)
    BY <1>2 DEF Matches, Asked
  <2> QED
    BY <1>2, <2>0, <2>1, <2>2
<1>3. CASE answer' = answer
  <2>1. at'[r] = "create" /\ \A q \in Requests \ {r} : at'[q] = at[q]
    BY <1>1, <1>2, <1>3 DEF Check, Created
  <2> QED
    BY <1>1, <1>3, <2>1 DEF Check, Created, CachedIsOwn, Row, Asked
<1>4. CASE answer' # answer
  <2>1. PICK x \in rows : /\ Matches(x, r) /\ answer' = [answer EXCEPT ![r] = x.delivery]
                          /\ at' = [at EXCEPT ![r] = "done"]
    BY <1>4 DEF Check
  <2>2. answer'[r] \in Created /\ answer'[r] # r /\ Asked(answer'[r]) = Asked(r)
    BY <1>2, <2>1
  <2>3. Created' = Created /\ \A q \in Requests \ {r} : answer'[q] = answer[q]
    BY <1>1, <2>1, <2>2 DEF Created
  <2>4. CachedIsOwn'
    BY <2>2, <2>3 DEF CachedIsOwn, Check, Asked
  <2>5. RowsOwn'
    BY <2>1, <2>3 DEF Check, Asked
  <2>6. IdempotencyTypeOK'
    BY <1>1, <2>1, <2>2, <2>3 DEF Check, Created, Row
  <2> QED
    BY <2>4, <2>5, <2>6
<1> QED
  BY <1>3, <1>4

\* Creating a delivery takes nothing away from an earlier answer.
LEMMA CreateInv ==
    ASSUME IInv, NEW r \in Requests, Create(r)
    PROVE  IInv'
<1> USE IdempotencyAssumption DEF IdempotencyAssumption, IInv, IdempotencyTypeOK, RowsOwn
<1>1. answer[r] = None /\ Created \subseteq Created'
  BY DEF Create, Created
<1>2. \A q \in Requests : answer'[q] \in {answer[q], q}
  BY DEF Create
<1>3. IdempotencyTypeOK'
  <2>1. storing' \subseteq Created'
    BY <1>1 DEF Create, Created
  <2>2. /\ at' \in [Requests -> {"new", "create", "done"}]
        /\ answer' \in [Requests -> Requests \cup {None}]
    BY DEF Create
  <2> QED
    BY <2>1, <2>2 DEF Create, Row
<1>4. RowsOwn'
  BY <1>1 DEF Create, Asked
<1>5. ASSUME NEW q \in Requests, answer'[q] \notin {None, q}
      PROVE  answer'[q] \in Created' /\ Asked(answer[q])' = Asked(q)'
  BY <1>1, <1>2, <1>5 DEF Create, CachedIsOwn, Asked
<1>6. CachedIsOwn'
  BY <1>5 DEF CachedIsOwn
<1> QED
  BY <1>3, <1>4, <1>6

\* A row is stored for a delivery of its own sender, and never twice.
LEMMA StoreInv ==
    ASSUME IInv, NEW r \in Requests, Store(r)
    PROVE  IInv'
<1> USE IdempotencyAssumption DEF IdempotencyAssumption, IInv, IdempotencyTypeOK, RowsOwn
<1> DEFINE new == [key |-> sent[r].key, customer |-> sent[r].customer, data |-> sent[r].data,
                   delivery |-> r, expires |-> now + TTL]
<1>1. new \in Row /\ r \in Created
  BY DEF Store, Row
<1>2. Asked(r) = [customer |-> new.customer, key |-> new.key, data |-> new.data]
  BY DEF Asked
<1>3. rows' = rows \/ (rows' = rows \cup {new} /\ \A x \in rows : x.key # new.key)
  BY DEF Store, Stored
<1> HIDE DEF new
<1>4. IdempotencyTypeOK'
  BY <1>1, <1>3 DEF Store, Created, Row
<1>5. new.delivery = r
  BY DEF new
<1>6. RowsOwn' /\ CachedIsOwn'
  BY <1>1, <1>2, <1>3, <1>5 DEF Store, Created, CachedIsOwn, Asked
<1> QED
  BY <1>4, <1>6

\* What the two properties below follow from.
THEOREM AnswersInvariant == IdempotencySpec => []IInv
<1>1. IdempotencyInit => IInv
  BY DEF IdempotencyInit, IInv, IdempotencyTypeOK, RowsOwn, CachedIsOwn, Created
<1>2. IInv /\ [IdempotencyNext]_ivars => IInv'
  <2> SUFFICES ASSUME IInv, [IdempotencyNext]_ivars PROVE IInv'
    OBVIOUS
  <2>1. CASE Crash
    BY <2>1 DEF Crash, IInv, IdempotencyTypeOK, RowsOwn, CachedIsOwn, Created, Row, Asked
  <2>2. CASE Cleanup
    <3>1. now' \in Nat /\ rows' \subseteq rows
      BY <2>2 DEF Cleanup, IInv, IdempotencyTypeOK
    <3> QED
      BY <2>2, <3>1, IdleInv DEF Cleanup
  <2>3. CASE Tick
    <3>1. now' \in Nat /\ rows' \subseteq rows
      BY <2>3 DEF Tick, IInv, IdempotencyTypeOK
    <3> QED
      BY <2>3, <3>1, IdleInv DEF Tick
  <2>4. CASE UNCHANGED ivars
    BY <2>4 DEF ivars, IInv, IdempotencyTypeOK, RowsOwn, CachedIsOwn, Created, Row, Asked
  <2> QED
    BY <2>1, <2>2, <2>3, <2>4, CheckInv, CreateInv, StoreInv DEF IdempotencyNext
<1> QED
  BY <1>1, <1>2, PTL DEF IdempotencySpec

\* Handlers, stores, crashes and the cleanup keep the table and every request
\* within their types, and the table's keys unique.
THEOREM IdempotencyTypeCorrect == IdempotencySpec => []IdempotencyTypeOK
<1>1. IInv => IdempotencyTypeOK
  BY DEF IInv
<1> QED
  BY <1>1, AnswersInvariant, PTL

\* Whoever shares a key and whatever fails, a stored response is only given to
\* the customer, key and data it was created for.
THEOREM AnswersOwn == IdempotencySpec => []CachedIsOwn
<1>1. IInv => CachedIsOwn
  BY DEF IInv
<1> QED
  BY <1>1, AnswersInvariant, PTL

-----------------------------------------------------------------------------
(* What the code does keep of "returns cached response".                   *)

\* Every key is used by one customer, with one data.
KeysPrivate == \A s, t \in Senders : s.key = t.key => s.customer = t.customer /\ s.data = t.data

\* The rows of an instance that ends within the first lifetime are alive, and
\* every finished delivery whose store is over has one.
RowsCover ==
    /\ now <= End
    /\ \A x \in rows : x.expires >= TTL
    /\ \A d \in Created \ storing : \E x \in rows : x.key = sent[d].key

\* A request that creates, or has created, found nothing of its sender.
FirstOfSender == \A r \in Requests : at[r] = "create" \/ r \in Created => before[r] = {}

\* Steps that look nothing up keep what a request found, and the deliveries
\* that have a row.
LEMMA FindingsStay ==
    ASSUME IInv, RowsCover, FirstOfSender, Faults = {},
           NEW r \in Requests, Create(r) \/ Store(r)
    PROVE  RowsCover' /\ FirstOfSender'
<1> USE IdempotencyAssumption DEF IdempotencyAssumption, IInv, IdempotencyTypeOK, RowsCover, FirstOfSender
<1>1. CASE Create(r)
  <2>1. \A q \in Requests \ {r} : answer'[q] = answer[q] /\ at'[q] = at[q]
    BY <1>1 DEF Create
  <2>2. Created' \ storing' \subseteq Created \ storing
    BY <1>1, <2>1 DEF Create, Created
  <2>3. RowsCover'
    BY <1>1, <2>2 DEF Create
  <2>4. at[r] = "create" /\ before' = before
    BY <1>1 DEF Create
  <2> QED
    BY <2>1, <2>3, <2>4 DEF Created
<1>2. CASE Store(r)
  <2>1. r \in Created /\ Created' = Created
    BY <1>2 DEF Store, Created
  <2>2. rows' = Stored(r) /\ rows \subseteq rows'
    BY <1>2 DEF Store, Stored
  <2>3. \E x \in rows' : x.key = sent[r].key
    <3> DEFINE new == [key |-> sent[r].key, customer |-> sent[r].customer, data |-> sent[r].data,
                       delivery |-> r, expires |-> now + TTL]
    <3>1. (\E x \in rows : x.key = sent[r].key) \/ rows' = rows \cup {new}
      BY <2>2, Zenon DEF Stored
    <3>2. new.key = sent[r].key
      OBVIOUS
    <3> HIDE DEF new
    <3>3. CASE \E x \in rows : x.key = sent[r].key
      BY <2>2, <3>3, Zenon
    <3>4. CASE rows' = rows \cup {new}
      <4>1. new \in rows'
        BY <3>4
      <4> QED
        BY <3>2, <4>1
    <3> QED
      BY <3>1, <3>3, <3>4
  <2>4. \A x \in rows' : x.expires >= TTL
    <3>1. now + TTL >= TTL /\ \A x \in rows : x.expires >= TTL
      OBVIOUS
    <3> QED
      BY <2>2, <3>1, SMTT(30) DEF Stored, Row
  <2>5. \A d \in Created' \ storing' : d = r \/ d \in Created \ storing
    BY <1>2, <2>1 DEF Store
  <2>6. RowsCover'
    BY <1>2, <2>2, <2>3, <2>4, <2>5 DEF Store
  <2> QED
    BY <1>2, <2>1, <2>6 DEF Store
<1> QED
  BY <1>1, <1>2

\* A look-up finds the row of an earlier delivery of its sender: whoever stored
\* the row uses the same key and so is the same customer with the same data, and the row is alive.
LEMMA CheckFindsFirst ==
    ASSUME IInv, RowsCover, FirstOfSender, Faults = {}, End < TTL, KeysPrivate,
           NEW r \in Requests, Check(r)
    PROVE  RowsCover' /\ FirstOfSender'
<1> USE IdempotencyAssumption DEF IdempotencyAssumption, IInv, IdempotencyTypeOK, RowsOwn
<1>1. /\ answer[r] = None /\ now <= End
      /\ \A q \in Requests \ {r} : answer'[q] = answer[q] /\ at'[q] = at[q] /\ before'[q] = before[q]
  BY DEF Check, RowsCover
<1>2. \A x \in rows : x.delivery # r /\ x.delivery \in Requests
  <2> SUFFICES ASSUME NEW x \in rows PROVE x.delivery # r /\ x.delivery \in Requests
    OBVIOUS
  <2>1. x.delivery \in Created
    OBVIOUS
  <2> QED
    BY <1>1, <2>1 DEF Created
<1>3. answer'[r] # r
  BY <1>1, <1>2 DEF Check
<1>4. Created' = Created
  BY <1>1, <1>3 DEF Created
<1>5. RowsCover'
  BY <1>4 DEF Check, RowsCover
<1>6. ASSUME at'[r] = "create", NEW d \in Created \ storing, sent[d] = sent[r]
      PROVE  FALSE
  <2>1. PICK x \in rows : x.key = sent[d].key
    BY DEF RowsCover
  <2>2. Asked(x.delivery) = [customer |-> x.customer, key |-> x.key, data |-> x.data]
    OBVIOUS
  <2>3. /\ sent[x.delivery].key = sent[r].key /\ sent[x.delivery] \in Senders /\ sent[r] \in Senders
        /\ sent[x.delivery].customer = x.customer /\ sent[x.delivery].data = x.data
    BY <1>2, <1>6, <2>1, <2>2 DEF Asked
  <2>4. sent[r].customer = x.customer /\ sent[r].key = x.key /\ sent[r].data = x.data
    BY <1>6, <2>1, <2>3 DEF KeysPrivate
  <2>5. x.expires > now
    BY <1>1 DEF RowsCover, Row
  <2>6. Matches(x, r)
    BY <2>4, <2>5 DEF Matches
  <2> QED
    BY <1>6, <2>6 DEF Check
<1>7. at'[r] = "create" => before'[r] = {}
  BY <1>6 DEF Check
<1>8. FirstOfSender'
  BY <1>1, <1>3, <1>4, <1>7 DEF FirstOfSender, Created
<1> QED
  BY <1>5, <1>8

\* "Same key within 24 hours -> returns cached response" holds for customers
\* with keys of their own, in the first lifetime of the rows and while nothing
\* fails: a request that begins after an earlier one of its sender is finished
\* creates nothing, whatever other requests do in between.  With a key that two
\* customers share, or after a store that failed, the code creates again.
THEOREM RetryFindsFirst ==
    ASSUME Faults = {}, End < TTL, KeysPrivate
    PROVE  IdempotencySpec => []RetryReturnsFirst
<1> DEFINE Found == RowsCover /\ FirstOfSender
<1>1. IdempotencyInit => Found
  BY IdempotencyAssumption
  DEF IdempotencyAssumption, IdempotencyInit, RowsCover, FirstOfSender, Created
<1>2. IInv /\ Found /\ [IdempotencyNext]_ivars => Found'
  <2> SUFFICES ASSUME IInv, Found, [IdempotencyNext]_ivars PROVE Found'
    OBVIOUS
  <2> USE IdempotencyAssumption DEF IdempotencyAssumption
  <2>1. CASE Crash
    BY <2>1 DEF Crash
  <2>2. CASE Cleanup
    <3>1. \A x \in rows : x.expires >= now
      BY DEF RowsCover, IInv, IdempotencyTypeOK, Row
    <3>2. rows' = rows
      BY <2>2, <3>1 DEF Cleanup
    <3> QED
      BY <2>2, <3>2 DEF Cleanup, RowsCover, FirstOfSender, Created
  <2>3. CASE Tick
    BY <2>3 DEF Tick, RowsCover, FirstOfSender, Created, IInv, IdempotencyTypeOK
  <2>4. CASE UNCHANGED ivars
    BY <2>4 DEF ivars, RowsCover, FirstOfSender, Created
  <2> QED
    BY <2>1, <2>2, <2>3, <2>4, FindingsStay, CheckFindsFirst DEF IdempotencyNext
<1>3. Found => RetryReturnsFirst
  BY DEF FirstOfSender, RetryReturnsFirst, Created
<1> HIDE DEF Found
<1> QED
  BY <1>1, <1>2, <1>3, AnswersInvariant, PTL DEF IdempotencySpec
===============================================================================
