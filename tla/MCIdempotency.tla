---------------------------- MODULE MCIdempotency ----------------------------
(* Instances of Idempotency: what the requests carry. *)
EXTENDS Idempotency, TLC

CONSTANTS c1, c2, k1, k2, d1, d2, t1, t2

Sender(c, k, d, t) == [customer |-> c, key |-> k, data |-> d, target |-> t]

\* Every customer has a key of its own and sends one request with it.
OwnKeys == {Sender(c1, k1, d1, t1), Sender(c2, k2, d1, t1)}

\* Two customers use the same key.
SharedKey == {Sender(c1, k1, d1, t1), Sender(c2, k1, d1, t1)}

\* One customer sends the same data to two endpoints with one key.
TwoTargets == {Sender(c1, k1, d1, t1), Sender(c1, k1, d1, t2)}

\* All of it, and a key that is sent with two data.
Mixed == OwnKeys \cup SharedKey \cup TwoTargets \cup {Sender(c1, k1, d2, t1)}

RequestSymmetry == Permutations(Requests)
=============================================================================
