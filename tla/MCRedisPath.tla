----------------------------- MODULE MCRedisPath -----------------------------
(* Instances of RedisPath for TLC: every delivery goes to one endpoint.     *)
EXTENDS RedisPath, TLC

CONSTANT e1

OneEndpoint == {e1}
ToOneEndpoint == [d \in Deliveries |-> e1]

\* The runs of safety properties do not tell the workers, or the deliveries, apart.
Symmetry == Permutations(Workers) \cup Permutations(Deliveries)
=============================================================================
