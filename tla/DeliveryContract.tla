--------------------------- MODULE DeliveryContract ---------------------------
(***************************************************************************)
(* What the pipeline promises for one accepted webhook, whatever workers,  *)
(* queues and reapers do behind it: the webhook is settled once, it is     *)
(* reported delivered only after its endpoint has accepted it, and the     *)
(* endpoint is not called again once the webhook is settled.               *)
(***************************************************************************)
CONSTANT Deliveries

VARIABLES
    status,   \* the status a customer sees
    acked     \* the webhooks their endpoint has accepted

cvars == <<status, acked>>

ContractInit ==
    /\ status = [d \in Deliveries |-> "absent"]
    /\ acked = {}

Become(d, s) == status' = [status EXCEPT ![d] = s] /\ UNCHANGED acked

AcceptWebhook(d) == status[d] = "absent" /\ Become(d, "pending")

\* The endpoint answers 2xx; a deleted webhook may still be on the wire.
EndpointAccepts(d) ==
    /\ status[d] \in {"pending", "deleted"}
    /\ acked' = acked \cup {d}
    /\ UNCHANGED status

SettleDelivered(d) == status[d] = "pending" /\ d \in acked /\ Become(d, "delivered")

SettleFailed(d) == status[d] = "pending" /\ Become(d, "failed")

Erase(d) == status[d] \notin {"absent", "deleted"} /\ Become(d, "deleted")

ContractNext ==
    \E d \in Deliveries :
        \/ AcceptWebhook(d) \/ EndpointAccepts(d)
        \/ SettleDelivered(d) \/ SettleFailed(d) \/ Erase(d)

ContractSpec == ContractInit /\ [][ContractNext]_cvars

-----------------------------------------------------------------------------
(* What is left of the contract when processes pause past the reapers'     *)
(* thresholds, replies are lost, or two paths deliver the same webhook:    *)
(* it may be settled again and sent again, but a customer never sees it    *)
(* return to pending or come back after it was erased, it is reported      *)
(* delivered only after its endpoint has accepted it, and an endpoint      *)
(* never receives what was not accepted from the customer first.           *)

Known(d) == status[d] \notin {"absent", "deleted"}

Kept(d) ==
    \/ status'[d] = status[d]
    \/ status[d] = "absent" /\ status'[d] = "pending"
    \/ Known(d) /\ status'[d] \in {"failed", "deleted"}
    \/ Known(d) /\ status'[d] = "delivered" /\ d \in acked

LooseNext ==
    /\ \A d \in Deliveries : Kept(d)
    /\ acked \subseteq acked'
    /\ \A d \in acked' \ acked : status[d] # "absent"

LooseSpec == ContractInit /\ [][LooseNext]_cvars
=============================================================================
