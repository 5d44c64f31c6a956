-------------------------- MODULE MCRevenueDelivery --------------------------
(* Small instances of RevenueDelivery: calls for one delivery that hold two *)
(* approvals, and one for another delivery to the same resource.            *)
EXTENDS RevenueDelivery, TLC

CONSTANTS c1, c2, c3, item, other, first, second, third

Scope == first :> item @@ second :> item @@ third :> other
TwoScopes == first :> item @@ second :> other

(* Three approvals on three calls, or one approval on two of them.          *)
Tokens ==
  {t \in [Call -> Approval] :
     {t[c] : c \in Call} \in {Approval, {first, second}}}

Symmetric == Permutations({c1, c2, c3}) \cup Permutations({first, second})
=============================================================================
