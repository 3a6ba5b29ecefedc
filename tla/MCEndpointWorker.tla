--------------------------- MODULE MCEndpointWorker ---------------------------
(* Small instances of EndpointWorker for TLC. *)
EXTENDS EndpointWorker

CONSTANTS w1, w2

OneWorker  == {w1}
TwoWorkers == {w1, w2}
NoWorkers  == {}

\* w1 is like the vc_inventory endpoint, w2 like sc_stores.
StoreAndSingle == [w \in TwoWorkers |-> IF w = w1 THEN "store" ELSE "single"]
OnlyW1         == {w1}
OnlyW2         == {w2}

\* w1 alone, like an order-detail or a store-iterating endpoint.
DetailMode == [w \in OneWorker |-> "detail"]
StoreMode  == [w \in OneWorker |-> "store"]
=============================================================================
