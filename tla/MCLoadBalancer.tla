--------------------------- MODULE MCLoadBalancer ---------------------------
(* Two attempts on three addresses: one attempt may report a failure that  *)
(* the other attempt and several recovery ticks have overtaken.            *)
EXTENDS LoadBalancer
=============================================================================
