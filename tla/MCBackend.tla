------------------------------ MODULE MCBackend ------------------------------
(* Two runs that share one client and the balancer's only address: both    *)
(* may be about to report it, once or twice, while the timer clears it.    *)
EXTENDS Backend
=============================================================================
