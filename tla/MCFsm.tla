-------------------------------- MODULE MCFsm --------------------------------
(* The proxy's graph with two branches per fork: up to two feature servers *)
(* with two predictors each, four branches under nested forks and joins,   *)
(* and any smaller number of active branches.                              *)
EXTENDS Example1
=============================================================================
