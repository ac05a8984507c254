----------------------------- MODULE MCTcpModule -----------------------------
(* Two runs and two clients of one peer: a client that one run returned is *)
(* taken by the other while late handlers of the first are still queued.   *)
(* A client is handed out once more (MaxTimes = 1), so it is also seen     *)
(* used up.  Runs, and clients, are interchangeable.                       *)
EXTENDS TcpModule, TLC

Symmetry == Permutations(Client) \cup Permutations(Run)
=============================================================================
