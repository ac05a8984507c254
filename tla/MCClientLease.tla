---------------------------- MODULE MCClientLease ----------------------------
(* Three clients of two peers, each handed out at most twice again: a      *)
(* deque holds up to three clients, and usable, broken, closed, used-up    *)
(* and expired ones meet in it.  Clients and peers are interchangeable.    *)
EXTENDS ClientLease, TLC

Symmetry == Permutations(Client) \cup Permutations(Peer)
=============================================================================
