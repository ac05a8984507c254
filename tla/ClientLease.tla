----------------------------- MODULE ClientLease -----------------------------
(***************************************************************************)
(* What the users of a TcpClientPool promise each other: a client is       *)
(* either in the pool, once, or in use by one user.  A user gets a client  *)
(* from the pool or constructs one, and ends its use by returning it to    *)
(* the pool or by dropping its pointer.  TcpModule implements this.        *)
(***************************************************************************)
EXTENDS TcpClientPool

VARIABLE in_use   \* clients some user holds and has not returned

vars == <<poolVars, in_use>>

Init == PoolInit /\ in_use = {}

NewClient(c, p) ==
  /\ socket[c] = "closed"
  /\ c \notin Pooled \cup in_use
  /\ Construct(c, p)
  /\ in_use' = in_use \cup {c}

(* Mutant: the user keeps its pointer to the client it returned.           *)
Recollect_keeps(c) ==
  /\ c \in in_use
  /\ recollect(c)
  /\ UNCHANGED in_use

(* recollect(client_); client_.reset().                                    *)
Recollect(c) ==
  /\ c \in in_use
  /\ recollect(c)
  /\ in_use' = in_use \ {c}

GetClient(p) ==
  /\ get_client(p)
  /\ in_use' = in_use \cup ({GetResult(p)} \ {NoClient})

Close(c) ==
  /\ c \in in_use
  /\ close(c)
  /\ UNCHANGED in_use

(* Mutant: the destructor does not close the socket.                       *)
Drop_leaks(c) ==
  /\ c \in in_use
  /\ UNCHANGED poolVars
  /\ in_use' = in_use \ {c}

(* The last pointer to a client that was not returned goes away.           *)
Drop(c) ==
  /\ c \in in_use
  /\ close(c)
  /\ in_use' = in_use \ {c}

Next ==
  \/ \E c \in Client :
       \/ \E p \in Peer : NewClient(c, p)
       \/ Recollect(c)
       \/ Close(c)
       \/ Drop(c)
       \/ PeerCloses(c) /\ UNCHANGED in_use
  \/ \E p \in Peer : GetClient(p)
  \/ check_clients /\ UNCHANGED in_use
  \/ Tick /\ UNCHANGED in_use

Spec == Init /\ [][Next]_vars
-----------------------------------------------------------------------------
MostTimes == IF MaxTimes > 0 THEN MaxTimes + 1 ELSE 0

TypeOK ==
  /\ free_clients \in [Peer -> Seq(Client)]
  /\ socket \in [Client -> {"open", "broken", "closed"}]
  /\ peer_id \in [Client -> Peer]
  /\ times \in [Client -> 0..MostTimes]
  /\ idle \in [Client -> Nat]
  /\ since_check \in 0..CheckTime
  /\ in_use \subseteq Client

(* No two places of the pool hold the same client, and a client in use is  *)
(* in no deque: two requests never share a connection.                     *)
LeaseExclusive ==
  /\ \A p1, p2 \in Peer :
       \A i \in DOMAIN free_clients[p1], j \in DOMAIN free_clients[p2] :
         free_clients[p1][i] = free_clients[p2][j] => p1 = p2 /\ i = j
  /\ Pooled \cap in_use = {}

(* get_client(p) cannot return a connection to another peer.               *)
OwnPeer ==
  \A p \in Peer : \A i \in DOMAIN free_clients[p] : peer_id[free_clients[p][i]] = p

(* max_times_ bounds how often a client is handed out again, whatever the  *)
(* order of returns, failures and checks.                                  *)
UseLimit ==
  MaxTimes > 0 => \A c \in Pooled \cup in_use : times[c] <= MaxTimes

(* A client that lies unused in the pool is closed less than two check     *)
(* periods after it was returned.                                          *)
IdleBound ==
  \A c \in Pooled : idle[c] <= CheckTime - 1 + since_check

(* Only the pool and the users keep connections open: none leaks.          *)
NoLeak ==
  \A c \in Client : socket[c] # "closed" => c \in Pooled \cup in_use
=============================================================================
