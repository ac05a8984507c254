---------------------------- MODULE TcpClientPool ----------------------------
(***************************************************************************)
(* client/tcp_client.h, client/tcp_client_pool.{h,cc}: the pool of         *)
(* connected TcpClients, a deque per peer.  get_client, recollect and      *)
(* check_clients hold mutex_ for their whole body, so each is one atomic   *)
(* step.  This module holds the pool's state and operations; ClientLease   *)
(* states the discipline its users keep, TcpModule is the user.            *)
(*                                                                         *)
(* A TcpClient is owned by shared_ptrs: one that leaves the pool and is    *)
(* not returned to a caller is destroyed, and ~TcpClient closes its        *)
(* socket.  A destroyed client is "closed" and referenced by nobody; its   *)
(* identity may be given to a client constructed later.                    *)
(***************************************************************************)
EXTENDS Integers, Sequences, FiniteSets

CONSTANTS Client,     \* TcpClient objects
          NoClient,   \* the null TcpClientPtr
          Peer,       \* the peer ids (client type ids) clients connect to
          MaxTimes,   \* max_times_; 0 or less is "no limit"
          CheckTime   \* check_time_, in seconds

ASSUME NoClientAssumption == NoClient \notin Client
ASSUME MaxTimesAssumption == MaxTimes \in Int
ASSUME CheckTimeAssumption == CheckTime \in Nat \ {0}

VARIABLES free_clients,  \* free_clients_: a deque per peer; a missing key is empty
          socket,        \* per client: "open"; "broken", is_error() holds;
                         \* "closed", is_closed_ holds or the client is no more
          peer_id,       \* peer_id_
          times,         \* times_: how often the pool has handed the client out
          idle,          \* now - last_touch_time_ of a client in the pool, else 0
          since_check    \* seconds since check_clients last ran

poolVars == <<free_clients, socket, peer_id, times, idle, since_check>>

PoolInit ==
  /\ free_clients = [p \in Peer |-> << >>]
  /\ socket = [c \in Client |-> "closed"]
  /\ peer_id \in [Client -> Peer]
  /\ times = [c \in Client |-> 0]
  /\ idle = [c \in Client |-> 0]
  /\ since_check = 0

Elems(q) == {q[i] : i \in DOMAIN q}
Pooled == UNION {Elems(free_clients[p]) : p \in Peer}
-----------------------------------------------------------------------------
(* Mutant: the count is compared before it is increased.                   *)
UsedUp_late(c) == MaxTimes > 0 /\ times[c] > MaxTimes

(* increase_times() > max_times_                                           *)
UsedUp(c) == MaxTimes > 0 /\ times[c] + 1 > MaxTimes

(* get_client returns this client when it comes to the front.              *)
Usable(c) == socket[c] = "open" /\ ~UsedUp(c)

UsableAt(q) == {i \in DOMAIN q : Usable(q[i])}

(* How many clients the loop pops: up to the first usable one, or all.     *)
PopCount(q) ==
  IF UsableAt(q) = {}
  THEN Len(q)
  ELSE CHOOSE i \in UsableAt(q) : \A j \in UsableAt(q) : i <= j

(* The client get_client(p) returns, or NoClient.                          *)
GetResult(p) ==
  LET q == free_clients[p]
  IN  IF UsableAt(q) = {} THEN NoClient ELSE q[PopCount(q)]

Popped(p) == {free_clients[p][i] : i \in 1..PopCount(free_clients[p])}

Remaining(p) ==
  LET q == free_clients[p]
  IN  SubSeq(q, PopCount(q) + 1, Len(q))

(* The clients that are popped and not returned were closed, used up or    *)
(* broken; they are destroyed.                                             *)
get_client(p) ==
  /\ free_clients' = [free_clients EXCEPT ![p] = Remaining(p)]
  /\ times' = [c \in Client |->
                 IF c \in Popped(p) /\ socket[c] # "closed" /\ MaxTimes > 0
                 THEN times[c] + 1 ELSE times[c]]
  /\ socket' = [c \in Client |->
                  IF c \in Popped(p) \ {GetResult(p)} THEN "closed" ELSE socket[c]]
  /\ idle' = [c \in Client |-> IF c \in Popped(p) THEN 0 ELSE idle[c]]
  /\ UNCHANGED <<peer_id, since_check>>

(* Mutant: the client is put into the deque of some other peer.            *)
recollect_any_peer(c) ==
  /\ \E p \in Peer : free_clients' = [free_clients EXCEPT ![p] = Append(@, c)]
  /\ idle' = [idle EXCEPT ![c] = 0]
  /\ UNCHANGED <<socket, peer_id, times, since_check>>

(* on_recollect() touches the client before it is pushed.                  *)
recollect(c) ==
  /\ free_clients' = [free_clients EXCEPT ![peer_id[c]] = Append(@, c)]
  /\ idle' = [idle EXCEPT ![c] = 0]
  /\ UNCHANGED <<socket, peer_id, times, since_check>>

(* Mutant: > instead of >= in TcpClient::expired.                          *)
Keep_late(c) == idle[c] <= CheckTime /\ socket[c] = "open"

(* check_clients keeps a client that is neither expired nor closed nor in  *)
(* error.                                                                  *)
Keep(c) == idle[c] < CheckTime /\ socket[c] = "open"

(* What the erase loop leaves of a deque: SelectSeq(q, Keep), written      *)
(* without recursion.  The element that ends up at j is the one with j     *)
(* kept positions up to and including its own.                             *)
KeptAt(q) == {i \in DOMAIN q : Keep(q[i])}
Rank(q, i) == Cardinality({k \in KeptAt(q) : k <= i})
Kept(q) ==
  [j \in 1..Cardinality(KeptAt(q)) |-> q[CHOOSE i \in KeptAt(q) : Rank(q, i) = j]]

check_clients ==
  /\ since_check = CheckTime
  /\ free_clients' = [p \in Peer |-> Kept(free_clients[p])]
  /\ socket' = [c \in Client |->
                  IF c \in Pooled /\ ~Keep(c) THEN "closed" ELSE socket[c]]
  /\ idle' = [c \in Client |-> IF c \in Pooled /\ ~Keep(c) THEN 0 ELSE idle[c]]
  /\ since_check' = 0
  /\ UNCHANGED <<peer_id, times>>

(* Mutant: check_clients is not scheduled again after check_time_.         *)
Tick_unchecked ==
  /\ since_check' = since_check + 1
  /\ idle' = [c \in Client |-> IF c \in Pooled THEN idle[c] + 1 ELSE idle[c]]
  /\ UNCHANGED <<free_clients, socket, peer_id, times>>

(* A second passes.  call_later's timer is not outrun: when it is due,     *)
(* check_clients runs before time goes on.                                 *)
Tick ==
  /\ since_check < CheckTime
  /\ since_check' = since_check + 1
  /\ idle' = [c \in Client |-> IF c \in Pooled THEN idle[c] + 1 ELSE idle[c]]
  /\ UNCHANGED <<free_clients, socket, peer_id, times>>

(* The remote end closes or resets the connection of an open client.       *)
PeerCloses(c) ==
  /\ socket[c] = "open"
  /\ socket' = [socket EXCEPT ![c] = "broken"]
  /\ UNCHANGED <<free_clients, peer_id, times, idle, since_check>>

(* TcpClient::TcpClient.                                                   *)
Construct(c, p) ==
  /\ socket' = [socket EXCEPT ![c] = "open"]
  /\ peer_id' = [peer_id EXCEPT ![c] = p]
  /\ times' = [times EXCEPT ![c] = 0]
  /\ UNCHANGED <<free_clients, idle, since_check>>

(* TcpClient::close, and ~TcpClient.                                       *)
close(c) ==
  /\ socket' = [socket EXCEPT ![c] = "closed"]
  /\ UNCHANGED <<free_clients, peer_id, times, idle, since_check>>
=============================================================================
