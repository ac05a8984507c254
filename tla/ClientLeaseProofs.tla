-------------------------- MODULE ClientLeaseProofs --------------------------
(***************************************************************************)
(* The invariants of ClientLease hold for every set of clients and peers,  *)
(* every max_times_ and every check_time_.                                 *)
(***************************************************************************)
EXTENDS ClientLease, TcpClientPoolProofs

(* The inductive invariant.  Its conjuncts need each other: a count stays  *)
(* in range because a pooled client has been handed out at most MaxTimes   *)
(* times, and that survives a return because it also holds in use; the     *)
(* two notions stay apart because of LeaseExclusive.                       *)
IInv == TypeOK /\ LeaseExclusive /\ OwnPeer /\ UseLimit /\ IdleBound /\ NoLeak

(* The pool starts empty.                                                  *)
LEMMA InitIInv == Init => IInv
<1> SUFFICES ASSUME Init PROVE IInv
  OBVIOUS
<1> USE DEF Init, PoolInit
<1>1. \A p \in Peer : DOMAIN free_clients[p] = {} /\ free_clients[p] \in Seq(Client)
  BY EmptySeq
<1>2. Pooled = {}
  BY <1>1 DEF Pooled, Elems
<1>3. TypeOK
  <2>1. MostTimes \in Nat
    BY MaxTimesAssumption DEF MostTimes
  <2> QED BY <1>1, <2>1, CheckTimeAssumption DEF TypeOK
<1>4. LeaseExclusive
  BY <1>1, <1>2 DEF LeaseExclusive
<1>5. OwnPeer
  BY <1>1 DEF OwnPeer
<1>6. UseLimit /\ IdleBound /\ NoLeak
  BY <1>2 DEF UseLimit, IdleBound, NoLeak
<1> QED BY <1>3, <1>4, <1>5, <1>6 DEF IInv

(* Steps that leave the deques alone.                                      *)
LEMMA NewClientIInv ==
  ASSUME IInv, NEW c \in Client, NEW p \in Peer, NewClient(c, p)
  PROVE  IInv'
<1> USE DEF IInv, NewClient, Construct
<1>1. free_clients' = free_clients /\ Pooled' = Pooled
  BY DEF Pooled
<1>2. TypeOK'
  BY <1>1, MaxTimesAssumption DEF TypeOK, MostTimes
<1>3. LeaseExclusive'
  BY <1>1 DEF LeaseExclusive
<1>4. OwnPeer'
  <2>1. \A r \in Peer : \A i \in DOMAIN free_clients[r] : free_clients[r][i] # c
    BY PooledPlace
  <2> QED BY <1>1, <2>1 DEF OwnPeer, TypeOK
<1>5. Pooled \subseteq Client
  BY PooledIsClient DEF TypeOK
<1>6. UseLimit'
  BY <1>1, <1>5, MaxTimesAssumption DEF UseLimit, TypeOK
<1>7. IdleBound' /\ NoLeak'
  BY <1>1 DEF IdleBound, NoLeak, TypeOK
<1> QED BY <1>2, <1>3, <1>4, <1>6, <1>7

(* Closing, dropping, and the peer's closing only change socket and in_use.*)
LEMMA CloseIInv ==
  ASSUME IInv, NEW c \in Client,
         Close(c) \/ Drop(c) \/ (PeerCloses(c) /\ UNCHANGED in_use)
  PROVE  IInv'
<1> USE DEF IInv, Close, Drop, PeerCloses, close
<1>1. /\ UNCHANGED <<free_clients, peer_id, times, idle, since_check>>
      /\ Pooled' = Pooled
      /\ in_use' \subseteq in_use
  BY DEF Pooled
<1>2. TypeOK'
  BY <1>1 DEF TypeOK, MostTimes
<1>3. LeaseExclusive' /\ OwnPeer'
  BY <1>1 DEF LeaseExclusive, OwnPeer
<1>4. UseLimit' /\ IdleBound'
  BY <1>1 DEF UseLimit, IdleBound
<1>5. NoLeak'
  BY <1>1 DEF NoLeak, TypeOK
<1> QED BY <1>2, <1>3, <1>4, <1>5

(* Time passes for the pooled clients and for the check timer alike.       *)
LEMMA TickIInv ==
  ASSUME IInv, Tick, UNCHANGED in_use
  PROVE  IInv'
<1> USE DEF IInv, Tick
<1>1. Pooled' = Pooled
  BY DEF Pooled
<1>2. TypeOK'
  BY CheckTimeAssumption DEF TypeOK, MostTimes
<1>3. LeaseExclusive' /\ OwnPeer' /\ UseLimit' /\ NoLeak'
  BY <1>1 DEF LeaseExclusive, OwnPeer, UseLimit, NoLeak
<1>4. IdleBound'
  <2> SUFFICES ASSUME NEW c \in Pooled
               PROVE  idle'[c] <= CheckTime - 1 + since_check'
    BY <1>1 DEF IdleBound
  <2>1. c \in Client
    BY PooledIsClient DEF TypeOK
  <2> QED BY <2>1, CheckTimeAssumption DEF IdleBound, TypeOK
<1> QED BY <1>2, <1>3, <1>4

(* A return moves the client from in_use to the end of its peer's deque.   *)
LEMMA RecollectIInv ==
  ASSUME IInv, NEW c \in Client, Recollect(c)
  PROVE  IInv'
<1> USE DEF IInv
<1>1. /\ c \in in_use /\ recollect(c) /\ in_use' = in_use \ {c}
      /\ UNCHANGED <<socket, peer_id, times, since_check>>
      /\ idle' = [idle EXCEPT ![c] = 0]
  BY DEF Recollect, recollect
<1>2. c \notin Pooled /\ Distinct
  BY <1>1 DEF LeaseExclusive, Distinct
<1>3. /\ free_clients' \in [Peer -> Seq(Client)]
      /\ Distinct'
      /\ Pooled' = Pooled \cup {c}
      /\ \A p \in Peer : \A i \in DOMAIN free_clients'[p] :
           \/ i \in DOMAIN free_clients[p] /\ free_clients'[p][i] = free_clients[p][i]
           \/ p = peer_id[c] /\ free_clients'[p][i] = c
  BY <1>1, <1>2, RecollectPool DEF TypeOK
<1>4. TypeOK'
  BY <1>1, <1>3 DEF TypeOK, MostTimes
<1>5. LeaseExclusive'
  <2>1. Pooled' \cap in_use' = {}
    BY <1>1, <1>3 DEF LeaseExclusive
  <2> QED BY <1>3, <2>1 DEF LeaseExclusive, Distinct
<1>6. OwnPeer'
  BY <1>1, <1>3 DEF OwnPeer
<1>7. UseLimit' /\ NoLeak'
  BY <1>1, <1>3 DEF UseLimit, NoLeak
<1>8. IdleBound'
  <2>1. Pooled \subseteq Client
    BY PooledIsClient DEF TypeOK
  <2> QED BY <1>1, <1>3, <2>1, CheckTimeAssumption DEF IdleBound, TypeOK
<1> QED BY <1>4, <1>5, <1>6, <1>7, <1>8

(* get_client: what is popped is in no deque any more, and the client that *)
(* is returned had been handed out fewer than MaxTimes times.              *)
LEMMA GetClientIInv ==
  ASSUME IInv, NEW p \in Peer, GetClient(p)
  PROVE  IInv'
<1> USE DEF IInv
<1>1. /\ get_client(p)
      /\ UNCHANGED <<peer_id, since_check>>
      /\ in_use' = in_use \cup ({GetResult(p)} \ {NoClient})
  BY DEF GetClient, get_client
<1>2. /\ free_clients' \in [Peer -> Seq(Client)]
      /\ Distinct'
      /\ Popped(p) \subseteq Pooled
      /\ Pooled' = Pooled \ Popped(p)
      /\ \/ GetResult(p) = NoClient
         \/ GetResult(p) \in Popped(p) /\ Usable(GetResult(p))
      /\ \A r \in Peer : \A i \in DOMAIN free_clients'[r] :
           \E k \in DOMAIN free_clients[r] : free_clients'[r][i] = free_clients[r][k]
  <2>1. Distinct
    BY DEF LeaseExclusive, Distinct
  <2> QED BY <1>1, <2>1, GetClientPool DEF TypeOK
<1>3. ASSUME NEW c \in Client
      PROVE  /\ times'[c] = IF c \in Popped(p) /\ socket[c] # "closed" /\ MaxTimes > 0
                            THEN times[c] + 1 ELSE times[c]
             /\ socket'[c] = IF c \in Popped(p) \ {GetResult(p)} THEN "closed" ELSE socket[c]
             /\ idle'[c] = IF c \in Popped(p) THEN 0 ELSE idle[c]
  BY <1>1 DEF get_client
<1>4. \A c \in Pooled : c \in Client /\ c \notin in_use
  BY PooledIsClient DEF LeaseExclusive, TypeOK
<1>5. \A c \in Pooled : MaxTimes > 0 => times[c] <= MaxTimes
  BY DEF UseLimit
<1>6. TypeOK'
  <2>1. socket' \in [Client -> {"open", "broken", "closed"}]
    BY DEF TypeOK, GetClient, get_client
  <2>2. idle' \in [Client -> Nat]
    BY DEF TypeOK, GetClient, get_client
  <2>3. times' \in [Client -> 0..MostTimes]
    <3>1. ASSUME NEW c \in Client PROVE times'[c] \in 0..MostTimes
      BY <1>2, <1>3, <1>5, MaxTimesAssumption DEF TypeOK, MostTimes
    <3>2. times' = [c \in Client |-> times'[c]]
      BY DEF GetClient, get_client
    <3> QED BY <3>1, <3>2
  <2>4. in_use' \subseteq Client
    BY <1>1, <1>2, <1>4 DEF TypeOK
  <2> QED BY <1>1, <1>2, <2>1, <2>2, <2>3, <2>4 DEF TypeOK, MostTimes
<1>7. LeaseExclusive'
  <2>1. Pooled' \cap in_use' = {}
    BY <1>1, <1>2, <1>4
  <2> QED BY <1>2, <2>1 DEF LeaseExclusive, Distinct
<1>8. OwnPeer'
  BY <1>1, <1>2 DEF OwnPeer
<1>9. UseLimit'
  <2> SUFFICES ASSUME MaxTimes > 0, NEW c \in Pooled' \cup in_use'
               PROVE  times'[c] <= MaxTimes
    BY DEF UseLimit
  <2>1. CASE c \in Pooled'
    BY <1>2, <1>3, <1>4, <1>5, <2>1
  <2>2. CASE c \in in_use
    BY <1>2, <1>3, <1>4, <2>2 DEF UseLimit, TypeOK
  <2>3. CASE c = GetResult(p) /\ c # NoClient
    <3>1. c \in Client /\ ~UsedUp(c)
      BY <1>2, <1>4, <2>3 DEF Usable
    <3>2. times[c] \in Int /\ times[c] + 1 <= MaxTimes
      BY <3>1, MaxTimesAssumption DEF UsedUp, TypeOK, MostTimes
    <3>3. times'[c] = times[c] + 1 \/ times'[c] = times[c]
      BY <1>3, <3>1
    <3> QED BY <3>2, <3>3, MaxTimesAssumption
  <2> QED BY <1>1, <2>1, <2>2, <2>3
<1>10. IdleBound'
  BY <1>1, <1>2, <1>3, <1>4 DEF IdleBound
<1>11. NoLeak'
  <2> SUFFICES ASSUME NEW c \in Client, socket'[c] # "closed", c \notin in_use'
               PROVE  c \in Pooled'
    BY DEF NoLeak
  <2>1. c \notin Popped(p) /\ c \in Pooled
    BY <1>1, <1>2, <1>3, NoClientAssumption DEF NoLeak
  <2> QED BY <1>2, <2>1
<1> QED BY <1>6, <1>7, <1>8, <1>9, <1>10, <1>11

(* check_clients: what is kept keeps its order, and had been idle for less *)
(* than CheckTime.                                                         *)
LEMMA CheckClientsIInv ==
  ASSUME IInv, check_clients, UNCHANGED in_use
  PROVE  IInv'
<1> USE DEF IInv, check_clients
<1>1. /\ free_clients' \in [Peer -> Seq(Client)]
      /\ Distinct'
      /\ \A c : c \in Pooled' <=> c \in Pooled /\ Keep(c)
      /\ \A p \in Peer : \A j \in DOMAIN free_clients'[p] :
           \E i \in DOMAIN free_clients[p] : free_clients'[p][j] = free_clients[p][i]
  <2>1. Distinct
    BY DEF LeaseExclusive, Distinct
  <2> QED BY <2>1, CheckClientsPool DEF TypeOK
<1>2. Pooled \subseteq Client
  BY PooledIsClient DEF TypeOK
<1>3. TypeOK'
  <2>1. socket' \in [Client -> {"open", "broken", "closed"}]
    BY DEF TypeOK
  <2>2. idle' \in [Client -> Nat]
    BY DEF TypeOK
  <2> QED BY <1>1, <2>1, <2>2, CheckTimeAssumption DEF TypeOK, MostTimes
<1>4. LeaseExclusive'
  <2>1. Pooled' \cap in_use' = {}
    BY <1>1 DEF LeaseExclusive
  <2> QED BY <1>1, <2>1 DEF LeaseExclusive, Distinct
<1>5. OwnPeer'
  <2> SUFFICES ASSUME NEW p \in Peer, NEW j \in DOMAIN free_clients'[p]
               PROVE  peer_id[free_clients'[p][j]] = p
    BY DEF OwnPeer
  <2>1. PICK i \in DOMAIN free_clients[p] : free_clients'[p][j] = free_clients[p][i]
    BY <1>1
  <2> QED BY <2>1 DEF OwnPeer
<1>6. UseLimit'
  BY <1>1 DEF UseLimit
<1>7. IdleBound'
  <2> SUFFICES ASSUME NEW c \in Pooled'
               PROVE  idle'[c] <= CheckTime - 1 + since_check'
    BY DEF IdleBound
  <2>1. c \in Client /\ idle[c] < CheckTime /\ idle'[c] = idle[c]
    BY <1>1, <1>2 DEF Keep
  <2> QED BY <2>1, CheckTimeAssumption DEF TypeOK
<1>8. NoLeak'
  <2> SUFFICES ASSUME NEW c \in Client, socket'[c] # "closed", c \notin in_use
               PROVE  c \in Pooled'
    BY DEF NoLeak
  <2>1. c \in Pooled /\ Keep(c)
    BY DEF NoLeak
  <2> QED BY <1>1, <2>1
<1> QED BY <1>3, <1>4, <1>5, <1>6, <1>7, <1>8
-----------------------------------------------------------------------------
(* Every step of the pool and of its users preserves the invariant.        *)
LEMMA NextIInv == IInv /\ [Next]_vars => IInv'
<1> SUFFICES ASSUME IInv, [Next]_vars PROVE IInv'
  OBVIOUS
<1>1. CASE UNCHANGED vars
  <2>1. Pooled' = Pooled
    BY <1>1 DEF vars, poolVars, Pooled
  <2> QED BY <1>1, <2>1 DEF vars, poolVars, IInv, TypeOK, MostTimes, LeaseExclusive,
             OwnPeer, UseLimit, IdleBound, NoLeak
<1>2. CASE \E c \in Client, p \in Peer : NewClient(c, p)
  BY <1>2, NewClientIInv
<1>3. CASE \E c \in Client : Recollect(c)
  BY <1>3, RecollectIInv
<1>4. CASE \E c \in Client :
             Close(c) \/ Drop(c) \/ (PeerCloses(c) /\ UNCHANGED in_use)
  BY <1>4, CloseIInv
<1>5. CASE \E p \in Peer : GetClient(p)
  BY <1>5, GetClientIInv
<1>6. CASE check_clients /\ UNCHANGED in_use
  BY <1>6, CheckClientsIInv
<1>7. CASE Tick /\ UNCHANGED in_use
  BY <1>7, TickIInv
<1> QED BY <1>1, <1>2, <1>3, <1>4, <1>5, <1>6, <1>7 DEF Next

(* The inductive invariant holds in every reachable state.                 *)
LEMMA Inductive == Spec => []IInv
BY InitIInv, NextIInv, PTL DEF Spec

(* The pool's state is well typed: in particular times_ never exceeds      *)
(* max_times_ + 1.                                                         *)
THEOREM TypeCorrect == Spec => []TypeOK
<1>1. IInv => TypeOK
  BY DEF IInv
<1> QED BY <1>1, Inductive, PTL

(* Two users never hold the same connection, and none holds a pooled one,  *)
(* for any number of clients, peers and users.                             *)
THEOREM Exclusive == Spec => []LeaseExclusive
<1>1. IInv => LeaseExclusive
  BY DEF IInv
<1> QED BY <1>1, Inductive, PTL

(* get_client(p) returns only connections to p.                            *)
THEOREM RightPeer == Spec => []OwnPeer
<1>1. IInv => OwnPeer
  BY DEF IInv
<1> QED BY <1>1, Inductive, PTL

(* max_times_ is respected for every value of it.                          *)
THEOREM LimitedUse == Spec => []UseLimit
<1>1. IInv => UseLimit
  BY DEF IInv
<1> QED BY <1>1, Inductive, PTL

(* No client idles in the pool for two check periods.                      *)
THEOREM LimitedIdle == Spec => []IdleBound
<1>1. IInv => IdleBound
  BY DEF IInv
<1> QED BY <1>1, Inductive, PTL

(* No open connection is outside the pool and out of use.                  *)
THEOREM Leakless == Spec => []NoLeak
<1>1. IInv => NoLeak
  BY DEF IInv
<1> QED BY <1>1, Inductive, PTL
=============================================================================
