------------------------- MODULE LoadBalancerProofs -------------------------
(* For every set of addresses and of attempts: no address is lost, a       *)
(* failed address is not offered, and it is back after two recovery ticks. *)
EXTENDS LoadBalancer, TLAPS

(* Where an address is, from the number of ticks since it last failed.  An *)
(* address that failed again while on probation is in good_ips_ and in     *)
(* bad_ips_ at once, so the cases cannot be told apart by the sets alone.  *)
Probation ==
  \A ip \in Ip :
    /\ clears[ip] = 0 => ip \in bad_ips /\ ip \notin alive_ips
    /\ clears[ip] = 1 => ip \in good_ips
    /\ clears[ip] = Recovered => ip \in alive_ips
    /\ ip \in bad_ips => clears[ip] = 0

IInv == TypeOK /\ Probation

(* The initial state, all addresses alive, satisfies the invariant.        *)
LEMMA InitIInv == Init => IInv
BY NoIpAssumption DEF Init, IInv, TypeOK, Probation, Recovered

(* Each method of the balancer preserves it.                               *)
LEMMA NextIInv == IInv /\ [Next]_vars => IInv'
<1> SUFFICES ASSUME IInv, [Next]_vars PROVE IInv'
  OBVIOUS
<1> USE NoIpAssumption DEF IInv, TypeOK, Recovered
<1>1. ASSUME NEW a \in Attempt, get_alive_ip_by_hash(a)
      PROVE IInv'
  BY <1>1 DEF get_alive_ip_by_hash, Probation
<1>2. ASSUME NEW a \in Attempt, get_alive_ip_random(a)
      PROVE IInv'
  BY <1>2 DEF get_alive_ip_random, Probation
<1>3. ASSUME NEW a \in Attempt, ConnectDone(a)
      PROVE IInv'
  BY <1>3 DEF ConnectDone, Probation
<1>4. ASSUME NEW a \in Attempt, server_connect_fail(a)
      PROVE IInv'
  <2>1. trying[a] \in Ip
    BY <1>4 DEF server_connect_fail
  <2>2. TypeOK'
    BY <1>4, <2>1 DEF server_connect_fail
  <2>3. Probation'
    BY <1>4, <2>1 DEF server_connect_fail, Probation
  <2> QED BY <2>2, <2>3
<1>5. CASE clear_bad_ips
  <2>1. \A n \in 0..2 : CountClear(n) \in 1..2 /\ (n = 0 <=> CountClear(n) = 1)
    BY DEF CountClear
  <2>2. TypeOK'
    BY <1>5, <2>1 DEF clear_bad_ips, call_later
  <2>3. Probation'
    BY <1>5, <2>1 DEF clear_bad_ips, Probation
  <2> QED BY <2>2, <2>3
<1>6. CASE UNCHANGED vars
  BY <1>6 DEF vars, Probation
<1> QED BY <1>1, <1>2, <1>3, <1>4, <1>5, <1>6 DEF Next

(* The state variables keep their types.                                   *)
THEOREM TypeCorrect == Spec => []TypeOK
<1>1. IInv => TypeOK
  BY DEF IInv
<1> QED BY <1>1, InitIInv, NextIInv, PTL DEF Spec

(* Whatever order failure reports and recovery ticks come in, no           *)
(* configured address drops out of all three sets (load_balancer.cc:3-14,  *)
(* 68-73).                                                                 *)
THEOREM NeverLost == Spec => []NoServerLost
<1>1. IInv => NoServerLost
  BY DEF IInv, TypeOK, Probation, NoServerLost, Recovered
<1> QED BY <1>1, InitIInv, NextIInv, PTL DEF Spec

(* get_alive_ip_random never hands out an address that failed since the    *)
(* last clear_bad_ips.                                                     *)
THEOREM NotOffered == Spec => []FailedNotOffered
<1>1. IInv => FailedNotOffered
  BY DEF IInv, Probation, FailedNotOffered
<1> QED BY <1>1, InitIInv, NextIInv, PTL DEF Spec

(* Two recovery ticks after its last failure an address is alive again.    *)
THEOREM BackInTime == Spec => []BackAfterTwoClears
<1>1. IInv => BackAfterTwoClears
  BY DEF IInv, Probation, BackAfterTwoClears
<1> QED BY <1>1, InitIInv, NextIInv, PTL DEF Spec
=============================================================================
