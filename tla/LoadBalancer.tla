---------------------------- MODULE LoadBalancer ----------------------------
(***************************************************************************)
(* client/load_balancer.{h,cc}: the list of backend addresses shared by    *)
(* all threads of a server process.  Every method takes mutex_ (shared or  *)
(* exclusive) for its whole body, so a method is one atomic step.          *)
(*                                                                         *)
(* The callers are connection attempts: an attempt asks for an address,    *)
(* connects, and reports a failed connect with server_connect_fail, once   *)
(* or, from its time-out handler too, twice (module Backend).  Other       *)
(* attempts, and the recovery timer, run between these calls, so the       *)
(* failure that is reported may be about an address that has changed sets  *)
(* several times since it was handed out.                                  *)
(***************************************************************************)
EXTENDS Integers

CONSTANTS Ip,       \* the addresses in ips_
          NoIp,     \* no address
          Attempt   \* connection attempts that may be under way at once

ASSUME NoIpAssumption == NoIp \notin Ip

VARIABLES alive_ips,  \* keys of the map alive_ips_
          bad_ips,    \* bad_ips_: failed since the last clear_bad_ips
          good_ips,   \* good_ips_: on probation
          armed,      \* timer_ has a wait of clear_bad_ips
          trying,     \* address each attempt is connecting to, or NoIp
          clears      \* history: clear_bad_ips runs since the address last
                      \* failed, counted up to Recovered

vars == <<alive_ips, bad_ips, good_ips, armed, trying, clears>>

Recovered == 2

Init ==
  /\ alive_ips = Ip
  /\ bad_ips = {}
  /\ good_ips = {}
  /\ armed = TRUE
  /\ trying = [a \in Attempt |-> NoIp]
  /\ clears = [ip \in Ip |-> Recovered]
-----------------------------------------------------------------------------
(* Which address hash_val % ips_.size() selects is arbitrary; the lookup   *)
(* fails, and nothing changes, when that address is in bad_ips_.           *)
get_alive_ip_by_hash(a) ==
  /\ trying[a] = NoIp
  /\ \E ip \in Ip \ bad_ips : trying' = [trying EXCEPT ![a] = ip]
  /\ UNCHANGED <<alive_ips, bad_ips, good_ips, armed, clears>>

get_alive_ip_random(a) ==
  /\ trying[a] = NoIp
  /\ \E ip \in alive_ips : trying' = [trying EXCEPT ![a] = ip]
  /\ UNCHANGED <<alive_ips, bad_ips, good_ips, armed, clears>>

(* The attempt is over; it may have reported a failure before.             *)
ConnectDone(a) ==
  /\ trying[a] # NoIp
  /\ trying' = [trying EXCEPT ![a] = NoIp]
  /\ UNCHANGED <<alive_ips, bad_ips, good_ips, armed, clears>>

(* Mutant: the failed address is not taken out of alive_ips_.              *)
server_connect_fail_stays_alive(a) ==
  /\ trying[a] # NoIp
  /\ bad_ips' = bad_ips \cup {trying[a]}
  /\ clears' = [clears EXCEPT ![trying[a]] = 0]
  /\ UNCHANGED <<alive_ips, good_ips, armed, trying>>

(* Mutant: a failure is reported although no address was obtained.         *)
server_connect_fail_no_ip(a) ==
  /\ alive_ips' = alive_ips \ {trying[a]}
  /\ bad_ips' = bad_ips \cup {trying[a]}
  /\ clears' = [clears EXCEPT ![trying[a]] = 0]
  /\ UNCHANGED <<good_ips, armed, trying>>

server_connect_fail(a) ==
  /\ trying[a] # NoIp
  /\ alive_ips' = alive_ips \ {trying[a]}
  /\ bad_ips' = bad_ips \cup {trying[a]}
  /\ clears' = [clears EXCEPT ![trying[a]] = 0]
  /\ UNCHANGED <<good_ips, armed, trying>>

(* A wait of RECOVER_TIME seconds.                                         *)
call_later == armed' = TRUE

CountClear(n) == IF n < Recovered THEN n + 1 ELSE n

(* Mutant: bad_ips_ is cleared before the swap.                            *)
clear_bad_ips_before_swap ==
  /\ armed
  /\ alive_ips' = alive_ips \cup good_ips
  /\ good_ips' = {}
  /\ bad_ips' = good_ips
  /\ clears' = [ip \in Ip |-> CountClear(clears[ip])]
  /\ call_later
  /\ UNCHANGED trying

(* Mutant: the addresses on probation are not made alive.                  *)
clear_bad_ips_forgets_good ==
  /\ armed
  /\ good_ips' = bad_ips
  /\ bad_ips' = {}
  /\ clears' = [ip \in Ip |-> CountClear(clears[ip])]
  /\ call_later
  /\ UNCHANGED <<alive_ips, trying>>

(* Mutant: the handler does not arm the timer again.                       *)
clear_bad_ips_once ==
  /\ armed
  /\ alive_ips' = alive_ips \cup good_ips
  /\ good_ips' = bad_ips
  /\ bad_ips' = {}
  /\ clears' = [ip \in Ip |-> CountClear(clears[ip])]
  /\ armed' = FALSE
  /\ UNCHANGED trying

(* The handler of the recovery timer's wait, which it renews.              *)
clear_bad_ips ==
  /\ armed
  /\ alive_ips' = alive_ips \cup good_ips
  /\ good_ips' = bad_ips
  /\ bad_ips' = {}
  /\ clears' = [ip \in Ip |-> CountClear(clears[ip])]
  /\ call_later
  /\ UNCHANGED trying

Next ==
  \/ \E a \in Attempt :
       \/ get_alive_ip_by_hash(a)
       \/ get_alive_ip_random(a)
       \/ ConnectDone(a)
       \/ server_connect_fail(a)
  \/ clear_bad_ips

(* A timer that is armed expires, and io_service runs its handler.         *)
Spec == Init /\ [][Next]_vars /\ WF_vars(clear_bad_ips)
-----------------------------------------------------------------------------
TypeOK ==
  /\ alive_ips \subseteq Ip
  /\ bad_ips \subseteq Ip
  /\ good_ips \subseteq Ip
  /\ armed \in BOOLEAN
  /\ trying \in [Attempt -> Ip \cup {NoIp}]
  /\ clears \in [Ip -> 0..Recovered]

(* No address is ever lost: whatever the order of late failure reports and *)
(* recovery ticks, each configured address is in one of the three sets, so *)
(* it can still come back.                                                 *)
NoServerLost == alive_ips \cup bad_ips \cup good_ips = Ip

(* get_alive_ip_random never hands out an address that failed since the    *)
(* last clear_bad_ips, even if the report arrived late.                    *)
FailedNotOffered ==
  \A ip \in Ip : clears[ip] = 0 => ip \in bad_ips \ alive_ips

(* An address is out for at most two recovery ticks after its last failure.*)
BackAfterTwoClears ==
  \A ip \in Ip : clears[ip] = Recovered => ip \in alive_ips

(* An address that stops failing becomes alive and stays alive: the timer  *)
(* that brings it back is never left without a wait.                       *)
EventuallyAlive ==
  \A ip \in Ip : []<><<clears'[ip] = 0>>_(clears[ip]) \/ <>[](ip \in alive_ips)

(* load_balancer.h:40 "alive_ips -> bad_ips -> good_ips -> alive_ips": an  *)
(* address in bad_ips_ passes through good_ips_ before it is alive again.  *)
BadThenGoodThenAlive ==
  [][\A ip \in Ip : ip \in bad_ips => ip \notin alive_ips']_vars
=============================================================================
