---------------------------- MODULE BackendProofs ----------------------------
(***************************************************************************)
(* TcpModule and LoadBalancer together, for every set of runs, clients,    *)
(* peers and addresses: each connect is reported with its own address, and *)
(* what is proved of the two alone still holds.                            *)
(***************************************************************************)
EXTENDS Backend, TcpModuleProofs

(* Every step of the composition is a step of TcpModule or leaves it alone.*)
LEMMA StepModule == [BackendNext]_backendVars => [Next]_vars
<1> SUFFICES ASSUME [BackendNext]_backendVars PROVE [Next]_vars
  OBVIOUS
<1>1. CASE UNCHANGED backendVars
  BY <1>1 DEF backendVars
<1>2. CASE Others
  BY <1>2 DEF Others, Next
<1>3. ASSUME NEW r \in Run, Starts(r)
      PROVE  Next
  BY <1>3 DEF Starts, Next
<1>4. ASSUME NEW r \in Run, HandleStep(r)
      PROVE  Next
  <2>1. Handle(r)
    BY <1>4 DEF HandleStep, Connect, ConnectFails, Reply, Handle
  <2> QED BY <2>1 DEF Next
<1>5. ASSUME NEW r \in Run, ConnectTimesOut(r) \/ ReplyTimesOut(r)
      PROVE  Next
  <2>1. TimeOut(r)
    BY <1>5 DEF ConnectTimesOut, ReplyTimesOut, TimeOut
  <2> QED BY <2>1 DEF Next
<1>6. ASSUME NEW r \in Run, TimerExpires(r) \/ Completes(r) \/ Release(r)
      PROVE  Next
  BY <1>6 DEF TimerExpires, Completes, Release, Next
<1> QED BY <1>1, <1>2, <1>3, <1>4, <1>5, <1>6 DEF BackendNext

(* Every step of the composition is a step of LoadBalancer or leaves it    *)
(* alone.                                                                  *)
LEMMA StepBalancer == [BackendNext]_backendVars => [LB!Next]_(LB!vars)
<1> SUFFICES ASSUME [BackendNext]_backendVars PROVE [LB!Next]_(LB!vars)
  OBVIOUS
<1>1. CASE UNCHANGED balancerVars
  BY <1>1 DEF balancerVars, LB!vars
<1>2. CASE UNCHANGED backendVars
  BY <1>1, <1>2 DEF backendVars
<1>3. CASE Others
  BY <1>1, <1>3 DEF Others, LB!Next
<1>4. ASSUME NEW r \in Run, Connect(r) \/ ConnectFails(r) \/ ConnectTimesOut(r)
      PROVE  LB!Next
  BY <1>4 DEF Connect, ConnectFails, ConnectTimesOut, get_server_ip_port,
     on_connect_failed, LB!Next
<1>5. ASSUME NEW r \in Run, Release(r)
      PROVE  UNCHANGED balancerVars \/ LB!Next
  BY <1>5 DEF Release, LB!Next
<1>6. ASSUME NEW r \in Run,
             \/ Starts(r) \/ Reply(r) \/ ReplyTimesOut(r)
             \/ TimerExpires(r) \/ Completes(r)
      PROVE  UNCHANGED balancerVars
  BY <1>6 DEF Starts, Reply, ReplyTimesOut, TimerExpires, Completes
<1> QED BY <1>1, <1>2, <1>3, <1>4, <1>5, <1>6 DEF BackendNext, HandleStep

(* The invariants of TcpModule survive the composition: the balancer's     *)
(* answers, refusals and late reports disturb none of them.                *)
LEMMA ModuleInductive == BackendSpec => []IInv
<1>1. BackendInit => IInv
  BY InitIInv DEF BackendInit
<1>2. IInv /\ [BackendNext]_backendVars => IInv'
  BY StepModule, NextIInv
<1> QED BY <1>1, <1>2, PTL DEF BackendSpec
-----------------------------------------------------------------------------
(* What the balancer's callers need: it deals in its addresses only.       *)
Addresses ==
  /\ alive_ips \subseteq Ip /\ bad_ips \subseteq Ip /\ good_ips \subseteq Ip
  /\ addr \in [Run -> Ip \cup {NoIp}]

RemoteType == remote \in [Client -> Ip \cup {NoIp}]

(* The balancer starts with all addresses, and no run has one.             *)
LEMMA InitBound == BackendInit => Addresses /\ RemoteType /\ AddressBound
BY DEF BackendInit, Init, LB!Init, Addresses, RemoteType, AddressBound

(* The balancer hands out addresses of its own.                            *)
LEMMA NextAddresses == Addresses /\ [LB!Next]_(LB!vars) => Addresses'
<1> SUFFICES ASSUME Addresses, [LB!Next]_(LB!vars) PROVE Addresses'
  OBVIOUS
<1> USE DEF Addresses
<1>1. CASE UNCHANGED LB!vars
  BY <1>1 DEF LB!vars
<1>2. CASE LB!clear_bad_ips
  BY <1>2 DEF LB!clear_bad_ips
<1>3. ASSUME NEW r \in Run, LB!server_connect_fail(r)
      PROVE  Addresses'
  BY <1>3 DEF LB!server_connect_fail
<1>4. ASSUME NEW r \in Run,
             \/ LB!get_alive_ip_by_hash(r) \/ LB!get_alive_ip_random(r)
             \/ LB!ConnectDone(r)
      PROVE  Addresses'
  BY <1>4 DEF LB!get_alive_ip_by_hash, LB!get_alive_ip_random, LB!ConnectDone
<1> QED BY <1>1, <1>2, <1>3, <1>4 DEF LB!Next

(* Only a connect of a run that has just obtained an address changes what  *)
(* a client is connected to.                                               *)
LEMMA NextRemote ==
  ASSUME Addresses, RemoteType, [BackendNext]_backendVars
  PROVE  RemoteType'
<1> USE DEF RemoteType
<1>1. CASE UNCHANGED remote
  BY <1>1
<1>2. ASSUME NEW r \in Run, Connect(r)
      PROVE  RemoteType'
  <2>1. addr'[r] \in Ip
    BY <1>2 DEF Connect, get_server_ip_port, LB!get_alive_ip_by_hash,
       LB!get_alive_ip_random, Addresses
  <2>2. UNCHANGED remote \/ \E c \in Client : remote' = [remote EXCEPT ![c] = addr'[r]]
    BY <1>2 DEF Connect
  <2> QED BY <2>1, <2>2
<1>3. ASSUME NEW r \in Run, ~Connect(r),
             \/ Starts(r) \/ HandleStep(r) \/ ConnectTimesOut(r)
             \/ ReplyTimesOut(r) \/ TimerExpires(r) \/ Completes(r) \/ Release(r)
      PROVE  UNCHANGED remote
  BY <1>3 DEF Starts, HandleStep, ConnectFails, Reply, ConnectTimesOut, ReplyTimesOut,
     TimerExpires, Completes, Release
<1>4. Others \/ UNCHANGED backendVars => UNCHANGED remote
  BY DEF Others, backendVars
<1> QED BY <1>1, <1>2, <1>3, <1>4 DEF BackendNext

(* A step that neither starts a connect, nor arms its timer, nor begins or *)
(* ends a run, and gives a client only to a run without an address, keeps  *)
(* the addresses bound.                                                    *)
LEMMA KeepsBound ==
  ASSUME AddressBound, addr' = addr, remote' = remote,
         \A q \in Run : /\ op'[q] = "connect" => op[q] = "connect"
                        /\ conn_wait'[q] # "off" => conn_wait[q] # "off"
                        /\ phase'[q] \in {"idle", "connecting"}
                             => phase[q] \in {"idle", "connecting"}
                        /\ client'[q] \in {client[q], NoClient} \/ addr[q] = NoIp
  PROVE  AddressBound'
BY DEF AddressBound

(* run_no_socket or run_connect, with the address just obtained.           *)
LEMMA ConnectBound ==
  ASSUME IInv, Addresses, RemoteType, AddressBound, NEW r \in Run, Connect(r)
  PROVE  AddressBound'
<1>1. \E ip \in Ip : addr' = [addr EXCEPT ![r] = ip]
  BY DEF Connect, get_server_ip_port, LB!get_alive_ip_by_hash, LB!get_alive_ip_random,
         Addresses
<1>2. addr'[r] # NoIp /\ \A q \in Run : q # r => addr'[q] = addr[q]
  BY <1>1, IpAssumption DEF Addresses
<1>3. /\ phase'[r] \notin {"idle", "connecting"}
      /\ \A q \in Run : q # r => /\ phase'[q] = phase[q]
                                 /\ op'[q] = op[q]
                                 /\ conn_wait'[q] = conn_wait[q]
                                 /\ client'[q] = client[q]
  BY DEF Connect, run_no_socket, run_connect, Resume, Begin, IInv, TypeOK
<1>4. CASE run_no_socket(r) /\ UNCHANGED remote
  <2>1. client'[r] = NoClient
    BY <1>4 DEF run_no_socket, IInv, Coupled
  <2> QED BY <1>2, <1>3, <1>4, <2>1 DEF AddressBound
<1>5. ASSUME NEW c \in Client, run_connect(r, c),
             remote' = [remote EXCEPT ![c] = addr'[r]]
      PROVE  AddressBound'
  <2>1. client'[r] = c /\ \A q \in Run : client[q] # c
    BY <1>5 DEF run_connect, Held, IInv, TypeOK
  <2>2. /\ remote'[client'[r]] = addr'[r]
        /\ \A q \in Run : q # r /\ client[q] # NoClient
                             => remote'[client'[q]] = remote[client[q]]
    BY <1>3, <1>5, <2>1 DEF RemoteType, IInv, TypeOK
  <2> QED BY <1>2, <1>3, <2>1, <2>2 DEF AddressBound
<1> QED BY <1>4, <1>5 DEF Connect

(* Free: no handler of the run is left that could report.                  *)
LEMMA ReleaseBound ==
  ASSUME IInv, Addresses, AddressBound, NEW r \in Run, Release(r)
  PROVE  AddressBound'
<1>1. /\ op[r] = "none" /\ conn_wait[r] = "off"
      /\ UNCHANGED <<op, conn_wait, remote>>
      /\ \A q \in Run : q # r => phase'[q] = phase[q] /\ client'[q] = client[q]
  BY DEF Release, Free, IInv, TypeOK
<1>2. addr'[r] = NoIp /\ \A q \in Run : q # r => addr'[q] = addr[q]
  BY DEF Release, balancerVars, LB!ConnectDone, Addresses
<1> QED BY <1>1, <1>2 DEF AddressBound

(* Every step keeps the addresses bound.                                   *)
LEMMA NextBound ==
  IInv /\ Addresses /\ RemoteType /\ AddressBound /\ [BackendNext]_backendVars
    => AddressBound'
<1> SUFFICES ASSUME IInv, Addresses, RemoteType, AddressBound, [BackendNext]_backendVars
             PROVE  AddressBound'
  OBVIOUS
<1>1. CASE UNCHANGED backendVars
  BY <1>1 DEF backendVars, vars, runVars, balancerVars, AddressBound
<1>2. CASE Others
  BY <1>2 DEF Others, Pool, vars, runVars, balancerVars, LB!clear_bad_ips, AddressBound
<1> SUFFICES ASSUME NEW r \in Run,
                    \/ Starts(r) \/ HandleStep(r) \/ ConnectTimesOut(r)
                    \/ ReplyTimesOut(r) \/ TimerExpires(r) \/ Completes(r) \/ Release(r)
             PROVE  AddressBound'
  BY <1>1, <1>2 DEF BackendNext
<1>3. CASE Connect(r)
  BY <1>3, ConnectBound
<1>4. CASE Release(r)
  BY <1>4, ReleaseBound
<1>5. CASE Starts(r)
  <2>1. addr' = addr /\ remote' = remote
    BY <1>5 DEF Starts, balancerVars
  <2>2. \A q \in Run : phase'[q] \in {"idle", "connecting"}
                         => phase[q] \in {"idle", "connecting"}
    BY <1>5 DEF Starts, run_no_type, run, Resume, IInv, TypeOK
  <2>3. \A q \in Run : op'[q] = "connect" => op[q] = "connect"
    BY <1>5 DEF Starts, run_no_type, run, send_request, Begin, IInv, TypeOK
  <2>4. \A q \in Run : conn_wait'[q] # "off" => conn_wait[q] # "off"
    BY <1>5 DEF Starts, run_no_type, run, ArmReply, Disarm, IInv, TypeOK
  <2>5. \A q \in Run : client'[q] = client[q] \/ addr[q] = NoIp
    BY <1>5 DEF Starts, run_no_type, run, IInv, TypeOK, AddressBound
  <2> QED BY <2>1, <2>2, <2>3, <2>4, <2>5, KeepsBound
<1>6. CASE ConnectTimesOut(r) \/ ReplyTimesOut(r)
  <2>1. UNCHANGED <<addr, remote, phase, op, client>>
    BY <1>6 DEF ConnectTimesOut, ReplyTimesOut, on_connect_failed, LB!server_connect_fail,
       on_handle_connect_time_out, on_handle_time_out, CancelSocket, balancerVars
  <2>2. \A q \in Run : conn_wait'[q] # "off" => conn_wait[q] # "off"
    BY <1>6 DEF ConnectTimesOut, ReplyTimesOut, on_handle_connect_time_out,
       on_handle_time_out, IInv, TypeOK
  <2> QED BY <2>1, <2>2, KeepsBound
<1>7. CASE TimerExpires(r) \/ Completes(r)
  <2>1. UNCHANGED <<addr, remote, phase, op, client>>
    BY <1>7 DEF TimerExpires, Completes, Expire, Complete, balancerVars
  <2>2. \A q \in Run : conn_wait'[q] # "off" => conn_wait[q] # "off"
    BY <1>7 DEF TimerExpires, Completes, Expire, Complete, IInv, TypeOK
  <2> QED BY <2>1, <2>2, KeepsBound
<1>8. CASE ConnectFails(r) \/ Reply(r)
  <2>1. addr' = addr /\ remote' = remote
    BY <1>8 DEF ConnectFails, Reply, on_connect_failed, LB!server_connect_fail, balancerVars
  <2>2. \A q \in Run : phase'[q] \in {"idle", "connecting"}
                         => phase[q] \in {"idle", "connecting"}
    BY <1>8 DEF ConnectFails, Reply, run_no_server, on_aborted, cancel_failed, on_failed,
       on_connect, on_write_req, on_recv_resp_head, on_read_head_failed,
       on_recv_resp_body, on_recv_resp_body_reset, Resume, IInv, TypeOK
  <2>3. \A q \in Run : op'[q] = "connect" => op[q] = "connect"
    BY <1>8 DEF ConnectFails, Reply, run_no_server, on_aborted, cancel_failed, on_failed,
       on_connect, on_write_req, on_recv_resp_head, on_read_head_failed,
       on_recv_resp_body, on_recv_resp_body_reset, End, Begin, send_request, IInv, TypeOK
  <2>4. \A q \in Run : conn_wait'[q] # "off" => conn_wait[q] # "off"
    BY <1>8 DEF ConnectFails, Reply, run_no_server, on_aborted, cancel_failed, on_failed,
       on_connect, on_write_req, on_recv_resp_head, on_read_head_failed,
       on_recv_resp_body, on_recv_resp_body_reset, ArmReply, CancelTimer, Disarm,
       IInv, TypeOK
  <2>5. \A q \in Run : client'[q] \in {client[q], NoClient}
    BY <1>8 DEF ConnectFails, Reply, run_no_server, on_aborted, cancel_failed, on_failed,
       on_connect, on_write_req, on_recv_resp_head, on_read_head_failed,
       on_recv_resp_body, on_recv_resp_body_reset, IInv, TypeOK
  <2> QED BY <2>1, <2>2, <2>3, <2>4, <2>5, KeepsBound
<1> QED BY <1>3, <1>4, <1>5, <1>6, <1>7, <1>8 DEF HandleStep

(* A failed or timed-out connect is always reported with its own address,  *)
(* and no run inherits one.                                                *)
THEOREM BoundAddress == BackendSpec => []AddressBound
<1>1. IInv /\ Addresses /\ RemoteType /\ AddressBound /\ [BackendNext]_backendVars
        => (Addresses /\ RemoteType /\ AddressBound)'
  BY StepBalancer, NextAddresses, NextRemote, NextBound
<1> QED BY <1>1, InitBound, ModuleInductive, PTL DEF BackendSpec

(* With a balancer in use, too, two runs never share a connection, no      *)
(* pooled client has a response to come, a run is timed out by its own     *)
(* timer only, and the Fsm is resumed at most once.                        *)
THEOREM ModuleKept ==
  BackendSpec => [](ClientExclusive /\ PooledQuiet /\ TimeoutIsOwn /\ OneResume)
<1>1. IInv => ClientExclusive /\ PooledQuiet /\ TimeoutIsOwn /\ OneResume
  BY DEF IInv
<1> QED BY <1>1, ModuleInductive, PTL
-----------------------------------------------------------------------------
(* The theorems about LoadBalancer, for the addresses of TcpModule's runs. *)
Balanced == INSTANCE LoadBalancerProofs WITH Attempt <- Run, trying <- addr

(* Its steps are those of Backend's balancer.                              *)
LEMMA SameBalancer ==
  /\ LB!Init => Balanced!Init
  /\ [LB!Next]_(LB!vars) => [Balanced!Next]_(Balanced!vars)
<1>1. LB!Init => Balanced!Init
  BY DEF LB!Init, Balanced!Init, LB!Recovered, Balanced!Recovered
<1>2. /\ \A r : Balanced!get_alive_ip_by_hash(r) <=> LB!get_alive_ip_by_hash(r)
      /\ \A r : Balanced!get_alive_ip_random(r) <=> LB!get_alive_ip_random(r)
      /\ \A r : Balanced!server_connect_fail(r) <=> LB!server_connect_fail(r)
      /\ \A r : Balanced!ConnectDone(r) <=> LB!ConnectDone(r)
  BY DEF Balanced!get_alive_ip_by_hash, LB!get_alive_ip_by_hash, Balanced!get_alive_ip_random,
     LB!get_alive_ip_random, Balanced!server_connect_fail, LB!server_connect_fail,
     Balanced!ConnectDone, LB!ConnectDone
<1>3. Balanced!clear_bad_ips <=> LB!clear_bad_ips
  BY DEF Balanced!clear_bad_ips, LB!clear_bad_ips, Balanced!CountClear, LB!CountClear,
     Balanced!Recovered, LB!Recovered, Balanced!call_later, LB!call_later
<1>4. LB!Next => Balanced!Next
  BY <1>2, <1>3 DEF LB!Next, Balanced!Next
<1> QED BY <1>1, <1>4 DEF LB!vars, Balanced!vars

(* With TcpModule as its caller, whose reports come from failed connects   *)
(* and from time-outs that race them, the balancer loses no address,       *)
(* offers at random none that failed since the last tick, and takes every  *)
(* one back after two ticks without a failure.                             *)
THEOREM BalancerInGoodOrder ==
  BackendSpec => [](LB!NoServerLost /\ LB!FailedNotOffered /\ LB!BackAfterTwoClears)
<1>1. BackendInit => Balanced!IInv
  BY Balanced!InitIInv, SameBalancer, IpAssumption DEF BackendInit
<1>2. Balanced!IInv /\ [BackendNext]_backendVars => Balanced!IInv'
  BY Balanced!NextIInv, StepBalancer, SameBalancer, IpAssumption
<1>3. Balanced!IInv => LB!NoServerLost /\ LB!FailedNotOffered /\ LB!BackAfterTwoClears
  BY DEF Balanced!IInv, Balanced!TypeOK, Balanced!Probation, Balanced!Recovered, LB!Recovered,
     LB!NoServerLost, LB!FailedNotOffered, LB!BackAfterTwoClears
<1> QED BY <1>1, <1>2, <1>3, PTL DEF BackendSpec
=============================================================================
