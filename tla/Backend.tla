------------------------------- MODULE Backend -------------------------------
(***************************************************************************)
(* TcpModule, its TcpClientPool and a LoadBalancer together: a run asks    *)
(* the balancer for an address when the pool has no client, and reports    *)
(* the address when the connect fails or times out.  The two meet in the   *)
(* hooks get_server_ip_port and on_connect_failed, which a subclass of     *)
(* TcpModule overrides: that it asks and informs a LoadBalancer is how the *)
(* two classes are meant to be used, and not code of the repository.  A    *)
(* server may be down: a connect to it fails, or hangs.                    *)
(***************************************************************************)
EXTENDS TcpModule

CONSTANTS Ip, NoIp

ASSUME IpAssumption == NoIp \notin Ip

VARIABLES alive_ips, bad_ips, good_ips, armed, clears,  \* the LoadBalancer's
          addr,    \* ip bound to the run's connect and time-out handlers, or NoIp
          remote   \* address each client's socket was last connected to, or NoIp

balancerVars == <<alive_ips, bad_ips, good_ips, armed, clears, addr>>
backendVars == <<vars, balancerVars, remote>>

LB == INSTANCE LoadBalancer WITH Attempt <- Run, trying <- addr

BackendInit == Init /\ LB!Init /\ remote = [c \in Client |-> NoIp]
-----------------------------------------------------------------------------
(* The hooks, as a module that uses the balancer overrides them.           *)
get_server_ip_port(r) == LB!get_alive_ip_by_hash(r) \/ LB!get_alive_ip_random(r)
on_connect_failed(r) == LB!server_connect_fail(r)

(* run from get_server_ip_port on: the timer is armed with the address.    *)
Connect(r) ==
  /\ get_server_ip_port(r)
  /\ \/ run_no_socket(r) /\ UNCHANGED remote
     \/ \E c \in Client : /\ run_connect(r, c)
                         /\ remote' = [remote EXCEPT ![c] = addr'[r]]

(* on_connect with an error other than operation_aborted.                  *)
ConnectFails(r) ==
  /\ Handler(r, "connect", "err")
  /\ on_failed(r)
  /\ on_connect_failed(r)
  /\ UNCHANGED remote

(* Mutant: the time-out only cancels the connect, which ends as aborted    *)
(* and reports nothing.                                                    *)
ConnectTimesOut_silent(r) ==
  /\ on_handle_connect_time_out(r)
  /\ UNCHANGED <<balancerVars, remote>>

(* on_handle_connect_time_out reports the address whatever has become of   *)
(* the connect: failed (a second report), or even succeeded.               *)
ConnectTimesOut(r) ==
  /\ on_handle_connect_time_out(r)
  /\ on_connect_failed(r)
  /\ UNCHANGED remote

(* Mutant: the address is given up as soon as the request is over.         *)
Release_early(r) ==
  \/ /\ Free(r)
     /\ IF addr[r] = NoIp THEN UNCHANGED balancerVars ELSE LB!ConnectDone(r)
     /\ UNCHANGED remote
  \/ /\ phase[r] = "resumed"
     /\ LB!ConnectDone(r)
     /\ UNCHANGED <<vars, remote>>

(* The context and the handlers it is bound to are gone.                   *)
Release(r) ==
  /\ Free(r)
  /\ IF addr[r] = NoIp THEN UNCHANGED balancerVars ELSE LB!ConnectDone(r)
  /\ UNCHANGED remote

(* The other handlers do not concern the balancer.                         *)
Reply(r) ==
  /\ \/ run_no_server(r)
     \/ on_aborted(r)
     \/ cancel_failed(r)
     \/ op[r] # "connect" /\ on_failed(r)
     \/ on_connect(r)
     \/ on_write_req(r)
     \/ on_recv_resp_head(r)
     \/ on_read_head_failed(r)
     \/ on_recv_resp_body(r)
     \/ on_recv_resp_body_reset(r)
  /\ UNCHANGED <<balancerVars, remote>>

ReplyTimesOut(r) == on_handle_time_out(r) /\ UNCHANGED <<balancerVars, remote>>
TimerExpires(r) == Expire(r) /\ UNCHANGED <<balancerVars, remote>>

Completes(r) == Complete(r) /\ UNCHANGED <<balancerVars, remote>>

Starts(r) ==
  /\ run_no_type(r) \/ \E p \in Peer : run(r, p)
  /\ UNCHANGED <<balancerVars, remote>>

Others ==
  \/ Pool /\ UNCHANGED <<balancerVars, remote>>
  \/ LB!clear_bad_ips /\ UNCHANGED <<vars, remote>>

HandleStep(r) == Connect(r) \/ ConnectFails(r) \/ Reply(r)

BackendNext ==
  \/ \E r \in Run : \/ Starts(r) \/ HandleStep(r) \/ ConnectTimesOut(r) \/ ReplyTimesOut(r)
                    \/ TimerExpires(r) \/ Completes(r) \/ Release(r)
  \/ Others

(* io_service's threads run every queued handler, timers expire, a context *)
(* that no handler holds is destroyed, and what is connected answers or    *)
(* breaks the connection.  A connect may hang.                             *)
BackendSpec ==
  /\ BackendInit
  /\ [][BackendNext]_backendVars
  /\ WF_backendVars(LB!clear_bad_ips /\ UNCHANGED <<vars, remote>>)
  /\ \A r \in Run : /\ WF_backendVars(HandleStep(r))
                    /\ WF_backendVars(ConnectTimesOut(r))
                    /\ WF_backendVars(ReplyTimesOut(r))
                    /\ WF_backendVars(TimerExpires(r))
                    /\ WF_backendVars(op[r] # "connect" /\ Completes(r))
                    /\ WF_backendVars(Release(r))
-----------------------------------------------------------------------------
(* A connect succeeds or its address is taken out of service, even if the  *)
(* connect hangs, the timer cannot be cancelled, or the failure and the    *)
(* time-out race: a server that is down is not offered again and again.    *)
ConnectOrReport ==
  \A r \in Run, ip \in Ip :
    (addr[r] = ip /\ op[r] = "connect" /\ done[r] = "pending")
      ~> (op[r] = "write" \/ ip \in bad_ips)

(* Every handler that may report a failed connect has the address that the *)
(* run's own client was connected to, however late it runs, and a run that *)
(* has not connected has none of an earlier one.                           *)
AddressBound ==
  \A r \in Run :
    /\ op[r] = "connect" \/ conn_wait[r] # "off" =>
         /\ addr[r] # NoIp
         /\ client[r] # NoClient => remote[client[r]] = addr[r]
    /\ phase[r] \in {"idle", "connecting"} => addr[r] = NoIp
=============================================================================
