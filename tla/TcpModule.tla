------------------------------ MODULE TcpModule ------------------------------
(***************************************************************************)
(* module/tcp_module.{h,cc}: a request to a backend over a pooled          *)
(* connection.  A run is one FsmContext's ModuleData; several contexts,    *)
(* served by several threads, share one TcpClientPool.                     *)
(*                                                                         *)
(* Every handler takes ModuleData's mutex first and keeps it through       *)
(* Fsm::resume, so a handler is one atomic step for its own run.  Two      *)
(* steps where other runs must be let in are split: run between get_client *)
(* and the new connection, on_recv_resp_body between recollect and         *)
(* client_.reset.  Locked(r) says that r is between the two.               *)
(*                                                                         *)
(* The asio library is modelled from its use here.  An operation on a      *)
(* socket is pending until it completes or is aborted by cancel or close;  *)
(* after that its handler is queued, and cancel no longer affects it.      *)
(* async_read and async_write may survive a cancel (CancelSocket).  A      *)
(* wait on a timer is armed until it expires or is cancelled; an expired   *)
(* one is queued with ec = 0 and cancel no longer affects it.  A cancelled *)
(* wait's handler returns at once (ec # 0) and is not modelled further.    *)
(* Queued handlers run in any order.                                       *)
(***************************************************************************)
EXTENDS TcpClientPool

CONSTANTS Run,   \* contexts that may use the module at once
          NoPeer

ASSUME NoPeerAssumption == NoPeer \notin Peer

VARIABLES phase,         \* where the run stands; see Phase
          want,          \* client_type_id of the run
          client,        \* client_
          socket_event,  \* socket_event_
          op,            \* the asynchronous operation under way
          done,          \* its progress; "ok", "err", "aborted": handler queued
          conn_wait,     \* timer_'s wait by on_handle_connect_time_out
          reply_wait,    \* timer_'s wait by on_handle_time_out
          result,        \* the ModState the Fsm was resumed with
          fired,         \* history: a time-out handler of this run ran with ec = 0
          unanswered     \* history: clients with a request whose response has
                         \* not been read to its end

runVars == <<phase, want, client, socket_event, op, done, conn_wait, reply_wait,
             result, fired, unanswered>>
vars == <<poolVars, runVars>>

Phase == {"idle",       \* no context
          "connecting", \* in run, get_client returned null
          "waiting",    \* run returned Mod_async
          "returning",  \* in on_recv_resp_body, client_ is recollected
          "resumed",    \* the Fsm went on with result
          "dropped"}    \* a handler returned without resuming the Fsm

Init ==
  /\ PoolInit
  /\ phase = [r \in Run |-> "idle"]
  /\ want = [r \in Run |-> NoPeer]
  /\ client = [r \in Run |-> NoClient]
  /\ socket_event = [r \in Run |-> "None"]
  /\ op = [r \in Run |-> "none"]
  /\ done = [r \in Run |-> "none"]
  /\ conn_wait = [r \in Run |-> "off"]
  /\ reply_wait = [r \in Run |-> "off"]
  /\ result = [r \in Run |-> "none"]
  /\ fired = [r \in Run |-> FALSE]
  /\ unanswered = {}

Locked(r) == phase[r] \in {"connecting", "returning"}
Held(c) == \E r \in Run : client[r] = c

(* Mutant: a cancelled wait is left queued.                                *)
Disarm_queued(w) == IF w = "armed" THEN "cancelled" ELSE w

(* timer_.cancel(), and what expires_from_now does to a wait first.        *)
Disarm(w) == IF w = "armed" THEN "off" ELSE w

(* Operations on c's socket that have not completed end as aborted.        *)
AbortOps(c) ==
  [q \in Run |-> IF client[q] = c /\ done[q] = "pending" THEN "aborted" ELSE done[q]]

(* context->fsm()->resume(this, s, context).                               *)
Resume(r, s) ==
  /\ phase' = [phase EXCEPT ![r] = "resumed"]
  /\ result' = [result EXCEPT ![r] = s]

(* async_xxx(client_->socket(), ...); socket_event_ = Socket_Event_Opened. *)
Begin(r, o) ==
  /\ op' = [op EXCEPT ![r] = o]
  /\ done' = [done EXCEPT ![r] = "pending"]
  /\ socket_event' = [socket_event EXCEPT ![r] = "Opened"]

(* The handler of r's operation has been entered and starts no other one.  *)
End(r) ==
  /\ op' = [op EXCEPT ![r] = "none"]
  /\ done' = [done EXCEPT ![r] = "none"]
  /\ socket_event' = [socket_event EXCEPT ![r] = "Closed"]

(* expires_from_now, async_wait(on_handle_time_out).                       *)
ArmReply(r) ==
  /\ conn_wait' = [conn_wait EXCEPT ![r] = Disarm(@)]
  /\ reply_wait' = [reply_wait EXCEPT ![r] = "armed"]

send_request(r, c) ==
  /\ Begin(r, "write")
  /\ unanswered' = unanswered \cup {c}
-----------------------------------------------------------------------------
(* run, up to and including get_client.                                    *)
run_no_type(r) ==
  /\ phase[r] = "idle"
  /\ Resume(r, "Mod_Failed")
  /\ UNCHANGED <<poolVars, want, client, socket_event, op, done, conn_wait,
                 reply_wait, fired, unanswered>>

run(r, p) ==
  /\ phase[r] = "idle"
  /\ want' = [want EXCEPT ![r] = p]
  /\ get_client(p)
  /\ client' = [client EXCEPT ![r] = GetResult(p)]
  /\ \/ /\ GetResult(p) # NoClient
        /\ phase' = [phase EXCEPT ![r] = "waiting"]
        /\ ArmReply(r)
        /\ send_request(r, GetResult(p))
     \/ /\ GetResult(p) = NoClient
        /\ phase' = [phase EXCEPT ![r] = "connecting"]
        /\ UNCHANGED <<socket_event, op, done, conn_wait, reply_wait, unanswered>>
  /\ UNCHANGED <<result, fired>>

(* No server address, or an ill-formed one: the catch comes before the     *)
(* timer is armed.                                                         *)
run_no_server(r) ==
  /\ phase[r] = "connecting"
  /\ Resume(r, "Mod_Failed")
  /\ UNCHANGED <<poolVars, want, client, socket_event, op, done, conn_wait,
                 reply_wait, fired, unanswered>>

(* new TcpClient throws (no file descriptor): the timer is armed already.  *)
run_no_socket(r) ==
  /\ phase[r] = "connecting"
  /\ conn_wait' = [conn_wait EXCEPT ![r] = "armed"]
  /\ Resume(r, "Mod_Failed")
  /\ UNCHANGED <<poolVars, want, client, socket_event, op, done, reply_wait,
                 fired, unanswered>>

run_connect(r, c) ==
  /\ phase[r] = "connecting"
  /\ socket[c] = "closed"
  /\ c \notin Pooled
  /\ ~Held(c)
  /\ Construct(c, want[r])
  /\ client' = [client EXCEPT ![r] = c]
  /\ conn_wait' = [conn_wait EXCEPT ![r] = "armed"]
  /\ Begin(r, "connect")
  /\ phase' = [phase EXCEPT ![r] = "waiting"]
  /\ unanswered' = unanswered \ {c}
  /\ UNCHANGED <<want, reply_wait, result, fired>>
-----------------------------------------------------------------------------
(* The handler of operation o is called with outcome e.  socket_event_ is  *)
(* tested first: otherwise the handler logs "already called!" and returns. *)
Handler(r, o, e) ==
  /\ phase[r] = "waiting"
  /\ op[r] = o
  /\ done[r] = e
  /\ socket_event[r] = "Opened"

(* Mutant: an aborted handler just returns.                                *)
on_aborted_returns(r) ==
  /\ \E o \in {"connect", "write", "head", "body"} : Handler(r, o, "aborted")
  /\ End(r)
  /\ UNCHANGED <<poolVars, phase, want, client, conn_wait, reply_wait, result, fired,
                 unanswered>>

(* error == operation_aborted, in all four handlers: the timer is not      *)
(* cancelled, the client is kept.                                          *)
on_aborted(r) ==
  /\ \E o \in {"connect", "write", "head", "body"} : Handler(r, o, "aborted")
  /\ End(r)
  /\ Resume(r, "Mod_Timeout")
  /\ UNCHANGED <<poolVars, want, client, conn_wait, reply_wait, fired, unanswered>>

CancelTimer(r) ==
  /\ conn_wait' = [conn_wait EXCEPT ![r] = Disarm(@)]
  /\ reply_wait' = [reply_wait EXCEPT ![r] = Disarm(@)]

(* cancel_time_out_timer returns false: the handler returns, nobody        *)
(* resumes the Fsm.  on_write_req and on_recv_resp_head cancel only on     *)
(* failure.                                                                *)
cancel_failed(r) ==
  /\ \/ \E o \in {"connect", "body"}, e \in {"ok", "err"} : Handler(r, o, e)
     \/ Handler(r, "write", "err")
     \/ \E e \in {"ok", "err"} : Handler(r, "head", e)
  /\ End(r)
  /\ phase' = [phase EXCEPT ![r] = "dropped"]
  /\ UNCHANGED <<poolVars, want, client, conn_wait, reply_wait, result, fired,
                 unanswered>>

(* A connect, write or body read failed: cancel the timer, resume.  The    *)
(* client is not returned to the pool.                                     *)
on_failed(r) ==
  /\ \E o \in {"connect", "write", "body"} : Handler(r, o, "err")
  /\ CancelTimer(r)
  /\ End(r)
  /\ Resume(r, "Mod_Failed")
  /\ UNCHANGED <<poolVars, want, client, fired, unanswered>>

(* on_connect without error.                                               *)
on_connect(r) ==
  /\ Handler(r, "connect", "ok")
  /\ ArmReply(r)
  /\ send_request(r, client[r])
  /\ UNCHANGED <<poolVars, phase, want, client, result, fired>>

on_write_req(r) ==
  /\ Handler(r, "write", "ok")
  /\ Begin(r, "head")
  /\ UNCHANGED <<poolVars, phase, want, client, conn_wait, reply_wait, result, fired,
                 unanswered>>

(* on_recv_resp_head: on_read_head_impl accepts the head.                  *)
on_recv_resp_head(r) ==
  /\ Handler(r, "head", "ok")
  /\ Begin(r, "body")
  /\ UNCHANGED <<poolVars, phase, want, client, conn_wait, reply_wait, result, fired,
                 unanswered>>

(* on_recv_resp_head: the read failed or on_read_head_impl refuses the     *)
(* head.  The client is closed.                                            *)
on_read_head_failed(r) ==
  /\ \E e \in {"ok", "err"} : Handler(r, "head", e)
  /\ CancelTimer(r)
  /\ close(client[r])
  /\ op' = [op EXCEPT ![r] = "none"]
  /\ done' = [AbortOps(client[r]) EXCEPT ![r] = "none"]
  /\ socket_event' = [socket_event EXCEPT ![r] = "Closed"]
  /\ Resume(r, "Mod_Failed")
  /\ UNCHANGED <<want, client, fired, unanswered>>

(* Mutant: a client whose response body failed to arrive is recollected.   *)
on_recv_resp_body_any(r) ==
  /\ \E e \in {"ok", "err", "aborted"} : Handler(r, "body", e)
  /\ CancelTimer(r)
  /\ recollect(client[r])
  /\ End(r)
  /\ phase' = [phase EXCEPT ![r] = "returning"]
  /\ UNCHANGED <<want, client, result, fired, unanswered>>

(* on_recv_resp_body without error, up to and including recollect.         *)
on_recv_resp_body(r) ==
  /\ Handler(r, "body", "ok")
  /\ CancelTimer(r)
  /\ recollect(client[r])
  /\ End(r)
  /\ phase' = [phase EXCEPT ![r] = "returning"]
  /\ UNCHANGED <<want, client, result, fired, unanswered>>

(* Mutant: client_.reset() is missing.                                     *)
on_recv_resp_body_no_reset(r) ==
  /\ phase[r] = "returning"
  /\ \E s \in {"Mod_Succeed", "Mod_Failed"} : Resume(r, s)
  /\ UNCHANGED <<poolVars, want, client, socket_event, op, done, conn_wait,
                 reply_wait, fired, unanswered>>

(* on_recv_resp_body from client_.reset(): on_read_body_impl may refuse.   *)
on_recv_resp_body_reset(r) ==
  /\ phase[r] = "returning"
  /\ client' = [client EXCEPT ![r] = NoClient]
  /\ \E s \in {"Mod_Succeed", "Mod_Failed"} : Resume(r, s)
  /\ UNCHANGED <<poolVars, want, socket_event, op, done, conn_wait, reply_wait,
                 fired, unanswered>>
-----------------------------------------------------------------------------
(* client_->socket().cancel(), if there is a client.  async_read and       *)
(* async_write transfer in parts: a cancel that meets one of them between  *)
(* two parts aborts nothing, and the next part is started after it.        *)
CancelSocket(r) ==
  /\ fired' = [fired EXCEPT ![r] = TRUE]
  /\ \/ client[r] # NoClient /\ done' = AbortOps(client[r])
     \/ op[r] # "connect" /\ UNCHANGED done
  /\ UNCHANGED <<poolVars, phase, want, client, socket_event, op, result, unanswered>>

on_handle_connect_time_out(r) ==
  /\ conn_wait[r] = "expired"
  /\ ~Locked(r)
  /\ conn_wait' = [conn_wait EXCEPT ![r] = "off"]
  /\ UNCHANGED reply_wait
  /\ CancelSocket(r)

(* Mutant: the handler resumes the Fsm itself.                             *)
on_handle_time_out_resumes(r) ==
  /\ reply_wait[r] = "expired"
  /\ ~Locked(r)
  /\ reply_wait' = [reply_wait EXCEPT ![r] = "off"]
  /\ fired' = [fired EXCEPT ![r] = TRUE]
  /\ done' = IF client[r] = NoClient THEN done ELSE AbortOps(client[r])
  /\ Resume(r, "Mod_Timeout")
  /\ UNCHANGED <<poolVars, want, client, socket_event, op, conn_wait, unanswered>>

on_handle_time_out(r) ==
  /\ reply_wait[r] = "expired"
  /\ ~Locked(r)
  /\ reply_wait' = [reply_wait EXCEPT ![r] = "off"]
  /\ UNCHANGED conn_wait
  /\ CancelSocket(r)

(* timer_ expires.                                                         *)
Expire(r) ==
  /\ \/ /\ conn_wait[r] = "armed"
        /\ conn_wait' = [conn_wait EXCEPT ![r] = "expired"]
        /\ UNCHANGED reply_wait
     \/ /\ reply_wait[r] = "armed"
        /\ reply_wait' = [reply_wait EXCEPT ![r] = "expired"]
        /\ UNCHANGED conn_wait
  /\ UNCHANGED <<poolVars, phase, want, client, socket_event, op, done, result,
                 fired, unanswered>>

(* The operation completes.  A connection that broke makes reads and       *)
(* writes fail, unless what they wait for was there before.                *)
Complete(r) ==
  /\ done[r] = "pending"
  /\ \/ /\ done' = [done EXCEPT ![r] = "ok"]
        /\ unanswered' = IF op[r] = "body" THEN unanswered \ {client[r]} ELSE unanswered
     \/ /\ op[r] = "connect" \/ socket[client[r]] = "broken"
        /\ done' = [done EXCEPT ![r] = "err"]
        /\ UNCHANGED unanswered
  /\ UNCHANGED <<poolVars, phase, want, client, socket_event, op, conn_wait,
                 reply_wait, result, fired>>

(* No handler is left that holds the context: it is destroyed, and with it *)
(* ModuleData and the client it still points to.                           *)
Free(r) ==
  /\ phase[r] \in {"resumed", "dropped"}
  /\ conn_wait[r] = "off"
  /\ reply_wait[r] = "off"
  /\ op[r] = "none"
  /\ IF client[r] = NoClient THEN UNCHANGED poolVars ELSE close(client[r])
  /\ phase' = [phase EXCEPT ![r] = "idle"]
  /\ want' = [want EXCEPT ![r] = NoPeer]
  /\ client' = [client EXCEPT ![r] = NoClient]
  /\ socket_event' = [socket_event EXCEPT ![r] = "None"]
  /\ result' = [result EXCEPT ![r] = "none"]
  /\ fired' = [fired EXCEPT ![r] = FALSE]
  /\ unanswered' = unanswered \ {client[r]}
  /\ UNCHANGED <<op, done, conn_wait, reply_wait>>

(* The steps of the run's own thread and of the handlers queued for it.    *)
Handle(r) ==
  \/ run_no_server(r)
  \/ run_no_socket(r)
  \/ \E c \in Client : run_connect(r, c)
  \/ on_aborted(r)
  \/ cancel_failed(r)
  \/ on_failed(r)
  \/ on_connect(r)
  \/ on_write_req(r)
  \/ on_recv_resp_head(r)
  \/ on_read_head_failed(r)
  \/ on_recv_resp_body(r)
  \/ on_recv_resp_body_reset(r)

TimeOut(r) ==
  \/ on_handle_connect_time_out(r)
  \/ on_handle_time_out(r)

Pool ==
  /\ \/ check_clients
     \/ Tick
     \/ \E c \in Client : (c \in Pooled \/ Held(c)) /\ PeerCloses(c)
  /\ UNCHANGED runVars

Next ==
  \/ \E r \in Run :
       \/ run_no_type(r)
       \/ \E p \in Peer : run(r, p)
       \/ Handle(r)
       \/ TimeOut(r)
       \/ Expire(r)
       \/ Complete(r)
       \/ Free(r)
  \/ Pool

(* io_service's threads run every queued handler; a timer expires.         *)
Scheduling ==
  \A r \in Run : WF_vars(Handle(r)) /\ WF_vars(TimeOut(r)) /\ WF_vars(Expire(r))

(* The backend may fall silent: no fairness for Complete.                  *)
SilentSpec == Init /\ [][Next]_vars /\ Scheduling

(* Every operation completes: the backend answers or the connection fails. *)
Spec == SilentSpec /\ \A r \in Run : WF_vars(Complete(r))
-----------------------------------------------------------------------------
TypeOK ==
  /\ free_clients \in [Peer -> Seq(Client)]
  /\ socket \in [Client -> {"open", "broken", "closed"}]
  /\ peer_id \in [Client -> Peer]
  /\ times \in [Client -> Nat]
  /\ idle \in [Client -> Nat]
  /\ since_check \in 0..CheckTime
  /\ phase \in [Run -> Phase]
  /\ want \in [Run -> Peer \cup {NoPeer}]
  /\ client \in [Run -> Client \cup {NoClient}]
  /\ socket_event \in [Run -> {"None", "Opened", "Closed"}]
  /\ op \in [Run -> {"none", "connect", "write", "head", "body"}]
  /\ done \in [Run -> {"none", "pending", "ok", "err", "aborted"}]
  /\ conn_wait \in [Run -> {"off", "armed", "expired"}]
  /\ reply_wait \in [Run -> {"off", "armed", "expired"}]
  /\ result \in [Run -> {"none", "Mod_Succeed", "Mod_Failed", "Mod_Timeout"}]
  /\ fired \in [Run -> BOOLEAN]
  /\ unanswered \subseteq Client

(* Two runs never use the same connection: a client a run can touch is     *)
(* neither in the pool nor held by another run, whatever thread recollects *)
(* or gets clients in between.                                             *)
ClientExclusive ==
  \A r \in Run : client[r] # NoClient /\ phase[r] # "returning" =>
    /\ client[r] \notin Pooled
    /\ \A q \in Run : client[q] = client[r] => q = r \/ phase[q] = "returning"

(* A client waits in the pool only when its last response has been read to *)
(* the end: the next user does not read an answer to somebody else's       *)
(* request.  Timed-out and failed clients never come back.                 *)
PooledQuiet == Pooled \cap unanswered = {}

(* A run ends as Mod_Timeout only if a time-out of that very run fired: a  *)
(* late time-out handler of another run cannot abort its operation.        *)
TimeoutIsOwn ==
  \A r \in Run : done[r] = "aborted" \/ result[r] = "Mod_Timeout" => fired[r]

(* While a run is waiting exactly one operation can still resume it, and   *)
(* once it has resumed (or given up) none is left: the Fsm is resumed at   *)
(* most once, and "already called!" is never logged.                       *)
OneResume ==
  \A r \in Run :
    IF phase[r] = "waiting"
    THEN op[r] # "none" /\ done[r] # "none" /\ socket_event[r] = "Opened"
    ELSE op[r] = "none" /\ done[r] = "none" /\ socket_event[r] # "Opened"

(* The clients some run can still use.                                     *)
InUse == {client[r] : r \in {q \in Run : phase[q] # "returning"}} \ {NoClient}

(* The pool's users keep its lease discipline.                             *)
Lease == INSTANCE ClientLease WITH in_use <- InUse
LeaseKept == Lease!Spec

(* If the backend answers or fails, every run ends and lets go of its      *)
(* context and of the connection it holds, also one that was dropped       *)
(* because its timer could not be cancelled.                               *)
EveryRunEnds == \A r \in Run : (phase[r] # "idle") ~> (phase[r] = "idle")

(* tcp_module.cc:22 "wait reply time out ms": the wait for a reply ends,   *)
(* even if the backend falls silent.                                       *)
ReplyWaitEnds ==
  \A r \in Run : (op[r] \in {"write", "head", "body"}) ~> (op[r] = "none")
=============================================================================
