----------------------------- MODULE Connection -----------------------------
(***************************************************************************)
(* framework/fsm.cc, framework/data.{h,cc}, module/request_module.cc and   *)
(* module/response_module.cc on one client connection: read a request,     *)
(* work on it, write the response, and read the next request in a new      *)
(* FsmContext on the same socket.                                          *)
(*                                                                         *)
(* A context lives until the last handler that holds it has run, so timers *)
(* of earlier requests may still be queued while a later request is served *)
(* - and all contexts of the connection share its socket.  Unlike          *)
(* TcpModule these modules have no lock: a time-out handler may run on     *)
(* another thread between async_wait and the async_read or async_write     *)
(* that follows it ("unstarted").                                          *)
(*                                                                         *)
(* The transitions between modules are those of example1/main.cc: any      *)
(* outcome of the request module but success, and every outcome of a       *)
(* response module, leads to end_mod; what lies between request and        *)
(* response is the phase "work".  asio is modelled as in TcpModule, but    *)
(* socket().cancel() is the form that throws.                              *)
(***************************************************************************)
EXTENDS Naturals

CONSTANT Ctx   \* FsmContext objects; bounds how many live at once

VARIABLES at,         \* the module that has the context; see At
          exit,       \* exit_
          op,         \* the operation it has under way on the connection
          done,       \* its progress
          ver_wait,   \* the request module's timer, flag 1
          body_wait,  \* the request module's timer, flag 2 (head and body)
          resp_wait,  \* the response module's timer
          opened,     \* the connection's socket was opened by the accept
          fired       \* history: on_read_time_out(1, ...) has run with ec = 0
                      \* during the context's wait for a request

vars == <<at, exit, op, done, ver_wait, body_wait, resp_wait, opened, fired>>
waits == <<ver_wait, body_wait, resp_wait>>

At == {"free",      \* no such context
       "request",   \* in the request module
       "work",      \* between request and response
       "response",  \* in the response module
       "ended",     \* the request is over
       "dropped"}   \* a handler returned without resuming the Fsm

Init ==
  /\ at = [x \in Ctx |-> "free"]
  /\ exit = [x \in Ctx |-> FALSE]
  /\ op = [x \in Ctx |-> "none"]
  /\ done = [x \in Ctx |-> "none"]
  /\ ver_wait = [x \in Ctx |-> "off"]
  /\ body_wait = [x \in Ctx |-> "off"]
  /\ resp_wait = [x \in Ctx |-> "off"]
  /\ opened = FALSE
  /\ fired = [x \in Ctx |-> FALSE]

(* Mutant: a cancelled wait is left queued.                                *)
Disarm_queued(w) == IF w = "armed" THEN "cancelled" ELSE w

(* timer_.cancel(), and what expires_from_now does to a wait first.        *)
Disarm(w) == IF w = "armed" THEN "off" ELSE w

(* A timer of x is armed; the operation it covers is started next.         *)
Begin(x, o) ==
  /\ op' = [op EXCEPT ![x] = o]
  /\ done' = [done EXCEPT ![x] = "unstarted"]
  /\ fired' = [fired EXCEPT ![x] = FALSE]

(* The handler of x's operation has been entered and starts no other one.  *)
End(x) ==
  /\ op' = [op EXCEPT ![x] = "none"]
  /\ done' = [done EXCEPT ![x] = "none"]
  /\ fired' = [fired EXCEPT ![x] = FALSE]

Handler(x, o, e) == op[x] = o /\ done[x] = e
-----------------------------------------------------------------------------
(* new FsmContext, handle_request: reset, then RequestModule::run up to    *)
(* the timer.  w is ver_wait as the ending context x left it.              *)
handle_request(x, y, w) ==
  /\ at[y] = "free"
  /\ at' = [at EXCEPT ![x] = "ended", ![y] = "request"]
  /\ op' = [op EXCEPT ![x] = "none", ![y] = "version"]
  /\ done' = [done EXCEPT ![x] = "none", ![y] = "unstarted"]
  /\ fired' = [fired EXCEPT ![x] = FALSE]
  /\ ver_wait' = [w EXCEPT ![y] = "armed"]

(* Mutant: the test of is_exit is lost.                                    *)
end_request_always(x, is_exit, w) ==
  /\ \E y \in Ctx \ {x} : handle_request(x, y, w)
  /\ exit' = [exit EXCEPT ![x] = is_exit]

(* resume to end_mod and _end_request.  A context that has exited is the   *)
(* connection's last; otherwise there is always a new one ("if (true ||    *)
(* ..."), on the same connection.                                          *)
end_request(x, is_exit, w) ==
  /\ \/ /\ is_exit
        /\ at' = [at EXCEPT ![x] = "ended"]
        /\ End(x)
        /\ ver_wait' = w
     \/ /\ ~is_exit
        /\ \E y \in Ctx \ {x} : handle_request(x, y, w)
  /\ exit' = [exit EXCEPT ![x] = is_exit]

(* on_accepted: the first context of a new connection.  The error is not   *)
(* looked at: after a failed accept the socket was never opened.           *)
on_accepted(x) ==
  /\ \A y \in Ctx : at[y] = "free"
  /\ handle_request(x, x, ver_wait)
  /\ opened' \in BOOLEAN
  /\ UNCHANGED <<exit, body_wait, resp_wait>>

(* The async_read or async_write that follows async_wait.                  *)
StartOp(x) ==
  /\ done[x] = "unstarted"
  /\ done' = [done EXCEPT ![x] = "pending"]
  /\ UNCHANGED <<at, exit, op, waits, fired>>
-----------------------------------------------------------------------------
(* cancel_time_out_timer of the request and of the response module.        *)
CancelRead(x) ==
  /\ body_wait' = [body_wait EXCEPT ![x] = Disarm(@)]
  /\ UNCHANGED resp_wait
CancelWrite(x) ==
  /\ resp_wait' = [resp_wait EXCEPT ![x] = Disarm(@)]
  /\ UNCHANGED body_wait
VersionOff(x) == [ver_wait EXCEPT ![x] = Disarm(@)]

(* cancel_time_out_timer returns false: the handler returns.  on_read_head *)
(* gets there when on_read_head_impl refuses the head.                     *)
cancel_failed(x) ==
  /\ \E o \in {"version", "head", "body", "write"}, e \in {"ok", "err"} : Handler(x, o, e)
  /\ End(x)
  /\ at' = [at EXCEPT ![x] = "dropped"]
  /\ UNCHANGED <<exit, waits>>

(* Mutant: an aborted handler just returns.                                *)
on_aborted_returns(x) ==
  /\ done[x] = "aborted"
  /\ End(x)
  /\ UNCHANGED <<at, exit, waits>>

(* operation_aborted, in all four handlers: exit, resume.                  *)
on_aborted(x) ==
  /\ done[x] = "aborted"
  /\ end_request(x, TRUE, ver_wait)
  /\ UNCHANGED <<body_wait, resp_wait>>

(* A read failed, or an *_impl hook refused what was read.                 *)
on_read_failed(x) ==
  /\ \E o \in {"version", "head", "body"}, e \in {"ok", "err"} : Handler(x, o, e)
  /\ CancelRead(x)
  /\ end_request(x, TRUE, VersionOff(x))

on_read_version(x) ==
  /\ Handler(x, "version", "ok")
  /\ ver_wait' = VersionOff(x)
  /\ body_wait' = [body_wait EXCEPT ![x] = "armed"]
  /\ Begin(x, "head")
  /\ UNCHANGED <<at, exit, resp_wait>>

(* The timer armed by on_read_version goes on for the body.                *)
on_read_head(x) ==
  /\ Handler(x, "head", "ok")
  /\ op' = [op EXCEPT ![x] = "body"]
  /\ done' = [done EXCEPT ![x] = "pending"]
  /\ UNCHANGED <<at, exit, waits, fired>>

on_read_body(x) ==
  /\ Handler(x, "body", "ok")
  /\ CancelRead(x)
  /\ End(x)
  /\ at' = [at EXCEPT ![x] = "work"]
  /\ UNCHANGED <<exit, ver_wait>>

(* A module ends in a state that no link covers (_get_next_module returns  *)
(* NULL, as for a state of if_rand_mod that example1 does not link).       *)
no_next_module(x) ==
  /\ at[x] = "work"
  /\ end_request(x, TRUE, ver_wait)
  /\ UNCHANGED <<body_wait, resp_wait>>

(* ResponseModule::run up to the timer.                                    *)
ResponseModule_run(x) ==
  /\ at[x] = "work"
  /\ at' = [at EXCEPT ![x] = "response"]
  /\ resp_wait' = [resp_wait EXCEPT ![x] = "armed"]
  /\ Begin(x, "write")
  /\ UNCHANGED <<exit, ver_wait, body_wait>>

(* get_resp returns null: Mod_Failed, end_mod, the next request.           *)
ResponseModule_no_resp(x) ==
  /\ at[x] = "work"
  /\ end_request(x, FALSE, ver_wait)
  /\ UNCHANGED <<body_wait, resp_wait>>

(* on_write_resp with and without an error.                                *)
on_write_failed(x) ==
  /\ Handler(x, "write", "err")
  /\ CancelWrite(x)
  /\ end_request(x, TRUE, ver_wait)

on_write_resp(x) ==
  /\ Handler(x, "write", "ok")
  /\ CancelWrite(x)
  /\ end_request(x, FALSE, ver_wait)
-----------------------------------------------------------------------------
(* conn()->socket().cancel(): whatever operation is pending on the         *)
(* connection, of whichever context, ends as aborted, unless the cancel    *)
(* meets it between two parts of what it transfers.                        *)
CancelSocket ==
  /\ opened
  /\ \/ done' = [y \in Ctx |-> IF done[y] = "pending" THEN "aborted" ELSE done[y]]
     \/ UNCHANGED done

(* on_read_time_out(1, ...) and on_read_time_out(2, ...).                  *)
on_read_version_time_out(x) ==
  /\ ver_wait[x] = "expired"
  /\ ver_wait' = [ver_wait EXCEPT ![x] = "off"]
  /\ fired' = [fired EXCEPT ![x] = @ \/ op[x] = "version"]
  /\ CancelSocket
  /\ UNCHANGED <<at, exit, op, body_wait, resp_wait, opened>>

(* The socket was never opened: cancel throws, nothing catches it, and the *)
(* process ends with all its contexts.                                     *)
on_read_version_time_out_throws(x) ==
  /\ ver_wait[x] = "expired"
  /\ ~opened
  /\ at' = [y \in Ctx |-> "free"]
  /\ exit' = [y \in Ctx |-> FALSE]
  /\ op' = [y \in Ctx |-> "none"]
  /\ done' = [y \in Ctx |-> "none"]
  /\ ver_wait' = [y \in Ctx |-> "off"]
  /\ body_wait' = [y \in Ctx |-> "off"]
  /\ resp_wait' = [y \in Ctx |-> "off"]
  /\ fired' = [y \in Ctx |-> FALSE]
  /\ UNCHANGED opened

on_read_head_and_body_time_out(x) ==
  /\ body_wait[x] = "expired"
  /\ body_wait' = [body_wait EXCEPT ![x] = "off"]
  /\ CancelSocket
  /\ UNCHANGED <<at, exit, op, ver_wait, resp_wait, opened, fired>>

(* Mutant: the handler also resumes the Fsm, as in the line that is        *)
(* commented out.                                                          *)
on_write_time_out_resumes(x) ==
  /\ resp_wait[x] = "expired"
  /\ resp_wait' = [resp_wait EXCEPT ![x] = "off"]
  /\ \E y \in Ctx \ {x} : /\ handle_request(y, y, ver_wait)
                          /\ op[x] # "none"
  /\ UNCHANGED <<exit, body_wait, opened>>

on_write_time_out(x) ==
  /\ resp_wait[x] = "expired"
  /\ resp_wait' = [resp_wait EXCEPT ![x] = "off"]
  /\ CancelSocket
  /\ UNCHANGED <<at, exit, op, ver_wait, body_wait, opened, fired>>

(* A timer expires.                                                        *)
Expire(x) ==
  /\ \/ /\ ver_wait[x] = "armed"
        /\ ver_wait' = [ver_wait EXCEPT ![x] = "expired"]
        /\ UNCHANGED <<body_wait, resp_wait>>
     \/ /\ body_wait[x] = "armed"
        /\ body_wait' = [body_wait EXCEPT ![x] = "expired"]
        /\ UNCHANGED <<ver_wait, resp_wait>>
     \/ /\ resp_wait[x] = "armed"
        /\ resp_wait' = [resp_wait EXCEPT ![x] = "expired"]
        /\ UNCHANGED <<ver_wait, body_wait>>
  /\ UNCHANGED <<at, exit, op, done, opened, fired>>

(* The operation completes, or the client has closed the connection, or    *)
(* there never was one.                                                    *)
Complete(x) ==
  /\ done[x] = "pending"
  /\ \E e \in {"ok", "err"} : /\ opened \/ e = "err"
                              /\ done' = [done EXCEPT ![x] = e]
  /\ UNCHANGED <<at, exit, op, waits, opened, fired>>

(* The last handler that holds the context has run: it is destroyed.       *)
Free(x) ==
  /\ at[x] \in {"ended", "dropped"}
  /\ op[x] = "none"
  /\ ver_wait[x] = "off" /\ body_wait[x] = "off" /\ resp_wait[x] = "off"
  /\ at' = [at EXCEPT ![x] = "free"]
  /\ exit' = [exit EXCEPT ![x] = FALSE]
  /\ UNCHANGED <<op, done, waits, opened, fired>>

Handle(x) ==
  /\ \/ StartOp(x)
     \/ cancel_failed(x)
     \/ on_aborted(x)
     \/ on_read_failed(x)
     \/ on_read_version(x)
     \/ on_read_head(x)
     \/ on_read_body(x)
     \/ no_next_module(x)
     \/ ResponseModule_run(x)
     \/ ResponseModule_no_resp(x)
     \/ on_write_failed(x)
     \/ on_write_resp(x)
  /\ UNCHANGED opened

TimeOut(x) ==
  \/ on_read_version_time_out(x)
  \/ on_read_version_time_out_throws(x)
  \/ on_read_head_and_body_time_out(x)
  \/ on_write_time_out(x)

Next ==
  \E x \in Ctx :
    \/ on_accepted(x)
    \/ Handle(x)
    \/ TimeOut(x)
    \/ Expire(x)
    \/ Complete(x)
    \/ Free(x)

(* io_service's threads run every queued handler, timers expire, and       *)
(* contexts nobody holds are destroyed.  The client may fall silent.       *)
SilentSpec ==
  /\ Init
  /\ [][Next]_vars
  /\ \A x \in Ctx : /\ WF_vars(Handle(x)) /\ WF_vars(TimeOut(x))
                    /\ WF_vars(Expire(x)) /\ WF_vars(Free(x))

(* The client answers or goes away.                                        *)
Spec == SilentSpec /\ \A x \in Ctx : WF_vars(Complete(x))
-----------------------------------------------------------------------------
WaitState == {"off", "armed", "expired"}

TypeOK ==
  /\ at \in [Ctx -> At]
  /\ exit \in [Ctx -> BOOLEAN]
  /\ op \in [Ctx -> {"none", "version", "head", "body", "write"}]
  /\ done \in [Ctx -> {"none", "unstarted", "pending", "ok", "err", "aborted"}]
  /\ ver_wait \in [Ctx -> WaitState]
  /\ body_wait \in [Ctx -> WaitState]
  /\ resp_wait \in [Ctx -> WaitState]
  /\ opened \in BOOLEAN
  /\ fired \in [Ctx -> BOOLEAN]

Active(x) == at[x] \in {"request", "work", "response"} \/ op[x] # "none"

(* One request at a time: however late the handlers of earlier contexts    *)
(* run, the connection never has two contexts at work, nor two operations. *)
OneActive == \A x, y \in Ctx : Active(x) /\ Active(y) => x = y

(* Once a context has exited, or was dropped, no request is read from the  *)
(* connection again, and nothing is written to it.                         *)
ExitIsFinal ==
  \A x, y \in Ctx : exit[x] \/ at[x] = "dropped" => ~Active(y)

(* If the client answers or goes away, every request comes to an end, also *)
(* one that was started after a failed accept: each handler resumes the    *)
(* Fsm, starts the next operation or drops the context.                    *)
RequestEnds == \A x \in Ctx : Active(x) ~> ~Active(x)

(* request_module.cc:23 "wait read request time": the wait for the next    *)
(* request ends in a time-out only when its own timer expired.             *)
VersionTimeoutIsOwn ==
  \A x \in Ctx : op[x] = "version" /\ done[x] = "aborted" => fired[x]

(* request_module.cc:24 "wait read body time": once a request has begun to *)
(* arrive, the wait for the rest of it ends, even if the client falls      *)
(* silent.                                                                 *)
ReadWaitEnds ==
  \A x \in Ctx : (op[x] \in {"head", "body"}) ~> (op[x] = "none")
=============================================================================
