-------------------------- MODULE ConnectionProofs --------------------------
(***************************************************************************)
(* On a connection requests are served one at a time, and none after exit, *)
(* however many contexts of earlier requests still have handlers queued.   *)
(***************************************************************************)
EXTENDS Connection, TLAPS

(* A context has an operation under way exactly while it is in the request *)
(* or in the response module; only a context that is over has exited.      *)
Coupled ==
  \A x \in Ctx :
    /\ at[x] = "request" => op[x] \in {"version", "head", "body"}
    /\ at[x] = "response" => op[x] = "write"
    /\ at[x] \notin {"request", "response"} => op[x] = "none"
    /\ op[x] = "none" <=> done[x] = "none"
    /\ exit[x] => at[x] = "ended"

(* The inductive invariant.  OneActive alone is not inductive: that the    *)
(* handler which ends a request belongs to the active context is what      *)
(* Coupled says.                                                           *)
IInv == TypeOK /\ Coupled /\ OneActive /\ ExitIsFinal

(* There is no context before the first connection.                        *)
LEMMA InitIInv == Init => IInv
<1> SUFFICES ASSUME Init PROVE IInv
  OBVIOUS
<1>1. TypeOK
  <2>1. opened \in BOOLEAN
    BY DEF Init
  <2> QED BY <2>1 DEF Init, TypeOK, At, WaitState
<1>2. Coupled /\ OneActive /\ ExitIsFinal
  BY DEF Init, Coupled, OneActive, ExitIsFinal, Active
<1> QED BY <1>1, <1>2 DEF IInv

(* The active contexts are those in the request module, at work or in the  *)
(* response module.                                                        *)
LEMMA ActiveAt ==
  ASSUME Coupled, NEW x \in Ctx
  PROVE  Active(x) <=> at[x] \in {"request", "work", "response"}
BY DEF Coupled, Active

(* An operation of x has a handler to run: x is the active context.        *)
LEMMA HandlerActive ==
  ASSUME Coupled, NEW x \in Ctx, done[x] # "none"
  PROVE  at[x] \in {"request", "response"} /\ Active(x)
BY DEF Coupled, Active

(* A step that changes only the timers, the history and how far an         *)
(* operation has got.                                                      *)
LEMMA ProgressIInv ==
  ASSUME IInv, UNCHANGED <<at, exit>>, TypeOK', Coupled'
  PROVE  IInv'
<1>1. \A x \in Ctx : Active(x)' <=> Active(x)
  BY DEF IInv, Coupled, Active
<1> QED BY <1>1 DEF IInv, OneActive, ExitIsFinal

(* A step of the active context that does not hand on to a new one.        *)
LEMMA ServeIInv ==
  ASSUME IInv, NEW x \in Ctx, Active(x), TypeOK', Coupled',
         NEW a \in At, at' = [at EXCEPT ![x] = a],
         NEW b \in BOOLEAN, exit' = [exit EXCEPT ![x] = b],
         a = "dropped" \/ b => a \in {"ended", "dropped"}
  PROVE  IInv'
<1>1. \A y \in Ctx : y # x => ~Active(y)
  BY DEF IInv, OneActive
<1>2. \A y \in Ctx : y # x => at'[y] = at[y] /\ exit'[y] = exit[y]
  BY DEF IInv, TypeOK
<1>3. \A y \in Ctx : y # x => ~Active(y)'
  BY <1>1, <1>2 DEF IInv, Coupled, Active
<1>4. OneActive'
  BY <1>3 DEF OneActive
<1>5. ExitIsFinal'
  <2> SUFFICES ASSUME NEW y \in Ctx, exit'[y] \/ at'[y] = "dropped"
               PROVE  ~Active(x)'
    BY <1>3 DEF ExitIsFinal
  <2>1. CASE y = x
    <3>1. at'[x] \in {"ended", "dropped"}
      BY <2>1 DEF IInv, TypeOK
    <3> QED BY <3>1 DEF Coupled, Active
  <2>2. CASE y # x
    BY <1>2, <2>2 DEF IInv, ExitIsFinal
  <2> QED BY <2>1, <2>2
<1> QED BY <1>4, <1>5 DEF IInv

(* The active context ends and a new one takes its place: nobody had       *)
(* exited, so OneActive and ExitIsFinal go over to the new one.            *)
LEMMA HandOnIInv ==
  ASSUME IInv, NEW x \in Ctx, NEW w \in [Ctx -> WaitState], Active(x),
         end_request(x, FALSE, w), UNCHANGED opened,
         body_wait' \in [Ctx -> WaitState], resp_wait' \in [Ctx -> WaitState]
  PROVE  IInv'
<1>1. PICK y \in Ctx \ {x} : handle_request(x, y, w)
  BY DEF end_request
<1> USE <1>1 DEF handle_request, IInv
<1>2. exit' = [exit EXCEPT ![x] = FALSE]
  BY DEF end_request
<1>3. TypeOK'
  BY <1>2 DEF TypeOK, At, WaitState
<1>4. Coupled'
  BY <1>2 DEF Coupled, TypeOK
<1>5. \A z \in Ctx : ~exit[z] /\ at[z] # "dropped"
  BY DEF ExitIsFinal
<1>6. \A z \in Ctx : z # x => ~Active(z)
  BY DEF OneActive
<1>7. at'[x] = "ended" /\ \A z \in Ctx : z # y /\ z # x => at'[z] = at[z]
  BY DEF TypeOK
<1> HIDE DEF handle_request
<1>8. ASSUME NEW z \in Ctx, z # y
      PROVE  ~Active(z)'
  <2>1. at'[z] \notin {"request", "work", "response"}
    <3>1. CASE z = x
      BY <1>7, <1>8, <3>1
    <3>2. CASE z # x
      BY <1>6, <1>7, <1>8, <3>2 DEF Active
    <3> QED BY <3>1, <3>2
  <2>2. op'[z] = "none"
    BY <1>4, <2>1 DEF Coupled
  <2> QED BY <2>1, <2>2 DEF Active
<1>9. OneActive'
  BY <1>8 DEF OneActive
<1>10. \A z \in Ctx : ~exit'[z] /\ at'[z] # "dropped"
  <2>1. at'[y] = "request"
    BY DEF handle_request, TypeOK
  <2> QED BY <1>2, <1>5, <1>7, <2>1 DEF TypeOK
<1>11. ExitIsFinal'
  BY <1>10 DEF ExitIsFinal
<1> QED BY <1>3, <1>4, <1>9, <1>11

(* Timers and operations make progress.                                    *)
LEMMA TimerStepIInv ==
  ASSUME IInv, NEW x \in Ctx, UNCHANGED opened,
         \/ StartOp(x) \/ Complete(x) \/ Expire(x)
         \/ on_read_version(x) \/ on_read_head(x)
  PROVE  IInv'
<1> USE DEF IInv, TypeOK, Coupled, WaitState, waits
<1>1. CASE StartOp(x)
  BY <1>1, ProgressIInv DEF StartOp
<1>2. CASE Complete(x)
  <2>1. PICK e \in {"ok", "err"} : done' = [done EXCEPT ![x] = e]
    BY <1>2 DEF Complete
  <2> QED BY <1>2, <2>1, ProgressIInv DEF Complete
<1>3. CASE Expire(x)
  BY <1>3, ProgressIInv DEF Expire
<1>4. CASE on_read_version(x)
  BY <1>4, ProgressIInv DEF on_read_version, Handler, VersionOff, Disarm, Begin
<1>5. CASE on_read_head(x)
  BY <1>5, ProgressIInv DEF on_read_head, Handler
<1> QED BY <1>1, <1>2, <1>3, <1>4, <1>5

(* A time-out handler cancels the socket: what is pending may be aborted.  *)
(* If the cancel throws, no context is left.                               *)
LEMMA TimeOutIInv ==
  ASSUME IInv, NEW x \in Ctx, TimeOut(x)
  PROVE  IInv'
<1>1. CASE on_read_version_time_out_throws(x)
  BY <1>1 DEF on_read_version_time_out_throws, IInv, TypeOK, At, WaitState, Coupled,
     OneActive, ExitIsFinal, Active
<1>2. CASE /\ CancelSocket /\ UNCHANGED <<at, exit, op, opened>>
           /\ ver_wait' \in [Ctx -> WaitState] /\ body_wait' \in [Ctx -> WaitState]
           /\ resp_wait' \in [Ctx -> WaitState] /\ fired' \in [Ctx -> BOOLEAN]
  <2>1. /\ done' \in [Ctx -> {"none", "unstarted", "pending", "ok", "err", "aborted"}]
        /\ \A y \in Ctx : done'[y] = "none" <=> done[y] = "none"
    BY <1>2 DEF CancelSocket, IInv, TypeOK
  <2>2. TypeOK' /\ Coupled'
    BY <1>2, <2>1 DEF IInv, TypeOK, Coupled
  <2> QED BY <1>2, <2>2, ProgressIInv
<1>3. CASE on_read_version_time_out(x)
  BY <1>2, <1>3 DEF on_read_version_time_out, IInv, TypeOK, WaitState
<1>4. CASE on_read_head_and_body_time_out(x)
  BY <1>2, <1>4 DEF on_read_head_and_body_time_out, IInv, TypeOK, WaitState
<1>5. CASE on_write_time_out(x)
  BY <1>2, <1>5 DEF on_write_time_out, IInv, TypeOK, WaitState
<1> QED BY <1>1, <1>3, <1>4, <1>5 DEF TimeOut

(* The active context goes on to its next module, or is over.              *)
LEMMA ServeStepIInv ==
  ASSUME IInv, NEW x \in Ctx, UNCHANGED opened,
         cancel_failed(x) \/ on_aborted(x) \/ on_read_failed(x) \/ on_write_failed(x)
         \/ on_read_body(x) \/ no_next_module(x) \/ ResponseModule_run(x)
  PROVE  IInv'
<1>1. Active(x)
  BY HandlerActive DEF IInv, cancel_failed, on_aborted, on_read_failed, on_write_failed,
     on_read_body, no_next_module, ResponseModule_run, Handler, Active
<1>2. ASSUME NEW a \in At, NEW b \in BOOLEAN,
             at' = [at EXCEPT ![x] = a], exit' = [exit EXCEPT ![x] = b],
             a \in {"ended", "dropped"} \/ (~b /\ a \in {"work", "response"}),
             TypeOK', Coupled'
      PROVE  IInv'
  BY <1>1, <1>2, ServeIInv
<1> USE DEF IInv, TypeOK, At, Coupled, WaitState, waits, End, Begin, Handler, Disarm
<1>3. exit = [exit EXCEPT ![x] = FALSE]
  BY <1>1, ActiveAt
<1>4. CASE cancel_failed(x)
  <2>1. TypeOK' /\ Coupled'
    BY <1>4 DEF cancel_failed
  <2> QED BY <1>2, <1>3, <1>4, <2>1 DEF cancel_failed
<1>5. CASE on_aborted(x)
  <2>1. /\ at' = [at EXCEPT ![x] = "ended"] /\ exit' = [exit EXCEPT ![x] = TRUE]
        /\ op' = [op EXCEPT ![x] = "none"] /\ done' = [done EXCEPT ![x] = "none"]
        /\ fired' = [fired EXCEPT ![x] = FALSE]
        /\ ver_wait' = ver_wait /\ UNCHANGED <<body_wait, resp_wait>>
    BY <1>5 DEF on_aborted, end_request
  <2>2. TypeOK'
    BY <2>1
  <2>3. Coupled'
    BY <2>1
  <2> QED BY <1>2, <2>1, <2>2, <2>3
<1>6. CASE on_read_failed(x)
  <2>1. /\ at' = [at EXCEPT ![x] = "ended"] /\ exit' = [exit EXCEPT ![x] = TRUE]
        /\ op' = [op EXCEPT ![x] = "none"] /\ done' = [done EXCEPT ![x] = "none"]
        /\ fired' = [fired EXCEPT ![x] = FALSE]
        /\ ver_wait' = VersionOff(x) /\ CancelRead(x)
    BY <1>6 DEF on_read_failed, end_request
  <2>2. TypeOK'
    BY <2>1 DEF CancelRead, VersionOff
  <2>3. Coupled'
    BY <2>1
  <2> QED BY <1>2, <2>1, <2>2, <2>3
<1>7. CASE on_write_failed(x)
  <2>1. /\ at' = [at EXCEPT ![x] = "ended"] /\ exit' = [exit EXCEPT ![x] = TRUE]
        /\ op' = [op EXCEPT ![x] = "none"] /\ done' = [done EXCEPT ![x] = "none"]
        /\ fired' = [fired EXCEPT ![x] = FALSE]
        /\ ver_wait' = ver_wait /\ CancelWrite(x)
    BY <1>7 DEF on_write_failed, end_request
  <2>2. TypeOK'
    BY <2>1 DEF CancelWrite
  <2>3. Coupled'
    BY <2>1
  <2> QED BY <1>2, <2>1, <2>2, <2>3
<1>8. CASE on_read_body(x)
  <2>1. TypeOK' /\ Coupled'
    BY <1>3, <1>8 DEF on_read_body, CancelRead
  <2> QED BY <1>2, <1>3, <1>8, <2>1 DEF on_read_body
<1>9. CASE ResponseModule_run(x)
  <2>1. TypeOK' /\ Coupled'
    BY <1>9 DEF ResponseModule_run
  <2> QED BY <1>2, <1>3, <1>9, <2>1 DEF ResponseModule_run
<1>10. CASE no_next_module(x)
  <2>1. /\ at' = [at EXCEPT ![x] = "ended"] /\ exit' = [exit EXCEPT ![x] = TRUE]
        /\ op' = [op EXCEPT ![x] = "none"] /\ done' = [done EXCEPT ![x] = "none"]
        /\ fired' = [fired EXCEPT ![x] = FALSE]
        /\ ver_wait' = ver_wait /\ UNCHANGED <<body_wait, resp_wait>>
    BY <1>10 DEF no_next_module, end_request
  <2>2. TypeOK'
    BY <2>1
  <2>3. Coupled'
    BY <2>1
  <2> QED BY <1>2, <2>1, <2>2, <2>3
<1> QED BY <1>4, <1>5, <1>6, <1>7, <1>8, <1>9, <1>10

(* A connection is accepted when no context is left.                       *)
LEMMA AcceptIInv ==
  ASSUME IInv, NEW x \in Ctx, on_accepted(x)
  PROVE  IInv'
<1> USE DEF IInv, on_accepted, handle_request
<1>1. TypeOK'
  BY DEF TypeOK, At, WaitState
<1>2. Coupled'
  BY DEF TypeOK, Coupled
<1>3. /\ \A y \in Ctx : ~exit'[y]
      /\ at'[x] = "request"
      /\ \A y \in Ctx : y # x => at'[y] = "free"
  BY DEF TypeOK, Coupled
<1>4. ASSUME NEW y \in Ctx, y # x
      PROVE  ~Active(y)'
  <2>1. at'[y] = "free"
    BY <1>3, <1>4
  <2>2. op'[y] = "none"
    BY <1>2, <2>1 DEF Coupled
  <2> QED BY <2>1, <2>2 DEF Active
<1>5. OneActive'
  BY <1>4 DEF OneActive
<1> HIDE DEF handle_request, on_accepted
<1>6. \A y \in Ctx : ~exit'[y] /\ at'[y] # "dropped"
  BY <1>3
<1>7. ExitIsFinal'
  BY <1>6 DEF ExitIsFinal
<1> QED BY <1>1, <1>2, <1>5, <1>7

(* A context that is over is destroyed.                                    *)
LEMMA FreeIInv ==
  ASSUME IInv, NEW x \in Ctx, Free(x)
  PROVE  IInv'
<1> USE DEF IInv, Free, waits
<1>1. TypeOK' /\ Coupled'
  BY DEF TypeOK, At, WaitState, Coupled
<1>2. \A y \in Ctx : Active(y)' <=> Active(y)
  BY DEF Active, TypeOK
<1>3. \A y \in Ctx : /\ exit'[y] => exit[y]
                    /\ at'[y] = "dropped" => at[y] = "dropped"
  BY DEF TypeOK
<1> QED BY <1>1, <1>2, <1>3 DEF OneActive, ExitIsFinal

(* Every step preserves the invariant.                                     *)
LEMMA NextIInv == IInv /\ [Next]_vars => IInv'
<1> SUFFICES ASSUME IInv, [Next]_vars PROVE IInv'
  OBVIOUS
<1>1. CASE UNCHANGED vars
  BY <1>1 DEF vars, IInv, TypeOK, Coupled, OneActive, ExitIsFinal, Active
<1>2. ASSUME NEW x \in Ctx, UNCHANGED opened, on_write_resp(x) \/ ResponseModule_no_resp(x)
      PROVE  IInv'
  <2>1. Active(x)
    BY <1>2, HandlerActive DEF IInv, on_write_resp, ResponseModule_no_resp, Handler, Active
  <2>2. /\ end_request(x, FALSE, ver_wait)
        /\ ver_wait \in [Ctx -> WaitState]
        /\ body_wait' \in [Ctx -> WaitState] /\ resp_wait' \in [Ctx -> WaitState]
    <3>1. /\ ver_wait \in [Ctx -> WaitState]
          /\ body_wait \in [Ctx -> WaitState] /\ resp_wait \in [Ctx -> WaitState]
      BY DEF IInv, TypeOK
    <3>2. /\ end_request(x, FALSE, ver_wait)
          /\ CancelWrite(x) \/ UNCHANGED <<body_wait, resp_wait>>
      BY <1>2 DEF on_write_resp, ResponseModule_no_resp
    <3>3. CASE CancelWrite(x)
      BY <3>1, <3>2, <3>3 DEF CancelWrite, Disarm, WaitState
    <3>4. CASE UNCHANGED <<body_wait, resp_wait>>
      BY <3>1, <3>2, <3>4
    <3> QED BY <3>2, <3>3, <3>4
  <2> QED BY <1>2, <2>1, <2>2, HandOnIInv
<1>3. ASSUME NEW x \in Ctx,
             on_accepted(x) \/ Handle(x) \/ TimeOut(x) \/ Expire(x) \/ Complete(x) \/ Free(x)
      PROVE  IInv'
  <2>1. CASE on_accepted(x) \/ Free(x)
    BY <2>1, AcceptIInv, FreeIInv
  <2>2. CASE TimeOut(x) \/ Expire(x) \/ Complete(x)
    <3>1. Expire(x) \/ Complete(x) => UNCHANGED opened
      BY DEF Expire, Complete
    <3> QED BY <2>2, <3>1, TimeOutIInv, TimerStepIInv
  <2>3. CASE Handle(x)
    <3>0. UNCHANGED opened
      BY <2>3 DEF Handle
    <3>1. CASE StartOp(x) \/ on_read_version(x) \/ on_read_head(x)
      BY <3>0, <3>1, TimerStepIInv
    <3>2. CASE on_write_resp(x) \/ ResponseModule_no_resp(x)
      BY <1>2, <3>0, <3>2
    <3>3. CASE cancel_failed(x) \/ on_aborted(x) \/ on_read_failed(x) \/ on_write_failed(x)
               \/ on_read_body(x) \/ no_next_module(x) \/ ResponseModule_run(x)
      BY <3>0, <3>3, ServeStepIInv
    <3> QED BY <2>3, <3>1, <3>2, <3>3 DEF Handle
  <2> QED BY <1>3, <2>1, <2>2, <2>3
<1> QED BY <1>1, <1>3 DEF Next

(* The inductive invariant holds in every reachable state.                 *)
LEMMA Inductive == Spec => []IInv
BY InitIInv, NextIInv, PTL DEF Spec, SilentSpec

(* The connection's contexts are well typed.                               *)
THEOREM TypeCorrect == Spec => []TypeOK
<1>1. IInv => TypeOK
  BY DEF IInv
<1> QED BY <1>1, Inductive, PTL

(* Requests are served one at a time, with any number of contexts alive:   *)
(* no late time-out of an earlier request puts a second one to work.       *)
THEOREM OneAtATime == Spec => []OneActive
<1>1. IInv => OneActive
  BY DEF IInv
<1> QED BY <1>1, Inductive, PTL

(* After an exit the connection is not used again.                         *)
THEOREM NothingAfterExit == Spec => []ExitIsFinal
<1>1. IInv => ExitIsFinal
  BY DEF IInv
<1> QED BY <1>1, Inductive, PTL
=============================================================================
