--------------------------- MODULE TcpModuleProofs ---------------------------
(***************************************************************************)
(* The invariants of TcpModule, and that its runs keep the pool's lease    *)
(* discipline, for every set of runs, clients and peers.                   *)
(***************************************************************************)
EXTENDS TcpModule, TcpClientPoolProofs

(* What client_ and client_type_id are where a run stands.                 *)
Coupled ==
  \A r \in Run :
    /\ phase[r] \in {"idle", "connecting"} => client[r] = NoClient
    /\ phase[r] \in {"waiting", "returning"} => client[r] # NoClient
    /\ phase[r] = "connecting" => want[r] \in Peer

(* A response that has been read to its end is answered.                   *)
Answered ==
  \A r \in Run : op[r] = "body" /\ done[r] = "ok" => client[r] \notin unanswered

(* The inductive invariant.  ClientExclusive is the centre: because nobody *)
(* else uses the client of a waiting run, cancelling or closing its socket *)
(* aborts that run's operation only (TimeoutIsOwn), and a request sent on  *)
(* one client does not make another run's response unanswered (Answered,   *)
(* which PooledQuiet needs when the client is returned).  OneResume says   *)
(* that the runs with an operation are the waiting ones.                   *)
IInv ==
  /\ TypeOK
  /\ Distinct
  /\ Coupled
  /\ ClientExclusive
  /\ OneResume
  /\ Answered
  /\ PooledQuiet
  /\ TimeoutIsOwn
(* The module starts with no client, no request and no operation.          *)
LEMMA InitIInv == Init => IInv
<1> SUFFICES ASSUME Init PROVE IInv
  OBVIOUS
<1> USE DEF Init, PoolInit
<1>1. \A p \in Peer : DOMAIN free_clients[p] = {} /\ free_clients[p] \in Seq(Client)
  BY EmptySeq
<1>2. TypeOK
  BY <1>1, CheckTimeAssumption DEF TypeOK, Phase
<1>3. Distinct
  BY <1>1 DEF Distinct
<1>4. Coupled /\ ClientExclusive /\ OneResume
  BY DEF Coupled, ClientExclusive, OneResume
<1>5. Answered /\ PooledQuiet /\ TimeoutIsOwn
  BY DEF Answered, PooledQuiet, TimeoutIsOwn
<1> QED BY <1>2, <1>3, <1>4, <1>5 DEF IInv

(* A step that touches neither deques nor clients, and neither begins nor  *)
(* ends a return, keeps everybody's clients apart.                         *)
LEMMA SameClients ==
  ASSUME IInv, UNCHANGED <<free_clients, client>>,
         \A r \in Run : phase'[r] = "returning" <=> phase[r] = "returning"
  PROVE  Pooled' = Pooled /\ Distinct' /\ ClientExclusive' /\ InUse' = InUse
<1>1. Pooled' = Pooled
  BY DEF Pooled
<1>2. Distinct'
  BY DEF IInv, Distinct
<1>3. ClientExclusive'
  BY <1>1 DEF IInv, ClientExclusive
<1>4. InUse' = InUse
  BY DEF InUse
<1> QED BY <1>1, <1>2, <1>3, <1>4

(* A waiting run has a client that no other waiting run has.               *)
LEMMA WaitingAlone ==
  ASSUME IInv, NEW r \in Run, phase[r] = "waiting"
  PROVE  /\ client[r] \in Client /\ client[r] \notin Pooled
         /\ \A q \in Run : client[q] = client[r] /\ phase[q] # "returning" => q = r
BY DEF IInv, TypeOK, Coupled, ClientExclusive

(* What a handler does to the two waits leaves them waits.                 *)
LEMMA WaitsKept ==
  ASSUME NEW r \in Run,
         conn_wait \in [Run -> {"off", "armed", "expired"}],
         reply_wait \in [Run -> {"off", "armed", "expired"}],
         \/ UNCHANGED <<conn_wait, reply_wait>>
         \/ CancelTimer(r)
         \/ ArmReply(r)
  PROVE  /\ conn_wait' \in [Run -> {"off", "armed", "expired"}]
         /\ reply_wait' \in [Run -> {"off", "armed", "expired"}]
<1>1. CASE UNCHANGED <<conn_wait, reply_wait>>
  BY <1>1
<1>2. CASE CancelTimer(r)
  BY <1>2 DEF CancelTimer, Disarm
<1>3. CASE ArmReply(r)
  BY <1>3 DEF ArmReply, Disarm
<1> QED BY <1>1, <1>2, <1>3

(* The run ends before it has a client.                                    *)
LEMMA RunFailsIInv ==
  ASSUME IInv, NEW r \in Run,
         run_no_type(r) \/ run_no_server(r) \/ run_no_socket(r)
  PROVE  IInv'
<1> USE DEF run_no_type, run_no_server, run_no_socket, Resume, IInv
<1>1. TypeOK'
  <2>1. UNCHANGED <<free_clients, socket, peer_id, times, idle, since_check, want,
                    client, socket_event, op, done, reply_wait, fired, unanswered>>
    BY DEF poolVars
  <2>2. phase' \in [Run -> Phase]
    BY DEF TypeOK, Phase
  <2>3. conn_wait' \in [Run -> {"off", "armed", "expired"}]
    <3>1. conn_wait \in [Run -> {"off", "armed", "expired"}]
      BY DEF TypeOK
    <3>2. conn_wait' = conn_wait \/ conn_wait' = [conn_wait EXCEPT ![r] = "armed"]
      OBVIOUS
    <3> HIDE DEF run_no_type, run_no_server, run_no_socket, IInv
    <3> QED BY <3>1, <3>2
  <2>4. result' \in [Run -> {"none", "Mod_Succeed", "Mod_Failed", "Mod_Timeout"}]
    BY DEF TypeOK
  <2> QED BY <2>1, <2>2, <2>3, <2>4 DEF TypeOK
<1>2. Pooled' = Pooled /\ Distinct' /\ ClientExclusive'
  <2>1. UNCHANGED <<free_clients, client>>
    BY DEF poolVars
  <2>2. \A q \in Run : phase'[q] = "returning" <=> phase[q] = "returning"
    BY DEF TypeOK
  <2> HIDE DEF IInv
  <2> QED BY <2>1, <2>2, SameClients
<1>3. Coupled' /\ OneResume'
  BY DEF TypeOK, Coupled, OneResume
<1>4. Answered' /\ PooledQuiet'
  BY <1>2 DEF Answered, PooledQuiet
<1>5. TimeoutIsOwn'
  BY DEF TypeOK, TimeoutIsOwn
<1> QED BY <1>1, <1>2, <1>3, <1>4, <1>5

(* A handler that ends its operation and keeps its client: the run is      *)
(* resumed or dropped.                                                     *)
LEMMA HandlerEndsIInv ==
  ASSUME IInv, NEW r \in Run,
         on_aborted(r) \/ cancel_failed(r) \/ on_failed(r)
  PROVE  IInv'
<1> USE DEF IInv
<1>1. /\ phase[r] = "waiting" /\ End(r)
      /\ UNCHANGED <<poolVars, want, client, fired, unanswered>>
      /\ \E s \in {"resumed", "dropped"} : phase' = [phase EXCEPT ![r] = s]
  BY DEF on_aborted, cancel_failed, on_failed, Handler, Resume
<1>2. TypeOK'
  <2>1. /\ conn_wait \in [Run -> {"off", "armed", "expired"}]
        /\ reply_wait \in [Run -> {"off", "armed", "expired"}]
    BY DEF TypeOK
  <2>2. /\ conn_wait' \in [Run -> {"off", "armed", "expired"}]
        /\ reply_wait' \in [Run -> {"off", "armed", "expired"}]
    <3> HIDE DEF IInv
    <3>1. \/ UNCHANGED <<conn_wait, reply_wait>>
          \/ CancelTimer(r)
      BY DEF on_aborted, cancel_failed, on_failed
    <3> QED BY <2>1, <3>1, WaitsKept
  <2>3. result' \in [Run -> {"none", "Mod_Succeed", "Mod_Failed", "Mod_Timeout"}]
    BY DEF TypeOK, on_aborted, cancel_failed, on_failed, Resume
  <2>4. phase' \in [Run -> Phase]
    BY <1>1 DEF TypeOK, Phase
  <2>5. UNCHANGED <<free_clients, socket, peer_id, times, idle, since_check, want,
                    client, fired, unanswered>>
    BY <1>1 DEF poolVars
  <2>6. /\ op' \in [Run -> {"none", "connect", "write", "head", "body"}]
        /\ done' \in [Run -> {"none", "pending", "ok", "err", "aborted"}]
        /\ socket_event' \in [Run -> {"None", "Opened", "Closed"}]
    BY <1>1 DEF TypeOK, End
  <2> QED BY <2>2, <2>3, <2>4, <2>5, <2>6 DEF TypeOK
<1>3. Pooled' = Pooled /\ Distinct' /\ ClientExclusive'
  <2>1. UNCHANGED <<free_clients, client>>
    BY <1>1 DEF poolVars
  <2>2. \A q \in Run : phase'[q] = "returning" <=> phase[q] = "returning"
    BY <1>1 DEF TypeOK
  <2> HIDE DEF IInv
  <2> QED BY <2>1, <2>2, SameClients
<1>4. Coupled' /\ OneResume'
  BY <1>1 DEF End, TypeOK, Coupled, OneResume
<1>5. Answered' /\ PooledQuiet'
  BY <1>1, <1>3 DEF End, TypeOK, Answered, PooledQuiet
<1>6. TimeoutIsOwn'
  <2>1. ASSUME NEW q \in Run, result'[q] = "Mod_Timeout", result[q] # "Mod_Timeout"
        PROVE  q = r /\ done[r] = "aborted"
    <3>1. CASE on_aborted(r)
      BY <2>1, <3>1 DEF TypeOK, on_aborted, Handler, Resume
    <3>2. CASE cancel_failed(r)
      BY <2>1, <3>2 DEF cancel_failed
    <3>3. CASE on_failed(r)
      BY <2>1, <3>3 DEF TypeOK, on_failed, Resume
    <3> QED BY <3>1, <3>2, <3>3
  <2>2. \A q \in Run : done'[q] = "aborted" => done[q] = "aborted"
    BY <1>1 DEF End, TypeOK
  <2> QED BY <1>1, <2>1, <2>2 DEF TimeoutIsOwn
<1> QED BY <1>2, <1>3, <1>4, <1>5, <1>6

(* A handler that starts the next operation on the run's client.           *)
LEMMA HandlerGoesOnIInv ==
  ASSUME IInv, NEW r \in Run,
         on_connect(r) \/ on_write_req(r) \/ on_recv_resp_head(r)
  PROVE  IInv'
<1> USE DEF IInv
<1>1. /\ phase[r] = "waiting"
      /\ \E o \in {"write", "head", "body"} : Begin(r, o)
      /\ UNCHANGED <<poolVars, phase, want, client, result, fired>>
      /\ unanswered' \subseteq unanswered \cup {client[r]}
  BY DEF on_connect, on_write_req, on_recv_resp_head, Handler, send_request
<1>2. TypeOK'
  <2>1. /\ conn_wait \in [Run -> {"off", "armed", "expired"}]
        /\ reply_wait \in [Run -> {"off", "armed", "expired"}]
    BY DEF TypeOK
  <2>2. /\ conn_wait' \in [Run -> {"off", "armed", "expired"}]
        /\ reply_wait' \in [Run -> {"off", "armed", "expired"}]
    <3> HIDE DEF IInv
    <3>1. \/ UNCHANGED <<conn_wait, reply_wait>>
          \/ ArmReply(r)
      BY DEF on_connect, on_write_req, on_recv_resp_head
    <3> QED BY <2>1, <3>1, WaitsKept
  <2>3. unanswered' \subseteq Client
    BY <1>1, WaitingAlone DEF TypeOK
  <2>4. UNCHANGED <<free_clients, socket, peer_id, times, idle, since_check, phase,
                    want, client, result, fired>>
    BY <1>1 DEF poolVars
  <2>5. /\ op' \in [Run -> {"none", "connect", "write", "head", "body"}]
        /\ done' \in [Run -> {"none", "pending", "ok", "err", "aborted"}]
        /\ socket_event' \in [Run -> {"None", "Opened", "Closed"}]
    BY <1>1 DEF TypeOK, Begin
  <2> QED BY <2>1, <2>2, <2>3, <2>4, <2>5 DEF TypeOK
<1>3. Pooled' = Pooled /\ Distinct' /\ ClientExclusive'
  <2>1. UNCHANGED <<free_clients, client, phase>>
    BY <1>1 DEF poolVars
  <2> HIDE DEF IInv
  <2> QED BY <2>1, SameClients
<1>4. Coupled' /\ OneResume' /\ TimeoutIsOwn'
  BY <1>1 DEF Begin, TypeOK, Coupled, OneResume, TimeoutIsOwn
<1>5. Answered'
  <2> SUFFICES ASSUME NEW q \in Run, op'[q] = "body", done'[q] = "ok"
               PROVE  client[q] \notin unanswered'
    BY <1>1 DEF Answered
  <2>1. q # r /\ op[q] = "body" /\ done[q] = "ok"
    BY <1>1 DEF Begin, TypeOK
  <2>2. phase[q] = "waiting"
    BY <2>1 DEF OneResume
  <2>3. client[q] # client[r]
    BY <1>1, <2>1, <2>2, WaitingAlone
  <2> QED BY <1>1, <2>1, <2>3 DEF Answered
<1>6. PooledQuiet'
  BY <1>1, <1>3, WaitingAlone DEF PooledQuiet
<1> QED BY <1>2, <1>3, <1>4, <1>5, <1>6

(* A time-out handler aborts the operation of its own run only: no other   *)
(* run with an operation has the client.                                   *)
LEMMA TimeOutIInv ==
  ASSUME IInv, NEW r \in Run, TimeOut(r)
  PROVE  IInv'
<1> USE DEF IInv
<1>1. /\ phase[r] # "returning" /\ CancelSocket(r)
      /\ conn_wait' = conn_wait \/ conn_wait' = [conn_wait EXCEPT ![r] = "off"]
      /\ reply_wait' = reply_wait \/ reply_wait' = [reply_wait EXCEPT ![r] = "off"]
  BY DEF TimeOut, on_handle_connect_time_out, on_handle_time_out, Locked
<1>2. /\ UNCHANGED <<free_clients, socket, peer_id, times, idle, since_check, phase,
                     want, client, socket_event, op, result, unanswered>>
      /\ fired' = [fired EXCEPT ![r] = TRUE]
  BY <1>1 DEF CancelSocket, poolVars
<1>3. ASSUME NEW q \in Run, done'[q] # done[q]
      PROVE  q = r /\ done[q] = "pending" /\ done'[q] = "aborted"
  <2>1. /\ client[r] # NoClient /\ client[q] = client[r]
        /\ done[q] = "pending" /\ done'[q] = "aborted"
    BY <1>1, <1>3 DEF CancelSocket, AbortOps
  <2>2. phase[q] = "waiting"
    BY <2>1 DEF OneResume
  <2>3. client[q] # NoClient /\ phase[q] # "returning"
    BY <2>1, <2>2
  <2> QED BY <1>1, <2>1, <2>3 DEF ClientExclusive
<1>4. TypeOK'
  <2>1. done' \in [Run -> {"none", "pending", "ok", "err", "aborted"}]
    BY <1>1 DEF CancelSocket, AbortOps, TypeOK
  <2>2. /\ conn_wait' \in [Run -> {"off", "armed", "expired"}]
        /\ reply_wait' \in [Run -> {"off", "armed", "expired"}]
        /\ fired' \in [Run -> BOOLEAN]
    BY <1>1, <1>2 DEF TypeOK
  <2> QED BY <1>2, <2>1, <2>2 DEF TypeOK
<1>5. Pooled' = Pooled /\ Distinct' /\ ClientExclusive'
  <2> HIDE DEF IInv
  <2> QED BY <1>2, SameClients
<1>6. Coupled' /\ PooledQuiet'
  BY <1>2, <1>5 DEF Coupled, PooledQuiet
<1>7. OneResume' /\ Answered'
  BY <1>2, <1>3 DEF OneResume, Answered
<1>8. TimeoutIsOwn'
  <2> SUFFICES ASSUME NEW q \in Run, done'[q] = "aborted" \/ result[q] = "Mod_Timeout"
               PROVE  fired'[q]
    BY <1>2 DEF TimeoutIsOwn
  <2>1. CASE q = r
    BY <1>2, <2>1 DEF TypeOK
  <2>2. CASE q # r
    <3>1. done'[q] = done[q]
      BY <1>3, <2>2
    <3>2. fired[q]
      BY <3>1 DEF TimeoutIsOwn
    <3> QED BY <1>2, <2>2, <3>2 DEF TypeOK
  <2> QED BY <2>1, <2>2
<1> QED BY <1>4, <1>5, <1>6, <1>7, <1>8

(* A timer expires.                                                        *)
LEMMA ExpireIInv ==
  ASSUME IInv, NEW r \in Run, Expire(r)
  PROVE  IInv'
<1> USE DEF IInv
<1>1. UNCHANGED <<free_clients, socket, peer_id, times, idle, since_check, phase, want,
                  client, socket_event, op, done, result, fired, unanswered>>
  BY DEF Expire, poolVars
<1>2. TypeOK'
  <2>1. /\ conn_wait' \in [Run -> {"off", "armed", "expired"}]
        /\ reply_wait' \in [Run -> {"off", "armed", "expired"}]
    BY DEF Expire, TypeOK
  <2> QED BY <1>1, <2>1 DEF TypeOK
<1>3. Pooled' = Pooled /\ Distinct' /\ ClientExclusive'
  <2> HIDE DEF IInv
  <2> QED BY <1>1, SameClients
<1>4. Coupled' /\ OneResume' /\ Answered' /\ PooledQuiet' /\ TimeoutIsOwn'
  BY <1>1, <1>3 DEF Coupled, OneResume, Answered, PooledQuiet, TimeoutIsOwn
<1> QED BY <1>2, <1>3, <1>4

(* An operation completes; the last byte of a response is its end.         *)
LEMMA CompleteIInv ==
  ASSUME IInv, NEW r \in Run, Complete(r)
  PROVE  IInv'
<1> USE DEF IInv
<1>1. /\ UNCHANGED <<free_clients, socket, peer_id, times, idle, since_check, phase, want,
                     client, socket_event, op, conn_wait, reply_wait, result, fired>>
      /\ done[r] = "pending"
      /\ \/ /\ done' = [done EXCEPT ![r] = "ok"]
            /\ unanswered' = IF op[r] = "body" THEN unanswered \ {client[r]}
                                               ELSE unanswered
         \/ done' = [done EXCEPT ![r] = "err"] /\ unanswered' = unanswered
  BY DEF Complete, poolVars
<1>2. TypeOK'
  <2>1. done' \in [Run -> {"none", "pending", "ok", "err", "aborted"}]
    <3>1. \E e \in {"ok", "err"} : done' = [done EXCEPT ![r] = e]
      BY <1>1
    <3> QED BY <3>1 DEF TypeOK
  <2>2. unanswered' \subseteq Client
    BY <1>1 DEF TypeOK
  <2> QED BY <1>1, <2>1, <2>2 DEF TypeOK
<1>3. Pooled' = Pooled /\ Distinct' /\ ClientExclusive'
  <2> HIDE DEF IInv
  <2> QED BY <1>1, SameClients
<1>4. Coupled' /\ PooledQuiet'
  BY <1>1, <1>3 DEF Coupled, PooledQuiet
<1>5. OneResume' /\ TimeoutIsOwn'
  BY <1>1 DEF OneResume, TimeoutIsOwn, TypeOK
<1>6. Answered'
  BY <1>1 DEF Answered, TypeOK
<1> QED BY <1>2, <1>3, <1>4, <1>5, <1>6

(* The response head is refused: the client is closed, which aborts        *)
(* nobody else's operation.                                                *)
LEMMA ReadHeadFailedIInv ==
  ASSUME IInv, NEW r \in Run, on_read_head_failed(r)
  PROVE  IInv'
<1> USE DEF IInv
<1>1. /\ phase[r] = "waiting"
      /\ UNCHANGED <<free_clients, peer_id, times, idle, since_check, want, client,
                     fired, unanswered>>
      /\ socket' = [socket EXCEPT ![client[r]] = "closed"]
      /\ phase' = [phase EXCEPT ![r] = "resumed"]
      /\ op' = [op EXCEPT ![r] = "none"]
      /\ socket_event' = [socket_event EXCEPT ![r] = "Closed"]
      /\ result' = [result EXCEPT ![r] = "Mod_Failed"]
  BY DEF on_read_head_failed, Handler, Resume, close
<1>2. done' = [done EXCEPT ![r] = "none"]
  <2>1. ASSUME NEW q \in Run, q # r, client[q] = client[r]
        PROVE  done[q] # "pending"
    BY <1>1, <2>1, WaitingAlone DEF OneResume
  <2>2. done' = [AbortOps(client[r]) EXCEPT ![r] = "none"]
    BY DEF on_read_head_failed
  <2> QED BY <2>1, <2>2 DEF AbortOps, TypeOK
<1>3. TypeOK'
  <2>1. socket' \in [Client -> {"open", "broken", "closed"}]
    BY <1>1 DEF TypeOK
  <2>2. /\ phase' \in [Run -> Phase]
        /\ op' \in [Run -> {"none", "connect", "write", "head", "body"}]
        /\ done' \in [Run -> {"none", "pending", "ok", "err", "aborted"}]
        /\ socket_event' \in [Run -> {"None", "Opened", "Closed"}]
        /\ result' \in [Run -> {"none", "Mod_Succeed", "Mod_Failed", "Mod_Timeout"}]
    BY <1>1, <1>2 DEF TypeOK, Phase
  <2>3. /\ conn_wait' \in [Run -> {"off", "armed", "expired"}]
        /\ reply_wait' \in [Run -> {"off", "armed", "expired"}]
    <3>1. /\ conn_wait \in [Run -> {"off", "armed", "expired"}]
          /\ reply_wait \in [Run -> {"off", "armed", "expired"}]
      BY DEF TypeOK
    <3>2. CancelTimer(r)
      BY DEF on_read_head_failed
    <3> HIDE DEF IInv
    <3> QED BY <3>1, <3>2, WaitsKept
  <2> QED BY <1>1, <2>1, <2>2, <2>3 DEF TypeOK
<1>4. Pooled' = Pooled /\ Distinct' /\ ClientExclusive'
  <2>1. \A q \in Run : phase'[q] = "returning" <=> phase[q] = "returning"
    BY <1>1 DEF TypeOK
  <2> HIDE DEF IInv
  <2> QED BY <1>1, <2>1, SameClients
<1>5. Coupled' /\ OneResume'
  BY <1>1, <1>2 DEF Coupled, OneResume, TypeOK
<1>6. Answered' /\ PooledQuiet' /\ TimeoutIsOwn'
  BY <1>1, <1>2, <1>4 DEF Answered, PooledQuiet, TimeoutIsOwn, TypeOK
<1> QED BY <1>3, <1>4, <1>5, <1>6

(* get_client takes the client it returns out of the pool, so that nobody  *)
(* else has it; the request is then written on it.                         *)
LEMMA RunIInv ==
  ASSUME IInv, NEW r \in Run, NEW p \in Peer, run(r, p)
  PROVE  IInv'
<1> USE DEF IInv
<1> DEFINE c == GetResult(p)
<1>1. /\ phase[r] = "idle" /\ get_client(p)
      /\ client' = [client EXCEPT ![r] = c]
      /\ want' = [want EXCEPT ![r] = p]
      /\ UNCHANGED <<result, fired>>
  BY DEF run
<1>2. /\ free_clients' \in [Peer -> Seq(Client)]
      /\ Distinct'
      /\ Pooled' \subseteq Pooled
      /\ c = NoClient \/ c \in Pooled \ Pooled'
  BY <1>1, GetClientPool DEF TypeOK
<1>3. Pooled \subseteq Client
  BY PooledIsClient DEF TypeOK
<1>4. /\ c # NoClient =>
           /\ phase' = [phase EXCEPT ![r] = "waiting"]
           /\ op' = [op EXCEPT ![r] = "write"]
           /\ done' = [done EXCEPT ![r] = "pending"]
           /\ socket_event' = [socket_event EXCEPT ![r] = "Opened"]
           /\ unanswered' = unanswered \cup {c}
           /\ ArmReply(r)
      /\ c = NoClient =>
           /\ phase' = [phase EXCEPT ![r] = "connecting"]
           /\ UNCHANGED <<socket_event, op, done, conn_wait, reply_wait, unanswered>>
  BY DEF run, send_request, Begin
<1> HIDE DEF c
<1>5. TypeOK'
  <2>1. /\ socket' \in [Client -> {"open", "broken", "closed"}]
        /\ peer_id' \in [Client -> Peer]
        /\ since_check' \in 0..CheckTime
    BY <1>1 DEF TypeOK, get_client
  <2>2. times' \in [Client -> Nat] /\ idle' \in [Client -> Nat]
    BY <1>1 DEF TypeOK, get_client
  <2>3. /\ client' \in [Run -> Client \cup {NoClient}]
        /\ want' \in [Run -> Peer \cup {NoPeer}]
        /\ unanswered' \subseteq Client
    BY <1>1, <1>2, <1>3, <1>4 DEF TypeOK
  <2>4. phase' \in [Run -> Phase]
    <3>1. \E s \in Phase : phase' = [phase EXCEPT ![r] = s]
      BY <1>4 DEF Phase
    <3> QED BY <3>1 DEF TypeOK
  <2>5. /\ op' \in [Run -> {"none", "connect", "write", "head", "body"}]
        /\ done' \in [Run -> {"none", "pending", "ok", "err", "aborted"}]
        /\ socket_event' \in [Run -> {"None", "Opened", "Closed"}]
    <3>1. /\ op' = op \/ op' = [op EXCEPT ![r] = "write"]
          /\ done' = done \/ done' = [done EXCEPT ![r] = "pending"]
          /\ socket_event' = socket_event \/ socket_event' = [socket_event EXCEPT ![r] = "Opened"]
      BY <1>4
    <3>2. op' \in [Run -> {"none", "connect", "write", "head", "body"}]
      BY <3>1 DEF TypeOK
    <3>3. done' \in [Run -> {"none", "pending", "ok", "err", "aborted"}]
      BY <3>1 DEF TypeOK
    <3>4. socket_event' \in [Run -> {"None", "Opened", "Closed"}]
      BY <3>1 DEF TypeOK
    <3> QED BY <3>2, <3>3, <3>4
  <2>6. /\ conn_wait' \in [Run -> {"off", "armed", "expired"}]
        /\ reply_wait' \in [Run -> {"off", "armed", "expired"}]
    <3>1. ArmReply(r) \/ UNCHANGED <<conn_wait, reply_wait>>
      BY <1>4
    <3>2. conn_wait' \in [Run -> {"off", "armed", "expired"}]
      <4>1. Disarm(conn_wait[r]) \in {"off", "armed", "expired"}
        BY DEF TypeOK, Disarm
      <4>2. \/ conn_wait' = conn_wait
            \/ conn_wait' = [conn_wait EXCEPT ![r] = Disarm(conn_wait[r])]
        BY <3>1 DEF ArmReply
      <4> QED BY <4>1, <4>2 DEF TypeOK
    <3>3. reply_wait' \in [Run -> {"off", "armed", "expired"}]
      BY <3>1 DEF TypeOK, ArmReply
    <3> QED BY <3>2, <3>3
  <2> QED BY <1>1, <1>2, <2>1, <2>2, <2>3, <2>4, <2>5, <2>6 DEF TypeOK
<1>6. Coupled'
  BY <1>1, <1>4 DEF Coupled, TypeOK
<1>7. ASSUME NEW q \in Run, c # NoClient, client[q] = c
      PROVE  phase[q] = "returning"
  BY <1>2, <1>7 DEF ClientExclusive
<1>8. \A q \in Run : q # r => client'[q] = client[q] /\ phase'[q] = phase[q]
  BY <1>1, <1>4 DEF TypeOK
<1>9. client'[r] = c /\ phase'[r] # "returning"
  BY <1>1, <1>4 DEF TypeOK
<1>10. ClientExclusive'
  <2> SUFFICES ASSUME NEW q \in Run, client'[q] # NoClient, phase'[q] # "returning"
               PROVE  /\ client'[q] \notin Pooled'
                      /\ \A s \in Run : client'[s] = client'[q]
                                          => s = q \/ phase'[s] = "returning"
    BY DEF ClientExclusive
  <2>1. CASE q = r
    BY <1>2, <1>7, <1>8, <1>9, <2>1
  <2>2. CASE q # r
    <3>1. client[q] # c
      BY <1>7, <1>8, <2>2
    <3> QED BY <1>2, <1>8, <1>9, <2>2, <3>1 DEF ClientExclusive
  <2> QED BY <2>1, <2>2
<1>11. OneResume'
  <2>1. CASE c # NoClient
    <3>1. phase'[r] = "waiting" /\ op'[r] = "write" /\ done'[r] = "pending"
          /\ socket_event'[r] = "Opened"
      BY <1>4, <2>1 DEF TypeOK
    <3>2. \A q \in Run : q # r => /\ op'[q] = op[q] /\ done'[q] = done[q]
                                 /\ socket_event'[q] = socket_event[q]
      BY <1>4, <2>1 DEF TypeOK
    <3> QED BY <1>8, <3>1, <3>2 DEF OneResume
  <2>2. CASE c = NoClient
    BY <1>1, <1>4, <2>2 DEF OneResume, TypeOK
  <2> QED BY <2>1, <2>2
<1>12. Answered'
  <2> SUFFICES ASSUME NEW q \in Run, op'[q] = "body", done'[q] = "ok"
               PROVE  client'[q] \notin unanswered'
    BY DEF Answered
  <2>1. q # r /\ op[q] = "body" /\ done[q] = "ok"
    <3>1. CASE c # NoClient
      BY <1>4, <3>1 DEF TypeOK
    <3>2. CASE c = NoClient
      BY <1>1, <1>4, <3>2 DEF OneResume
    <3> QED BY <3>1, <3>2
  <2>2. client[q] # c
    BY <1>6, <1>7, <2>1 DEF OneResume, Coupled
  <2> QED BY <1>4, <1>8, <2>1, <2>2 DEF Answered
<1>13. PooledQuiet'
  BY <1>2, <1>4 DEF PooledQuiet
<1>14. TimeoutIsOwn'
  BY <1>1, <1>4 DEF TimeoutIsOwn, TypeOK
<1> QED BY <1>2, <1>5, <1>6, <1>10, <1>11, <1>12, <1>13, <1>14

(* A new client is one that nobody points to.                              *)
LEMMA RunConnectIInv ==
  ASSUME IInv, NEW r \in Run, NEW c \in Client, run_connect(r, c)
  PROVE  IInv'
<1> USE DEF IInv
<1>1. /\ phase[r] = "connecting"
      /\ c \notin Pooled
      /\ \A q \in Run : client[q] # c
  BY DEF run_connect, Held
<1>2. /\ UNCHANGED <<free_clients, idle, since_check, want, reply_wait, result, fired>>
      /\ socket' = [socket EXCEPT ![c] = "open"]
      /\ peer_id' = [peer_id EXCEPT ![c] = want[r]]
      /\ times' = [times EXCEPT ![c] = 0]
  BY DEF run_connect, Construct
<1>3. /\ client' = [client EXCEPT ![r] = c]
      /\ conn_wait' = [conn_wait EXCEPT ![r] = "armed"]
      /\ phase' = [phase EXCEPT ![r] = "waiting"]
      /\ op' = [op EXCEPT ![r] = "connect"]
      /\ done' = [done EXCEPT ![r] = "pending"]
      /\ socket_event' = [socket_event EXCEPT ![r] = "Opened"]
      /\ unanswered' = unanswered \ {c}
  BY DEF run_connect, Begin
<1>4. TypeOK'
  <2>1. /\ socket' \in [Client -> {"open", "broken", "closed"}]
        /\ peer_id' \in [Client -> Peer]
        /\ times' \in [Client -> Nat]
    BY <1>1, <1>2 DEF TypeOK, Coupled
  <2>2. /\ client' \in [Run -> Client \cup {NoClient}]
        /\ conn_wait' \in [Run -> {"off", "armed", "expired"}]
        /\ phase' \in [Run -> Phase]
        /\ unanswered' \subseteq Client
    BY <1>3 DEF TypeOK, Phase
  <2>3. /\ op' \in [Run -> {"none", "connect", "write", "head", "body"}]
        /\ done' \in [Run -> {"none", "pending", "ok", "err", "aborted"}]
        /\ socket_event' \in [Run -> {"None", "Opened", "Closed"}]
    BY <1>3 DEF TypeOK
  <2> QED BY <1>2, <2>1, <2>2, <2>3 DEF TypeOK
<1>5. Pooled' = Pooled /\ Distinct'
  BY <1>2 DEF Pooled, Distinct
<1>6. c # NoClient
  BY NoClientAssumption
<1>7. \A q \in Run : q # r => client'[q] = client[q] /\ phase'[q] = phase[q]
  BY <1>3 DEF TypeOK
<1>8. client'[r] = c /\ phase'[r] = "waiting"
  BY <1>3 DEF TypeOK
<1>9. Coupled'
  BY <1>2, <1>6, <1>7, <1>8 DEF Coupled
<1>10. ClientExclusive'
  BY <1>1, <1>5, <1>7, <1>8 DEF ClientExclusive
<1>11. OneResume'
  BY <1>3 DEF OneResume, TypeOK
<1>12. Answered' /\ TimeoutIsOwn'
  BY <1>2, <1>3 DEF Answered, TimeoutIsOwn, TypeOK
<1>13. PooledQuiet'
  BY <1>3, <1>5 DEF PooledQuiet
<1> QED BY <1>4, <1>5, <1>9, <1>10, <1>11, <1>12, <1>13

(* A client is returned when its response has been read to the end, and    *)
(* from then on its former user does not touch it.                         *)
LEMMA RecvRespBodyIInv ==
  ASSUME IInv, NEW r \in Run, on_recv_resp_body(r)
  PROVE  IInv'
<1> USE DEF IInv
<1> DEFINE c == client[r]
<1>1. /\ phase[r] = "waiting" /\ op[r] = "body" /\ done[r] = "ok"
      /\ recollect(c) /\ CancelTimer(r) /\ End(r)
      /\ phase' = [phase EXCEPT ![r] = "returning"]
      /\ UNCHANGED <<want, client, result, fired, unanswered>>
  BY DEF on_recv_resp_body, Handler
<1>2. c \in Client /\ c \notin Pooled
      /\ \A q \in Run : client[q] = c /\ phase[q] # "returning" => q = r
  BY <1>1, WaitingAlone
<1>3. /\ free_clients' \in [Peer -> Seq(Client)]
      /\ Distinct'
      /\ Pooled' = Pooled \cup {c}
  BY <1>1, <1>2, RecollectPool DEF TypeOK
<1>4. /\ UNCHANGED <<socket, peer_id, times, since_check>>
      /\ idle' = [idle EXCEPT ![c] = 0]
  BY <1>1 DEF recollect
<1>5. TypeOK'
  <2>1. idle' \in [Client -> Nat] /\ phase' \in [Run -> Phase]
    BY <1>1, <1>4 DEF TypeOK, Phase
  <2>2. /\ op' \in [Run -> {"none", "connect", "write", "head", "body"}]
        /\ done' \in [Run -> {"none", "pending", "ok", "err", "aborted"}]
        /\ socket_event' \in [Run -> {"None", "Opened", "Closed"}]
    BY <1>1 DEF TypeOK, End
  <2>3. /\ conn_wait' \in [Run -> {"off", "armed", "expired"}]
        /\ reply_wait' \in [Run -> {"off", "armed", "expired"}]
    <3>1. /\ conn_wait \in [Run -> {"off", "armed", "expired"}]
          /\ reply_wait \in [Run -> {"off", "armed", "expired"}]
      BY DEF TypeOK
    <3> HIDE DEF IInv
    <3> QED BY <1>1, <3>1, WaitsKept
  <2> QED BY <1>1, <1>3, <1>4, <2>1, <2>2, <2>3 DEF TypeOK
<1> HIDE DEF c
<1>6. client'[r] = c /\ phase'[r] = "returning"
  BY <1>1 DEF TypeOK, c
<1>7. \A q \in Run : q # r => client'[q] = client[q] /\ phase'[q] = phase[q]
  BY <1>1 DEF TypeOK
<1>8. Coupled'
  BY <1>1, <1>6, <1>7 DEF Coupled, c
<1>9. ClientExclusive'
  BY <1>2, <1>3, <1>6, <1>7 DEF ClientExclusive
<1>10. OneResume'
  BY <1>1 DEF End, OneResume, TypeOK
<1>11. Answered' /\ TimeoutIsOwn'
  BY <1>1 DEF End, Answered, TimeoutIsOwn, TypeOK
<1>12. PooledQuiet'
  <2>1. c \notin unanswered
    BY <1>1 DEF Answered, c
  <2> QED BY <1>1, <1>3, <2>1 DEF PooledQuiet
<1> QED BY <1>3, <1>5, <1>8, <1>9, <1>10, <1>11, <1>12

(* client_.reset().                                                        *)
LEMMA ResetIInv ==
  ASSUME IInv, NEW r \in Run, on_recv_resp_body_reset(r)
  PROVE  IInv'
<1> USE DEF IInv
<1>1. /\ phase[r] = "returning"
      /\ client' = [client EXCEPT ![r] = NoClient]
      /\ phase' = [phase EXCEPT ![r] = "resumed"]
      /\ \E s \in {"Mod_Succeed", "Mod_Failed"} : result' = [result EXCEPT ![r] = s]
      /\ UNCHANGED <<free_clients, socket, peer_id, times, idle, since_check, want,
                     socket_event, op, done, conn_wait, reply_wait, fired, unanswered>>
  BY DEF on_recv_resp_body_reset, Resume, poolVars
<1>2. TypeOK'
  <2>1. /\ client' \in [Run -> Client \cup {NoClient}]
        /\ phase' \in [Run -> Phase]
    BY <1>1 DEF TypeOK, Phase
  <2>2. result' \in [Run -> {"none", "Mod_Succeed", "Mod_Failed", "Mod_Timeout"}]
    BY <1>1 DEF TypeOK
  <2> QED BY <1>1, <2>1, <2>2 DEF TypeOK
<1>3. Pooled' = Pooled /\ Distinct'
  BY <1>1 DEF Pooled, Distinct
<1>4. client'[r] = NoClient /\ phase'[r] = "resumed"
  BY <1>1 DEF TypeOK
<1>5. \A q \in Run : q # r => client'[q] = client[q] /\ phase'[q] = phase[q]
  BY <1>1 DEF TypeOK
<1>6. Coupled' /\ OneResume'
  BY <1>1, <1>4, <1>5 DEF Coupled, OneResume
<1>7. ClientExclusive'
  BY <1>3, <1>4, <1>5 DEF ClientExclusive
<1>8. PooledQuiet'
  BY <1>1, <1>3 DEF PooledQuiet
<1>9. Answered'
  BY <1>1, <1>5 DEF Answered, OneResume
<1>10. TimeoutIsOwn'
  BY <1>1 DEF TimeoutIsOwn, TypeOK
<1> QED BY <1>2, <1>3, <1>6, <1>7, <1>8, <1>9, <1>10

(* The context goes away, and with it a client that was not returned.      *)
LEMMA FreeIInv ==
  ASSUME IInv, NEW r \in Run, Free(r)
  PROVE  IInv'
<1> USE DEF IInv
<1>1. /\ phase[r] \in {"resumed", "dropped"}
      /\ phase' = [phase EXCEPT ![r] = "idle"]
      /\ want' = [want EXCEPT ![r] = NoPeer]
      /\ client' = [client EXCEPT ![r] = NoClient]
      /\ socket_event' = [socket_event EXCEPT ![r] = "None"]
      /\ result' = [result EXCEPT ![r] = "none"]
      /\ fired' = [fired EXCEPT ![r] = FALSE]
      /\ unanswered' = unanswered \ {client[r]}
      /\ UNCHANGED <<op, done, conn_wait, reply_wait>>
  BY DEF Free
<1>2. /\ UNCHANGED <<free_clients, peer_id, times, idle, since_check>>
      /\ \/ socket' = socket
         \/ socket' = [socket EXCEPT ![client[r]] = "closed"]
  BY DEF Free, poolVars, close
<1>3. TypeOK'
  <2>1. socket' \in [Client -> {"open", "broken", "closed"}]
    BY <1>2 DEF TypeOK
  <2>2. /\ phase' \in [Run -> Phase]
        /\ want' \in [Run -> Peer \cup {NoPeer}]
        /\ client' \in [Run -> Client \cup {NoClient}]
    BY <1>1 DEF TypeOK, Phase
  <2>3. /\ socket_event' \in [Run -> {"None", "Opened", "Closed"}]
        /\ result' \in [Run -> {"none", "Mod_Succeed", "Mod_Failed", "Mod_Timeout"}]
        /\ fired' \in [Run -> BOOLEAN]
        /\ unanswered' \subseteq Client
    BY <1>1 DEF TypeOK
  <2> QED BY <1>1, <1>2, <2>1, <2>2, <2>3 DEF TypeOK
<1>4. Pooled' = Pooled /\ Distinct'
  BY <1>2 DEF Pooled, Distinct
<1>5. client'[r] = NoClient /\ phase'[r] = "idle"
  BY <1>1 DEF TypeOK
<1>6. \A q \in Run : q # r => client'[q] = client[q] /\ phase'[q] = phase[q]
                              /\ want'[q] = want[q]
  BY <1>1 DEF TypeOK
<1>7. Coupled'
  BY <1>5, <1>6 DEF Coupled
<1>8. OneResume'
  BY <1>1 DEF OneResume, TypeOK
<1>9. ClientExclusive'
  BY <1>4, <1>5, <1>6 DEF ClientExclusive
<1>10. PooledQuiet'
  BY <1>1, <1>4 DEF PooledQuiet
<1>11. Answered'
  BY <1>1, <1>6 DEF Answered, OneResume
<1>12. TimeoutIsOwn'
  <2> SUFFICES ASSUME NEW q \in Run, done'[q] = "aborted" \/ result'[q] = "Mod_Timeout"
               PROVE  fired'[q]
    BY DEF TimeoutIsOwn
  <2>1. q # r
    BY <1>1 DEF OneResume, TypeOK
  <2> QED BY <1>1, <2>1 DEF TimeoutIsOwn, TypeOK
<1> QED BY <1>3, <1>4, <1>7, <1>8, <1>9, <1>10, <1>11, <1>12

(* The pool's own steps add no client to it.                               *)
LEMMA PoolIInv ==
  ASSUME IInv, Pool
  PROVE  IInv'
<1> USE DEF IInv
<1>1. UNCHANGED <<phase, want, client, socket_event, op, done, conn_wait, reply_wait,
                  result, fired, unanswered>>
  BY DEF Pool, runVars
<1>2. /\ free_clients' \in [Peer -> Seq(Client)]
      /\ Distinct'
      /\ Pooled' \subseteq Pooled
  <2>1. CASE check_clients
    BY <2>1, CheckClientsPool DEF TypeOK
  <2>2. CASE free_clients' = free_clients
    BY <2>2 DEF TypeOK, Distinct, Pooled
  <2> QED BY <2>1, <2>2 DEF Pool, Tick, PeerCloses
<1>3. TypeOK'
  <2>1. /\ socket' \in [Client -> {"open", "broken", "closed"}]
        /\ peer_id' \in [Client -> Peer]
        /\ times' \in [Client -> Nat]
        /\ idle' \in [Client -> Nat]
        /\ since_check' \in 0..CheckTime
    <3>1. CASE check_clients
      BY <3>1, CheckTimeAssumption DEF check_clients, TypeOK
    <3>2. CASE Tick
      BY <3>2, CheckTimeAssumption DEF Tick, TypeOK
    <3>3. CASE \E c \in Client : PeerCloses(c)
      BY <3>3 DEF PeerCloses, TypeOK
    <3> QED BY <3>1, <3>2, <3>3 DEF Pool
  <2> QED BY <1>1, <1>2, <2>1 DEF TypeOK
<1>4. Coupled' /\ OneResume' /\ Answered' /\ TimeoutIsOwn'
  BY <1>1 DEF Coupled, OneResume, Answered, TimeoutIsOwn
<1>5. ClientExclusive' /\ PooledQuiet'
  BY <1>1, <1>2 DEF ClientExclusive, PooledQuiet
<1> QED BY <1>2, <1>3, <1>4, <1>5
-----------------------------------------------------------------------------
(* Every step of a run, of its handlers and of the pool preserves the      *)
(* invariant.                                                              *)
LEMMA NextIInv == IInv /\ [Next]_vars => IInv'
<1> SUFFICES ASSUME IInv, [Next]_vars PROVE IInv'
  OBVIOUS
<1>1. CASE UNCHANGED vars
  <2>1. UNCHANGED <<free_clients, socket, peer_id, times, idle, since_check, phase, want,
                    client, socket_event, op, done, conn_wait, reply_wait, result,
                    fired, unanswered>>
    BY <1>1 DEF vars, poolVars, runVars
  <2>2. Pooled' = Pooled
    BY <2>1 DEF Pooled
  <2> QED BY <2>1, <2>2 DEF IInv, TypeOK, Distinct, Coupled, ClientExclusive,
             OneResume, Answered, PooledQuiet, TimeoutIsOwn
<1>2. CASE Pool
  BY <1>2, PoolIInv
<1>3. ASSUME NEW r \in Run,
             \/ run_no_type(r)
             \/ \E p \in Peer : run(r, p)
             \/ TimeOut(r)
             \/ Expire(r)
             \/ Complete(r)
             \/ Free(r)
      PROVE  IInv'
  BY <1>3, RunFailsIInv, RunIInv, TimeOutIInv, ExpireIInv, CompleteIInv, FreeIInv
<1>4. ASSUME NEW r \in Run, Handle(r)
      PROVE  IInv'
  <2>1. CASE \E c \in Client : run_connect(r, c)
    BY <2>1, RunConnectIInv
  <2>2. CASE run_no_server(r) \/ run_no_socket(r)
    BY <2>2, RunFailsIInv
  <2>3. CASE on_aborted(r) \/ cancel_failed(r) \/ on_failed(r)
    BY <2>3, HandlerEndsIInv
  <2>4. CASE on_connect(r) \/ on_write_req(r) \/ on_recv_resp_head(r)
    BY <2>4, HandlerGoesOnIInv
  <2>5. CASE on_read_head_failed(r)
    BY <2>5, ReadHeadFailedIInv
  <2>6. CASE on_recv_resp_body(r)
    BY <2>6, RecvRespBodyIInv
  <2>7. CASE on_recv_resp_body_reset(r)
    BY <2>7, ResetIInv
  <2> QED BY <1>4, <2>1, <2>2, <2>3, <2>4, <2>5, <2>6, <2>7 DEF Handle
<1> QED BY <1>1, <1>2, <1>3, <1>4 DEF Next

(* The inductive invariant holds in every reachable state, whether the     *)
(* backend answers or not: no fairness is used.                            *)
LEMMA Inductive == SilentSpec => []IInv
BY InitIInv, NextIInv, PTL DEF SilentSpec

(* Every variable of the module and of the pool keeps its type.            *)
THEOREM TypeCorrect == SilentSpec => []TypeOK
<1>1. IInv => TypeOK
  BY DEF IInv
<1> QED BY <1>1, Inductive, PTL

(* Two runs never use the same connection, and none uses a pooled one, for *)
(* any number of runs, clients and peers.                                  *)
THEOREM Exclusive == SilentSpec => []ClientExclusive
<1>1. IInv => ClientExclusive
  BY DEF IInv
<1> QED BY <1>1, Inductive, PTL

(* No client waits in the pool with a response still to come.              *)
THEOREM Quiet == SilentSpec => []PooledQuiet
<1>1. IInv => PooledQuiet
  BY DEF IInv
<1> QED BY <1>1, Inductive, PTL

(* A run is timed out by a time-out of its own only.                       *)
THEOREM OwnTimeout == SilentSpec => []TimeoutIsOwn
<1>1. IInv => TimeoutIsOwn
  BY DEF IInv
<1> QED BY <1>1, Inductive, PTL

(* The Fsm is resumed at most once by a run.                               *)
THEOREM ResumedOnce == SilentSpec => []OneResume
<1>1. IInv => OneResume
  BY DEF IInv
<1> QED BY <1>1, Inductive, PTL
-----------------------------------------------------------------------------
(* The operators of the pool that ClientLease uses are the pool's.         *)
LEMMA LeasePool ==
  /\ Lease!Pooled = Pooled
  /\ Lease!PoolInit <=> PoolInit
  /\ Lease!poolVars = poolVars
  /\ Lease!Tick <=> Tick
  /\ Lease!check_clients <=> check_clients
<1>1. Lease!Pooled = Pooled
  BY DEF Lease!Pooled, Lease!Elems, Pooled, Elems
<1>2. Lease!PoolInit <=> PoolInit
  BY DEF Lease!PoolInit, PoolInit
<1>3. Lease!poolVars = poolVars
  BY DEF Lease!poolVars, poolVars
<1>4. Lease!Tick <=> Tick
  BY <1>1 DEF Lease!Tick, Tick
<1>5. Lease!check_clients <=> check_clients
  <2>1. \A q : Lease!Kept(q) = Kept(q)
    BY DEF Lease!Kept, Kept, Lease!KeptAt, KeptAt, Lease!Rank, Rank, Lease!Keep, Keep,
           Lease!Cardinality, Cardinality
  <2> QED BY <1>1, <2>1 DEF Lease!check_clients, check_clients, Lease!Keep, Keep
<1> QED BY <1>1, <1>2, <1>3, <1>4, <1>5

(* So are get_client and what it returns.                                  *)
LEMMA LeaseGet ==
  ASSUME NEW p \in Peer
  PROVE  /\ Lease!GetResult(p) = GetResult(p)
         /\ Lease!get_client(p) <=> get_client(p)
<1>1. \A q : Lease!UsableAt(q) = UsableAt(q)
  BY DEF Lease!UsableAt, UsableAt, Lease!Usable, Usable, Lease!UsedUp, UsedUp
<1>2. \A q : Lease!PopCount(q) = PopCount(q)
  BY DEF Lease!PopCount, PopCount, Lease!UsableAt, UsableAt, Lease!Usable, Usable,
         Lease!UsedUp, UsedUp
<1>3. Lease!GetResult(p) = GetResult(p)
  BY <1>1, <1>2 DEF Lease!GetResult, GetResult
<1>4. Lease!Popped(p) = Popped(p) /\ Lease!Remaining(p) = Remaining(p)
  BY <1>2 DEF Lease!Popped, Popped, Lease!Remaining, Remaining
<1>5. Lease!get_client(p) <=> get_client(p)
  BY <1>3, <1>4 DEF Lease!get_client, get_client
<1> QED BY <1>3, <1>5

(* And the operations on one client.                                       *)
LEMMA LeaseClient ==
  ASSUME NEW c \in Client, NEW p \in Peer
  PROVE  /\ Lease!recollect(c) <=> recollect(c)
         /\ Lease!close(c) <=> close(c)
         /\ Lease!PeerCloses(c) <=> PeerCloses(c)
         /\ Lease!Construct(c, p) <=> Construct(c, p)
<1>1. Lease!recollect(c) <=> recollect(c)
  BY DEF Lease!recollect, recollect
<1>2. Lease!close(c) <=> close(c)
  BY DEF Lease!close, close
<1>3. Lease!PeerCloses(c) <=> PeerCloses(c)
  BY DEF Lease!PeerCloses, PeerCloses
<1>4. Lease!Construct(c, p) <=> Construct(c, p)
  BY DEF Lease!Construct, Construct
<1> QED BY <1>1, <1>2, <1>3, <1>4

(* A client is in use if and only if a run has it and is not returning it. *)
LEMMA InUseHolder ==
  /\ \A c : c \in InUse
       <=> c # NoClient /\ \E r \in Run : phase[r] # "returning" /\ client[r] = c
  /\ \A c : c \in InUse'
       <=> c # NoClient /\ \E r \in Run : phase'[r] # "returning" /\ client'[r] = c
BY DEF InUse

(* Steps that neither the pool nor its users' clients notice.              *)
LEMMA StutterLease ==
  ASSUME IInv, NEW r \in Run,
         \/ run_no_type(r) \/ run_no_server(r) \/ run_no_socket(r)
         \/ on_aborted(r) \/ cancel_failed(r) \/ on_failed(r)
         \/ on_connect(r) \/ on_write_req(r) \/ on_recv_resp_head(r)
         \/ on_recv_resp_body_reset(r) \/ TimeOut(r) \/ Expire(r) \/ Complete(r)
  PROVE  UNCHANGED Lease!vars
<1>1. UNCHANGED poolVars
  BY DEF run_no_type, run_no_server, run_no_socket, on_aborted, cancel_failed, on_failed,
         on_connect, on_write_req, on_recv_resp_head, on_recv_resp_body_reset, TimeOut,
         on_handle_connect_time_out, on_handle_time_out, CancelSocket, Expire, Complete
<1>2. InUse' = InUse
  <2>1. CASE on_recv_resp_body_reset(r)
    <3>1. /\ phase[r] = "returning" /\ client'[r] = NoClient
          /\ \A q \in Run : q # r => client'[q] = client[q] /\ phase'[q] = phase[q]
      BY <2>1 DEF on_recv_resp_body_reset, Resume, IInv, TypeOK
    <3>2. \A c : c \in InUse' <=> c \in InUse
      BY <3>1, InUseHolder
    <3> QED BY <3>2
  <2>2. CASE ~on_recv_resp_body_reset(r)
    <3>1. UNCHANGED <<free_clients, client>>
      BY <1>1, <2>2
         DEF poolVars, run_no_type, run_no_server, run_no_socket, on_aborted,
             cancel_failed, on_failed, on_connect, on_write_req, on_recv_resp_head,
             TimeOut, on_handle_connect_time_out, on_handle_time_out, CancelSocket,
             Expire, Complete
    <3>2. \/ phase' = phase
          \/ /\ phase[r] # "returning"
             /\ \E s \in {"resumed", "dropped"} : phase' = [phase EXCEPT ![r] = s]
      BY <2>2
         DEF run_no_type, run_no_server, run_no_socket, on_aborted, cancel_failed,
             on_failed, on_connect, on_write_req, on_recv_resp_head, TimeOut, Handler,
             on_handle_connect_time_out, on_handle_time_out, CancelSocket, Expire,
             Complete, Resume
    <3>3. \A q \in Run : phase'[q] = "returning" <=> phase[q] = "returning"
      BY <3>2 DEF IInv, TypeOK
    <3> QED BY <3>1, <3>3, SameClients
  <2> QED BY <2>1, <2>2
<1> QED BY <1>1, <1>2, LeasePool DEF Lease!vars, poolVars, Lease!poolVars

(* run: the client that get_client returns is in use from then on.         *)
LEMMA RunLease ==
  ASSUME IInv, NEW r \in Run, NEW p \in Peer, run(r, p)
  PROVE  Lease!GetClient(p)
<1>1. /\ get_client(p) /\ phase[r] = "idle" /\ client[r] = NoClient
      /\ client'[r] = GetResult(p) /\ phase'[r] # "returning"
      /\ \A q \in Run : q # r => client'[q] = client[q] /\ phase'[q] = phase[q]
  BY DEF run, IInv, TypeOK, Coupled
<1>2. \A c : c \in InUse' <=> c \in InUse \cup ({GetResult(p)} \ {NoClient})
  BY <1>1, InUseHolder
<1>3. InUse' = InUse \cup ({GetResult(p)} \ {NoClient})
  BY <1>2
<1> QED BY <1>1, <1>3, LeaseGet DEF Lease!GetClient

(* run_connect: the new client is in use by its run.                       *)
LEMMA RunConnectLease ==
  ASSUME IInv, NEW r \in Run, NEW c \in Client, run_connect(r, c)
  PROVE  want[r] \in Peer /\ Lease!NewClient(c, want[r])
<1>1. /\ phase[r] = "connecting" /\ client[r] = NoClient /\ want[r] \in Peer
      /\ socket[c] = "closed" /\ c \notin Pooled /\ \A q \in Run : client[q] # c
      /\ Construct(c, want[r])
  BY DEF run_connect, Held, IInv, Coupled
<1>2. /\ client'[r] = c /\ phase'[r] # "returning"
      /\ \A q \in Run : q # r => client'[q] = client[q] /\ phase'[q] = phase[q]
  BY DEF run_connect, IInv, TypeOK
<1>3. \A d : d \in InUse' <=> d \in InUse \cup {c}
  BY <1>1, <1>2, InUseHolder, NoClientAssumption
<1>4. InUse' = InUse \cup {c} /\ c \notin InUse
  BY <1>1, <1>3, InUseHolder
<1> QED BY <1>1, <1>4, LeasePool, LeaseClient DEF Lease!NewClient

(* on_recv_resp_head: a client is closed by the run that uses it.          *)
LEMMA ReadHeadFailedLease ==
  ASSUME IInv, NEW r \in Run, on_read_head_failed(r)
  PROVE  client[r] \in Client /\ Lease!Close(client[r])
<1>1. /\ phase[r] = "waiting" /\ close(client[r]) /\ UNCHANGED client
      /\ phase' = [phase EXCEPT ![r] = "resumed"]
  BY DEF on_read_head_failed, Handler, Resume
<1>2. client[r] \in Client
  BY <1>1, WaitingAlone
<1>3. client[r] \in InUse
  BY <1>1, <1>2, InUseHolder, NoClientAssumption
<1>4. InUse' = InUse
  <2>1. \A q \in Run : phase'[q] = "returning" <=> phase[q] = "returning"
    BY <1>1 DEF IInv, TypeOK
  <2> QED BY <1>1, <2>1, SameClients DEF close
<1>5. Lease!close(client[r])
  BY <1>1, <1>2 DEF Lease!close, close
<1> QED BY <1>2, <1>3, <1>4, <1>5 DEF Lease!Close

(* on_recv_resp_body: a client is returned by the only run that uses it.   *)
LEMMA RecvRespBodyLease ==
  ASSUME IInv, NEW r \in Run, on_recv_resp_body(r)
  PROVE  client[r] \in Client /\ Lease!Recollect(client[r])
<1>1. /\ phase[r] = "waiting" /\ recollect(client[r]) /\ UNCHANGED client
      /\ phase'[r] = "returning"
      /\ \A q \in Run : q # r => phase'[q] = phase[q]
  BY DEF on_recv_resp_body, Handler, IInv, TypeOK
<1>2. /\ client[r] \in Client
      /\ \A q \in Run : client[q] = client[r] /\ phase[q] # "returning" => q = r
  BY <1>1, WaitingAlone
<1>3. client[r] \in InUse
  BY <1>1, <1>2, InUseHolder, NoClientAssumption
<1>4. \A c : c \in InUse' <=> c \in InUse \ {client[r]}
  BY <1>1, <1>2, InUseHolder
<1>5. InUse' = InUse \ {client[r]}
  BY <1>4
<1>6. Lease!recollect(client[r])
  BY <1>1 DEF Lease!recollect, recollect
<1> QED BY <1>2, <1>3, <1>5, <1>6 DEF Lease!Recollect

(* Free: the only pointer to a client that was not returned goes away.     *)
LEMMA FreeLease ==
  ASSUME IInv, NEW r \in Run, Free(r)
  PROVE  \/ UNCHANGED Lease!vars
         \/ client[r] \in Client /\ Lease!Drop(client[r])
<1>1. /\ phase[r] \in {"resumed", "dropped"} /\ client'[r] = NoClient
      /\ \A q \in Run : q # r => client'[q] = client[q] /\ phase'[q] = phase[q]
  BY DEF Free, IInv, TypeOK
<1>2. CASE client[r] = NoClient
  <2>1. \A c : c \in InUse' <=> c \in InUse
    BY <1>1, <1>2, InUseHolder
  <2>2. InUse' = InUse /\ UNCHANGED poolVars
    BY <1>2, <2>1 DEF Free
  <2> QED BY <2>2 DEF Lease!vars, poolVars, Lease!poolVars
<1>3. CASE client[r] # NoClient
  <2>1. /\ client[r] \in Client /\ close(client[r])
        /\ \A q \in Run : client[q] = client[r] /\ phase[q] # "returning" => q = r
    BY <1>1, <1>3 DEF Free, IInv, TypeOK, ClientExclusive
  <2>2. client[r] \in InUse
    BY <1>1, <1>3, InUseHolder
  <2>3. \A c : c \in InUse' <=> c \in InUse \ {client[r]}
    BY <1>1, <2>1, InUseHolder
  <2>4. InUse' = InUse \ {client[r]}
    BY <2>3
  <2>5. Lease!close(client[r])
    BY <2>1 DEF Lease!close, close
  <2> QED BY <2>1, <2>2, <2>4, <2>5 DEF Lease!Drop
<1> QED BY <1>2, <1>3

(* The pool's own steps are the pool's.                                    *)
LEMMA PoolLease ==
  ASSUME IInv, Pool
  PROVE  Lease!Next
<1>1. InUse' = InUse
  BY DEF Pool, runVars, InUse
<1>2. CASE check_clients
  BY <1>1, <1>2, LeasePool DEF Lease!Next
<1>3. CASE Tick
  BY <1>1, <1>3, LeasePool DEF Lease!Next
<1>4. ASSUME NEW c \in Client, PeerCloses(c)
      PROVE  Lease!Next
  <2>1. Lease!PeerCloses(c)
    BY <1>4 DEF Lease!PeerCloses, PeerCloses
  <2> QED BY <1>1, <2>1 DEF Lease!Next
<1> QED BY <1>2, <1>3, <1>4 DEF Pool

(* Every step of TcpModule is a step of ClientLease or leaves it alone.    *)
LEMMA StepLease == IInv /\ [Next]_vars => [Lease!Next]_(Lease!vars)
<1> SUFFICES ASSUME IInv, [Next]_vars PROVE [Lease!Next]_(Lease!vars)
  OBVIOUS
<1>1. CASE UNCHANGED vars
  BY <1>1 DEF vars, poolVars, runVars, InUse, Lease!vars, Lease!poolVars
<1>2. CASE Pool
  BY <1>2, PoolLease
<1>3. ASSUME NEW r \in Run, NEW p \in Peer, run(r, p)
      PROVE  Lease!Next
  BY <1>3, RunLease DEF Lease!Next
<1>4. ASSUME NEW r \in Run, NEW c \in Client, run_connect(r, c)
      PROVE  Lease!Next
  BY <1>4, RunConnectLease DEF Lease!Next
<1>5. ASSUME NEW r \in Run, on_read_head_failed(r) \/ on_recv_resp_body(r)
      PROVE  Lease!Next
  BY <1>5, ReadHeadFailedLease, RecvRespBodyLease DEF Lease!Next
<1>6. ASSUME NEW r \in Run, Free(r)
      PROVE  [Lease!Next]_(Lease!vars)
  BY <1>6, FreeLease DEF Lease!Next
<1>7. ASSUME NEW r \in Run,
             \/ run_no_type(r) \/ run_no_server(r) \/ run_no_socket(r)
             \/ on_aborted(r) \/ cancel_failed(r) \/ on_failed(r)
             \/ on_connect(r) \/ on_write_req(r) \/ on_recv_resp_head(r)
             \/ on_recv_resp_body_reset(r) \/ TimeOut(r) \/ Expire(r) \/ Complete(r)
      PROVE  UNCHANGED Lease!vars
  BY <1>7, StutterLease
<1> QED BY <1>1, <1>2, <1>3, <1>4, <1>5, <1>6, <1>7 DEF Next, Handle

(* The pool starts empty and no client is in use.                          *)
LEMMA InitLease == Init => Lease!Init
BY LeasePool DEF Init, Lease!Init, InUse

(* TcpModule implements ClientLease: its runs keep the lease discipline,   *)
(* for any number of runs, clients and peers, so everything that           *)
(* ClientLeaseProofs proves of the pool holds of it.                       *)
THEOREM KeepsLease == SilentSpec => LeaseKept
<1>1. Init => Lease!Init
  BY InitLease
<1>2. IInv /\ [Next]_vars => [Lease!Next]_(Lease!vars)
  BY StepLease
<1> QED BY <1>1, <1>2, Inductive, PTL DEF SilentSpec, LeaseKept, Lease!Spec
-----------------------------------------------------------------------------
(* The theorems about ClientLease, for TcpModule's clients in use.         *)
Leased == INSTANCE ClientLeaseProofs WITH in_use <- InUse

(* Its pool is the one LeaseKept speaks of.                                *)
LEMMA SamePool ==
  /\ Leased!Pooled = Lease!Pooled
  /\ Leased!PoolInit <=> Lease!PoolInit
  /\ Leased!poolVars = Lease!poolVars
  /\ Leased!Tick <=> Lease!Tick
  /\ Leased!check_clients <=> Lease!check_clients
  /\ \A p : Leased!GetResult(p) = Lease!GetResult(p)
  /\ \A p : Leased!get_client(p) <=> Lease!get_client(p)
  /\ \A c : Leased!recollect(c) <=> Lease!recollect(c)
  /\ \A c : Leased!close(c) <=> Lease!close(c)
  /\ \A c : Leased!PeerCloses(c) <=> Lease!PeerCloses(c)
  /\ \A c, p : Leased!Construct(c, p) <=> Lease!Construct(c, p)
<1>1. Leased!Pooled = Lease!Pooled
  BY DEF Lease!Pooled, Lease!Elems, Leased!Pooled, Leased!Elems
<1>2. Leased!PoolInit <=> Lease!PoolInit
  BY DEF Lease!PoolInit, Leased!PoolInit
<1>3. Leased!poolVars = Lease!poolVars
  BY DEF Lease!poolVars, Leased!poolVars
<1>4. Leased!Tick <=> Lease!Tick
  BY <1>1 DEF Lease!Tick, Leased!Tick
<1>5. Leased!check_clients <=> Lease!check_clients
  <2>1. \A q : Leased!Kept(q) = Lease!Kept(q)
    BY DEF Leased!Kept, Lease!Kept, Leased!KeptAt, Lease!KeptAt, Leased!Rank, Lease!Rank,
           Leased!Keep, Lease!Keep, Leased!Cardinality, Lease!Cardinality
  <2> QED BY <1>1, <2>1 DEF Leased!check_clients, Lease!check_clients, Leased!Keep, Lease!Keep
<1>6. \A q : Leased!UsableAt(q) = Lease!UsableAt(q)
  BY DEF Lease!UsableAt, Leased!UsableAt, Lease!Usable, Leased!Usable, Lease!UsedUp, Leased!UsedUp
<1>7. \A q : Leased!PopCount(q) = Lease!PopCount(q)
  BY DEF Lease!PopCount, Leased!PopCount, Lease!UsableAt, Leased!UsableAt, Lease!Usable,
         Leased!Usable, Lease!UsedUp, Leased!UsedUp
<1>8. \A p : Leased!GetResult(p) = Lease!GetResult(p)
  BY <1>6, <1>7 DEF Lease!GetResult, Leased!GetResult
<1>9. \A p : Leased!Popped(p) = Lease!Popped(p) /\ Leased!Remaining(p) = Lease!Remaining(p)
  BY <1>7 DEF Lease!Popped, Leased!Popped, Lease!Remaining, Leased!Remaining
<1>10. \A p : Leased!get_client(p) <=> Lease!get_client(p)
  BY <1>8, <1>9 DEF Lease!get_client, Leased!get_client
<1>11. \A c : Leased!recollect(c) <=> Lease!recollect(c)
  BY DEF Lease!recollect, Leased!recollect
<1>12. \A c : Leased!close(c) <=> Lease!close(c)
  BY DEF Lease!close, Leased!close
<1>13. \A c : Leased!PeerCloses(c) <=> Lease!PeerCloses(c)
  BY DEF Lease!PeerCloses, Leased!PeerCloses
<1>14. \A c, p : Leased!Construct(c, p) <=> Lease!Construct(c, p)
  BY DEF Lease!Construct, Leased!Construct
<1> QED BY <1>1, <1>2, <1>3, <1>4, <1>5, <1>8, <1>10, <1>11, <1>12, <1>13, <1>14

(* And so are its steps.                                                   *)
LEMMA SameSpec == Lease!Spec => Leased!Spec
<1>1. Lease!Init => Leased!Init
  BY SamePool DEF Lease!Init, Leased!Init
<1>2. Lease!vars = Leased!vars
  BY SamePool DEF Lease!vars, Leased!vars
<1>3. Lease!Next => Leased!Next
  BY SamePool DEF Lease!Next, Leased!Next, Lease!NewClient, Leased!NewClient, Lease!Recollect,
     Leased!Recollect, Lease!GetClient, Leased!GetClient, Lease!Close, Leased!Close,
     Lease!Drop, Leased!Drop
<1>4. [Lease!Next]_(Lease!vars) => [Leased!Next]_(Leased!vars)
  BY <1>3 DEF Lease!vars, Leased!vars, Lease!poolVars, Leased!poolVars
<1> QED BY <1>1, <1>4, PTL DEF Lease!Spec, Leased!Spec

(* What ClientLeaseProofs proves of a pool whose users keep the lease      *)
(* holds of the pool as TcpModule's runs use it: a connection goes to the  *)
(* peer it was made for, is used no more often and kept no longer than     *)
(* allowed, and none is left open without an owner.                        *)
THEOREM PoolInGoodOrder ==
  SilentSpec => [](Lease!OwnPeer /\ Lease!UseLimit /\ Lease!IdleBound /\ Lease!NoLeak)
<1>1. Leased!Spec => [](Leased!OwnPeer /\ Leased!UseLimit /\ Leased!IdleBound /\ Leased!NoLeak)
  BY Leased!RightPeer, Leased!LimitedUse, Leased!LimitedIdle, Leased!Leakless,
     NoClientAssumption, MaxTimesAssumption, CheckTimeAssumption, PTL
<1>2. Leased!OwnPeer /\ Leased!UseLimit /\ Leased!IdleBound /\ Leased!NoLeak
        => Lease!OwnPeer /\ Lease!UseLimit /\ Lease!IdleBound /\ Lease!NoLeak
  BY SamePool DEF Leased!OwnPeer, Lease!OwnPeer, Leased!UseLimit, Lease!UseLimit,
     Leased!IdleBound, Lease!IdleBound, Leased!NoLeak, Lease!NoLeak
<1> QED BY <1>1, <1>2, KeepsLease, SameSpec, PTL DEF LeaseKept
=============================================================================
