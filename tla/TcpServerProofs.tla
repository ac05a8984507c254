--------------------------- MODULE TcpServerProofs ---------------------------
(***************************************************************************)
(* TcpServer's invariants for any number of pids, workers, deaths, signals *)
(* and failing forks.  The three are proved together: the count bounds     *)
(* to_fork, the exact child_pid_ is kept by the same steps, and both need  *)
(* that the loop runs only while the parent does.                          *)
(***************************************************************************)
EXTENDS TcpServer, FiniteSetTheorems, TLAPS

Inv ==
  /\ TypeOK
  /\ life[Parent] # "zombie"
  /\ life[Parent] # "running" => to_fork = 0
  /\ PidsAreChildren
  /\ WorkerCount

(* The constructor's limit leaves at least one worker, in both modes.      *)
LEMMA TaskNumberPositive == task_number \in Nat /\ task_number >= 1
BY ServerAssumption DEF task_number

(* Sets of pids are finite: their sizes are natural numbers.               *)
LEMMA PidsFinite ==
  ASSUME NEW S \in SUBSET Child
  PROVE  IsFiniteSet(S) /\ Cardinality(S) \in Nat
BY ServerAssumption, FS_Subset, FS_CardinalityType

(* A run starts with the parent alone and all workers to be forked.        *)
LEMMA InitInv == Init => Inv
<1> SUFFICES ASSUME Init PROVE Inv
  OBVIOUS
<1>1. TypeOK
  <2>1. life \in [Pid -> Life]
    BY DEF Init, Life
  <2>2. child_pid \in [Pid -> SUBSET Child] /\ sigquit \subseteq Pid /\ undelivered \subseteq Pid
    BY DEF Init
  <2>3. to_fork \in 0..task_number
    BY TaskNumberPositive DEF Init, Workers
  <2>4. deaths \in 0..MaxDeaths /\ kills \in 0..MaxKills /\ failures \in 0..MaxForkFailures
    BY ServerAssumption DEF Init
  <2> QED
    BY <2>1, <2>2, <2>3, <2>4 DEF Init, TypeOK
<1>2. Unreaped = {}
  BY ServerAssumption DEF Init, Unreaped, Pid
<1>3. Cardinality(Unreaped) = 0
  BY <1>2, FS_EmptySet
<1>4. life[Parent] = "running" /\ child_pid[Parent] = {} /\ unforked = 0
  BY DEF Init, Pid
<1>5. to_fork = Workers(server_mode, task_number) /\ to_fork \in Nat
  BY TaskNumberPositive DEF Init, Workers
<1> QED
  BY <1>1, <1>2, <1>3, <1>4, <1>5 DEF Inv, PidsAreChildren, WorkerCount

(* Signals sent by kill_childs go into the pipes of the server's           *)
(* processes.                                                              *)
LEMMA SentType ==
  ASSUME NEW S \in SUBSET Child, NEW queued \in SUBSET Pid
  PROVE  Sent(S, queued) \subseteq Pid
BY DEF Sent, PipeOf, Pid

(* A reader's drain, too, keeps the signals those of processes.            *)
LEMMA DrainType ==
  ASSUME NEW p \in Pid, TypeOK, Drain(p)
  PROVE  sigquit' \subseteq Pid /\ undelivered' \subseteq Pid
BY DEF Drain, TypeOK

(* fork: one worker more, one less to be forked.                           *)
LEMMA ForkInv ==
  ASSUME Inv, NEW c \in Child, fork(c)
  PROVE  Inv'
<1>1. /\ c \in Pid /\ Parent \in Pid /\ c # Parent
      /\ life \in [Pid -> Life] /\ child_pid \in [Pid -> SUBSET Child]
      /\ to_fork \in 0..task_number /\ to_fork > 0
      /\ Unreaped \in SUBSET Child
  BY ServerAssumption DEF Inv, TypeOK, Pid, fork, Unreaped
<1>2. Unreaped' = Unreaped \cup {c} /\ c \notin Unreaped
  BY <1>1 DEF fork, Unreaped
<1>3. /\ Cardinality(Unreaped') = Cardinality(Unreaped) + 1
      /\ Cardinality(Unreaped) \in Nat
  BY <1>1, <1>2, PidsFinite, FS_AddElement
<1>4. TypeOK'
  <2>1. life' \in [Pid -> Life]
    BY <1>1 DEF fork, Life
  <2>2. child_pid' \in [Pid -> SUBSET Child]
    BY <1>1 DEF fork
  <2>3. to_fork' \in 0..task_number
    BY <1>1, TaskNumberPositive DEF fork
  <2>4. shares' \subseteq Child /\ prepared' \in BOOLEAN /\ undelivered' \subseteq Pid
    BY <1>1 DEF Inv, TypeOK, fork
  <2> QED
    BY <2>1, <2>2, <2>3, <2>4 DEF Inv, TypeOK, fork, bounds
<1>5. life'[Parent] = "running" /\ life[Parent] = "running"
  BY <1>1 DEF fork
<1>6. child_pid'[Parent] = child_pid[Parent] \cup {c}
  BY <1>1 DEF fork
<1>7. PidsAreChildren'
  BY <1>2, <1>5, <1>6 DEF Inv, PidsAreChildren
<1>8. to_fork' = to_fork - 1 /\ unforked' = unforked /\ server_mode' = server_mode
  BY DEF fork
<1>9. WorkerCount'
  BY <1>1, <1>3, <1>5, <1>8, TaskNumberPositive DEF Inv, TypeOK, WorkerCount, Workers
<1> QED
  BY <1>4, <1>5, <1>7, <1>9 DEF Inv

(* A failed fork moves what is left of the loop to unforked.               *)
LEMMA ForkFailedInv ==
  ASSUME Inv, fork_failed
  PROVE  Inv'
<1>1. TypeOK'
  BY ServerAssumption, TaskNumberPositive DEF Inv, TypeOK, fork_failed
<1>2. Unreaped' = Unreaped /\ Cardinality(Unreaped) \in Nat
  BY PidsFinite DEF fork_failed, Unreaped
<1>3. WorkerCount'
  BY <1>2, TaskNumberPositive DEF Inv, TypeOK, fork_failed, WorkerCount, Workers
<1> QED
  BY <1>1, <1>2, <1>3 DEF Inv, fork_failed, PidsAreChildren

(* SIGCHLD in the parent: as many workers to be forked as were waited for. *)
LEMMA SigchldInv ==
  ASSUME Inv, handle_sigchld
  PROVE  Inv'
<1> DEFINE Z == Zombies
           n == Cardinality(Z)
           u == Cardinality(Unreaped)
<1>1. /\ Parent \in Pid /\ Parent \notin Child /\ Child \subseteq Pid
      /\ life \in [Pid -> Life] /\ child_pid \in [Pid -> SUBSET Child]
      /\ unforked \in Nat
  BY ServerAssumption DEF Inv, TypeOK, Pid
<1>2. Z \in SUBSET Unreaped /\ Unreaped \in SUBSET Child /\ Z \in SUBSET Child
  BY DEF Zombies, Unreaped
<1>3. n \in Nat /\ u \in Nat /\ IsFiniteSet(Z) /\ IsFiniteSet(Unreaped)
  BY <1>2, PidsFinite
<1>4. n <= u
  BY <1>2, <1>3, FS_Subset
<1>5. /\ life[Parent] = "running" /\ to_fork = 0
      /\ life' = [p \in Pid |-> IF p \in Z THEN "none" ELSE life[p]]
      /\ child_pid' = [child_pid EXCEPT ![Parent] = @ \ Z]
      /\ to_fork' = IF Z = {} THEN 0 ELSE Workers(server_mode, n)
      /\ prepared' = (Z # {})
      /\ unforked' = unforked /\ server_mode' = server_mode
  BY DEF handle_sigchld, Listens, Serves, reap
<1>6. Unreaped' = Unreaped \ Z
  BY <1>1, <1>2, <1>5 DEF Unreaped
<1>7. Cardinality(Unreaped') = u - n
  <2>1. Cardinality(Unreaped \ Z) = u - Cardinality(Unreaped \cap Z)
    BY <1>3, FS_Difference
  <2>2. Unreaped \cap Z = Z
    BY <1>2
  <2> QED
    BY <1>6, <2>1, <2>2
<1>8. life'[Parent] = "running"
  BY <1>1, <1>2, <1>5
<1>9. Z = {} => n = 0
  BY FS_EmptySet
<1>10. Z # {} => n >= 1
  BY <1>3, FS_EmptySet
<1>11. u + unforked = Workers(server_mode, task_number)
  BY <1>5, <1>3, <1>1 DEF Inv, WorkerCount
<1>12. server_mode \in {"RUN_THREAD", "RUN_PROCESS"}
  BY DEF Inv, TypeOK, run_mode
<1>13. to_fork' = n
  <2>1. CASE Z = {}
    BY <2>1, <1>5, <1>9
  <2>2. CASE Z # {} /\ server_mode = "RUN_THREAD"
    BY <2>2, <1>1, <1>3, <1>4, <1>5, <1>10, <1>11 DEF Workers
  <2>3. CASE Z # {} /\ server_mode = "RUN_PROCESS"
    BY <2>3, <1>5 DEF Workers
  <2> QED
    BY <2>1, <2>2, <2>3, <1>12
<1>14. n <= task_number
  BY <1>1, <1>3, <1>4, <1>11, TaskNumberPositive DEF Workers
<1>15. WorkerCount'
  BY <1>1, <1>3, <1>5, <1>7, <1>11, <1>13 DEF WorkerCount
<1>16. life' \in [Pid -> Life]
  BY <1>1, <1>5 DEF Life
<1>17. child_pid' \in [Pid -> SUBSET Child]
  BY <1>1, <1>5
<1>18. to_fork' \in 0..task_number
  BY <1>3, <1>13, <1>14, TaskNumberPositive
<1>19. TypeOK'
  <2>1. prepared' \in BOOLEAN /\ sigchld' \in BOOLEAN
    BY <1>5 DEF handle_sigchld
  <2>2. sigquit' \subseteq Pid /\ undelivered' \subseteq Pid
    BY <1>1, DrainType DEF Inv, handle_sigchld
  <2> QED
    BY <2>1, <2>2, <1>16, <1>17, <1>18 DEF Inv, TypeOK, handle_sigchld, bounds
<1>20. child_pid'[Parent] = Unreaped \ Z
  BY <1>1, <1>5 DEF Inv, PidsAreChildren
<1> QED
  BY <1>6, <1>8, <1>15, <1>19, <1>20 DEF Inv, PidsAreChildren

(* SIGCHLD in a child, and a signal from outside, only move signals.       *)
LEMMA SignalsInv ==
  ASSUME Inv,
         (\E c \in Child : handle_sigchld_in_child(c)) \/ (\E p \in Pid : Terminate(p))
  PROVE  Inv'
<1>1. /\ UNCHANGED <<server_mode, life, child_pid, to_fork, prepared, shares, unforked>>
      /\ Unreaped' = Unreaped
  BY DEF handle_sigchld_in_child, Terminate, Unreaped
<1>2. TypeOK'
  <2>1. CASE \E c \in Child : handle_sigchld_in_child(c)
    <3>1. PICK c \in Child : handle_sigchld_in_child(c)
      BY <2>1
    <3>2. sigquit' \subseteq Pid /\ undelivered' \subseteq Pid
      BY <3>1, DrainType DEF Inv, Pid, handle_sigchld_in_child
    <3> QED
      BY <3>1, <3>2 DEF Inv, TypeOK, handle_sigchld_in_child, bounds
  <2>2. CASE \E p \in Pid : Terminate(p)
    <3>1. PICK p \in Pid : Terminate(p)
      BY <2>2
    <3>2. PipeOf(p) \in Pid
      BY DEF PipeOf, Pid
    <3>3. sigquit' \subseteq Pid
      BY <3>1, <3>2 DEF Inv, TypeOK, Terminate
    <3>4. kills' \in 0..MaxKills
      BY <3>1, ServerAssumption DEF Inv, TypeOK, Terminate
    <3> QED
      BY <3>1, <3>3, <3>4 DEF Inv, TypeOK, Terminate
  <2> QED
    BY <2>1, <2>2
<1> QED
  BY <1>1, <1>2 DEF Inv, PidsAreChildren, WorkerCount

(* A process that stops keeps its pid until it is waited for; a parent     *)
(* that stops has left the loop.                                           *)
LEMMA SigquitInv ==
  ASSUME Inv, NEW p \in Pid, handle_sigquit(p)
  PROVE  Inv'
<1>1. /\ Parent \in Pid /\ Parent \notin Child /\ Child \subseteq Pid
      /\ life \in [Pid -> Life] /\ child_pid \in [Pid -> SUBSET Child]
      /\ PipeOf(p) \in Pid
  BY ServerAssumption DEF Inv, TypeOK, Pid, PipeOf
<1>2. life' = [life EXCEPT ![p] = "stopped"] /\ life[p] = "running"
  BY DEF handle_sigquit, Listens, Serves
<1>3. /\ child_pid' = [child_pid EXCEPT ![p] = {}]
      /\ UNCHANGED <<to_fork, unforked, server_mode>>
  BY DEF handle_sigquit, kill_childs
<1>4. sigquit' \subseteq Pid /\ undelivered' \subseteq Pid
  <2>1. sigquit \in SUBSET Pid /\ sigquit \ {PipeOf(p)} \in SUBSET Pid
    BY DEF Inv, TypeOK
  <2>2. child_pid[p] \in SUBSET Child
    BY <1>1
  <2>3. \E queued \in SUBSET Pid : sigquit' = Sent(child_pid[p], queued)
    BY <2>1 DEF handle_sigquit, kill_childs
  <2>4. undelivered' \subseteq Pid
    BY DEF Inv, TypeOK, handle_sigquit
  <2> QED
    BY <2>2, <2>3, <2>4, SentType
<1>5. sigchld' \in BOOLEAN
  BY DEF Inv, TypeOK, handle_sigquit
<1>6. TypeOK'
  BY <1>1, <1>2, <1>3, <1>4, <1>5 DEF Inv, TypeOK, handle_sigquit, Life, bounds
<1>7. Unreaped' = Unreaped
  BY <1>1, <1>2 DEF Unreaped
<1>8. CASE p = Parent
  <2>1. to_fork = 0
    BY <1>8 DEF handle_sigquit, Listens, Serves
  <2> QED
    BY <1>1, <1>2, <1>3, <1>6, <1>8, <2>1 DEF Inv, PidsAreChildren, WorkerCount
<1>9. CASE p # Parent
  BY <1>1, <1>2, <1>3, <1>6, <1>7, <1>9 DEF Inv, PidsAreChildren, WorkerCount
<1> QED
  BY <1>8, <1>9

(* A death, planned or not: while the parent lives the pid is kept for it. *)
LEMMA DieInv ==
  ASSUME Inv, NEW p \in Pid, Alive(p), Die(p),
         child_pid' = [child_pid EXCEPT ![p] = {}], sigquit' \subseteq Pid,
         UNCHANGED <<server_mode, prepared, unforked>>,
         deaths' \in 0..MaxDeaths, kills' \in 0..MaxKills, failures' \in 0..MaxForkFailures
  PROVE  Inv'
<1>1. /\ Parent \in Pid /\ Parent \notin Child /\ Child \subseteq Pid
      /\ life \in [Pid -> Life] /\ child_pid \in [Pid -> SUBSET Child]
  BY ServerAssumption DEF Inv, TypeOK, Pid
<1>2. CASE p \in Child /\ life[Parent] # "none"
  <2>1. life' = [life EXCEPT ![p] = "zombie"] /\ to_fork' = to_fork /\ sigchld' = TRUE
    BY <1>1, <1>2 DEF Die
  <2>2. life'[Parent] = life[Parent] /\ Unreaped' = Unreaped
    BY <1>1, <1>2, <2>1 DEF Unreaped, Alive
  <2>3. TypeOK'
    BY <1>1, <2>1 DEF Inv, TypeOK, Die, Life
  <2>4. child_pid'[Parent] = child_pid[Parent]
    BY <1>1, <1>2
  <2> QED
    BY <2>1, <2>2, <2>3, <2>4 DEF Inv, PidsAreChildren, WorkerCount
<1>3. CASE p \in Child /\ life[Parent] = "none"
  <2>1. life' = [life EXCEPT ![p] = "none"] /\ to_fork' = to_fork /\ sigchld' = sigchld
    BY <1>1, <1>3 DEF Die
  <2>2. life'[Parent] = "none"
    BY <1>1, <1>3, <2>1
  <2>3. TypeOK'
    BY <1>1, <2>1 DEF Inv, TypeOK, Die, Life
  <2> QED
    BY <1>3, <2>1, <2>2, <2>3 DEF Inv, PidsAreChildren, WorkerCount
<1>4. CASE p = Parent
  <2>1. /\ life' = [q \in Pid |-> IF q = Parent \/ life[q] = "zombie" THEN "none" ELSE life[q]]
        /\ to_fork' = 0 /\ sigchld' = sigchld
    BY <1>1, <1>4 DEF Die
  <2>2. life'[Parent] = "none"
    BY <1>1, <2>1
  <2>3. TypeOK'
    BY <1>1, <2>1, TaskNumberPositive DEF Inv, TypeOK, Die, Life
  <2> QED
    BY <2>1, <2>2, <2>3 DEF Inv, PidsAreChildren, WorkerCount
<1> QED
  BY <1>2, <1>3, <1>4 DEF Pid

(* on_exit and Crash are deaths.                                           *)
LEMMA ExitInv ==
  ASSUME Inv, NEW p \in Pid, on_exit(p) \/ Crash(p)
  PROVE  Inv'
<1>1. Drained(p) \in SUBSET Pid /\ child_pid[p] \in SUBSET Child
  BY DEF Inv, TypeOK, Drained
<1>2. CASE on_exit(p)
  <2>1. Alive(p) /\ Die(p) /\ child_pid' = [child_pid EXCEPT ![p] = {}]
    BY <1>2 DEF on_exit, Alive, kill_childs
  <2>2. sigquit' \subseteq Pid
    BY <1>1, <1>2, SentType DEF on_exit, kill_childs
  <2> QED
    BY <1>2, <2>1, <2>2, DieInv DEF on_exit, bounds, Inv, TypeOK
<1>3. CASE Crash(p)
  <2>1. deaths' \in 0..MaxDeaths
    BY <1>3, ServerAssumption DEF Crash, Inv, TypeOK
  <2> QED
    BY <1>1, <1>3, <2>1, DieInv DEF Crash, Inv, TypeOK
<1> QED
  BY <1>2, <1>3

(* Every step of the server keeps the invariant.                          *)
LEMMA NextInv == Inv /\ [Next]_vars => Inv'
<1> SUFFICES ASSUME Inv, [Next]_vars PROVE Inv'
  OBVIOUS
<1>1. CASE \E c \in Child : fork(c)
  BY <1>1, ForkInv
<1>2. CASE fork_failed
  BY <1>2, ForkFailedInv
<1>3. CASE handle_sigchld
  BY <1>3, SigchldInv
<1>4. CASE (\E c \in Child : handle_sigchld_in_child(c)) \/ (\E p \in Pid : Terminate(p))
  BY <1>4, SignalsInv
<1>5. CASE \E p \in Pid : handle_sigquit(p)
  BY <1>5, SigquitInv
<1>6. CASE \E p \in Pid : on_exit(p) \/ Crash(p)
  BY <1>6, ExitInv
<1>7. CASE UNCHANGED vars
  BY <1>7 DEF vars, Inv, TypeOK, PidsAreChildren, WorkerCount, Unreaped
<1> QED
  BY <1>1, <1>2, <1>3, <1>4, <1>5, <1>6, <1>7 DEF Next, run_multi
-----------------------------------------------------------------------------
(* The server's processes are well typed.                                  *)
THEOREM TypeCorrect == Spec => []TypeOK
<1>1. Inv => TypeOK
  BY DEF Inv
<1> QED
  BY InitInv, NextInv, <1>1, PTL DEF Spec

(* kill_childs in the parent reaches every child it has not waited for,    *)
(* and no process that is not its child.                                   *)
THEOREM PidsTracked == Spec => []PidsAreChildren
<1>1. Inv => PidsAreChildren
  BY DEF Inv
<1> QED
  BY InitInv, NextInv, <1>1, PTL DEF Spec

(* Every dead worker that is waited for is replaced exactly once, unless a *)
(* fork fails.                                                             *)
THEOREM CountKept == Spec => []WorkerCount
<1>1. Inv => WorkerCount
  BY DEF Inv
<1> QED
  BY InitInv, NextInv, <1>1, PTL DEF Spec
=============================================================================
