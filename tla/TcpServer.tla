------------------------------ MODULE TcpServer ------------------------------
(***************************************************************************)
(* framework/tcp_server.{h,cc}: the parent process that forks the workers, *)
(* reaps and replaces those that die, and stops them when it is told to    *)
(* stop; and what a worker does with the signals it gets.  What a worker   *)
(* does with a connection is in Connection.                                *)
(*                                                                         *)
(* fork copies the whole process: a worker starts with the parent's        *)
(* child_pid_, acceptor and signal wait.  asio hands signals from the      *)
(* signal handler to the io_service through a pipe.  fork_prepare takes    *)
(* the pipe out of the io_service; fork_parent puts it back, fork_child    *)
(* makes a new one, and both do so only after a fork_prepare.  A child     *)
(* forked without one reads the parent's pipe together with the parent     *)
(* ("shares"), and a signal in a pipe goes to one of its readers: a reader *)
(* takes all that is in the pipe, hands one signal to handle_signal and    *)
(* keeps the others for the next async_wait ("undelivered").               *)
(*                                                                         *)
(* A second wait that children start and a second SIGCHLD in the pipe      *)
(* change nothing: the handlers find nothing left to do.                   *)
(***************************************************************************)
EXTENDS Naturals, FiniteSets

CONSTANTS Parent,          \* pid of the process that runs main
          Child,           \* pids the kernel gives to its children, and reuses
          TaskNumber,      \* task_number of the constructor
          MaxDeaths,       \* bound: processes that crash or are killed by SIGKILL
          MaxKills,        \* bound: SIGQUIT, SIGTERM, SIGINT sent from outside
          MaxForkFailures  \* bound: forks that fail

Pid == Child \cup {Parent}
run_mode == {"RUN_THREAD", "RUN_PROCESS"}

(* The constructor's lower limit.                                          *)
task_number == IF TaskNumber < 1 THEN 1 ELSE TaskNumber

ASSUME ServerAssumption ==
  /\ Parent \notin Child
  /\ IsFiniteSet(Child)
  /\ TaskNumber \in Nat
  /\ task_number <= Cardinality(Child)
  /\ {MaxDeaths, MaxKills, MaxForkFailures} \subseteq Nat

VARIABLES server_mode,  \* server_mode_
          life,         \* see Life
          child_pid,    \* each process's copy of child_pid_
          to_fork,      \* forks the parent's loop has still to do
          prepared,     \* fork_prepare was called in the parent, and nothing since
          shares,       \* children that read the parent's pipe
          sigchld,      \* SIGCHLD is in the parent's pipe
          sigquit,      \* pids whose pipe has a SIGQUIT, SIGTERM or SIGINT in it
          undelivered,  \* processes that have read one and not yet handled it
          unforked,     \* history: workers given up when a fork failed
          deaths, kills, failures

bounds == <<deaths, kills, failures>>
vars == <<server_mode, life, child_pid, to_fork, prepared, shares, sigchld, sigquit,
          undelivered, unforked, deaths, kills, failures>>

Life == {"none",      \* no process of the server has this pid
         "running",   \* acceptor_ is open, io_service_ runs
         "stopped",   \* acceptor_ is closed, io_service_ stopped, on its way to exit
         "zombie"}    \* dead and not waited for

Alive(p) == life[p] \in {"running", "stopped"}
PipeOf(p) == IF p \in shares THEN Parent ELSE p

(* Mutant: the loop runs to i <= process_num.                              *)
Workers_one_more(mod, n) == IF mod = "RUN_THREAD" THEN 1 ELSE n + 1

(* RUN_THREAD: one child with task_number_ threads.  RUN_PROCESS:          *)
(* task_number_ children.                                                  *)
Workers(mod, n) == IF mod = "RUN_THREAD" THEN 1 ELSE n

(* Constructor, and run up to the fork loop.                               *)
Init ==
  /\ server_mode \in run_mode
  /\ life = [p \in Pid |-> IF p = Parent THEN "running" ELSE "none"]
  /\ child_pid = [p \in Pid |-> {}]
  /\ to_fork = Workers(server_mode, task_number)
  /\ prepared = TRUE
  /\ shares = {}
  /\ sigchld = FALSE
  /\ sigquit = {}
  /\ undelivered = {}
  /\ unforked = 0
  /\ deaths = 0 /\ kills = 0 /\ failures = 0
-----------------------------------------------------------------------------
(* One turn of the loop of run_multi_process, or run_multi_thread, with    *)
(* notify_fork on both sides.                                              *)
fork(c) ==
  /\ life[Parent] = "running" /\ to_fork > 0 /\ life[c] = "none"
  /\ life' = [life EXCEPT ![c] = "running"]
  /\ child_pid' = [child_pid EXCEPT ![c] = child_pid[Parent],
                                    ![Parent] = @ \cup {c}]
  /\ shares' = IF prepared THEN shares ELSE shares \cup {c}
  /\ prepared' = FALSE
  /\ to_fork' = to_fork - 1
  /\ undelivered' = IF Parent \in undelivered THEN undelivered \cup {c} ELSE undelivered
  /\ UNCHANGED <<server_mode, sigchld, sigquit, unforked, bounds>>

(* fork returns -1: the loop is left, and fork_parent is not called.       *)
fork_failed ==
  /\ life[Parent] = "running" /\ to_fork > 0
  /\ failures < MaxForkFailures
  /\ failures' = failures + 1
  /\ unforked' = unforked + to_fork
  /\ to_fork' = 0
  /\ UNCHANGED <<server_mode, life, child_pid, prepared, shares, sigchld, sigquit,
                 undelivered, deaths, kills>>
-----------------------------------------------------------------------------
(* p's io_service runs its handlers, and reads its pipe.                   *)
Serves(p) == life[p] = "running" /\ (p = Parent => to_fork = 0)
Listens(p) == Serves(p) /\ (p = Parent => ~prepared)

(* p reads its pipe empty and handles SIGCHLD first: a signal to stop that *)
(* was in the pipe is now p's.                                             *)
Drain(p) ==
  /\ sigquit' = sigquit \ {PipeOf(p)}
  /\ undelivered' = IF PipeOf(p) \in sigquit THEN undelivered \cup {p} ELSE undelivered

Zombies == {c \in Child : life[c] = "zombie"}

(* Mutant: the pids of dead children stay in child_pid_.                  *)
reap_no_erase(dead, n) ==
  /\ life' = [p \in Pid |-> IF p \in dead THEN "none" ELSE life[p]]
  /\ to_fork' = IF dead = {} THEN 0 ELSE Workers(server_mode, n)
  /\ prepared' = (dead # {})
  /\ UNCHANGED child_pid

(* waitpid and erase for the children in dead, then run_multi_thread or    *)
(* run_multi_process(n) up to the first fork.                              *)
reap(dead, n) ==
  /\ life' = [p \in Pid |-> IF p \in dead THEN "none" ELSE life[p]]
  /\ child_pid' = [child_pid EXCEPT ![Parent] = @ \ dead]
  /\ to_fork' = IF dead = {} THEN 0 ELSE Workers(server_mode, n)
  /\ prepared' = (dead # {})

(* Mutant: "if" in place of "while": one child is waited for.              *)
handle_sigchld_one ==
  /\ Listens(Parent) /\ sigchld
  /\ sigchld' = FALSE
  /\ \E z \in Zombies : reap({z}, 1)
  /\ Drain(Parent)
  /\ UNCHANGED <<server_mode, shares, unforked, bounds>>

(* Mutant: task_number_ workers are started for any number of dead ones.   *)
handle_sigchld_all ==
  /\ Listens(Parent) /\ sigchld
  /\ sigchld' = FALSE
  /\ reap(Zombies, task_number)
  /\ Drain(Parent)
  /\ UNCHANGED <<server_mode, shares, unforked, bounds>>

(* SIGCHLD in the parent: every dead child is waited for.                  *)
handle_sigchld ==
  /\ Listens(Parent) /\ sigchld
  /\ sigchld' = FALSE
  /\ reap(Zombies, Cardinality(Zombies))
  /\ Drain(Parent)
  /\ UNCHANGED <<server_mode, shares, unforked, bounds>>

(* SIGCHLD in a child that shares the pipe: its acceptor is open too, but  *)
(* waitpid finds no child.                                                 *)
handle_sigchld_in_child(c) ==
  /\ Listens(c) /\ c \in shares /\ sigchld
  /\ sigchld' = FALSE
  /\ Drain(c)
  /\ UNCHANGED <<server_mode, life, child_pid, to_fork, prepared, shares, unforked,
                 bounds>>

(* sigquit, from queued, when every process of S that still runs is sent   *)
(* one.                                                                    *)
Sent(S, queued) == queued \cup {PipeOf(t) : t \in {u \in S : Alive(u)}}


kill_childs(p, queued) ==
  /\ child_pid' = [child_pid EXCEPT ![p] = {}]
  /\ sigquit' = Sent(child_pid[p], queued)

(* SIGQUIT, SIGTERM, SIGINT, read before or read now; in the latter case   *)
(* whatever else is in the pipe is read with it and never handled.         *)
handle_sigquit(p) ==
  /\ \/ /\ Serves(p) /\ p \in undelivered
        /\ kill_childs(p, sigquit)
        /\ UNCHANGED sigchld
     \/ /\ Listens(p) /\ PipeOf(p) \in sigquit
        /\ kill_childs(p, sigquit \ {PipeOf(p)})
        /\ sigchld' = (sigchld /\ PipeOf(p) # Parent)
  /\ life' = [life EXCEPT ![p] = "stopped"]
  /\ undelivered' = undelivered \ {p}
  /\ UNCHANGED <<server_mode, to_fork, prepared, shares, unforked, bounds>>
-----------------------------------------------------------------------------
(* The kernel when p dies: a parent is sent SIGCHLD and may wait for p,    *)
(* orphans are waited for by init.                                         *)
Die(p) ==
  /\ shares' = shares \ {p}
  /\ undelivered' = undelivered \ {p}
  /\ \/ /\ p \in Child /\ life[Parent] # "none"
        /\ life' = [life EXCEPT ![p] = "zombie"]
        /\ sigchld' = TRUE
        /\ UNCHANGED to_fork
     \/ /\ p \in Child /\ life[Parent] = "none"
        /\ life' = [life EXCEPT ![p] = "none"]
        /\ UNCHANGED <<sigchld, to_fork>>
     \/ /\ p = Parent
        /\ life' = [q \in Pid |-> IF q = Parent \/ life[q] = "zombie" THEN "none" ELSE life[q]]
        /\ to_fork' = 0
        /\ UNCHANGED sigchld

(* A pipe of its own goes with the process.                                *)
Drained(p) == IF p = Parent THEN sigquit ELSE sigquit \ {p}

(* run and main return; atexit's on_exit calls kill_childs again.          *)
on_exit(p) ==
  /\ life[p] = "stopped"
  /\ Die(p)
  /\ kill_childs(p, Drained(p))
  /\ UNCHANGED <<server_mode, prepared, unforked, bounds>>

(* SIGKILL, a crash: nothing of the server's code runs.                    *)
Crash(p) ==
  /\ Alive(p)
  /\ deaths < MaxDeaths
  /\ deaths' = deaths + 1
  /\ Die(p)
  /\ child_pid' = [child_pid EXCEPT ![p] = {}]
  /\ sigquit' = Drained(p)
  /\ UNCHANGED <<server_mode, prepared, unforked, kills, failures>>

(* A signal to stop, from outside the server.                              *)
Terminate(p) ==
  /\ Alive(p)
  /\ kills < MaxKills
  /\ kills' = kills + 1
  /\ sigquit' = sigquit \cup {PipeOf(p)}
  /\ UNCHANGED <<server_mode, life, child_pid, to_fork, prepared, shares, sigchld,
                 undelivered, unforked, deaths, failures>>

run_multi == (\E c \in Child : fork(c)) \/ fork_failed

Next ==
  \/ run_multi
  \/ handle_sigchld
  \/ \E c \in Child : handle_sigchld_in_child(c)
  \/ \E p \in Pid : handle_sigquit(p) \/ on_exit(p) \/ Crash(p) \/ Terminate(p)

(* The loop goes on, io_services run their handlers, stopped processes     *)
(* exit.                                                                   *)
Spec ==
  /\ Init
  /\ [][Next]_vars
  /\ WF_vars(run_multi)
  /\ WF_vars(handle_sigchld)
  /\ \A p \in Pid : WF_vars(handle_sigquit(p)) /\ WF_vars(on_exit(p))
-----------------------------------------------------------------------------
TypeOK ==
  /\ server_mode \in run_mode
  /\ life \in [Pid -> Life]
  /\ child_pid \in [Pid -> SUBSET Child]
  /\ to_fork \in 0..task_number
  /\ prepared \in BOOLEAN
  /\ shares \subseteq Child
  /\ sigchld \in BOOLEAN
  /\ sigquit \subseteq Pid
  /\ undelivered \subseteq Pid
  /\ unforked \in Nat
  /\ deaths \in 0..MaxDeaths
  /\ kills \in 0..MaxKills
  /\ failures \in 0..MaxForkFailures

(* The processes the parent has to wait for.                               *)
Unreaped == {c \in Child : life[c] # "none"}

(* While it runs, child_pid_ of the parent holds the children it has not   *)
(* waited for, all of them and nothing else, though pids are used again:   *)
(* kill_childs in the parent misses no worker and hits no stranger.        *)
PidsAreChildren == life[Parent] = "running" => child_pid[Parent] = Unreaped

(* Every dead worker that is waited for is replaced once, however many     *)
(* signals were merged or lost: the children not waited for, dead ones     *)
(* included, those about to be forked and those given up when a fork       *)
(* failed add up to task_number_.                                          *)
WorkerCount ==
  life[Parent] = "running" =>
    Cardinality(Unreaped) + to_fork + unforked = Workers(server_mode, task_number)


(* If nobody shares the parent's pipe and no fork failed, the parent waits *)
(* for every dead worker (and, by WorkerCount, replaces it), or exits.     *)
DeadAreReaped ==
  \A c \in Child :
    (life[c] = "zombie" /\ shares = {} /\ to_fork = 0 /\ ~prepared)
      ~> (life[c] # "zombie")

(* tcp_server.cc:111 "Reap completed child processes so that we don't end  *)
(* up with zombies.": no child stays a zombie.                             *)
NoZombieStays == \A c \in Child : (life[c] = "zombie") ~> (life[c] # "zombie")
=============================================================================
