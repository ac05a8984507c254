--------------------------------- MODULE Fsm ---------------------------------
(***************************************************************************)
(* framework/fsm.{h,cc} with module/fork_module, module/join_module and    *)
(* module/simple_module: how one request's FsmContext goes through the     *)
(* graph of modules, from handle_request to _end_request.                  *)
(*                                                                         *)
(* A call is a thread inside Fsm::_run; it goes from module to module      *)
(* until one returns Mod_async.  The context goes on when a timer of a     *)
(* fork or a join fires, or when an asynchronous module resumes it, each   *)
(* possibly on another thread.  So several calls of one context are under  *)
(* way between a fork and its join, and they meet in JoinModule::run.      *)
(*                                                                         *)
(* Any other module is what it may do: return one of SyncState[m], or      *)
(* return Mod_async and resume later with one of AsyncState[m] (TcpModule  *)
(* and Connection model those).  A context is used for one request; the    *)
(* next one starts from Init in a context of its own.                      *)
(***************************************************************************)
EXTENDS Integers, Sequences, FiniteSets

CONSTANTS Module,      \* mod_map_
          NoModule,    \* NULL
          StartMod, EndMod,
          Links,       \* the calls of link_module, in order
          Fork, Join,  \* the ForkModules and JoinModules
          ForkOf,      \* the fork whose branches a join collects
          MaxFork,     \* fork_num_
          SyncState,   \* states a module's run may return
          AsyncState,  \* states it may resume the Fsm with later
          ExitState    \* those of them for which it calls context->exit()

(* framework/module.h, module/fork_module.h                                *)
Mod_else == 0
Mod_Succeed == 1
Mod_Failed == 2
Mod_Timeout == 3
Mod_start == 5
Mod_Fork0 == 840

ASSUME GraphAssumption ==
  /\ NoModule \notin Module
  /\ {StartMod, EndMod} \subseteq Module
  /\ Fork \cup Join \subseteq Module
  /\ Fork \cap Join = {}
  /\ EndMod \notin Fork \cup Join
  /\ Links \in Seq([from : Module, to : Module, state : Nat])
  /\ ForkOf \in [Join -> Fork]
  /\ MaxFork \in Nat \ {0}

VARIABLES calls,             \* threads in _run: module, module before it, state, count
          waiting,           \* modules that returned Mod_async and will resume
          fork_timer,        \* armed timers of forks, <<fork, i>>
          join_timer,        \* state bound to a join's armed timer, or Mod_else
          module_joined_num,
          failed_join,
          active,            \* get_active_fork_num and get_active_join_num
          exit,              \* exit_
          ended,             \* calls of _end_request
          runs,              \* history: calls of run of a module that is no join
          refused            \* history: joins reached with a state but Mod_Succeed

vars == <<calls, waiting, fork_timer, join_timer, module_joined_num, failed_join,
          active, exit, ended, runs, refused>>

Call(m, from, s) == [mod |-> m, from |-> from, last |-> s, num |-> 0]

Init ==
  /\ calls = {Call(StartMod, NoModule, Mod_start)}
  /\ waiting = {}
  /\ fork_timer = {}
  /\ join_timer = [j \in Join |-> Mod_else]
  /\ module_joined_num = [j \in Join |-> 0]
  /\ failed_join = [j \in Join |-> FALSE]
  /\ active \in [Fork -> 1..MaxFork]
  /\ exit = FALSE
  /\ ended = 0
  /\ runs = [m \in Module \ Join |-> IF m = StartMod THEN 1 ELSE 0]
  /\ refused = {}
-----------------------------------------------------------------------------
(* link_module's map of transitions.  map::insert: the first link for a    *)
(* state is the one that stays.                                            *)
LinkedAt(m, s) == {i \in DOMAIN Links : Links[i].from = m /\ Links[i].state = s}
mod_trans_map ==
  [m \in Module |->
     [s \in {l.state : l \in {k \in {Links[i] : i \in DOMAIN Links} : k.from = m}} |->
        Links[CHOOSE i \in LinkedAt(m, s) : \A j \in LinkedAt(m, s) : i <= j].to]]

get_next_module(m, s) ==
  LET trans == mod_trans_map[m]
  IN  IF s \in DOMAIN trans THEN trans[s]
      ELSE IF Mod_else \in DOMAIN trans THEN trans[Mod_else]
      ELSE NoModule

CountRun(m) ==
  runs' = [k \in Module \ Join |-> IF k = m THEN runs[k] + 1 ELSE runs[k]]

(* What follows when m has ended with state s; rest are the other calls.   *)
(* is_exit: m has called context->exit().                                  *)
resume(m, s, rest, is_exit) ==
  LET next == get_next_module(m, s)
  IN  \/ /\ m = EndMod
         /\ ended' = ended + 1
         /\ calls' = rest
         /\ exit' = (exit \/ is_exit)
         /\ UNCHANGED runs
      \/ /\ m # EndMod /\ next = NoModule
         /\ ended' = ended + 1
         /\ calls' = rest
         /\ exit' = TRUE
         /\ UNCHANGED runs
      \/ /\ m # EndMod /\ next # NoModule
         /\ calls' = rest \cup {Call(next, m, s)}
         /\ CountRun(next)
         /\ exit' = (exit \/ is_exit)
         /\ UNCHANGED ended
-----------------------------------------------------------------------------
(* run of a module that is neither fork nor join.                          *)
run(c) ==
  /\ c.mod \notin Fork \cup Join
  /\ \/ /\ \E s \in SyncState[c.mod] : resume(c.mod, s, calls \ {c}, FALSE)
        /\ UNCHANGED waiting
     \/ /\ AsyncState[c.mod] # {}
        /\ waiting' = waiting \cup {c.mod}
        /\ calls' = calls \ {c}
        /\ UNCHANGED <<exit, ended, runs>>
  /\ UNCHANGED <<fork_timer, join_timer, module_joined_num, failed_join, active, refused>>

on_async_done(m) ==
  /\ m \in waiting
  /\ waiting' = waiting \ {m}
  /\ \E s \in AsyncState[m] : resume(m, s, calls, s \in ExitState[m])
  /\ UNCHANGED <<fork_timer, join_timer, module_joined_num, failed_join, active, refused>>

(* Mutant: one timer more than the active branches is armed.               *)
ForkModule_run_one_more(c) ==
  /\ c.mod \in Fork
  /\ fork_timer' = fork_timer \cup {<<c.mod, c.num>>}
  /\ calls' = (calls \ {c}) \cup
                (IF c.num < active[c.mod] THEN {[c EXCEPT !.num = @ + 1]} ELSE {})
  /\ UNCHANGED <<waiting, join_timer, module_joined_num, failed_join, active, exit, ended,
                 runs, refused>>

(* One turn of the loop: other threads may run the first branches while    *)
(* the later timers are being armed.                                       *)
ForkModule_run(c) ==
  /\ c.mod \in Fork
  /\ fork_timer' = fork_timer \cup {<<c.mod, c.num>>}
  /\ calls' = (calls \ {c}) \cup
                (IF c.num + 1 < active[c.mod] THEN {[c EXCEPT !.num = @ + 1]} ELSE {})
  /\ UNCHANGED <<waiting, join_timer, module_joined_num, failed_join, active, exit, ended,
                 runs, refused>>

on_forked(f, i) ==
  /\ <<f, i>> \in fork_timer
  /\ fork_timer' = fork_timer \ {<<f, i>>}
  /\ resume(f, Mod_Fork0 + i, calls, FALSE)
  /\ UNCHANGED <<waiting, join_timer, module_joined_num, failed_join, active, refused>>

(* Mutant: the failure is noted only by the branch that joins last.        *)
JoinModule_run_last_only(c) ==
  /\ c.mod \in Join /\ c.num = 0
  /\ module_joined_num' = [module_joined_num EXCEPT ![c.mod] = @ + 1]
  /\ failed_join' = [failed_join EXCEPT ![c.mod] = (c.last # Mod_Succeed)]
  /\ refused' = IF c.last # Mod_Succeed THEN refused \cup {c.mod} ELSE refused
  /\ calls' = (calls \ {c}) \cup {[c EXCEPT !.num = module_joined_num'[c.mod]]}
  /\ UNCHANGED <<waiting, fork_timer, join_timer, active, exit, ended, runs>>

(* Mutant: a branch that failed is not counted.                            *)
JoinModule_run_failed_uncounted(c) ==
  /\ c.mod \in Join /\ c.num = 0
  /\ \/ /\ c.last = Mod_Succeed
        /\ module_joined_num' = [module_joined_num EXCEPT ![c.mod] = @ + 1]
        /\ calls' = (calls \ {c}) \cup {[c EXCEPT !.num = module_joined_num'[c.mod]]}
        /\ UNCHANGED <<failed_join, refused>>
     \/ /\ c.last # Mod_Succeed
        /\ failed_join' = [failed_join EXCEPT ![c.mod] = TRUE]
        /\ refused' = refused \cup {c.mod}
        /\ calls' = calls \ {c}
        /\ UNCHANGED module_joined_num
  /\ UNCHANGED <<waiting, fork_timer, join_timer, active, exit, ended, runs>>

(* JoinModule::run from lock() to unlock().                                *)
JoinModule_run(c) ==
  /\ c.mod \in Join /\ c.num = 0
  /\ module_joined_num' = [module_joined_num EXCEPT ![c.mod] = @ + 1]
  /\ failed_join' = [failed_join EXCEPT ![c.mod] = @ \/ c.last # Mod_Succeed]
  /\ refused' = IF c.last # Mod_Succeed THEN refused \cup {c.mod} ELSE refused
  /\ calls' = (calls \ {c}) \cup {[c EXCEPT !.num = module_joined_num'[c.mod]]}
  /\ UNCHANGED <<waiting, fork_timer, join_timer, active, exit, ended, runs>>

(* Mutant: the shared counter is compared, not the value it had under the  *)
(* lock.                                                                   *)
JoinModule_run_unlocked_reread(c) ==
  /\ c.mod \in Join /\ c.num > 0
  /\ calls' = calls \ {c}
  /\ join_timer' =
       IF module_joined_num[c.mod] = active[ForkOf[c.mod]]
       THEN [join_timer EXCEPT ![c.mod] = IF failed_join[c.mod] THEN Mod_Failed ELSE Mod_Succeed]
       ELSE join_timer
  /\ UNCHANGED <<waiting, fork_timer, module_joined_num, failed_join, active, exit, ended,
                 runs, refused>>

(* Mutant: the join does not wait for its last branch.                     *)
JoinModule_run_early(c) ==
  /\ c.mod \in Join /\ c.num > 0
  /\ calls' = calls \ {c}
  /\ join_timer' =
       IF c.num = (IF active[ForkOf[c.mod]] > 1 THEN active[ForkOf[c.mod]] - 1 ELSE 1)
       THEN [join_timer EXCEPT ![c.mod] = IF failed_join[c.mod] THEN Mod_Failed ELSE Mod_Succeed]
       ELSE join_timer
  /\ UNCHANGED <<waiting, fork_timer, module_joined_num, failed_join, active, exit, ended,
                 runs, refused>>

(* JoinModule::run after unlock(): failed_join_ is read without the lock.  *)
JoinModule_run_unlocked(c) ==
  /\ c.mod \in Join /\ c.num > 0
  /\ calls' = calls \ {c}
  /\ join_timer' =
       IF c.num = active[ForkOf[c.mod]]
       THEN [join_timer EXCEPT ![c.mod] = IF failed_join[c.mod] THEN Mod_Failed ELSE Mod_Succeed]
       ELSE join_timer
  /\ UNCHANGED <<waiting, fork_timer, module_joined_num, failed_join, active, exit, ended,
                 runs, refused>>

on_joined(j) ==
  /\ join_timer[j] # Mod_else
  /\ join_timer' = [join_timer EXCEPT ![j] = Mod_else]
  /\ resume(j, join_timer[j], calls, FALSE)
  /\ UNCHANGED <<waiting, fork_timer, module_joined_num, failed_join, active, refused>>

(* The calls that have not yet been counted by the join they are in.       *)
AtWork == {c \in calls : c.mod \in Join => c.num = 0}

(* Nothing of this context can go on in the graph.                         *)
Quiet ==
  /\ AtWork = {} /\ waiting = {} /\ fork_timer = {}
  /\ \A j \in Join : join_timer[j] = Mod_else

(* The next request, of this connection or, after exit, of another one, in *)
(* a new context.  The last threads have left the old one.                 *)
handle_request ==
  /\ Quiet /\ calls = {} /\ ended > 0
  /\ calls' = {Call(StartMod, NoModule, Mod_start)}
  /\ module_joined_num' = [j \in Join |-> 0]
  /\ failed_join' = [j \in Join |-> FALSE]
  /\ active' \in [Fork -> 1..MaxFork]
  /\ exit' = FALSE
  /\ ended' = 0
  /\ runs' = [m \in Module \ Join |-> IF m = StartMod THEN 1 ELSE 0]
  /\ refused' = {}
  /\ UNCHANGED <<waiting, fork_timer, join_timer>>

Step ==
  \/ \E c \in calls : \/ run(c)
                      \/ ForkModule_run(c)
                      \/ JoinModule_run(c)
                      \/ JoinModule_run_unlocked(c)
  \/ \E m \in waiting : on_async_done(m)
  \/ \E t \in fork_timer : on_forked(t[1], t[2])
  \/ \E j \in Join : on_joined(j)

Next == Step \/ handle_request

(* Threads go on, timers of 0 ms fire, and asynchronous modules resume.    *)
Spec == Init /\ [][Next]_vars /\ WF_vars(Step)
-----------------------------------------------------------------------------
State == {Mod_start, Mod_Succeed, Mod_Failed, Mod_Timeout}
           \cup {Mod_Fork0 + i : i \in 0..MaxFork}
           \cup UNION {SyncState[m] \cup AsyncState[m] : m \in Module}

TypeOK ==
  /\ calls \subseteq [mod : Module, from : Module \cup {NoModule}, last : State, num : 0..MaxFork]
  /\ waiting \subseteq Module
  /\ fork_timer \subseteq Fork \X (0..MaxFork - 1)
  /\ join_timer \in [Join -> {Mod_else, Mod_Succeed, Mod_Failed}]
  /\ module_joined_num \in [Join -> 0..MaxFork]
  /\ failed_join \in [Join -> BOOLEAN]
  /\ active \in [Fork -> 1..MaxFork]
  /\ exit \in BOOLEAN
  /\ ended \in Nat
  /\ runs \in [Module \ Join -> Nat]
  /\ refused \subseteq Join

(* A context has one ModuleData per module: one client_, one timer_.  No   *)
(* module but a join is entered twice in a request, by whatever branches.  *)
RunOnce == \A m \in Module \ Join : runs[m] <= 1

(* A request ends once, and when it ends, with or without a response, no   *)
(* branch of it is still at work: the joins have waited for all of them.   *)
EndsQuiet == ended <= 1 /\ (ended = 1 => Quiet)

(* A join hands on Mod_Failed exactly if one of its branches came in with  *)
(* anything but Mod_Succeed, though failed_join_ is read without the lock. *)
JoinState ==
  \A j \in Join : join_timer[j] # Mod_else =>
    (join_timer[j] = Mod_Failed <=> j \in refused)

(* Every request ends: no join waits for a branch that does not come.      *)
EveryRequestEnds == (ended = 0) ~> (ended = 1)
=============================================================================
