----------------------------- MODULE FsmNesting -----------------------------
(***************************************************************************)
(* What a graph of modules must be like for ForkModule and JoinModule to   *)
(* work: forks and joins are nested like brackets.  link_module does not   *)
(* enforce it; a server's main function builds such a graph, as            *)
(* example1/main.cc does.                                                  *)
(*                                                                         *)
(* A region is what one thread of control goes through: the top level, or  *)
(* one branch <<f, i>> of a fork f.  A fork and its join belong to the     *)
(* region around them.                                                     *)
(***************************************************************************)
EXTENDS Fsm

CONSTANTS Top,     \* the region outside all forks
          Region,  \* the region of each module
          Rank     \* an order of the modules that the links follow

Branches == Fork \X (0..MaxFork - 1)
Regions == Branches \cup {Top}

(* The states with which a module that is no fork may end.                 *)
EndStates(m) ==
  IF m \in Join THEN {Mod_Succeed, Mod_Failed} ELSE SyncState[m] \cup AsyncState[m]

(* Every fork has one join, in its own region.                             *)
Paired ==
  /\ \A f \in Fork : \E j \in Join : ForkOf[j] = f
  /\ \A j, k \in Join : ForkOf[j] = ForkOf[k] => j = k
  /\ \A j \in Join : Region[j] = Region[ForkOf[j]] /\ Rank[ForkOf[j]] < Rank[j]

(* Branch i of a fork starts with what is linked to Mod_Fork0 + i.         *)
Branching ==
  \A b \in Branches :
    LET n == get_next_module(b[1], Mod_Fork0 + b[2])
    IN  n \in Module \ Join /\ Region[n] = b

(* Any other module is followed by a later one of its region, or, at the   *)
(* end of a branch, by the join of its fork; only at the top level may a   *)
(* state have no successor, which ends the request.                        *)
Following ==
  \A m \in Module \ (Fork \cup {EndMod}) : \A s \in EndStates(m) :
    LET n == get_next_module(m, s)
    IN  \/ n = NoModule /\ Region[m] = Top
        \/ n \in Module \ Join /\ Region[n] = Region[m] /\ Rank[m] < Rank[n]
        \/ n \in Join /\ Region[m] # Top /\ Region[m][1] = ForkOf[n]

ASSUME NestingAssumption ==
  /\ Top \notin Branches
  /\ Region \in [Module -> Regions]
  /\ Rank \in [Module -> Nat]
  /\ StartMod \notin Fork \cup Join
  /\ Region[StartMod] = Top /\ Region[EndMod] = Top
  /\ \A m \in Module : Region[m] # Top => Rank[Region[m][1]] < Rank[m]
  /\ Paired
  /\ Branching
  /\ Following
=============================================================================
