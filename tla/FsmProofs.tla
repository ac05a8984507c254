------------------------------ MODULE FsmProofs ------------------------------
(***************************************************************************)
(* The safety of Fsm for every well-nested graph and every number of       *)
(* branches.                                                               *)
(*                                                                         *)
(* The argument: a region has at most one thread of control.  It is where  *)
(* a busy module is, or, for a branch that has not started, a pending      *)
(* timer.  A fork hands its region's thread over to its join and gives     *)
(* each of its branches one; the join gets it back when it has counted     *)
(* all the branches in.                                                    *)
(***************************************************************************)
EXTENDS FsmNesting, FiniteSetTheorems, NaturalsInduction, WellFoundedInduction, TLAPS

(* The module whose end a call is about to hand on: a call that has come   *)
(* to a join and is not yet counted still belongs to the branch's last     *)
(* module.                                                                 *)
Home(c) == IF c.mod \in Join THEN c.from ELSE c.mod
HeldIn(C) == {Home(c) : c \in {d \in C : d.mod \notin Fork /\ (d.mod \in Join => d.num = 0)}}
Held == HeldIn(calls)

(* A join of a fork that has been entered is open until its timer fires.   *)
FinishedIn(j, C, timer) ==
  /\ module_joined_num[j] = active[ForkOf[j]]
  /\ timer[j] = Mod_else
  /\ \A c \in C : c.mod = j => c.num # active[ForkOf[j]]
OpenedIn(C, timer) == {j \in Join : runs[ForkOf[j]] # 0 /\ ~FinishedIn(j, C, timer)}
Opened == OpenedIn(calls, join_timer)

Busy == Held \cup waiting \cup Opened

(* The branches whose timer is armed, or will be by the loop of run.       *)
Looping(b) == \E c \in calls : c.mod = b[1] /\ c.num <= b[2] /\ b[2] < active[b[1]]
Pending == fork_timer \cup {b \in Branches : Looping(b)}

Occupied(r) == r \in Pending \/ \E m \in Busy : Region[m] = r
Left(f) == {i \in 0..active[f] - 1 : Occupied(<<f, i>>)}

(* The thread of a region is in one place.                                 *)
Alone ==
  /\ Busy \subseteq Module \ Fork
  /\ \A m, k \in Busy : Region[m] = Region[k] => m = k
  /\ \A m \in Busy : Region[m] \notin Pending

(* It has passed every module of the region that was entered.              *)
Ahead ==
  \A x \in Module \ Join : runs[x] # 0 =>
    /\ Region[x] \notin Pending
    /\ \A m \in Busy : Region[m] = Region[x] => Rank[x] <= Rank[m]

(* Branches are at work only below a fork that was entered.                *)
Inside ==
  /\ \A b \in Branches : Occupied(b) => runs[b[1]] # 0 /\ b[2] < active[b[1]]
  /\ \A x \in Module \ Join : runs[x] # 0 /\ Region[x] # Top => runs[Region[x][1]] # 0

(* A join has counted the branches that are no longer at work.             *)
Counted ==
  \A j \in Join :
    /\ runs[ForkOf[j]] = 0 => module_joined_num[j] = 0
    /\ runs[ForkOf[j]] # 0 =>
         module_joined_num[j] + Cardinality(Left(ForkOf[j])) = active[ForkOf[j]]

EndedTop == ended <= 1 /\ (ended = 1 => ~Occupied(Top))

Flow == Alone /\ Ahead /\ Inside /\ Counted /\ RunOnce /\ EndedTop

(* How the calls and the timers encode the threads.                        *)
CallShape ==
  \A c \in calls :
    /\ c.mod \in Fork => c.num < active[c.mod] /\ runs[c.mod] # 0
    /\ c.mod \notin Fork \cup Join => c.num = 0
    /\ c.mod \in Join => /\ c.from \in Module \ Fork
                         /\ Region[c.from] # Top
                         /\ Region[c.from][1] = ForkOf[c.mod]
Apart ==
  /\ \A c, d \in AtWork : Home(c) = Home(d) => c = d
  /\ waiting \cap (Fork \cup Join) = {}
  /\ Held \cap waiting = {} /\ Held \cap Opened = {}
Armed ==
  \A t \in fork_timer : /\ t[2] < active[t[1]]
                        /\ \A c \in calls : c.mod = t[1] => t[2] < c.num
Joining ==
  /\ \A c \in calls : c.mod \in Join => c.num <= module_joined_num[c.mod]
  /\ \A c, d \in calls : c.mod \in Join /\ c.mod = d.mod /\ c.num = d.num /\ c.num # 0 => c = d
  /\ \A j \in Join : join_timer[j] # Mod_else =>
       /\ module_joined_num[j] = active[ForkOf[j]]
       /\ \A c \in calls : c.mod = j => c.num # active[ForkOf[j]]
  /\ \A j \in Join : failed_join[j] <=> j \in refused
Control == CallShape /\ Apart /\ Armed /\ Joining /\ JoinState

IInv == TypeOK /\ Flow /\ Control
-----------------------------------------------------------------------------
(* The graph                                                               *)

JoinFor(f) == CHOOSE j \in Join : ForkOf[j] = f

(* Where the thread of the region is once n has been entered.              *)
Mark(n) == IF n \in Fork THEN JoinFor(n) ELSE n
Opens(n) == {b \in Branches : b[1] = n /\ b[2] < active[n]}

(* A fork's join is the one join that collects its branches.               *)
LEMMA JoinOfFork ==
  /\ \A f \in Fork : /\ JoinFor(f) \in Join /\ ForkOf[JoinFor(f)] = f
                     /\ Region[JoinFor(f)] = Region[f] /\ Rank[f] < Rank[JoinFor(f)]
  /\ \A j \in Join : JoinFor(ForkOf[j]) = j
<1>1. ASSUME NEW f \in Fork
      PROVE  JoinFor(f) \in Join /\ ForkOf[JoinFor(f)] = f
  BY NestingAssumption DEF Paired, JoinFor
<1>2. ASSUME NEW f \in Fork
      PROVE  Region[JoinFor(f)] = Region[f] /\ Rank[f] < Rank[JoinFor(f)]
  BY <1>1, NestingAssumption DEF Paired
<1>3. ASSUME NEW j \in Join
      PROVE  JoinFor(ForkOf[j]) = j
  <2>1. ForkOf[j] \in Fork
    BY GraphAssumption
  <2> QED BY <1>1, <2>1, NestingAssumption DEF Paired
<1> QED BY <1>1, <1>2, <1>3

LEMMA MarkFacts ==
  ASSUME NEW n \in Module \ Join
  PROVE  /\ Mark(n) \in Module \ Fork
         /\ Region[Mark(n)] = Region[n]
         /\ Rank[n] <= Rank[Mark(n)]
<1>1. CASE n \in Fork
  BY <1>1, JoinOfFork, GraphAssumption, NestingAssumption DEF Mark
<1>2. CASE n \notin Fork
  BY <1>2, NestingAssumption DEF Mark
<1> QED BY <1>1, <1>2

(* A region is the top level or a branch of a fork ranked below.           *)
LEMMA RegionFacts ==
  ASSUME NEW m \in Module
  PROVE  /\ Rank[m] \in Nat
         /\ Region[m] \in Regions
         /\ Region[m] # Top => /\ Region[m] \in Branches
                               /\ Region[m][1] \in Fork
                               /\ Region[m][1] # m
                               /\ Rank[Region[m][1]] < Rank[m]
                               /\ Region[m][2] \in 0..MaxFork - 1
                               /\ Region[m] = <<Region[m][1], Region[m][2]>>
<1>1. Rank[m] \in Nat /\ Region[m] \in Branches \cup {Top}
  BY NestingAssumption DEF Regions
<1>2. CASE Region[m] # Top
  <2>1. Region[m] \in Fork \X (0..MaxFork - 1)
    BY <1>1, <1>2 DEF Branches
  <2>2. Rank[Region[m][1]] < Rank[m]
    BY <1>2, NestingAssumption
  <2>3. Region[m][1] # m
    BY <1>1, <2>2
  <2> QED BY <1>1, <2>1, <2>2, <2>3 DEF Regions, Branches
<1> QED BY <1>1, <1>2 DEF Regions
-----------------------------------------------------------------------------
(* Threads of control                                                      *)

(* A step that moves no thread.                                            *)
LEMMA SameFlow ==
  ASSUME Flow, Busy' = Busy, Pending' = Pending,
         UNCHANGED <<active, module_joined_num, ended, runs>>
  PROVE  Flow'
<1>1. \A r : Occupied(r)' <=> Occupied(r)
  BY DEF Occupied
<1>2. \A f : Left(f)' = Left(f)
  BY <1>1 DEF Left
<1>3. Alone' /\ Ahead'
  BY DEF Flow, Alone, Ahead
<1>4. Inside' /\ RunOnce' /\ EndedTop'
  BY <1>1 DEF Flow, Inside, RunOnce, EndedTop
<1>5. Counted'
  BY <1>2 DEF Flow, Counted
<1> QED BY <1>3, <1>4, <1>5 DEF Flow

(* No module that the thread of a region has yet to come to was entered.   *)
LEMMA NotYetEntered ==
  ASSUME Flow, NEW n \in Module \ Join, Occupied(Region[n]),
         \A m \in Busy : Region[m] = Region[n] => Rank[m] < Rank[n]
  PROVE  runs[n] = 0
<1>1. SUFFICES ASSUME runs[n] # 0 PROVE FALSE
  OBVIOUS
<1>2. Region[n] \notin Pending
  BY <1>1 DEF Flow, Ahead
<1>3. PICK m \in Busy : Region[m] = Region[n]
  BY <1>2 DEF Occupied
<1>4. Rank[n] <= Rank[m] /\ Rank[m] < Rank[n] /\ m \in Module
  BY <1>1, <1>3 DEF Flow, Ahead, Alone
<1> QED BY <1>4, NestingAssumption

(* The thread of region r goes on to a module n after all those it has     *)
(* passed.                                                                 *)
LEMMA EnterFlow ==
  ASSUME TypeOK, Flow,
         NEW r \in Regions, Occupied(r),
         NEW n \in Module \ Join, Region[n] = r,
         \A m \in Busy : Region[m] = r => Rank[m] < Rank[n],
         Busy' = {m \in Busy : Region[m] # r} \cup {Mark(n)},
         Pending' = (Pending \ {r}) \cup Opens(n),
         CountRun(n), UNCHANGED <<active, module_joined_num, ended>>
  PROVE  Flow'
<1>0. /\ Alone /\ Ahead /\ Inside /\ Counted /\ RunOnce /\ EndedTop
      /\ Busy \subseteq Module \ Fork
  BY DEF Flow, Alone
<1>1. runs[n] = 0
  BY NotYetEntered
<1>2. \A b \in Branches : b[1] = n => ~Occupied(b)
  BY <1>0, <1>1 DEF Inside
<1>3. \A x : Occupied(x)' <=> Occupied(x) \/ x \in Opens(n)
  <2>1. ASSUME NEW x, Occupied(x)' PROVE Occupied(x) \/ x \in Opens(n)
    BY <2>1, MarkFacts DEF Occupied
  <2>2. ASSUME NEW x, x \in Opens(n) PROVE Occupied(x)'
    BY <2>2 DEF Occupied
  <2>3. ASSUME NEW x, x # r, Occupied(x) PROVE Occupied(x)'
    BY <2>3 DEF Occupied
  <2>4. Occupied(r)'
    BY MarkFacts DEF Occupied
  <2> QED BY <2>1, <2>2, <2>3, <2>4
<1>4. \A x \in Module \ Join : runs'[x] = IF x = n THEN 1 ELSE runs[x]
  BY <1>1 DEF CountRun
<1>5. /\ Mark(n) \in Module \ Fork
      /\ Region[Mark(n)] = r
      /\ Rank[n] <= Rank[Mark(n)]
  BY MarkFacts
<1>6. r \notin Opens(n)
  BY RegionFacts, NestingAssumption DEF Opens
<1>7. r \notin Pending'
  BY <1>6
<1>8. Alone'
  <2>1. Busy' \subseteq Module \ Fork
    BY <1>0, <1>5
  <2>2. ASSUME NEW m \in Busy', NEW k \in Busy', Region[m] = Region[k]
        PROVE  m = k
    BY <1>0, <1>5, <2>2 DEF Alone
  <2>3. ASSUME NEW m \in Busy' PROVE Region[m] \notin Pending'
    <3>1. CASE m = Mark(n)
      BY <1>5, <1>7, <3>1
    <3>2. CASE m \in Busy /\ Region[m] # r
      <4>1. Region[m] \notin Pending
        BY <1>0, <3>2 DEF Alone
      <4>2. Region[m] \notin Opens(n)
        BY <1>2, <3>2 DEF Occupied, Opens
      <4> QED BY <4>1, <4>2
    <3> QED BY <3>1, <3>2
  <2> QED BY <2>1, <2>2, <2>3 DEF Alone
<1>9. Ahead'
  <2> SUFFICES ASSUME NEW x \in Module \ Join, runs'[x] # 0
               PROVE  /\ Region[x] \notin Pending'
                      /\ \A m \in Busy' : Region[m] = Region[x] => Rank[x] <= Rank[m]
    BY DEF Ahead
  <2>1. CASE x = n
    BY <1>5, <1>7, <2>1
  <2>2. CASE x # n
    <3>1. runs[x] # 0
      BY <1>4, <2>2
    <3>2. Region[x] \notin Pending
      BY <1>0, <3>1 DEF Ahead
    <3>3. Region[x] \notin Opens(n)
      <4>1. SUFFICES ASSUME Region[x] \in Opens(n) PROVE FALSE
        OBVIOUS
      <4>2. Region[x] # Top /\ Region[x][1] = n
        BY <4>1, NestingAssumption DEF Opens
      <4> QED BY <1>0, <1>1, <3>1, <4>2 DEF Inside
    <3>4. ASSUME NEW m \in Busy', Region[m] = Region[x]
          PROVE  Rank[x] <= Rank[m]
      <4>1. CASE m \in Busy
        BY <1>0, <3>1, <3>4, <4>1 DEF Ahead
      <4>2. CASE m = Mark(n)
        <5>1. Region[x] = r
          BY <1>5, <3>4, <4>2
        <5>2. PICK k \in Busy : Region[k] = r
          BY <3>2, <5>1 DEF Occupied
        <5>3. Rank[x] <= Rank[k] /\ Rank[k] < Rank[n]
          BY <1>0, <3>1, <5>1, <5>2 DEF Ahead
        <5>4. {Rank[x], Rank[k], Rank[n], Rank[m]} \subseteq Nat
          BY <1>0, <1>5, <4>2, NestingAssumption
        <5> QED BY <1>5, <4>2, <5>3, <5>4
      <4> QED BY <4>1, <4>2
    <3> QED BY <3>2, <3>3, <3>4
  <2> QED BY <2>1, <2>2
<1>10. Inside'
  <2>1. ASSUME NEW b \in Branches, Occupied(b)'
        PROVE  runs'[b[1]] # 0 /\ b[2] < active'[b[1]]
    <3>1. b[1] \in Module \ Join
      BY GraphAssumption DEF Branches
    <3>2. CASE b \in Opens(n)
      BY <1>4, <3>1, <3>2 DEF Opens
    <3>3. CASE Occupied(b)
      BY <1>0, <1>4, <3>1, <3>3 DEF Inside
    <3> QED BY <1>3, <2>1, <3>2, <3>3
  <2>2. ASSUME NEW x \in Module \ Join, runs'[x] # 0, Region[x] # Top
        PROVE  runs'[Region[x][1]] # 0
    <3>1. Region[x] \in Branches /\ Region[x][1] \in Module \ Join
      BY <2>2, RegionFacts, GraphAssumption
    <3>2. runs[Region[x][1]] # 0
      <4>1. CASE x = n
        BY <1>0, <3>1, <4>1 DEF Inside
      <4>2. CASE x # n
        BY <1>0, <1>4, <2>2, <4>2 DEF Inside
      <4> QED BY <4>1, <4>2
    <3> QED BY <1>4, <3>1, <3>2
  <2> QED BY <2>1, <2>2 DEF Inside
<1>11. Counted'
  <2> SUFFICES ASSUME NEW j \in Join
               PROVE  /\ runs'[ForkOf[j]] = 0 => module_joined_num'[j] = 0
                      /\ runs'[ForkOf[j]] # 0 =>
                           module_joined_num'[j] + Cardinality(Left(ForkOf[j])') = active'[ForkOf[j]]
    BY DEF Counted
  <2> DEFINE f == ForkOf[j]
  <2>1. f \in Fork /\ f \in Module \ Join /\ active[f] \in 1..MaxFork /\ MaxFork \in Nat
    BY GraphAssumption DEF TypeOK
  <2>2. \A i \in 0..active[f] - 1 : <<f, i>> \in Branches
    BY <2>1 DEF Branches
  <2> HIDE DEF f
  <2>3. CASE f = n
    <3>1. \A i \in 0..active[f] - 1 : Occupied(<<f, i>>)'
      <4> SUFFICES ASSUME NEW i \in 0..active[f] - 1 PROVE <<f, i>> \in Opens(n)
        BY <1>3
      <4> QED BY <2>1, <2>2, <2>3 DEF Opens
    <3>2. Left(f)' = 0..active[f] - 1
      BY <3>1 DEF Left
    <3>3. Cardinality(0..active[f] - 1) = active[f]
      BY <2>1, FS_Interval
    <3>4. module_joined_num[j] = 0
      BY <1>0, <1>1, <2>3 DEF Counted, f
    <3> QED BY <1>4, <2>1, <2>3, <3>2, <3>3, <3>4 DEF f
  <2>4. CASE f # n
    <3>1. \A i \in 0..active[f] - 1 : Occupied(<<f, i>>)' <=> Occupied(<<f, i>>)
      BY <1>3, <2>4 DEF Opens
    <3>2. Left(f)' = Left(f)
      BY <3>1 DEF Left
    <3>3. runs'[f] = runs[f]
      BY <1>4, <2>1, <2>4
    <3> QED BY <1>0, <3>2, <3>3 DEF Counted, f
  <2> QED BY <2>3, <2>4
<1>12. RunOnce'
  BY <1>0, <1>4 DEF RunOnce
<1>13. EndedTop'
  <2>1. Top \notin Opens(n)
    BY NestingAssumption DEF Opens
  <2> QED BY <1>0, <1>3, <2>1 DEF EndedTop
<1> QED BY <1>8, <1>9, <1>10, <1>11, <1>12, <1>13 DEF Flow

(* The thread of the top level ends.                                       *)
LEMMA EndFlow ==
  ASSUME TypeOK, Flow, Occupied(Top),
         Busy' = {m \in Busy : Region[m] # Top}, Pending' = Pending,
         ended' = ended + 1, UNCHANGED <<active, module_joined_num, runs>>
  PROVE  Flow'
<1>0. /\ Alone /\ Ahead /\ Inside /\ Counted /\ RunOnce /\ EndedTop
      /\ Top \notin Pending
  BY NestingAssumption DEF Flow, Pending, TypeOK, Branches
<1>1. \A r : r # Top => (Occupied(r)' <=> Occupied(r))
  BY DEF Occupied
<1>2. ~Occupied(Top)'
  BY <1>0 DEF Occupied
<1>3. \A b \in Branches : Occupied(b)' <=> Occupied(b)
  BY <1>1, NestingAssumption
<1>4. \A f \in Fork : Left(f)' = Left(f)
  <2> SUFFICES ASSUME NEW f \in Fork, NEW i \in 0..active[f] - 1
               PROVE  <<f, i>> \in Branches
    BY <1>3 DEF Left
  <2>1. active[f] \in 1..MaxFork /\ MaxFork \in Nat
    BY GraphAssumption DEF TypeOK
  <2> QED BY <2>1 DEF Branches
<1>5. Alone' /\ Ahead'
  BY <1>0 DEF Alone, Ahead
<1>6. Inside' /\ RunOnce'
  BY <1>0, <1>3 DEF Inside, RunOnce
<1>7. Counted'
  <2>1. \A j \in Join : ForkOf[j] \in Fork
    BY GraphAssumption
  <2> QED BY <1>0, <1>4, <2>1 DEF Counted
<1>8. EndedTop'
  BY <1>0, <1>2 DEF EndedTop, TypeOK
<1> QED BY <1>5, <1>6, <1>7, <1>8 DEF Flow

(* As long as a branch is at work, its join has not counted them all.      *)
LEMMA NotAllCounted ==
  ASSUME TypeOK, Flow, NEW j \in Join, NEW b \in Branches, b[1] = ForkOf[j], Occupied(b)
  PROVE  /\ runs[ForkOf[j]] # 0
         /\ b[2] \in Left(ForkOf[j])
         /\ IsFiniteSet(Left(ForkOf[j]))
         /\ Cardinality(Left(ForkOf[j])) \in Nat
         /\ module_joined_num[j] \in Nat
         /\ module_joined_num[j] + 1 <= active[ForkOf[j]]
         /\ module_joined_num[j] + Cardinality(Left(ForkOf[j])) = active[ForkOf[j]]
<1> DEFINE f == ForkOf[j]
<1>1. f \in Fork /\ active[f] \in 1..MaxFork /\ MaxFork \in Nat
      /\ module_joined_num[j] \in Nat
  BY GraphAssumption DEF TypeOK
<1>2. runs[f] # 0 /\ b[2] < active[f] /\ b[2] \in Nat /\ b = <<f, b[2]>>
  BY DEF Flow, Inside, Branches
<1>3. b[2] \in Left(f)
  BY <1>1, <1>2 DEF Left
<1>4. IsFiniteSet(Left(f)) /\ Cardinality(Left(f)) \in Nat
  <2>1. IsFiniteSet(0..active[f] - 1)
    <3>1. active[f] - 1 \in Int
      BY <1>1
    <3> HIDE DEF f
    <3> QED BY <3>1, FS_Interval
  <2>2. Left(f) \subseteq 0..active[f] - 1
    BY DEF Left
  <2>3. IsFiniteSet(Left(f))
    BY <2>1, <2>2, FS_Subset
  <2> QED BY <2>3, FS_CardinalityType
<1>5. Cardinality(Left(f)) # 0
  BY <1>3, <1>4, FS_EmptySet
<1>6. module_joined_num[j] + Cardinality(Left(f)) = active[f]
  BY <1>2 DEF Flow, Counted
<1> QED BY <1>1, <1>2, <1>3, <1>4, <1>5, <1>6

(* A join counts the thread of branch b in.                                *)
LEMMA CountFlow ==
  ASSUME TypeOK, Flow,
         NEW j \in Join, NEW b \in Branches, b[1] = ForkOf[j], Occupied(b), b \notin Pending,
         Busy' = {m \in Busy : Region[m] # b}, Pending' = Pending,
         module_joined_num' = [module_joined_num EXCEPT ![j] = @ + 1],
         UNCHANGED <<active, ended, runs>>
  PROVE  Flow'
<1>0. /\ Alone /\ Ahead /\ Inside /\ Counted /\ RunOnce /\ EndedTop
  BY DEF Flow
<1>1. \A r : r # b => (Occupied(r)' <=> Occupied(r))
  BY DEF Occupied
<1>2. ~Occupied(b)'
  BY DEF Occupied
<1>3. Alone' /\ Ahead'
  BY <1>0 DEF Alone, Ahead
<1>4. Inside' /\ RunOnce'
  BY <1>0, <1>1, <1>2 DEF Inside, RunOnce
<1>5. EndedTop'
  BY <1>0, <1>1, NestingAssumption DEF EndedTop
<1>6. Counted'
  <2> SUFFICES ASSUME NEW k \in Join
               PROVE  /\ runs[ForkOf[k]] = 0 => module_joined_num'[k] = 0
                      /\ runs[ForkOf[k]] # 0 =>
                           module_joined_num'[k] + Cardinality(Left(ForkOf[k])') = active[ForkOf[k]]
    BY DEF Counted
  <2>1. CASE k # j
    <3>1. ForkOf[k] # b[1]
      BY <2>1, NestingAssumption DEF Paired
    <3>2. \A i : Occupied(<<ForkOf[k], i>>)' <=> Occupied(<<ForkOf[k], i>>)
      BY <1>1, <3>1
    <3>3. Left(ForkOf[k])' = Left(ForkOf[k])
      BY <3>2 DEF Left
    <3> QED BY <1>0, <2>1, <3>3 DEF Counted, TypeOK
  <2>2. CASE k = j
    <3> DEFINE L == Left(ForkOf[j])
    <3>1. /\ runs[ForkOf[j]] # 0 /\ b[2] \in L /\ IsFiniteSet(L) /\ Cardinality(L) \in Nat
          /\ module_joined_num[j] \in Nat
          /\ module_joined_num[j] + Cardinality(L) = active[ForkOf[j]]
      BY NotAllCounted
    <3>2. b = <<ForkOf[j], b[2]>>
      BY DEF Branches
    <3>3. \A i : Occupied(<<ForkOf[j], i>>)' <=> Occupied(<<ForkOf[j], i>>) /\ i # b[2]
      <4> TAKE i
      <4>1. CASE i = b[2]
        BY <1>2, <3>2, <4>1
      <4>2. CASE i # b[2]
        BY <1>1, <3>2, <4>2
      <4> QED BY <4>1, <4>2
    <3>4. L' = L \ {b[2]}
      BY <3>3 DEF Left
    <3>5. Cardinality(L') = Cardinality(L) - 1
      <4> HIDE DEF L
      <4>1. Cardinality(L \ {b[2]}) = Cardinality(L) - 1
        BY <3>1, FS_RemoveElement
      <4> QED BY <3>4, <4>1
    <3>6. module_joined_num'[j] = module_joined_num[j] + 1
      BY DEF TypeOK
    <3> QED BY <2>2, <3>1, <3>5, <3>6
  <2> QED BY <2>1, <2>2
<1> QED BY <1>3, <1>4, <1>5, <1>6 DEF Flow
-----------------------------------------------------------------------------
(* Steps that take the thread of region r from where it is; rest are the   *)
(* calls that stay.                                                        *)
Taken(r, rest) ==
  /\ Occupied(r)
  /\ rest \subseteq calls
  /\ \A c \in calls \ rest : c.mod \notin Fork \cup Join
  /\ HeldIn(rest) = {m \in Held : Region[m] # r}
  /\ waiting' = {m \in waiting : Region[m] # r}
  /\ OpenedIn(rest, join_timer') = {j \in Opened : Region[j] # r}
  /\ join_timer' \in [Join -> {Mod_else, Mod_Succeed, Mod_Failed}]
  /\ \A j \in Join : join_timer'[j] \in {Mod_else, join_timer[j]}
  /\ fork_timer' = fork_timer \ {r}
  /\ r \notin {b \in Branches : Looping(b)}
  /\ UNCHANGED <<module_joined_num, failed_join, active, refused>>

(* What the calls that stay are like.                                      *)
LEMMA RestControl ==
  ASSUME IInv, NEW r, NEW rest, Taken(r, rest)
  PROVE  /\ \A c \in rest : c \in [mod : Module, from : Module \cup {NoModule},
                                   last : State, num : 0..MaxFork]
         /\ \A t \in fork_timer' :
              /\ t \in Fork \X (0..MaxFork - 1)
              /\ t[2] < active[t[1]]
              /\ \A c \in rest : c.mod = t[1] => t[2] < c.num
         /\ \A c \in rest : c.mod \in Join => c.num <= module_joined_num[c.mod]
         /\ \A c, d \in rest : c.mod \in Join /\ c.mod = d.mod /\ c.num = d.num /\ c.num # 0
              => c = d
         /\ \A j \in Join : join_timer'[j] # Mod_else =>
              /\ module_joined_num[j] = active[ForkOf[j]]
              /\ \A c \in rest : c.mod = j => c.num # active[ForkOf[j]]
         /\ waiting' \cap (Fork \cup Join) = {}
         /\ HeldIn(rest) \cap waiting' = {}
         /\ HeldIn(rest) \cap OpenedIn(rest, join_timer') = {}
         /\ JoinState'
<1>1. \A c \in rest : c \in calls
  BY DEF Taken
<1>2. \A t \in fork_timer' : t \in fork_timer
  BY DEF Taken
<1>3. \A c \in rest : c \in [mod : Module, from : Module \cup {NoModule},
                             last : State, num : 0..MaxFork]
  BY <1>1 DEF IInv, TypeOK
<1>4. \A t \in fork_timer' :
        /\ t \in Fork \X (0..MaxFork - 1)
        /\ t[2] < active[t[1]]
        /\ \A c \in rest : c.mod = t[1] => t[2] < c.num
  BY <1>1, <1>2 DEF IInv, TypeOK, Control, Armed
<1>5. /\ \A c \in rest : c.mod \in Join => c.num <= module_joined_num[c.mod]
      /\ \A c, d \in rest : c.mod \in Join /\ c.mod = d.mod /\ c.num = d.num /\ c.num # 0
           => c = d
  BY <1>1 DEF IInv, Control, Joining
<1>6. \A j \in Join : join_timer'[j] # Mod_else =>
        /\ module_joined_num[j] = active[ForkOf[j]]
        /\ \A c \in rest : c.mod = j => c.num # active[ForkOf[j]]
  BY <1>1 DEF IInv, Control, Joining, Taken
<1>7. waiting' \cap (Fork \cup Join) = {} /\ HeldIn(rest) \cap waiting' = {}
      /\ HeldIn(rest) \cap OpenedIn(rest, join_timer') = {}
  <2>1. /\ waiting \cap (Fork \cup Join) = {} /\ Held \cap waiting = {} /\ Held \cap Opened = {}
    BY DEF IInv, Control, Apart
  <2>2. /\ waiting' \subseteq waiting /\ HeldIn(rest) \subseteq Held
        /\ OpenedIn(rest, join_timer') \subseteq Opened
    BY DEF Taken
  <2> QED BY <2>1, <2>2
<1>8. JoinState'
  BY DEF IInv, Control, JoinState, Taken
<1> QED BY <1>3, <1>4, <1>5, <1>6, <1>7, <1>8

(* A new call in the calls that stay.                                      *)
LEMMA HeldWith ==
  ASSUME NEW rest, NEW n, NEW p, NEW s
  PROVE  HeldIn(rest \cup {Call(n, p, s)})
           = HeldIn(rest) \cup (IF n \in Fork THEN {} ELSE IF n \in Join THEN {p} ELSE {n})
<1> DEFINE new == Call(n, p, s)
<1>1. new.mod = n /\ new.from = p /\ new.num = 0
  BY DEF Call
<1>2. Home(new) = IF n \in Join THEN p ELSE n
  BY <1>1 DEF Home
<1> HIDE DEF new
<1>3. HeldIn(rest \cup {new})
        = HeldIn(rest) \cup (IF n \in Fork THEN {} ELSE {Home(new)})
  BY <1>1 DEF HeldIn
<1> QED BY <1>2, <1>3 DEF new

(* ... counts for no join, nor for a fork but the one it is at.            *)
LEMMA FinishedWith ==
  ASSUME TypeOK, NEW rest, NEW timer, NEW n, NEW p, NEW s, NEW j \in Join
  PROVE  FinishedIn(j, rest \cup {Call(n, p, s)}, timer) <=> FinishedIn(j, rest, timer)
<1>1. active[ForkOf[j]] # 0
  BY GraphAssumption DEF TypeOK
<1> QED BY <1>1 DEF FinishedIn, Call

(* resume enters n, which is no join.                                      *)
LEMMA EnterStep ==
  ASSUME IInv, NEW r \in Regions, NEW rest, Taken(r, rest),
         NEW n \in Module \ Join, Region[n] = r,
         \A m \in Busy : Region[m] = r => Rank[m] < Rank[n],
         NEW p \in Module, NEW s \in State,
         calls' = rest \cup {Call(n, p, s)}, CountRun(n),
         exit' \in BOOLEAN, UNCHANGED ended
  PROVE  IInv'
<1> DEFINE new == Call(n, p, s)
<1>0. /\ new.mod = n /\ new.from = p /\ new.num = 0 /\ new.last = s
      /\ new \in [mod : Module, from : Module \cup {NoModule}, last : State, num : 0..MaxFork]
  BY GraphAssumption DEF Call
<1>a. calls' = rest \cup {new}
  OBVIOUS
<1> HIDE DEF new
<1>1. TypeOK /\ Flow /\ Control /\ Occupied(Region[n])
  BY DEF IInv, Taken
<1>2. runs[n] = 0
  BY <1>1, NotYetEntered
<1>3. \A x \in Module \ Join : runs'[x] = IF x = n THEN 1 ELSE runs[x]
  BY <1>2 DEF CountRun
<1>4. /\ Mark(n) \in Module \ Fork /\ Region[Mark(n)] = r
      /\ Fork \subseteq Module \ Join
  BY MarkFacts, GraphAssumption
<1>5. Held' = HeldIn(rest) \cup (IF n \in Fork THEN {} ELSE {n})
  <2>1. Held' = HeldIn(rest \cup {Call(n, p, s)})
    BY DEF Held, HeldIn, Home
  <2> QED BY <2>1, HeldWith
<1>6. Opened' = OpenedIn(rest, join_timer') \cup (IF n \in Fork THEN {JoinFor(n)} ELSE {})
  <2>1. \A j \in Join : FinishedIn(j, calls, join_timer)' <=> FinishedIn(j, rest, join_timer')
    <3>1. \A j \in Join : FinishedIn(j, rest \cup {Call(n, p, s)}, join_timer')
                            <=> FinishedIn(j, rest, join_timer')
      BY <1>1, FinishedWith
    <3>2. \A j \in Join : FinishedIn(j, calls, join_timer)'
                            <=> FinishedIn(j, rest \cup {Call(n, p, s)}, join_timer')
      BY DEF FinishedIn, Taken
    <3> QED BY <3>1, <3>2
  <2>2. ASSUME NEW j \in Join, ForkOf[j] # n
        PROVE  j \in Opened' <=> j \in OpenedIn(rest, join_timer')
    <3>1. runs'[ForkOf[j]] = runs[ForkOf[j]]
      BY <1>3, <1>4, <2>2, GraphAssumption
    <3> QED BY <2>1, <3>1 DEF Opened, OpenedIn
  <2>3. ASSUME NEW j \in Join, ForkOf[j] = n
        PROVE  j \in Opened' /\ n \in Fork /\ j = JoinFor(n)
    <3>1. module_joined_num[j] = 0 /\ active[ForkOf[j]] # 0
      BY <1>1, <1>2, <2>3, GraphAssumption DEF Flow, Counted, TypeOK
    <3>2. ~FinishedIn(j, rest, join_timer')
      BY <3>1 DEF FinishedIn
    <3>3. runs'[ForkOf[j]] # 0
      BY <1>3, <2>3
    <3>4. n \in Fork /\ j = JoinFor(n)
      BY <2>3, JoinOfFork, GraphAssumption
    <3> QED BY <2>1, <3>2, <3>3, <3>4 DEF Opened, OpenedIn
  <2>4. n \in Fork => JoinFor(n) \in Join /\ ForkOf[JoinFor(n)] = n
    BY JoinOfFork
  <2>5. ASSUME NEW j \in OpenedIn(rest, join_timer') PROVE ForkOf[j] # n
    BY <1>2, <2>5 DEF OpenedIn
  <2>6. Opened' \subseteq Join /\ OpenedIn(rest, join_timer') \subseteq Join
    BY DEF Opened, OpenedIn
  <2> QED BY <2>2, <2>3, <2>4, <2>5, <2>6
<1>7. Busy' = {m \in Busy : Region[m] # r} \cup {Mark(n)}
  <2>1. HeldIn(rest) \cup waiting' \cup OpenedIn(rest, join_timer') = {m \in Busy : Region[m] # r}
    BY DEF Taken, Busy
  <2>2. Mark(n) = IF n \in Fork THEN JoinFor(n) ELSE n
    BY DEF Mark
  <2>3. Busy' = Held' \cup waiting' \cup Opened'
    BY DEF Busy
  <2> QED BY <1>5, <1>6, <2>1, <2>2, <2>3
<1>8. Pending' = (Pending \ {r}) \cup Opens(n)
  <2>1. ASSUME NEW b \in Branches PROVE Looping(b)' <=> Looping(b) \/ b \in Opens(n)
    <3>1. b[1] \in Fork /\ b[2] \in Nat
      BY DEF Branches
    <3>2. active' = active
      BY DEF Taken
    <3>3. (\E c \in calls' : c.mod = b[1] /\ c.num <= b[2])
            <=> (\E c \in rest : c.mod = b[1] /\ c.num <= b[2]) \/ b[1] = n
      BY <1>0, <1>a, <3>1
    <3>4. \A c \in calls : c.mod = b[1] => c \in rest
      BY <3>1 DEF Taken
    <3>5. rest \subseteq calls
      BY DEF Taken
    <3> QED BY <3>2, <3>3, <3>4, <3>5 DEF Looping, Opens
  <2>2. Opens(n) \subseteq Branches
    BY DEF Opens
  <2>3. fork_timer' = fork_timer \ {r} /\ r \notin {b \in Branches : Looping(b)}
    BY DEF Taken
  <2> QED BY <2>1, <2>2, <2>3 DEF Pending
<1>9. Flow'
  BY <1>1, <1>7, <1>8, EnterFlow DEF Taken
<1>10. /\ \A c \in calls' : c = new \/ (c \in rest /\ c \in calls)
       /\ rest \subseteq calls
  BY <1>a DEF Taken
<1>11. TypeOK'
  <2>1. calls' \subseteq [mod : Module, from : Module \cup {NoModule}, last : State, num : 0..MaxFork]
    BY <1>0, <1>1, <1>10 DEF TypeOK
  <2>2. runs' \in [Module \ Join -> Nat]
    BY <1>1 DEF CountRun, TypeOK
  <2> QED BY <1>1, <2>1, <2>2 DEF TypeOK, Taken
<1>12. CallShape'
  <2>1. \A c \in rest : /\ c.mod \in Fork => c.num < active[c.mod] /\ runs[c.mod] # 0
                        /\ c.mod \notin Fork \cup Join => c.num = 0
                        /\ c.mod \in Join => /\ c.from \in Module \ Fork
                                             /\ Region[c.from] # Top
                                             /\ Region[c.from][1] = ForkOf[c.mod]
    BY <1>1, <1>10 DEF Control, CallShape
  <2>2. \A c \in rest : c.mod \in Fork => runs'[c.mod] # 0
    BY <1>3, <1>4, <2>1
  <2>3. n \in Fork => 0 < active[n] /\ runs'[n] # 0
    BY <1>1, <1>3 DEF TypeOK
  <2> QED BY <1>0, <1>a, <2>1, <2>2, <2>3 DEF CallShape, Taken
<1>13. Apart'
  <2>1. \A c \in rest : (c.mod \in Join => c.num = 0) => Home(c) # n
    <3> SUFFICES ASSUME NEW c \in rest, c.mod \in Join => c.num = 0 PROVE Home(c) # n
      OBVIOUS
    <3>1. CASE c.mod \in Fork
      <4>1. runs[c.mod] # 0
        BY <1>1, <1>10, <3>1 DEF Control, CallShape
      <4> QED BY <1>2, <3>1, <4>1, GraphAssumption DEF Home
    <3>2. CASE c.mod \notin Fork
      <4>1. Home(c) \in HeldIn(rest)
        BY <3>2 DEF HeldIn
      <4> QED BY <4>1 DEF Taken
    <3> QED BY <3>1, <3>2
  <2>2. Home(new) = n
    BY <1>0 DEF Home
  <2>3. \A c \in AtWork' : c = new \/ (c \in rest /\ c \in AtWork)
    BY <1>10 DEF AtWork
  <2>4. \A c \in AtWork' : c.mod \in Join => c.num = 0
    BY DEF AtWork
  <2>5. \A c, d \in AtWork' : Home(c) = Home(d) => c = d
    BY <1>1, <2>1, <2>2, <2>3, <2>4 DEF Control, Apart
  <2>6. /\ waiting' \cap (Fork \cup Join) = {}
        /\ HeldIn(rest) \cap waiting' = {}
        /\ HeldIn(rest) \cap OpenedIn(rest, join_timer') = {}
    BY RestControl
  <2>7. n \notin waiting'
    BY DEF Taken
  <2>8. n \in Fork => JoinFor(n) \notin HeldIn(rest)
    BY JoinOfFork DEF Taken
  <2>9. OpenedIn(rest, join_timer') \subseteq Join /\ (n \in Fork => JoinFor(n) \in Join)
    BY JoinOfFork DEF OpenedIn
  <2>10. Held' \cap waiting' = {} /\ Held' \cap Opened' = {}
    BY <1>5, <1>6, <2>6, <2>7, <2>8, <2>9
  <2> QED BY <2>5, <2>6, <2>10 DEF Apart, Home
<1>14. Armed'
  <2>1. \A t \in fork_timer' : t[1] # n
    <3> SUFFICES ASSUME NEW t \in fork_timer', t[1] = n PROVE FALSE
      OBVIOUS
    <3>1. t \in Branches /\ Occupied(t)
      BY <1>1 DEF Taken, TypeOK, Branches, Occupied, Pending
    <3> QED BY <1>1, <1>2, <3>1 DEF Flow, Inside
  <2>2. \A t \in fork_timer' : /\ t[2] < active[t[1]]
                               /\ \A c \in rest : c.mod = t[1] => t[2] < c.num
    BY RestControl
  <2> QED BY <1>0, <1>10, <2>1, <2>2 DEF Armed, Taken
<1>15. Joining' /\ JoinState'
  <2>1. /\ \A c \in rest : c.mod \in Join => c.num <= module_joined_num[c.mod]
        /\ \A c, d \in rest : c.mod \in Join /\ c.mod = d.mod /\ c.num = d.num /\ c.num # 0
             => c = d
        /\ \A j \in Join : join_timer'[j] # Mod_else =>
             /\ module_joined_num[j] = active[ForkOf[j]]
             /\ \A c \in rest : c.mod = j => c.num # active[ForkOf[j]]
        /\ JoinState'
    BY RestControl
  <2>2. \A j \in Join : failed_join[j] <=> j \in refused
    BY <1>1 DEF Control, Joining
  <2> QED BY <1>0, <1>10, <2>1, <2>2 DEF Joining, Taken
<1> QED BY <1>9, <1>11, <1>12, <1>13, <1>14, <1>15 DEF IInv, Control

(* resume brings the thread of a branch, which is at m, to the join.       *)
LEMMA ToJoinStep ==
  ASSUME IInv, NEW m \in Busy, NEW rest, Taken(Region[m], rest),
         NEW k \in Join, Region[m] # Top, Region[m][1] = ForkOf[k],
         NEW s \in State,
         calls' = rest \cup {Call(k, m, s)}, exit' \in BOOLEAN, UNCHANGED <<runs, ended>>
  PROVE  IInv'
<1> DEFINE new == Call(k, m, s)
           r == Region[m]
<1>1. TypeOK /\ Flow /\ Control /\ m \in Module \ Fork /\ k \in Module /\ k \notin Fork
  BY GraphAssumption DEF IInv, Flow, Alone
<1>2. /\ new.mod = k /\ new.from = m /\ new.num = 0 /\ new.last = s
      /\ new \in [mod : Module, from : Module \cup {NoModule}, last : State, num : 0..MaxFork]
  BY <1>1, GraphAssumption DEF Call
<1>3. calls' = rest \cup {new}
  OBVIOUS
<1> HIDE DEF new
<1>4. /\ \A c \in calls' : c = new \/ (c \in rest /\ c \in calls)
      /\ rest \subseteq calls
  BY <1>3 DEF Taken
<1>5. Held' = HeldIn(rest) \cup {m}
  <2>1. Held' = HeldIn(rest \cup {Call(k, m, s)})
    BY DEF Held, HeldIn, Home
  <2> QED BY <1>1, <2>1, HeldWith
<1>6. Opened' = OpenedIn(rest, join_timer')
  <2>1. \A j \in Join : FinishedIn(j, rest \cup {Call(k, m, s)}, join_timer')
                          <=> FinishedIn(j, rest, join_timer')
    BY <1>1, FinishedWith
  <2>2. \A j \in Join : FinishedIn(j, calls, join_timer)'
                          <=> FinishedIn(j, rest \cup {Call(k, m, s)}, join_timer')
    BY DEF FinishedIn, Taken
  <2> QED BY <2>1, <2>2 DEF Opened, OpenedIn
<1>7. Busy' = Busy
  <2>1. HeldIn(rest) \cup waiting' \cup OpenedIn(rest, join_timer') = {x \in Busy : Region[x] # r}
    BY DEF Taken, Busy
  <2>2. Busy' = Held' \cup waiting' \cup Opened'
    BY DEF Busy
  <2>3. \A x \in Busy : Region[x] = r => x = m
    BY <1>1 DEF Flow, Alone
  <2> QED BY <1>5, <1>6, <2>1, <2>2, <2>3
<1>8. Pending' = Pending
  <2>1. ASSUME NEW b \in Branches PROVE Looping(b)' <=> Looping(b)
    <3>1. b[1] \in Fork /\ b[1] # k
      BY <1>1 DEF Branches
    <3>2. \A c \in calls : c.mod = b[1] => c \in rest
      BY <3>1 DEF Taken
    <3>3. active' = active
      BY DEF Taken
    <3> QED BY <1>2, <1>3, <1>4, <3>1, <3>2, <3>3 DEF Looping
  <2>2. r \notin Pending
    BY <1>1 DEF Flow, Alone
  <2>3. fork_timer' = fork_timer
    BY <2>2 DEF Taken, Pending
  <2> QED BY <2>1, <2>3 DEF Pending
<1>9. Flow'
  BY <1>1, <1>7, <1>8, SameFlow DEF Taken
<1>10. TypeOK'
  <2>1. calls' \subseteq [mod : Module, from : Module \cup {NoModule}, last : State, num : 0..MaxFork]
    BY <1>1, <1>2, <1>4 DEF TypeOK
  <2> QED BY <1>1, <2>1 DEF TypeOK, Taken
<1>11. CallShape'
  BY <1>1, <1>2, <1>4 DEF Control, CallShape, Taken
<1>12. Apart'
  <2>1. \A c \in rest : (c.mod \in Join => c.num = 0) => Home(c) # m
    <3> SUFFICES ASSUME NEW c \in rest, c.mod \in Join => c.num = 0 PROVE Home(c) # m
      OBVIOUS
    <3>1. CASE c.mod \in Fork
      BY <1>1, <3>1, GraphAssumption DEF Home
    <3>2. CASE c.mod \notin Fork
      <4>1. Home(c) \in HeldIn(rest)
        BY <3>2 DEF HeldIn
      <4> QED BY <4>1 DEF Taken
    <3> QED BY <3>1, <3>2
  <2>2. Home(new) = m
    BY <1>2 DEF Home
  <2>3. \A c \in AtWork' : c = new \/ (c \in rest /\ c \in AtWork)
    BY <1>4 DEF AtWork
  <2>4. \A c \in AtWork' : c.mod \in Join => c.num = 0
    BY DEF AtWork
  <2>5. \A c, d \in AtWork' : Home(c) = Home(d) => c = d
    BY <1>1, <2>1, <2>2, <2>3, <2>4 DEF Control, Apart
  <2>6. /\ waiting' \cap (Fork \cup Join) = {}
        /\ HeldIn(rest) \cap waiting' = {}
        /\ HeldIn(rest) \cap OpenedIn(rest, join_timer') = {}
    BY RestControl
  <2>7. m \notin waiting' /\ m \notin OpenedIn(rest, join_timer')
    BY DEF Taken
  <2>8. Held' \cap waiting' = {} /\ Held' \cap Opened' = {}
    BY <1>5, <1>6, <2>6, <2>7
  <2> QED BY <2>5, <2>6, <2>8 DEF Apart, Home
<1>13. Armed'
  <2>1. \A t \in fork_timer' : /\ t[1] # k
                               /\ t[2] < active[t[1]]
                               /\ \A c \in rest : c.mod = t[1] => t[2] < c.num
    BY <1>1, RestControl
  <2> QED BY <1>2, <1>4, <2>1 DEF Armed, Taken
<1>14. Joining' /\ JoinState'
  <2>1. /\ \A c \in rest : c.mod \in Join => c.num <= module_joined_num[c.mod]
        /\ \A c, d \in rest : c.mod \in Join /\ c.mod = d.mod /\ c.num = d.num /\ c.num # 0
             => c = d
        /\ \A j \in Join : join_timer'[j] # Mod_else =>
             /\ module_joined_num[j] = active[ForkOf[j]]
             /\ \A c \in rest : c.mod = j => c.num # active[ForkOf[j]]
        /\ JoinState'
    BY RestControl
  <2>2. \A j \in Join : failed_join[j] <=> j \in refused
    BY <1>1 DEF Control, Joining
  <2>3. /\ 0 <= module_joined_num[k]
        /\ \A j \in Join : active[ForkOf[j]] # 0
    BY <1>1, GraphAssumption DEF TypeOK
  <2> QED BY <1>2, <1>4, <2>1, <2>2, <2>3 DEF Joining, Taken
<1> QED BY <1>9, <1>10, <1>11, <1>12, <1>13, <1>14 DEF IInv, Control

(* resume ends the request.                                                *)
LEMMA EndStep ==
  ASSUME IInv, NEW rest, Taken(Top, rest), calls' = rest,
         ended' = ended + 1, exit' \in BOOLEAN, UNCHANGED runs
  PROVE  IInv'
<1>1. TypeOK /\ Flow /\ Control /\ rest \subseteq calls /\ Occupied(Top)
  BY DEF IInv, Taken
<1>2. Held' = HeldIn(rest)
  BY DEF Held, HeldIn, Home
<1>3. Opened' = OpenedIn(rest, join_timer')
  <2>1. \A j \in Join : FinishedIn(j, calls, join_timer)' <=> FinishedIn(j, rest, join_timer')
    BY DEF FinishedIn, Taken
  <2> QED BY <2>1 DEF Opened, OpenedIn
<1>4. Busy' = {x \in Busy : Region[x] # Top}
  <2>1. HeldIn(rest) \cup waiting' \cup OpenedIn(rest, join_timer') = {x \in Busy : Region[x] # Top}
    BY DEF Taken, Busy
  <2> QED BY <1>2, <1>3, <2>1 DEF Busy
<1>5. Pending' = Pending
  <2>1. ASSUME NEW b \in Branches PROVE Looping(b)' <=> Looping(b)
    <3>1. b[1] \in Fork
      BY DEF Branches
    <3>2. \A c \in calls : c.mod = b[1] => c \in rest
      BY <3>1 DEF Taken
    <3> QED BY <1>1, <3>2 DEF Looping, Taken
  <2>2. fork_timer' = fork_timer
    BY <1>1, NestingAssumption DEF Taken, TypeOK, Branches
  <2> QED BY <2>1, <2>2 DEF Pending
<1>6. Flow'
  BY <1>1, <1>4, <1>5, EndFlow DEF Taken
<1>7. TypeOK'
  BY <1>1 DEF TypeOK, Taken
<1>8. CallShape'
  BY <1>1 DEF Control, CallShape, Taken
<1>9. Apart'
  <2>1. \A c, d \in AtWork' : Home(c) = Home(d) => c = d
    BY <1>1 DEF Control, Apart, AtWork
  <2> QED BY <1>2, <1>3, <2>1, RestControl DEF Apart, Home
<1>10. Armed'
  BY RestControl DEF Armed, Taken
<1>11. Joining' /\ JoinState'
  <2>1. \A j \in Join : failed_join[j] <=> j \in refused
    BY <1>1 DEF Control, Joining
  <2> QED BY <2>1, RestControl DEF Joining, Taken
<1> QED BY <1>6, <1>7, <1>8, <1>9, <1>10, <1>11 DEF IInv, Control

(* The thread of a region in which m is busy is at m.                      *)
LEMMA TakenFrom ==
  ASSUME IInv, NEW m \in Busy, NEW rest, rest \subseteq calls,
         \A c \in calls \ rest : c.mod \notin Fork \cup Join,
         HeldIn(rest) = Held \ {m},
         waiting' = waiting \ {m},
         OpenedIn(rest, join_timer') = Opened \ {m},
         join_timer' \in [Join -> {Mod_else, Mod_Succeed, Mod_Failed}],
         \A j \in Join : join_timer'[j] \in {Mod_else, join_timer[j]},
         UNCHANGED <<fork_timer, module_joined_num, failed_join, active, refused>>
  PROVE  Taken(Region[m], rest)
<1>1. \A x \in Busy : Region[x] = Region[m] <=> x = m
  BY DEF IInv, Flow, Alone
<1>2. Held \cup waiting \cup Opened = Busy
  BY DEF Busy
<1>3. /\ Held \ {m} = {x \in Held : Region[x] # Region[m]}
      /\ waiting \ {m} = {x \in waiting : Region[x] # Region[m]}
      /\ Opened \ {m} = {x \in Opened : Region[x] # Region[m]}
  BY <1>1, <1>2
<1>4. Region[m] \notin Pending
  BY DEF IInv, Flow, Alone
<1>5. /\ fork_timer' = fork_timer \ {Region[m]}
      /\ Region[m] \notin {b \in Branches : Looping(b)}
  BY <1>4 DEF Pending
<1>6. Occupied(Region[m])
  BY DEF Occupied
<1> QED BY <1>3, <1>5, <1>6 DEF Taken

(* A module that is no fork has ended with a state it may end with.        *)
LEMMA ResumeStep ==
  ASSUME IInv, NEW m \in Busy, NEW rest, Taken(Region[m], rest),
         NEW s \in EndStates(m), NEW e \in BOOLEAN, resume(m, s, rest, e)
  PROVE  IInv'
<1> DEFINE n == get_next_module(m, s)
<1>1. m \in Module \ Fork /\ exit \in BOOLEAN
  BY DEF IInv, Flow, Alone, TypeOK
<1>2. s \in State
  <2>1. CASE m \in Join
    BY <2>1 DEF EndStates, State
  <2>2. CASE m \notin Join
    BY <1>1, <2>2 DEF EndStates, State
  <2> QED BY <2>1, <2>2
<1>3. m # EndMod => \/ n = NoModule /\ Region[m] = Top
                    \/ n \in Module \ Join /\ Region[n] = Region[m] /\ Rank[m] < Rank[n]
                    \/ n \in Join /\ Region[m] # Top /\ Region[m][1] = ForkOf[n]
  BY <1>1, NestingAssumption DEF Following
<1>4. NoModule \notin Module /\ Join \subseteq Module
  BY GraphAssumption
<1>5. \/ m = EndMod /\ ended' = ended + 1 /\ calls' = rest /\ exit' = (exit \/ e) /\ UNCHANGED runs
      \/ /\ m # EndMod /\ n = NoModule /\ ended' = ended + 1 /\ calls' = rest /\ exit' = TRUE
         /\ UNCHANGED runs
      \/ /\ m # EndMod /\ n # NoModule /\ calls' = rest \cup {Call(n, m, s)} /\ CountRun(n)
         /\ exit' = (exit \/ e) /\ UNCHANGED ended
  BY DEF resume
<1> HIDE DEF n
<1>6. exit' \in BOOLEAN
  BY <1>1, <1>5
<1>7. CASE m = EndMod \/ n = NoModule
  <2>1. Region[m] = Top
    BY <1>3, <1>4, <1>7, NestingAssumption
  <2>2. ended' = ended + 1 /\ calls' = rest /\ UNCHANGED runs
    BY <1>5, <1>7
  <2> QED BY <1>6, <2>1, <2>2, EndStep
<1>8. CASE m # EndMod /\ n # NoModule
  <2>1. calls' = rest \cup {Call(n, m, s)} /\ CountRun(n) /\ UNCHANGED ended
    BY <1>5, <1>8
  <2>2. CASE n \in Module \ Join /\ Region[n] = Region[m] /\ Rank[m] < Rank[n]
    <3>1. \A x \in Busy : Region[x] = Region[m] => Rank[x] < Rank[n]
      BY <2>2 DEF IInv, Flow, Alone
    <3>2. Region[m] \in Regions
      BY <1>1, RegionFacts
    <3> QED BY <1>1, <1>2, <1>6, <2>1, <2>2, <3>1, <3>2, EnterStep
  <2>3. CASE n \in Join /\ Region[m] # Top /\ Region[m][1] = ForkOf[n]
    <3>1. UNCHANGED runs
      <4>1. \A x \in Module \ Join : runs'[x] = runs[x]
        BY <2>1, <2>3 DEF CountRun
      <4>2. runs \in [Module \ Join -> Nat] /\ runs' = [x \in Module \ Join |-> runs'[x]]
        BY <2>1 DEF IInv, TypeOK, CountRun
      <4> QED BY <4>1, <4>2
    <3> QED BY <1>2, <1>6, <2>1, <2>3, <3>1, ToJoinStep
  <2> QED BY <1>3, <1>8, <2>2, <2>3
<1> QED BY <1>7, <1>8
-----------------------------------------------------------------------------
(* The actions                                                             *)

(* A call in a module that is neither fork nor join.                       *)
LEMMA AtPlain ==
  ASSUME IInv, NEW c \in calls, c.mod \notin Fork \cup Join
  PROVE  /\ c.mod \in Module /\ c.mod \in Held /\ c.mod \in Busy
         /\ c.mod \notin waiting /\ c.mod \notin Opened
         /\ HeldIn(calls \ {c}) = Held \ {c.mod}
         /\ \A timer : \A j \in Join :
              FinishedIn(j, calls \ {c}, timer) <=> FinishedIn(j, calls, timer)
<1>1. c.mod \in Module /\ c \in AtWork /\ Home(c) = c.mod
  BY DEF IInv, TypeOK, AtWork, Home
<1>2. c.mod \in Held
  BY <1>1 DEF Held, HeldIn
<1>3. c.mod \notin waiting /\ c.mod \notin Opened
  BY <1>2 DEF IInv, Control, Apart
<1>4. HeldIn(calls \ {c}) = Held \ {c.mod}
  <2>1. \A d \in AtWork : Home(d) = c.mod => d = c
    BY <1>1 DEF IInv, Control, Apart
  <2>2. Held = {Home(d) : d \in {x \in AtWork : x.mod \notin Fork}}
    BY DEF Held, HeldIn, AtWork
  <2>3. HeldIn(calls \ {c}) = {Home(d) : d \in {x \in AtWork \ {c} : x.mod \notin Fork}}
    BY DEF HeldIn, AtWork
  <2> QED BY <1>1, <2>1, <2>2, <2>3
<1>5. \A timer : \A j \in Join : FinishedIn(j, calls \ {c}, timer) <=> FinishedIn(j, calls, timer)
  BY DEF FinishedIn
<1> QED BY <1>1, <1>2, <1>3, <1>4, <1>5 DEF Busy

LEMMA RunSync ==
  ASSUME IInv, NEW c \in calls, c.mod \notin Fork \cup Join,
         NEW s \in SyncState[c.mod], resume(c.mod, s, calls \ {c}, FALSE),
         UNCHANGED <<waiting, fork_timer, join_timer, module_joined_num, failed_join, active, refused>>
  PROVE  IInv'
<1>1. /\ c.mod \in Busy /\ c.mod \notin waiting /\ c.mod \notin Opened
      /\ HeldIn(calls \ {c}) = Held \ {c.mod}
      /\ \A j \in Join : FinishedIn(j, calls \ {c}, join_timer) <=> FinishedIn(j, calls, join_timer)
  BY AtPlain
<1>2. OpenedIn(calls \ {c}, join_timer') = Opened \ {c.mod}
  BY <1>1 DEF Opened, OpenedIn
<1>3. join_timer' \in [Join -> {Mod_else, Mod_Succeed, Mod_Failed}]
  BY DEF IInv, TypeOK
<1>4. Taken(Region[c.mod], calls \ {c})
  <2>1. /\ calls \ {c} \subseteq calls
        /\ \A d \in calls \ (calls \ {c}) : d.mod \notin Fork \cup Join
        /\ waiting' = waiting \ {c.mod}
        /\ \A j \in Join : join_timer'[j] \in {Mod_else, join_timer[j]}
    BY <1>1
  <2> QED BY <1>1, <1>2, <1>3, <2>1, TakenFrom
<1>5. s \in EndStates(c.mod)
  BY DEF EndStates
<1> QED BY <1>1, <1>4, <1>5, ResumeStep

LEMMA RunAsync ==
  ASSUME IInv, NEW c \in calls, c.mod \notin Fork \cup Join,
         waiting' = waiting \cup {c.mod}, calls' = calls \ {c},
         UNCHANGED <<exit, ended, runs, fork_timer, join_timer, module_joined_num, failed_join,
                     active, refused>>
  PROVE  IInv'
<1>1. /\ c.mod \in Module /\ c.mod \in Held /\ c.mod \notin waiting /\ c.mod \notin Opened
      /\ HeldIn(calls \ {c}) = Held \ {c.mod}
      /\ \A j \in Join : FinishedIn(j, calls \ {c}, join_timer) <=> FinishedIn(j, calls, join_timer)
  BY AtPlain
<1>2. TypeOK /\ Flow /\ Control
  BY DEF IInv
<1>3. Held' = Held \ {c.mod}
  BY <1>1 DEF Held, HeldIn, Home
<1>4. Opened' = Opened
  <2>1. \A j \in Join : FinishedIn(j, calls, join_timer)' <=> FinishedIn(j, calls \ {c}, join_timer)
    BY DEF FinishedIn
  <2> QED BY <1>1, <2>1 DEF Opened, OpenedIn
<1>5. Busy' = Busy
  BY <1>1, <1>3, <1>4 DEF Busy
<1>6. Pending' = Pending
  <2>1. \A b \in Branches : Looping(b)' <=> Looping(b)
    BY DEF Looping, Branches
  <2> QED BY <2>1 DEF Pending
<1>7. Flow'
  BY <1>2, <1>5, <1>6, SameFlow
<1>8. TypeOK'
  BY <1>1, <1>2 DEF TypeOK
<1>9. CallShape' /\ Armed' /\ Joining' /\ JoinState'
  BY <1>2 DEF Control, CallShape, Armed, Joining, JoinState
<1>10. Apart'
  <2>1. \A x, y \in AtWork' : Home(x) = Home(y) => x = y
    BY <1>2 DEF Control, Apart, AtWork
  <2> QED BY <1>1, <1>2, <1>3, <1>4, <2>1 DEF Control, Apart, Home
<1> QED BY <1>7, <1>8, <1>9, <1>10 DEF IInv, Control

LEMMA AsyncDone ==
  ASSUME IInv, NEW m, on_async_done(m)
  PROVE  IInv'
<1>1. m \in Busy /\ m \notin Held /\ m \notin Join /\ m \notin Fork /\ m \notin Opened
  BY DEF IInv, Control, Apart, on_async_done, Busy, Opened, OpenedIn
<1>2. PICK s \in AsyncState[m] : resume(m, s, calls, s \in ExitState[m])
  BY DEF on_async_done
<1>3. HeldIn(calls) = Held \ {m} /\ OpenedIn(calls, join_timer') = Opened \ {m}
  BY <1>1 DEF Held, Opened, on_async_done
<1>4. join_timer' \in [Join -> {Mod_else, Mod_Succeed, Mod_Failed}]
  BY DEF IInv, TypeOK, on_async_done
<1>5. Taken(Region[m], calls)
  BY <1>1, <1>3, <1>4, TakenFrom DEF on_async_done
<1>6. s \in EndStates(m)
  BY <1>1 DEF EndStates
<1> DEFINE e == s \in ExitState[m]
<1>7. e \in BOOLEAN /\ resume(m, s, calls, e)
  BY <1>2
<1> HIDE DEF e
<1> QED BY <1>1, <1>5, <1>6, <1>7, ResumeStep

(* A turn of ForkModule::run's loop: the branch goes from the loop to its  *)
(* timer.                                                                  *)
LEMMA ForkRun ==
  ASSUME IInv, NEW c \in calls, ForkModule_run(c)
  PROVE  IInv'
<1> DEFINE f == c.mod
           next == [c EXCEPT !.num = @ + 1]
           more == c.num + 1 < active[f]
<1>1. TypeOK /\ Flow /\ Control /\ f \in Fork /\ f \in Module /\ f \notin Join
  BY GraphAssumption DEF IInv, ForkModule_run
<1>2. /\ c \in [mod : Module, from : Module \cup {NoModule}, last : State, num : 0..MaxFork]
      /\ c.num \in Nat /\ c.num < active[f] /\ active[f] \in 1..MaxFork /\ MaxFork \in Nat
  BY <1>1, GraphAssumption DEF TypeOK, Control, CallShape
<1>3. /\ next.mod = f /\ next.num = c.num + 1
      /\ more => next \in [mod : Module, from : Module \cup {NoModule}, last : State, num : 0..MaxFork]
  BY <1>2
<1>4. /\ calls' = (calls \ {c}) \cup (IF more THEN {next} ELSE {})
      /\ fork_timer' = fork_timer \cup {<<f, c.num>>}
      /\ UNCHANGED <<waiting, join_timer, module_joined_num, failed_join, active, exit, ended,
                     runs, refused>>
  BY DEF ForkModule_run
<1> HIDE DEF next, more
<1>5. \A d \in calls : d.mod = f => d = c
  <2>1. \A d \in calls : d.mod = f => d \in AtWork /\ Home(d) = f
    BY <1>1 DEF AtWork, Home
  <2> QED BY <1>1, <2>1 DEF Control, Apart
<1>6. Held' = Held
  <2>1. {d \in calls' : d.mod \notin Fork /\ (d.mod \in Join => d.num = 0)}
          = {d \in calls : d.mod \notin Fork /\ (d.mod \in Join => d.num = 0)}
    BY <1>1, <1>3, <1>4
  <2> QED BY <2>1 DEF Held, HeldIn, Home
<1>7. Opened' = Opened
  <2>1. \A j \in Join : FinishedIn(j, calls, join_timer)' <=> FinishedIn(j, calls, join_timer)
    BY <1>1, <1>3, <1>4 DEF FinishedIn
  <2> QED BY <1>4, <2>1 DEF Opened, OpenedIn
<1>8. Busy' = Busy
  BY <1>4, <1>6, <1>7 DEF Busy
<1>9. Pending' = Pending
  <2>1. ASSUME NEW b \in Branches, b[1] # f
        PROVE  (Looping(b)' <=> Looping(b)) /\ (b \in fork_timer' <=> b \in fork_timer)
    BY <1>3, <1>4, <2>1 DEF Looping
  <2>2. ASSUME NEW b \in Branches, b[1] = f
        PROVE  (b \in fork_timer' \/ Looping(b)') <=> (b \in fork_timer \/ Looping(b))
    <3>1. b = <<f, b[2]>> /\ b[2] \in Nat
      BY <2>2 DEF Branches
    <3>2. Looping(b) <=> c.num <= b[2] /\ b[2] < active[f]
      BY <1>5, <2>2 DEF Looping
    <3>3. Looping(b)' <=> more /\ c.num + 1 <= b[2] /\ b[2] < active[f]
      BY <1>3, <1>4, <1>5, <2>2 DEF Looping
    <3>4. b \in fork_timer' <=> b \in fork_timer \/ b[2] = c.num
      BY <1>4, <3>1
    <3> QED BY <1>2, <3>1, <3>2, <3>3, <3>4 DEF more
  <2>3. fork_timer \subseteq Branches /\ fork_timer' \subseteq Branches
    BY <1>1, <1>2, <1>4 DEF TypeOK, Branches
  <2> QED BY <2>1, <2>2, <2>3 DEF Pending
<1>10. Flow'
  BY <1>1, <1>4, <1>8, <1>9, SameFlow
<1>11. TypeOK'
  BY <1>1, <1>2, <1>3, <1>4 DEF TypeOK
<1>12. CallShape'
  <2>1. more => c.num + 1 < active[f]
    BY DEF more
  <2>2. runs[f] # 0
    BY <1>1 DEF Control, CallShape
  <2> QED BY <1>1, <1>3, <1>4, <2>1, <2>2 DEF Control, CallShape
<1>13. Apart'
  <2>1. Home(next) = f
    BY <1>1, <1>3 DEF Home
  <2>2. \A d \in AtWork' : d = next \/ (d \in AtWork /\ d # c)
    BY <1>4 DEF AtWork
  <2>3. c \in AtWork /\ Home(c) = f
    BY <1>1 DEF AtWork, Home
  <2>4. \A x, y \in AtWork' : Home(x) = Home(y) => x = y
    BY <1>1, <2>1, <2>2, <2>3 DEF Control, Apart
  <2> QED BY <1>1, <1>4, <1>6, <1>7, <2>4 DEF Control, Apart, Home
<1>14. Armed'
  <2> SUFFICES ASSUME NEW t \in fork_timer'
               PROVE  t[2] < active[t[1]] /\ \A d \in calls' : d.mod = t[1] => t[2] < d.num
    BY <1>4 DEF Armed
  <2>1. CASE t = <<f, c.num>>
    BY <1>2, <1>3, <1>4, <1>5, <2>1
  <2>2. CASE t \in fork_timer
    <3>1. t[2] < active[t[1]] /\ \A d \in calls : d.mod = t[1] => t[2] < d.num
      BY <1>1, <2>2 DEF Control, Armed
    <3>2. t[2] \in Nat
      BY <1>1, <2>2 DEF TypeOK
    <3> QED BY <1>2, <1>3, <1>4, <3>1, <3>2
  <2> QED BY <1>4, <2>1, <2>2
<1>15. Joining' /\ JoinState'
  <2>1. \A d \in calls' : d.mod \in Join => d \in calls
    BY <1>1, <1>3, <1>4
  <2> QED BY <1>1, <1>4, <2>1 DEF Control, Joining, JoinState
<1> QED BY <1>10, <1>11, <1>12, <1>13, <1>14, <1>15 DEF IInv, Control

(* A fork's timer fires: the branch enters its first module.               *)
LEMMA Forked ==
  ASSUME IInv, NEW t \in fork_timer, on_forked(t[1], t[2])
  PROVE  IInv'
<1> DEFINE s == Mod_Fork0 + t[2]
           n == get_next_module(t[1], s)
<1>1. t \in Branches /\ t[1] \in Fork /\ t[2] \in 0..MaxFork - 1 /\ t = <<t[1], t[2]>>
      /\ t[1] \in Module /\ t[1] # EndMod /\ NoModule \notin Module /\ MaxFork \in Nat
  BY GraphAssumption DEF IInv, TypeOK, Branches
<1>2. n \in Module \ Join /\ Region[n] = t
  BY <1>1, NestingAssumption DEF Branching
<1>3. s \in State
  BY <1>1 DEF State
<1>4. /\ calls' = calls \cup {Call(n, t[1], s)} /\ CountRun(n)
      /\ exit' = (exit \/ FALSE) /\ UNCHANGED ended
  BY <1>1, <1>2 DEF on_forked, resume
<1>5. fork_timer' = fork_timer \ {t}
      /\ UNCHANGED <<waiting, join_timer, module_joined_num, failed_join, active, refused>>
  BY <1>1 DEF on_forked
<1>6. t \in Pending /\ \A m \in Busy : Region[m] # t
  BY DEF IInv, Flow, Alone, Pending
<1>7. Taken(t, calls)
  <2>1. Occupied(t)
    BY <1>6 DEF Occupied
  <2>2. /\ HeldIn(calls) = {m \in Held : Region[m] # t}
        /\ waiting' = {m \in waiting : Region[m] # t}
        /\ OpenedIn(calls, join_timer') = {j \in Opened : Region[j] # t}
    BY <1>5, <1>6 DEF Busy, Held, Opened
  <2>3. ~Looping(t)
    <3>1. \A c \in calls : c.mod = t[1] => t[2] < c.num /\ c.num \in Nat
      BY <1>1 DEF IInv, Control, Armed, TypeOK
    <3> QED BY <1>1, <3>1 DEF Looping
  <2>4. join_timer' \in [Join -> {Mod_else, Mod_Succeed, Mod_Failed}]
    BY <1>5 DEF IInv, TypeOK
  <2> QED BY <1>5, <2>1, <2>2, <2>3, <2>4 DEF Taken
<1>8. exit' \in BOOLEAN /\ t \in Regions
  BY <1>1, <1>4 DEF IInv, TypeOK, Regions
<1> HIDE DEF n, s
<1> QED BY <1>1, <1>2, <1>3, <1>4, <1>6, <1>7, <1>8, EnterStep

(* JoinModule::run counts a branch in: its thread ends there.              *)
LEMMA JoinRun ==
  ASSUME IInv, NEW c \in calls, JoinModule_run(c)
  PROVE  IInv'
<1> DEFINE j == c.mod
           m == c.from
           b == Region[m]
           k == module_joined_num[j] + 1
           next == [c EXCEPT !.num = k]
<1>1. TypeOK /\ Flow /\ Control /\ j \in Join /\ j \notin Fork /\ c.num = 0
  BY GraphAssumption DEF IInv, JoinModule_run
<1>2. m \in Module \ Fork /\ b # Top /\ b[1] = ForkOf[j]
  BY <1>1 DEF Control, CallShape
<1>3. b \in Branches
  BY <1>2, RegionFacts
<1>4. c \in AtWork /\ Home(c) = m /\ m \in Held
  BY <1>1 DEF AtWork, Home, Held, HeldIn
<1>5. m \in Busy /\ Occupied(b) /\ b \notin Pending
      /\ \A x \in Busy : Region[x] = b <=> x = m
  BY <1>1, <1>4 DEF Busy, Occupied, Flow, Alone
<1>6. /\ runs[ForkOf[j]] # 0 /\ module_joined_num[j] \in Nat
      /\ k <= active[ForkOf[j]] /\ active[ForkOf[j]] \in 1..MaxFork /\ MaxFork \in Nat
  <2>1. active[ForkOf[j]] \in 1..MaxFork /\ MaxFork \in Nat
    BY <1>1, GraphAssumption DEF TypeOK
  <2> HIDE DEF b
  <2> QED BY <1>1, <1>2, <1>3, <1>5, <2>1, NotAllCounted
<1>7. /\ module_joined_num' = [module_joined_num EXCEPT ![j] = @ + 1]
      /\ failed_join' = [failed_join EXCEPT ![j] = @ \/ c.last # Mod_Succeed]
      /\ refused' = IF c.last # Mod_Succeed THEN refused \cup {j} ELSE refused
      /\ calls' = (calls \ {c}) \cup {[c EXCEPT !.num = module_joined_num'[j]]}
      /\ UNCHANGED <<waiting, fork_timer, join_timer, active, exit, ended, runs>>
  BY DEF JoinModule_run
<1>8. \A i \in Join : module_joined_num'[i] = IF i = j THEN k ELSE module_joined_num[i]
  BY <1>1, <1>7 DEF TypeOK
<1>9. /\ next.mod = j /\ next.num = k /\ next.from = m
      /\ next \in [mod : Module, from : Module \cup {NoModule}, last : State, num : 0..MaxFork]
  BY <1>1, <1>6 DEF TypeOK
<1>10. calls' = (calls \ {c}) \cup {next}
  BY <1>1, <1>7, <1>8
<1>11. \A d \in calls : d.mod \in Join => d.num \in Nat /\ d.num <= module_joined_num[d.mod]
  BY <1>1 DEF TypeOK, Control, Joining
<1> HIDE DEF next, j, m, b
<1>12. k \in Nat /\ k # 0
  BY <1>6
<1>13. join_timer[j] = Mod_else
  BY <1>1, <1>6 DEF Control, Joining
<1>14. AtWork' = AtWork \ {c}
  BY <1>4, <1>9, <1>10, <1>1, <1>12 DEF AtWork
<1>15. Held' = Held \ {m}
  <2>1. \A d \in AtWork : Home(d) = m => d = c
    BY <1>1, <1>4 DEF Control, Apart
  <2>2. Held = {Home(d) : d \in {x \in AtWork : x.mod \notin Fork}}
    BY DEF Held, HeldIn, AtWork
  <2>3. Held' = {Home(d) : d \in {x \in AtWork' : x.mod \notin Fork}}
    BY DEF Held, HeldIn, AtWork, Home
  <2> QED BY <1>4, <1>14, <2>1, <2>2, <2>3
<1>16. Opened' = Opened
  <2>1. ASSUME NEW i \in Join, i # j
        PROVE  FinishedIn(i, calls, join_timer)' <=> FinishedIn(i, calls, join_timer)
    <3>1. \A d : d.mod = i => (d \in calls' <=> d \in calls)
      BY <1>9, <1>10, <2>1 DEF j
    <3> QED BY <1>7, <1>8, <2>1, <3>1 DEF FinishedIn
  <2>2. ~FinishedIn(j, calls, join_timer)
    BY <1>6 DEF FinishedIn
  <2>3. ~FinishedIn(j, calls, join_timer)'
    BY <1>1, <1>7, <1>8, <1>9, <1>10 DEF FinishedIn
  <2> QED BY <1>7, <2>1, <2>2, <2>3 DEF Opened, OpenedIn
<1>17. Busy' = {x \in Busy : Region[x] # b}
  <2>1. m \notin waiting /\ m \notin Opened
    BY <1>1, <1>4 DEF Control, Apart
  <2> QED BY <1>5, <1>7, <1>15, <1>16, <2>1 DEF Busy
<1>18. Pending' = Pending
  <2>1. \A x \in Branches : Looping(x)' <=> Looping(x)
    <3> TAKE x \in Branches
    <3>1. x[1] # j
      BY <1>1 DEF Branches
    <3> QED BY <1>7, <1>9, <1>10, <3>1 DEF Looping, j
  <2> QED BY <1>7, <2>1 DEF Pending
<1>19. Flow'
  BY <1>1, <1>2, <1>3, <1>5, <1>7, <1>17, <1>18, CountFlow
<1>20. TypeOK'
  <2>1. module_joined_num' \in [Join -> 0..MaxFork]
    BY <1>1, <1>6, <1>7 DEF TypeOK
  <2>2. failed_join' \in [Join -> BOOLEAN] /\ refused' \subseteq Join
    BY <1>1, <1>7 DEF TypeOK
  <2>3. calls' \subseteq [mod : Module, from : Module \cup {NoModule}, last : State, num : 0..MaxFork]
    BY <1>1, <1>9, <1>10 DEF TypeOK
  <2> QED BY <1>1, <1>7, <2>1, <2>2, <2>3 DEF TypeOK
<1>21. CallShape'
  BY <1>1, <1>2, <1>7, <1>9, <1>10 DEF Control, CallShape, b
<1>22. Apart'
  <2>1. \A x, y \in AtWork' : Home(x) = Home(y) => x = y
    BY <1>1, <1>14 DEF Control, Apart
  <2> QED BY <1>1, <1>7, <1>15, <1>16, <2>1 DEF Control, Apart, Home
<1>23. Armed'
  <2>1. \A t \in fork_timer : t[1] # j
    BY <1>1 DEF TypeOK
  <2> QED BY <1>1, <1>7, <1>9, <1>10, <2>1 DEF Control, Armed
<1>24. Joining'
  <2>1. \A d \in calls' : d.mod \in Join => d.num <= module_joined_num'[d.mod]
    BY <1>1, <1>6, <1>8, <1>9, <1>10, <1>11
  <2>2. \A x, y \in calls' : x.mod \in Join /\ x.mod = y.mod /\ x.num = y.num /\ x.num # 0 => x = y
    <3>1. \A d \in calls : d.mod = j => d.num # k
      BY <1>1, <1>6, <1>11
    <3> QED BY <1>1, <1>9, <1>10, <3>1 DEF Control, Joining
  <2>3. \A i \in Join : join_timer'[i] # Mod_else =>
          /\ module_joined_num'[i] = active'[ForkOf[i]]
          /\ \A d \in calls' : d.mod = i => d.num # active'[ForkOf[i]]
    BY <1>1, <1>7, <1>8, <1>9, <1>10, <1>13 DEF Control, Joining
  <2>4. \A i \in Join : failed_join'[i] <=> i \in refused'
    <3> TAKE i \in Join
    <3>1. failed_join[i] <=> i \in refused
      BY <1>1 DEF Control, Joining
    <3>2. failed_join \in [Join -> BOOLEAN]
      BY <1>1 DEF TypeOK
    <3> QED BY <1>1, <1>7, <3>1, <3>2
  <2> QED BY <2>1, <2>2, <2>3, <2>4 DEF Joining
<1>25. JoinState'
  BY <1>1, <1>7, <1>13 DEF Control, JoinState
<1> QED BY <1>19, <1>20, <1>21, <1>22, <1>23, <1>24, <1>25 DEF IInv, Control

(* JoinModule::run after the lock: the last one counted arms the timer,    *)
(* once, with what failed_join_ has come to.                               *)
LEMMA JoinUnlocked ==
  ASSUME IInv, NEW c \in calls, JoinModule_run_unlocked(c)
  PROVE  IInv'
<1> DEFINE j == c.mod
           last == c.num = active[ForkOf[j]]
           state == IF failed_join[j] THEN Mod_Failed ELSE Mod_Succeed
<1>1. TypeOK /\ Flow /\ Control /\ j \in Join /\ j \notin Fork /\ c.num \in Nat /\ c.num # 0
  BY GraphAssumption DEF IInv, JoinModule_run_unlocked, TypeOK
<1>2. /\ calls' = calls \ {c}
      /\ join_timer' = IF last THEN [join_timer EXCEPT ![j] = state] ELSE join_timer
      /\ UNCHANGED <<waiting, fork_timer, module_joined_num, failed_join, active, exit, ended,
                     runs, refused>>
  BY DEF JoinModule_run_unlocked
<1>3. state \in {Mod_Failed, Mod_Succeed} /\ state # Mod_else
      /\ (state = Mod_Failed <=> failed_join[j])
  BY DEF Mod_Failed, Mod_Succeed, Mod_else
<1> HIDE DEF state
<1>4. \A i \in Join : join_timer'[i] = IF i = j /\ last THEN state ELSE join_timer[i]
  BY <1>1, <1>2 DEF TypeOK
<1>5. last => /\ module_joined_num[j] = active[ForkOf[j]]
              /\ \A d \in calls' : d.mod = j => d.num # active[ForkOf[j]]
  <2>1. SUFFICES ASSUME last
                 PROVE  /\ module_joined_num[j] = active[ForkOf[j]]
                        /\ \A d \in calls' : d.mod = j => d.num # active[ForkOf[j]]
    OBVIOUS
  <2>2. c.num <= module_joined_num[j] /\ \A d \in calls : d.mod = j /\ d.num = c.num => d = c
    BY <1>1 DEF Control, Joining
  <2>3. module_joined_num[j] <= active[ForkOf[j]]
    <3>1. module_joined_num[j] # 0 /\ module_joined_num[j] \in Nat
      BY <1>1, <2>2 DEF TypeOK
    <3>2. ForkOf[j] \in Fork /\ active[ForkOf[j]] \in 1..MaxFork /\ MaxFork \in Nat
      BY <1>1, GraphAssumption DEF TypeOK
    <3>3. module_joined_num[j] + Cardinality(Left(ForkOf[j])) = active[ForkOf[j]]
      BY <1>1, <3>1 DEF Flow, Counted
    <3>4. IsFiniteSet(Left(ForkOf[j]))
      <4>1. IsFiniteSet(0..active[ForkOf[j]] - 1)
        BY <3>2, FS_Interval
      <4> QED BY <4>1, FS_Subset DEF Left
    <3>5. Cardinality(Left(ForkOf[j])) \in Nat
      BY <3>4, FS_CardinalityType
    <3> QED BY <3>1, <3>2, <3>3, <3>5
  <2>4. module_joined_num[j] \in Nat /\ active[ForkOf[j]] \in Nat
    BY <1>1, GraphAssumption DEF TypeOK
  <2> QED BY <1>1, <1>2, <2>1, <2>2, <2>3, <2>4
<1> HIDE DEF last
<1>6. AtWork' = AtWork
  BY <1>1, <1>2 DEF AtWork
<1>7. Held' = Held
  <2>1. Held = {Home(d) : d \in {x \in AtWork : x.mod \notin Fork}}
    BY DEF Held, HeldIn, AtWork
  <2>2. Held' = {Home(d) : d \in {x \in AtWork' : x.mod \notin Fork}}
    BY DEF Held, HeldIn, AtWork, Home
  <2> QED BY <1>6, <2>1, <2>2
<1>8. Opened' = Opened
  <2>1. ASSUME NEW i \in Join
        PROVE  FinishedIn(i, calls, join_timer)' <=> FinishedIn(i, calls, join_timer)
    <3>1. CASE i # j
      BY <1>2, <1>4, <3>1 DEF FinishedIn
    <3>2. CASE i = j /\ last
      BY <1>1, <1>2, <1>3, <1>4, <3>2 DEF FinishedIn, last
    <3>3. CASE i = j /\ ~last
      BY <1>1, <1>2, <1>4, <3>3 DEF FinishedIn, last
    <3> QED BY <3>1, <3>2, <3>3
  <2> QED BY <1>2, <2>1 DEF Opened, OpenedIn
<1>9. Busy' = Busy
  BY <1>2, <1>7, <1>8 DEF Busy
<1>10. Pending' = Pending
  <2>1. \A x \in Branches : Looping(x)' <=> Looping(x)
    <3> TAKE x \in Branches
    <3>1. x[1] # j
      BY <1>1 DEF Branches
    <3> QED BY <1>2, <3>1 DEF Looping
  <2> QED BY <1>2, <2>1 DEF Pending
<1>11. Flow'
  BY <1>1, <1>2, <1>9, <1>10, SameFlow
<1>12. TypeOK'
  <2>1. join_timer' \in [Join -> {Mod_else, Mod_Succeed, Mod_Failed}]
    BY <1>1, <1>2, <1>3 DEF TypeOK
  <2> QED BY <1>1, <1>2, <2>1 DEF TypeOK
<1>13. CallShape' /\ Armed'
  BY <1>1, <1>2 DEF Control, CallShape, Armed
<1>14. Apart'
  BY <1>1, <1>2, <1>6, <1>7, <1>8 DEF Control, Apart, Home
<1>15. Joining'
  BY <1>1, <1>2, <1>4, <1>5 DEF Control, Joining
<1>16. JoinState'
  <2>1. failed_join[j] <=> j \in refused
    BY <1>1 DEF Control, Joining
  <2> QED BY <1>1, <1>2, <1>3, <1>4, <2>1 DEF Control, JoinState
<1> QED BY <1>11, <1>12, <1>13, <1>14, <1>15, <1>16 DEF IInv, Control

(* A join's timer fires: the thread of the region goes on from the join.   *)
LEMMA Joined ==
  ASSUME IInv, NEW j \in Join, on_joined(j)
  PROVE  IInv'
<1>1. TypeOK /\ Flow /\ Control /\ join_timer[j] # Mod_else
  BY DEF IInv, on_joined
<1>2. /\ module_joined_num[j] = active[ForkOf[j]]
      /\ \A c \in calls : c.mod = j => c.num # active[ForkOf[j]]
  BY <1>1 DEF Control, Joining
<1>3. runs[ForkOf[j]] # 0
  <2>1. active[ForkOf[j]] # 0
    BY <1>1, GraphAssumption DEF TypeOK
  <2> QED BY <1>1, <1>2, <2>1 DEF Flow, Counted
<1>4. j \in Opened /\ j \in Busy
  BY <1>1, <1>3 DEF Opened, OpenedIn, FinishedIn, Busy
<1>5. j \notin Held /\ j \notin waiting
  BY <1>1, <1>4 DEF Control, Apart
<1>6. /\ join_timer' = [join_timer EXCEPT ![j] = Mod_else]
      /\ join_timer' \in [Join -> {Mod_else, Mod_Succeed, Mod_Failed}]
      /\ \A i \in Join : join_timer'[i] = IF i = j THEN Mod_else ELSE join_timer[i]
  BY <1>1 DEF on_joined, TypeOK
<1>7. OpenedIn(calls, join_timer') = Opened \ {j}
  <2>1. FinishedIn(j, calls, join_timer')
    BY <1>2, <1>6 DEF FinishedIn
  <2>2. \A i \in Join : i # j =>
          (FinishedIn(i, calls, join_timer') <=> FinishedIn(i, calls, join_timer))
    BY <1>6 DEF FinishedIn
  <2> QED BY <2>1, <2>2 DEF Opened, OpenedIn
<1>8. Taken(Region[j], calls)
  <2>1. HeldIn(calls) = Held \ {j} /\ waiting' = waiting \ {j}
    BY <1>5 DEF Held, on_joined
  <2> QED BY <1>4, <1>6, <1>7, <2>1, TakenFrom DEF on_joined
<1>9. join_timer[j] \in EndStates(j)
  BY <1>1 DEF EndStates, TypeOK
<1>10. resume(j, join_timer[j], calls, FALSE)
  BY DEF on_joined
<1> QED BY <1>4, <1>8, <1>9, <1>10, ResumeStep

(* A new context: the thread of the top level is at the start module.      *)
LEMMA InitInv == Init => IInv
<1> SUFFICES ASSUME Init PROVE IInv
  OBVIOUS
<1> DEFINE new == Call(StartMod, NoModule, Mod_start)
<1>1. /\ new.mod = StartMod /\ new.from = NoModule /\ new.num = 0 /\ new.last = Mod_start
      /\ StartMod \in Module \ Join /\ StartMod \notin Fork /\ Region[StartMod] = Top
      /\ Fork \subseteq Module \ Join /\ MaxFork \in Nat \ {0}
  BY GraphAssumption, NestingAssumption DEF Call
<1>2. new \in [mod : Module, from : Module \cup {NoModule}, last : State, num : 0..MaxFork]
  BY <1>1 DEF Call, State
<1>3. calls = {new}
  BY DEF Init
<1> HIDE DEF new
<1>4. /\ active \in [Fork -> 1..MaxFork]
      /\ \A j \in Join : ForkOf[j] \in Fork /\ active[ForkOf[j]] \in 1..MaxFork
      /\ \A j \in Join : module_joined_num[j] = 0 /\ join_timer[j] = Mod_else
                         /\ failed_join[j] = FALSE
      /\ \A x \in Module \ Join : runs[x] = IF x = StartMod THEN 1 ELSE 0
      /\ waiting = {} /\ fork_timer = {} /\ refused = {} /\ ended = 0 /\ exit = FALSE
  BY GraphAssumption DEF Init
<1>5. TypeOK
  <2>1. /\ join_timer \in [Join -> {Mod_else, Mod_Succeed, Mod_Failed}]
        /\ module_joined_num \in [Join -> 0..MaxFork]
        /\ failed_join \in [Join -> BOOLEAN]
        /\ runs \in [Module \ Join -> Nat]
    BY <1>1 DEF Init
  <2> QED BY <1>2, <1>3, <1>4, <2>1 DEF TypeOK
<1>6. Held = {StartMod}
  <2>1. Home(new) = StartMod
    BY <1>1 DEF Home
  <2>2. {d \in calls : d.mod \notin Fork /\ (d.mod \in Join => d.num = 0)} = {new}
    BY <1>1, <1>3
  <2> QED BY <2>1, <2>2 DEF Held, HeldIn
<1>7. Opened = {} /\ \A f \in Fork : runs[f] = 0
  BY <1>1, <1>4 DEF Opened, OpenedIn
<1>8. Busy = {StartMod}
  BY <1>4, <1>6, <1>7 DEF Busy
<1>9. Pending = {}
  BY <1>1, <1>3, <1>4 DEF Pending, Looping, Branches
<1>10. \A b \in Branches : ~Occupied(b)
  BY <1>1, <1>8, <1>9, NestingAssumption DEF Occupied
<1>11. Alone
  BY <1>1, <1>8, <1>9 DEF Alone
<1>12. Ahead
  <2>1. Rank[StartMod] \in Nat
    BY <1>1, NestingAssumption
  <2> QED BY <1>1, <1>4, <1>8, <1>9, <2>1 DEF Ahead
<1>13. Inside
  BY <1>1, <1>4, <1>10 DEF Inside
<1>14. Counted
  BY <1>4, <1>7 DEF Counted
<1>15. RunOnce /\ EndedTop
  BY <1>4 DEF RunOnce, EndedTop
<1>16. CallShape /\ Armed
  BY <1>1, <1>3, <1>4 DEF CallShape, Armed
<1>17. Apart
  BY <1>3, <1>4, <1>6, <1>7 DEF Apart, AtWork
<1>18. Joining /\ JoinState
  BY <1>1, <1>3, <1>4 DEF Joining, JoinState
<1> QED BY <1>5, <1>11, <1>12, <1>13, <1>14, <1>15, <1>16, <1>17, <1>18 DEF IInv, Flow, Control

(* handle_request starts the next request as the first one started.        *)
LEMMA StartsAfresh ==
  ASSUME TypeOK, handle_request
  PROVE  Init'
<1>1. waiting' = {} /\ fork_timer' = {}
  BY DEF handle_request, Quiet
<1>2. join_timer' = [j \in Join |-> Mod_else]
  BY DEF handle_request, Quiet, TypeOK
<1> QED BY <1>1, <1>2 DEF handle_request, Init

(* Every step keeps the invariant.                                         *)
LEMMA NextInv == IInv /\ [Next]_vars => IInv'
<1> SUFFICES ASSUME IInv, [Next]_vars PROVE IInv'
  OBVIOUS
<1>1. ASSUME NEW c \in calls, run(c) PROVE IInv'
  BY <1>1, RunSync, RunAsync DEF run
<1>2. ASSUME NEW c \in calls, ForkModule_run(c) PROVE IInv'
  BY <1>2, ForkRun
<1>3. ASSUME NEW c \in calls, JoinModule_run(c) PROVE IInv'
  BY <1>3, JoinRun
<1>4. ASSUME NEW c \in calls, JoinModule_run_unlocked(c) PROVE IInv'
  BY <1>4, JoinUnlocked
<1>5. ASSUME NEW m \in waiting, on_async_done(m) PROVE IInv'
  BY <1>5, AsyncDone
<1>6. ASSUME NEW t \in fork_timer, on_forked(t[1], t[2]) PROVE IInv'
  BY <1>6, Forked
<1>7. ASSUME NEW j \in Join, on_joined(j) PROVE IInv'
  BY <1>7, Joined
<1>8. CASE handle_request
  <2>1. Init'
    BY <1>8, StartsAfresh DEF IInv
  <2> QED BY <2>1, InitInv, PTL
<1>9. CASE UNCHANGED vars
  <2>1. TypeOK' /\ JoinState'
    BY <1>9 DEF IInv, TypeOK, Control, JoinState, vars
  <2>2. Busy' = Busy /\ Pending' = Pending /\ Held' = Held /\ Opened' = Opened
    BY <1>9 DEF Busy, Pending, Held, HeldIn, Home, Opened, OpenedIn, FinishedIn, Looping, vars
  <2>3. Flow'
    BY <1>9, <2>2, SameFlow DEF IInv, vars
  <2>4. CallShape' /\ Armed' /\ Joining'
    BY <1>9 DEF IInv, Control, CallShape, Armed, Joining, vars
  <2>5. Apart'
    BY <1>9, <2>2 DEF IInv, Control, Apart, AtWork, Home, vars
  <2> QED BY <2>1, <2>3, <2>4, <2>5 DEF IInv, Control
<1> QED BY <1>1, <1>2, <1>3, <1>4, <1>5, <1>6, <1>7, <1>8, <1>9 DEF Next, Step

(* A set of natural numbers has a least one.                               *)
LEMMA LeastRank ==
  ASSUME NEW T \in SUBSET Nat, T # {}
  PROVE  \E i \in T : \A j \in T : i <= j
<1>1. PICK x \in T : \A y \in T : ~(<<y, x>> \in OpToRel(<, Nat))
  BY WFMin, NatLessThanWellFounded
<1>2. ASSUME NEW y \in T PROVE x <= y
  <2>1. x \in Nat /\ y \in Nat
    OBVIOUS
  <2>2. ~(<<y, x>> \in {s \in Nat \X Nat : s[1] < s[2]})
    BY <1>1 DEF OpToRel
  <2> QED BY <2>1, <2>2
<1> QED BY <1>2

(* A branch at work keeps the region around its fork occupied: the join    *)
(* waits there.                                                            *)
LEMMA ForkRegionOccupied ==
  ASSUME IInv, NEW b \in Branches, Occupied(b)
  PROVE  Occupied(Region[b[1]])
<1> DEFINE j == JoinFor(b[1])
<1>1. j \in Join /\ ForkOf[j] = b[1] /\ Region[j] = Region[b[1]]
  BY JoinOfFork DEF Branches
<1>2. TypeOK /\ Flow
  BY DEF IInv
<1> HIDE DEF j
<1>3. /\ runs[ForkOf[j]] # 0 /\ module_joined_num[j] \in Nat
      /\ module_joined_num[j] + 1 <= active[ForkOf[j]]
  BY <1>1, <1>2, NotAllCounted
<1>4. active[ForkOf[j]] \in Nat
  BY <1>1, <1>2, GraphAssumption DEF TypeOK
<1>5. module_joined_num[j] # active[ForkOf[j]]
  BY <1>3, <1>4
<1>6. j \in Opened
  BY <1>1, <1>3, <1>5 DEF Opened, OpenedIn, FinishedIn
<1> QED BY <1>1, <1>6 DEF Occupied, Busy

(* So, outwards from fork to fork, the top level is occupied.              *)
LEMMA TopOccupied ==
  ASSUME IInv, NEW r \in Regions, Occupied(r)
  PROVE  Occupied(Top)
<1>1. SUFFICES ASSUME ~Occupied(Top) PROVE FALSE
  OBVIOUS
<1> DEFINE T == {Rank[b[1]] : b \in {x \in Branches : Occupied(x)}}
<1>2. r \in Branches
  BY <1>1 DEF Regions
<1>3. \A b \in Branches : b[1] \in Fork /\ b[1] \in Module /\ Rank[b[1]] \in Nat
  BY GraphAssumption, NestingAssumption DEF Branches
<1>4. T \in SUBSET Nat /\ T # {}
  BY <1>2, <1>3
<1>5. PICK k \in T : \A i \in T : k <= i
  BY <1>4, LeastRank
<1>6. PICK b \in Branches : Occupied(b) /\ k = Rank[b[1]]
  BY <1>5
<1>7. Occupied(Region[b[1]])
  BY <1>6, ForkRegionOccupied
<1>8. Region[b[1]] \in Branches /\ Rank[Region[b[1]][1]] < Rank[b[1]]
  BY <1>1, <1>3, <1>7, RegionFacts
<1>9. Rank[Region[b[1]][1]] \in T
  BY <1>7, <1>8
<1> HIDE DEF T
<1> QED BY <1>3, <1>5, <1>6, <1>8, <1>9

(* When no thread is at the top level, nothing is at work.                 *)
LEMMA InvEndsQuiet ==
  ASSUME IInv
  PROVE  EndsQuiet
<1>1. TypeOK /\ Flow /\ Control /\ EndedTop /\ Busy \subseteq Module
  BY DEF IInv, Flow, Alone
<1>2. SUFFICES ASSUME ended = 1 PROVE Quiet
  BY <1>1 DEF EndsQuiet, EndedTop
<1>3. \A r \in Regions : ~Occupied(r)
  BY <1>1, <1>2, TopOccupied DEF EndedTop
<1>4. Busy = {} /\ fork_timer = {}
  <2>1. \A m \in Busy : Region[m] \in Regions /\ Occupied(Region[m])
    BY <1>1, RegionFacts DEF Occupied
  <2>2. \A t \in fork_timer : t \in Regions /\ Occupied(t)
    BY <1>1 DEF Occupied, Pending, TypeOK, Regions, Branches
  <2> QED BY <1>3, <2>1, <2>2
<1>5. Held = {} /\ waiting = {} /\ Opened = {}
  BY <1>4 DEF Busy
<1>6. AtWork = {}
  <2> SUFFICES ASSUME NEW c \in AtWork PROVE FALSE
    OBVIOUS
  <2>1. c \in calls /\ (c.mod \in Join => c.num = 0)
    BY DEF AtWork
  <2>2. CASE c.mod \in Fork
    <3>1. /\ c.num \in Nat /\ c.num < active[c.mod] /\ active[c.mod] \in 1..MaxFork
          /\ MaxFork \in Nat
      BY <1>1, <2>1, <2>2, GraphAssumption DEF TypeOK, Control, CallShape
    <3>2. <<c.mod, c.num>> \in Branches
      BY <2>2, <3>1 DEF Branches
    <3>3. Looping(<<c.mod, c.num>>)
      BY <2>1, <3>1 DEF Looping
    <3> QED BY <1>3, <3>2, <3>3 DEF Occupied, Pending, Regions
  <2>3. CASE c.mod \notin Fork
    <3>1. Home(c) \in Held
      BY <2>1, <2>3 DEF Held, HeldIn
    <3> QED BY <1>5, <3>1
  <2> QED BY <2>2, <2>3
<1>7. \A j \in Join : join_timer[j] = Mod_else
  <2> SUFFICES ASSUME NEW j \in Join, join_timer[j] # Mod_else PROVE FALSE
    OBVIOUS
  <2>1. module_joined_num[j] = active[ForkOf[j]] /\ active[ForkOf[j]] # 0
    BY <1>1, GraphAssumption DEF TypeOK, Control, Joining
  <2>2. runs[ForkOf[j]] # 0
    BY <1>1, <2>1 DEF Flow, Counted
  <2>3. j \in Opened
    BY <2>2 DEF Opened, OpenedIn, FinishedIn
  <2> QED BY <1>5, <2>3
<1> QED BY <1>4, <1>5, <1>6, <1>7 DEF Quiet
-----------------------------------------------------------------------------
LEMMA Invariant == Spec => []IInv
BY InitInv, NextInv, PTL DEF Spec

(* The counters of forks and joins stay within the number of branches, and *)
(* the Fsm never goes on to a module that is not there: on a well-nested   *)
(* graph, of any size and depth, every step of _run keeps the types.       *)
THEOREM TypeCorrect == Spec => []TypeOK
<1>1. IInv => TypeOK
  BY DEF IInv
<1> QED BY <1>1, Invariant, PTL

(* A context's one ModuleData per module is used once in a request,        *)
(* whatever branches run at the same time and in whatever order they join. *)
THEOREM EnteredOnce == Spec => []RunOnce
<1>1. IInv => RunOnce
  BY DEF IInv, Flow
<1> QED BY <1>1, Invariant, PTL

(* _end_request is called once, and no thread, timer or asynchronous       *)
(* module of the context is left then: the next request can take over.     *)
THEOREM EndedQuietly == Spec => []EndsQuiet
<1>1. IInv => EndsQuiet
  BY InvEndsQuiet
<1> QED BY <1>1, Invariant, PTL

(* JoinModule::run may read failed_join_ after unlock(): when the last     *)
(* branch reads it no other can still write it.                            *)
THEOREM JoinedState == Spec => []JoinState
<1>1. IInv => JoinState
  BY DEF IInv, Control
<1> QED BY <1>1, Invariant, PTL

(* A join has counted in exactly the branches that are no longer at work.  *)
THEOREM CountsBranches == Spec => []Counted
<1>1. IInv => Counted
  BY DEF IInv, Flow
<1> QED BY <1>1, Invariant, PTL
=============================================================================
