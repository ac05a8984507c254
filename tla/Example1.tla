------------------------------ MODULE Example1 ------------------------------
(***************************************************************************)
(* example1/main.cc: the graph of the proxy server, with MAX_FS_FORK_NUM,  *)
(* MAX_PS2_FORK_NUM and MAX_PS_FORK_NUM all MaxFork.  Every module and     *)
(* every call of link_module is there.  The modules' own classes are not   *)
(* in the repository: what they may return is what their base classes let  *)
(* them.                                                                   *)
(***************************************************************************)
EXTENDS FsmNesting, SequencesExt

I == 0..MaxFork - 1

(* The states example1's own modules define.                               *)
Mod_req_succeed_to_fs == 100
Mod_req_succeed_to_ps == 101
Mod_req_succeed_to_random == 102
Mod_rand_resp == 103
Mod_not_rand_resp == 104

One(name) == <<name>>
Plain == {One("req_mod"), One("gen_fs_req_mod"), One("gen_ps_req_mod"), One("if_rand_mod"),
          One("resp_mod"), One("rand_resp_mod"), One("empty_resp_mod"), One("end_mod")}
Fs == {<<"fs_mod", i>> : i \in I}
Ps2 == {<<"ps_mod2", i, j>> : i, j \in I}
Ps == {<<"ps_mod", i>> : i \in I}
Backfill == {<<"ps_backfill_mod2", i, j>> : i, j \in I} \cup {<<"ps_backfill_mod", i>> : i \in I}
Responses == {One("resp_mod"), One("rand_resp_mod"), One("empty_resp_mod")}

ExampleFork == {One("fs_fork_mod"), One("ps_fork_mod")} \cup {<<"ps_fork_mod2", i>> : i \in I}
ExampleJoin == {One("fs_join_mod"), One("ps_join_mod")} \cup {<<"ps_join_mod2", i>> : i \in I}
ExampleForkOf ==
  [j \in ExampleJoin |-> IF j = One("fs_join_mod") THEN One("fs_fork_mod")
                    ELSE IF j = One("ps_join_mod") THEN One("ps_fork_mod")
                    ELSE <<"ps_fork_mod2", j[2]>>]
ExampleModule == Plain \cup Fs \cup Ps2 \cup Ps \cup Backfill \cup ExampleFork \cup ExampleJoin
ExampleStart == One("req_mod")
ExampleEnd == One("end_mod")

L(f, t, s) == [from |-> f, to |-> t, state |-> s]

(* The calls in the loops of main.cc, and the calls outside them.          *)
Ps2Links(i, j) ==
  <<L(<<"ps_fork_mod2", i>>, <<"ps_mod2", i, j>>, Mod_Fork0 + j),
    L(<<"ps_mod2", i, j>>, <<"ps_join_mod2", i>>, Mod_Succeed),
    L(<<"ps_mod2", i, j>>, <<"ps_backfill_mod2", i, j>>, Mod_else),
    L(<<"ps_backfill_mod2", i, j>>, <<"ps_join_mod2", i>>, Mod_Succeed),
    L(<<"ps_backfill_mod2", i, j>>, <<"ps_join_mod2", i>>, Mod_else)>>
FsLinks(i) ==
  <<L(One("fs_fork_mod"), <<"fs_mod", i>>, Mod_Fork0 + i),
    L(<<"fs_mod", i>>, <<"ps_fork_mod2", i>>, Mod_Succeed),
    L(<<"ps_join_mod2", i>>, One("fs_join_mod"), Mod_Succeed),
    L(<<"ps_join_mod2", i>>, One("fs_join_mod"), Mod_else),
    L(<<"fs_mod", i>>, One("fs_join_mod"), Mod_else)>>
PsLinks(i) ==
  <<L(One("ps_fork_mod"), <<"ps_mod", i>>, Mod_Fork0 + i),
    L(<<"ps_mod", i>>, One("ps_join_mod"), Mod_Succeed),
    L(<<"ps_mod", i>>, <<"ps_backfill_mod", i>>, Mod_else),
    L(<<"ps_backfill_mod", i>>, One("ps_join_mod"), Mod_Succeed),
    L(<<"ps_backfill_mod", i>>, One("ps_join_mod"), Mod_else)>>
PlainLinks ==
  <<L(One("req_mod"), One("gen_fs_req_mod"), Mod_req_succeed_to_fs),
    L(One("gen_fs_req_mod"), One("fs_fork_mod"), Mod_Succeed),
    L(One("req_mod"), One("gen_ps_req_mod"), Mod_req_succeed_to_ps),
    L(One("gen_ps_req_mod"), One("ps_fork_mod"), Mod_Succeed),
    L(One("fs_join_mod"), One("if_rand_mod"), Mod_Succeed),
    L(One("ps_join_mod"), One("if_rand_mod"), Mod_Succeed),
    L(One("if_rand_mod"), One("resp_mod"), Mod_not_rand_resp),
    L(One("if_rand_mod"), One("rand_resp_mod"), Mod_rand_resp),
    L(One("req_mod"), One("rand_resp_mod"), Mod_req_succeed_to_random),
    L(One("fs_join_mod"), One("empty_resp_mod"), Mod_else),
    L(One("ps_join_mod"), One("empty_resp_mod"), Mod_else),
    L(One("resp_mod"), One("end_mod"), Mod_Succeed),
    L(One("resp_mod"), One("end_mod"), Mod_else),
    L(One("rand_resp_mod"), One("end_mod"), Mod_Succeed),
    L(One("rand_resp_mod"), One("end_mod"), Mod_else),
    L(One("empty_resp_mod"), One("end_mod"), Mod_Succeed),
    L(One("empty_resp_mod"), One("end_mod"), Mod_else),
    L(One("req_mod"), One("end_mod"), Mod_else),
    L(One("gen_fs_req_mod"), One("empty_resp_mod"), Mod_else),
    L(One("gen_ps_req_mod"), One("empty_resp_mod"), Mod_else)>>
ExampleLinks ==
  PlainLinks
  \o FlattenSeq([i \in 1..MaxFork |-> FsLinks(i - 1) \o PsLinks(i - 1)])
  \o FlattenSeq([i \in 1..MaxFork |-> FlattenSeq([j \in 1..MaxFork |-> Ps2Links(i - 1, j - 1)])])

(* What each module may return or resume with.  if_rand_mod may return a   *)
(* state that nothing is linked to.                                        *)
ExampleSync ==
  [m \in ExampleModule |->
     IF m = One("req_mod") THEN {}
     ELSE IF m = One("if_rand_mod") THEN {Mod_rand_resp, Mod_not_rand_resp, Mod_Failed}
     ELSE IF m \in Fs \cup Ps2 \cup Ps \cup Responses THEN {Mod_Failed}
     ELSE IF m = One("end_mod") THEN {Mod_Succeed}
     ELSE {Mod_Succeed, Mod_Failed}]
ExampleAsync ==
  [m \in ExampleModule |->
     IF m = One("req_mod")
     THEN {Mod_req_succeed_to_fs, Mod_req_succeed_to_ps, Mod_req_succeed_to_random,
           Mod_Failed, Mod_Timeout}
     ELSE IF m \in Fs \cup Ps2 \cup Ps \cup Responses
     THEN {Mod_Succeed, Mod_Failed, Mod_Timeout}
     ELSE {}]
ExampleExit ==
  [m \in ExampleModule |-> IF m \in Responses \cup {One("req_mod")}
                      THEN {Mod_Failed, Mod_Timeout} ELSE {}]

(* How the forks of the graph are nested: the predictors of feature server *)
(* i are branches of ps_fork_mod2 i, inside branch i of fs_fork_mod.       *)
ExampleRegion ==
  [m \in ExampleModule |->
     IF m[1] \in {"fs_mod", "ps_fork_mod2", "ps_join_mod2"} THEN <<One("fs_fork_mod"), m[2]>>
     ELSE IF m[1] \in {"ps_mod2", "ps_backfill_mod2"} THEN <<<<"ps_fork_mod2", m[2]>>, m[3]>>
     ELSE IF m[1] \in {"ps_mod", "ps_backfill_mod"} THEN <<One("ps_fork_mod"), m[2]>>
     ELSE Top]

(* The layers of the graph, from the request to the end.                   *)
Layer ==
  <<{"req_mod"}, {"gen_fs_req_mod", "gen_ps_req_mod"}, {"fs_fork_mod", "ps_fork_mod"},
    {"fs_mod", "ps_mod"}, {"ps_fork_mod2", "ps_backfill_mod"}, {"ps_mod2"},
    {"ps_backfill_mod2"}, {"ps_join_mod2"}, {"fs_join_mod", "ps_join_mod"}, {"if_rand_mod"},
    {"resp_mod", "rand_resp_mod", "empty_resp_mod"}, {"end_mod"}>>
ExampleRank == [m \in ExampleModule |-> CHOOSE k \in DOMAIN Layer : m[1] \in Layer[k]]
=============================================================================
