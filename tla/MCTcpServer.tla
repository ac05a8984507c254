----------------------------- MODULE MCTcpServer -----------------------------
(* Two workers, a third pid so that pids are both fresh and used again,    *)
(* and enough deaths for both workers to die at the same time after one    *)
(* that shared the parent's pipe has been replaced.                        *)
EXTENDS TcpServer
=============================================================================
