----------------------------- MODULE MCTcpServer -----------------------------
(***************************************************************************)
(* TcpServer for TLC: two connections on one I/O loop or on the main loop. *)
(* User code calls send() or shutdown() on the first one, twice.           *)
(***************************************************************************)
EXTENDS TcpServer, TLC

CONSTANTS c1, c2

TwoConns == {c1, c2}
InTurn == (c1 :> 1) @@ (c2 :> 2)
OnTheFirst == (c1 :> 2) @@ (c2 :> 0)
==============================================================================
