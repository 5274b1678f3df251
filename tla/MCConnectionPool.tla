-------------------------- MODULE MCConnectionPool --------------------------
(***************************************************************************)
(* ConnectionPool for TLC.  MaxConn is more than twice MinConn, so that    *)
(* the producer and the recycler both have something to do, and there are  *)
(* as many clients as the pool can hold connections.                       *)
(***************************************************************************)
EXTENDS ConnectionPool, TLC

=============================================================================
