--------------------------- MODULE MCTcpConnection ---------------------------
(***************************************************************************)
(* TcpConnection for TLC: two-byte messages, so that a write can stop in   *)
(* the middle of one, and a high-water mark two messages reach.            *)
(***************************************************************************)
EXTENDS TcpConnection, TLC

==============================================================================
