------------------------ MODULE MCEventLoopThreadPool ------------------------
(***************************************************************************)
(* EventLoopThreadPool for TLC; the configurations fix the number of       *)
(* threads and how the owner behaves.                                      *)
(***************************************************************************)
EXTENDS EventLoopThreadPool
==============================================================================
