----------------------------- MODULE MCEventLoop -----------------------------
(***************************************************************************)
(* A small EventLoop for TLC: two other threads and three tasks.  Two      *)
(* callers let a wakeup of one hide behind the wakeup of the other; three  *)
(* tasks fill the batch being run and the vector queued behind it at once. *)
(***************************************************************************)
EXTENDS EventLoop, TLC

==============================================================================
