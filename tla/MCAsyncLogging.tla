--------------------------- MODULE MCAsyncLogging ---------------------------
(***************************************************************************)
(* AsyncLogging for TLC.  With one message to a buffer and five messages,  *)
(* the front end uses up its spare and allocates new buffers while the     *)
(* backend is writing, and resize(2) has something to cut off.             *)
(***************************************************************************)
EXTENDS AsyncLogging, TLC

=============================================================================
