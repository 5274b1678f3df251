------------------------------- MODULE MCBuffer -------------------------------
(***************************************************************************)
(* Buffer for TLC.  With one byte in front, two of initial size and two of *)
(* extrabuf, reads fill the vector exactly, overflow into extrabuf and     *)
(* leave bytes there that fit the vector's front or make it grow.          *)
(***************************************************************************)
EXTENDS Buffer
==============================================================================
