------------------------------ MODULE MCLogFile ------------------------------
(***************************************************************************)
(* LogFile for TLC: days of three seconds, files of two bytes and a look   *)
(* at the day every second append.  Local time goes back by two seconds    *)
(* after the fourth one and by one after the seventh, where the file that  *)
(* is open may get the name it has.                                        *)
(***************************************************************************)
EXTENDS LogFile

BackTwice == <<1, 2, 3, 4, 3, 4, 5, 5>>
==============================================================================
