----------------------------- MODULE ByteStream ------------------------------
(***************************************************************************)
(* What a TcpConnection promises to the users of send() and shutdown(): a  *)
(* one-way stream of bytes.  Messages are offered to it by several         *)
(* sources; it takes each one whole or loses it, and those of one source   *)
(* in the order they were offered; the bytes leave in the order they were  *)
(* taken, once each; and the end of the stream comes after all of them     *)
(* unless the connection went down.                                        *)
(***************************************************************************)
EXTENDS Integers, Sequences

CONSTANTS
  Sources,     \* who may offer messages that the stream takes later
  Messages,
  Size         \* bytes in a message

VARIABLES
  used,        \* the messages that were offered
  offered,     \* messages of each source neither taken nor lost yet
  taken,       \* the bytes of the messages taken
  wire,        \* the bytes that have left
  fin,         \* the stream was ended
  down         \* the connection is broken

vars == <<used, offered, taken, wire, fin, down>>

Bytes(m) == [i \in 1..Size |-> <<m, i>>]

Init ==
  /\ used = {}
  /\ offered = [s \in Sources |-> <<>>]
  /\ taken = <<>>
  /\ wire = <<>>
  /\ ~fin
  /\ ~down

Offer(s, m) ==
  /\ m \notin used
  /\ used' = used \cup {m}
  /\ offered' = [offered EXCEPT ![s] = Append(@, m)]
  /\ UNCHANGED <<taken, wire, fin, down>>

\* What has left is the beginning of what was taken; nothing leaves a stream
\* that was ended.
Leave(bytes) ==
  /\ \E n \in Len(wire)..Len(bytes) : wire' = SubSeq(bytes, 1, n)
  /\ fin => wire' = wire

TakeOrLose(m) ==
  /\ \/ taken' = taken \o Bytes(m)
     \/ taken' = taken /\ (fin \/ down)
  /\ Leave(taken')
  /\ UNCHANGED <<fin, down>>

\* The first message a source has offered is taken, or lost.
Take(s) ==
  /\ offered[s] # <<>>
  /\ offered' = [offered EXCEPT ![s] = Tail(@)]
  /\ TakeOrLose(Head(offered[s]))
  /\ UNCHANGED used

\* A message offered and taken at once.
TakeNow(m) ==
  /\ m \notin used
  /\ used' = used \cup {m}
  /\ TakeOrLose(m)
  /\ UNCHANGED offered

\* More bytes leave, the last of them perhaps together with the end.
LeaveMore ==
  /\ Leave(taken)
  /\ fin' \in {fin, TRUE}
  /\ fin' # fin => wire' = taken \/ down
  /\ UNCHANGED <<used, offered, taken, down>>

GoDown ==
  /\ down' = TRUE
  /\ UNCHANGED <<used, offered, taken, wire, fin>>

Next ==
  \/ \E s \in Sources : Take(s) \/ \E m \in Messages : Offer(s, m)
  \/ \E m \in Messages : TakeNow(m)
  \/ LeaveMore
  \/ GoDown

Spec == Init /\ [][Next]_vars
==============================================================================
