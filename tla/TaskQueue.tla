------------------------------ MODULE TaskQueue ------------------------------
(***************************************************************************)
(* What an EventLoop promises to the threads that hand it work: a task     *)
(* given to queueInLoop joins the tail of one queue, the loop runs the     *)
(* queue from its head, and nothing is run twice, dropped or overtaken.    *)
(* runInLoop called by the loop thread runs its task on the spot.          *)
(* A task stands for one call, so it is submitted at most once.            *)
(***************************************************************************)
EXTENDS Sequences

CONSTANT Tasks          \* the calls of runInLoop and queueInLoop

VARIABLES queue,        \* tasks accepted and not yet started, oldest first
          ran,          \* tasks started, in the order they started
          submitted     \* tasks ever handed over

vars == <<queue, ran, submitted>>

Init ==
  /\ queue = <<>>
  /\ ran = <<>>
  /\ submitted = {}

Submit(k) ==
  /\ k \notin submitted
  /\ submitted' = submitted \cup {k}
  /\ queue' = Append(queue, k)
  /\ UNCHANGED ran

RunNow(k) ==
  /\ k \notin submitted
  /\ submitted' = submitted \cup {k}
  /\ ran' = Append(ran, k)
  /\ UNCHANGED queue

RunNext ==
  /\ queue # <<>>
  /\ ran' = Append(ran, Head(queue))
  /\ queue' = Tail(queue)
  /\ UNCHANGED submitted

Next ==
  \/ \E k \in Tasks : Submit(k) \/ RunNow(k)
  \/ RunNext

Spec == Init /\ [][Next]_vars
==============================================================================
