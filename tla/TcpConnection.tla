---------------------------- MODULE TcpConnection ----------------------------
(***************************************************************************)
(* One TcpConnection (net/TcpConnection.cc): its loop thread runs the      *)
(* channel's handlers and the functors queued for it, other threads call   *)
(* send() and shutdown(), the kernel takes as many bytes as it likes, and  *)
(* the peer may close or reset the connection at any time.                 *)
(*                                                                         *)
(* The loop is what EventLoop.tla proves of it: functors run one at a      *)
(* time, in the order they were queued.  A handler or functor is one step, *)
(* since the other threads only read and set state_; their calls are a     *)
(* step per access to state_ or to the queue.  User callbacks run on the   *)
(* loop thread and may call send() and shutdown(), which is then one step. *)
(*                                                                         *)
(* A message is Size bytes, so a write can stop inside it.  SIGPIPE is     *)
(* taken to be ignored by the program, which TcpConnection.cc relies on    *)
(* when it tests errno for EPIPE.                                          *)
(***************************************************************************)
EXTENDS Integers, Sequences, FiniteSets, SequencesExt

CONSTANTS
  Threads,        \* threads other than the loop's that use the connection
  Messages,       \* what may be sent; each is sent at most once
  Size,           \* bytes in a message
  HighWaterMark   \* highWaterMark_, in bytes

ASSUME ConnAssumption ==
  /\ Size \in Nat \ {0}
  /\ HighWaterMark \in Nat \ {0}
  /\ Threads \cap {"unsent", "passed"} = {}

NoMessage == <<>>

VARIABLES
  state,          \* state_
  reading,        \* the channel's events_ has EPOLLIN
  writing,        \* the channel's events_ has EPOLLOUT
  registered,     \* the channel is in the epoll set (its index_ is kAdded)
  outputBuffer,   \* outputBuffer_, the bytes not given to the kernel yet
  queue,          \* the functors queued in the loop
  inCallback,     \* a user callback is running on the loop thread
  mapped,         \* TcpServer's connections_ holds the connection
  removals,       \* removeConnectionInLoop functors queued in the main loop
  mainEnded,      \* ~TcpServer has run: the main loop runs no functor any more
  closed,         \* handleClose has run
  destroyed,      \* connectDestroyed has run
  finSent,        \* shutdownWrite was called
  peer,           \* what the peer has done to the connection
  wire,           \* history: the bytes the kernel took, in order
  accepted,       \* history: the bytes sendInLoop wrote or buffered, in order
  sender,         \* history: who has called send() with each message that has
                  \* not yet passed sendInLoop
  calls           \* where each other thread is in its call

conn == <<state, reading, writing, registered, outputBuffer>>
socket == <<finSent, peer, wire>>
history == <<accepted, sender>>
server == <<mapped, removals, mainEnded, closed, destroyed>>
vars == <<state, reading, writing, registered, outputBuffer, queue, inCallback,
          mapped, removals, mainEnded, closed, destroyed, finSent, peer, wire,
          accepted, sender, calls>>

States == {"kConnecting", "kConnected", "kDisconnecting", "kDisconnected"}

\* A functor: connectEstablished, connectDestroyed, sendInLoop of a message,
\* shutdownInLoop, or one of the two user callbacks about the output buffer.
Functors == [op : {"established", "destroyed", "shutdown", "writeComplete", "highWater"},
             msg : {NoMessage}]
            \cup [op : {"send"}, msg : Messages]

Do(op) == [op |-> op, msg |-> NoMessage]
DoSend(m) == [op |-> "send", msg |-> m]

Byte == Messages \X (1..Size)
Bytes(m) == [i \in 1..Size |-> <<m, i>>]

Idle == [at |-> "idle", msg |-> NoMessage]
At(where, m) == [at |-> where, msg |-> m]

TypeOK ==
  /\ state \in States
  /\ reading \in BOOLEAN
  /\ writing \in BOOLEAN
  /\ registered \in BOOLEAN
  /\ outputBuffer \in Seq(Byte)
  /\ queue \in Seq(Functors)
  /\ inCallback \in BOOLEAN
  /\ mapped \in BOOLEAN
  /\ removals \in Nat
  /\ mainEnded \in BOOLEAN
  /\ closed \in BOOLEAN
  /\ destroyed \in BOOLEAN
  /\ finSent \in BOOLEAN
  /\ peer \in {"open", "closed", "reset"}
  /\ wire \in Seq(Byte)
  /\ accepted \in Seq(Byte)
  /\ sender \in [Messages -> Threads \cup {"unsent", "passed"}]
  /\ calls \in [Threads -> [at : {"idle", "shutdown", "queueShutdown"}, msg : {NoMessage}]
                           \cup [at : {"send"}, msg : Messages]]

\* TcpServer::newConnection has built the connection and queued
\* connectEstablished; whoever sends already has the pointer.
Init ==
  /\ state = "kConnecting"
  /\ reading = FALSE
  /\ writing = FALSE
  /\ registered = FALSE
  /\ outputBuffer = <<>>
  /\ queue = <<Do("established")>>
  /\ inCallback = FALSE
  /\ mapped = TRUE
  /\ removals = 0
  /\ mainEnded = FALSE
  /\ closed = FALSE
  /\ destroyed = FALSE
  /\ finSent = FALSE
  /\ peer = "open"
  /\ wire = <<>>
  /\ accepted = <<>>
  /\ sender = [m \in Messages |-> "unsent"]
  /\ calls = [t \in Threads |-> Idle]

------------------------------------------------------------------------------
(* sendInLoop() and shutdownInLoop(), on the loop thread. *)

\* Mutant: forgets that older bytes may be waiting.
MayWriteNow_Always == TRUE

\* Nothing is waiting, so sendInLoop may write to the socket itself.
MayWriteNow == ~writing /\ outputBuffer = <<>>

\* write() fails with EPIPE or ECONNRESET.
WriteFails == finSent \/ peer = "reset"

\* sendInLoop's only test of state_.
Gone == state = "kDisconnected"

\* Mutant: does not register EPOLLOUT for what is left over.
WantsWriting_Never(left) == writing

\* if (!channel_->isWriting()) channel_->enableWriting()
WantsWriting(left) == writing \/ left > 0

CrossesMark(old, left) ==
  old + left >= HighWaterMark /\ old < HighWaterMark

\* sendInLoop when the connection is down.
SendGivesUp ==
  /\ Gone
  /\ UNCHANGED <<conn, socket, accepted>>

\* The direct write fails for good: the message is dropped.
SendFaults ==
  /\ ~Gone
  /\ MayWriteNow
  /\ WriteFails
  /\ UNCHANGED <<conn, socket, accepted>>

\* Channel::enableWriting puts a channel that is not in epoll (back) into it.
RegisteredBy(wants) == registered \/ (wants /\ ~writing)

\* n bytes are written at once (none if others wait, or on EWOULDBLOCK and
\* the errors that are not about the peer); the rest is buffered.
SendWrites(m, n) ==
  /\ ~Gone
  /\ IF MayWriteNow THEN ~WriteFails /\ n \in 0..Size ELSE n = 0
  /\ wire' = wire \o SubSeq(Bytes(m), 1, n)
  /\ outputBuffer' = outputBuffer \o SubSeq(Bytes(m), n + 1, Size)
  /\ writing' = WantsWriting(Size - n)
  /\ registered' = RegisteredBy(WantsWriting(Size - n))
  /\ accepted' = accepted \o Bytes(m)
  /\ UNCHANGED <<state, reading, finSent, peer>>

\* The functors sendInLoop queues behind q when it writes n bytes.
AfterSend(q, n) ==
  q \o (IF n = Size THEN <<Do("writeComplete")>> ELSE <<>>)
    \o (IF n < Size /\ CrossesMark(Len(outputBuffer), Size - n)
        THEN <<Do("highWater")>> ELSE <<>>)

\* sendInLoop(m), q being the functors already queued.
SendInLoop(m, q) ==
  \/ (SendGivesUp \/ SendFaults) /\ queue' = q
  \/ \E n \in 0..Size : SendWrites(m, n) /\ queue' = AfterSend(q, n)

\* Mutant: closes the write side with bytes still in the buffer.
FinNow_Always == TRUE

\* shutdownInLoop's test.
FinNow == ~writing

ShutdownInLoop == finSent' = (finSent \/ FinNow)

------------------------------------------------------------------------------
(* The functors the loop runs. *)

NextFunctor(op) == ~inCallback /\ queue # <<>> /\ Head(queue).op = op

Others == <<calls, server, sender>>

\* connectEstablished, ending in connectionCallback_.
RunEstablished ==
  /\ NextFunctor("established")
  /\ state' = "kConnected"
  /\ reading' = TRUE
  /\ registered' = TRUE
  /\ inCallback' = TRUE
  /\ queue' = Tail(queue)
  /\ UNCHANGED <<writing, outputBuffer, socket, accepted, Others>>

RunSend ==
  /\ NextFunctor("send")
  /\ SendInLoop(Head(queue).msg, Tail(queue))
  /\ sender' = [sender EXCEPT ![Head(queue).msg] = "passed"]
  /\ UNCHANGED <<inCallback, calls, server>>

RunShutdown ==
  /\ NextFunctor("shutdown")
  /\ ShutdownInLoop
  /\ queue' = Tail(queue)
  /\ UNCHANGED <<conn, inCallback, peer, wire, accepted, Others>>

\* writeCompleteCallback_ or highWaterMarkCallback_.
RunUserFunctor ==
  /\ NextFunctor("writeComplete") \/ NextFunctor("highWater")
  /\ queue' = Tail(queue)
  /\ inCallback' = TRUE
  /\ UNCHANGED <<conn, socket, accepted, Others>>

\* connectDestroyed; the test of state_ and the store are one step, the
\* overlap with shutdown() only decides which of the two states is left.
\* Only an established connection loses its events_ (disableAll); the channel
\* leaves epoll in either case.
RunDestroyed ==
  /\ NextFunctor("destroyed")
  /\ queue' = Tail(queue)
  /\ destroyed' = TRUE
  /\ registered' = FALSE
  /\ IF state = "kConnected"
     THEN /\ state' = "kDisconnected"
          /\ reading' = FALSE
          /\ writing' = FALSE
          /\ inCallback' = TRUE
     ELSE UNCHANGED <<state, reading, writing, inCallback>>
  /\ UNCHANGED <<outputBuffer, socket, accepted, calls, mapped,
                 removals, mainEnded, closed, sender>>

------------------------------------------------------------------------------
(* The channel's handlers. *)

\* handleRead with data: messageCallback_.
HandleRead ==
  /\ ~inCallback
  /\ registered /\ reading
  /\ peer # "reset"
  /\ inCallback' = TRUE
  /\ UNCHANGED <<conn, queue, socket, accepted, Others>>

\* channel_->disableAll()
InterestAfterClose(interest) == FALSE

\* epoll reports EPOLLHUP, whatever the channel's interest is.
HangsUp == peer = "reset" \/ (peer = "closed" /\ finSent)

\* handleClose, because read() returned 0 or epoll reported EPOLLHUP; the
\* user's connectionCallback_ then finds the connection down, and TcpServer
\* is told to remove it.
HandleClose ==
  /\ ~inCallback
  /\ registered
  /\ HangsUp \/ (reading /\ peer # "open")
  /\ state' = "kDisconnected"
  /\ reading' = InterestAfterClose(reading)
  /\ writing' = InterestAfterClose(writing)
  /\ registered' = (reading' \/ writing')
  /\ closed' = TRUE
  /\ removals' = removals + 1
  /\ inCallback' = TRUE
  /\ UNCHANGED <<outputBuffer, queue, socket, accepted, calls,
                 mapped, mainEnded, destroyed, sender>>

\* Mutant: leaves EPOLLOUT on when the buffer is empty.
StillWriting_Always(left) == TRUE

\* disableWriting() once everything was written.
StillWriting(left) == left > 0

\* Mutant: calls disableAll where it should call disableWriting.
ReadingAfterWrite_DisableAll(left) == reading /\ left > 0

\* disableWriting leaves the other interest alone.
ReadingAfterWrite(left) == reading

\* handleWrite: the kernel takes n bytes.  disableWriting takes a channel with
\* no other interest out of epoll; shutdownInLoop tests isWriting once more.
HandleWrite ==
  /\ ~inCallback
  /\ registered /\ writing
  /\ ~WriteFails
  /\ \E n \in 1..Len(outputBuffer) :
       LET left == Len(outputBuffer) - n IN
       /\ wire' = wire \o SubSeq(outputBuffer, 1, n)
       /\ outputBuffer' = SubSeq(outputBuffer, n + 1, Len(outputBuffer))
       /\ writing' = StillWriting(left)
       /\ reading' = ReadingAfterWrite(left)
       /\ registered' = (reading' \/ writing')
       /\ queue' = IF left = 0 THEN Append(queue, Do("writeComplete")) ELSE queue
       /\ finSent' = (finSent \/ (left = 0 /\ state = "kDisconnecting" /\ ~writing'))
  /\ UNCHANGED <<state, inCallback, peer, accepted, Others>>

------------------------------------------------------------------------------
(* User code on the loop thread. *)

CallbackReturns ==
  /\ inCallback
  /\ inCallback' = FALSE
  /\ UNCHANGED <<conn, queue, socket, accepted, Others>>

SendFromCallback(m) ==
  /\ inCallback
  /\ sender[m] = "unsent"
  /\ state = "kConnected"
  /\ sender' = [sender EXCEPT ![m] = "passed"]
  /\ SendInLoop(m, queue)
  /\ UNCHANGED <<inCallback, calls, server>>

ShutdownFromCallback ==
  /\ inCallback
  /\ state = "kConnected"
  /\ state' = "kDisconnecting"
  /\ ShutdownInLoop
  /\ UNCHANGED <<reading, writing, registered, outputBuffer, queue, inCallback,
                 peer, wire, accepted, Others>>

------------------------------------------------------------------------------
(* Calls from other threads, TcpServer and the peer. *)

\* send(): the test of state_ ...
SendTests(t, m) ==
  /\ calls[t] = Idle
  /\ sender[m] = "unsent"
  /\ state = "kConnected"
  /\ sender' = [sender EXCEPT ![m] = t]
  /\ calls' = [calls EXCEPT ![t] = At("send", m)]
  /\ UNCHANGED <<conn, queue, inCallback, socket, accepted, server>>

\* ... and the functor bound to it.
SendQueues(t) ==
  /\ calls[t].at = "send"
  /\ queue' = Append(queue, DoSend(calls[t].msg))
  /\ calls' = [calls EXCEPT ![t] = Idle]
  /\ UNCHANGED <<conn, inCallback, socket, history, server>>

\* shutdown(): the test of state_, the store, and the functor.
ShutdownTests(t) ==
  /\ calls[t] = Idle
  /\ state = "kConnected"
  /\ calls' = [calls EXCEPT ![t] = At("shutdown", NoMessage)]
  /\ UNCHANGED <<conn, queue, inCallback, socket, history, server>>

ShutdownStores(t) ==
  /\ calls[t].at = "shutdown"
  /\ state' = "kDisconnecting"
  /\ calls' = [calls EXCEPT ![t] = At("queueShutdown", NoMessage)]
  /\ UNCHANGED <<reading, writing, registered, outputBuffer, queue, inCallback,
                 socket, history, server>>

ShutdownQueues(t) ==
  /\ calls[t].at = "queueShutdown"
  /\ queue' = Append(queue, Do("shutdown"))
  /\ calls' = [calls EXCEPT ![t] = Idle]
  /\ UNCHANGED <<conn, inCallback, socket, history, server>>

\* removeConnectionInLoop, once for every handleClose.
ServerRemoves ==
  /\ removals > 0
  /\ ~mainEnded
  /\ removals' = removals - 1
  /\ mapped' = FALSE
  /\ queue' = Append(queue, Do("destroyed"))
  /\ UNCHANGED <<conn, inCallback, socket, history, mainEnded, closed, destroyed, calls>>

\* ~TcpServer, once the main loop has ended.
ServerEnds ==
  /\ ~mainEnded
  /\ mainEnded' = TRUE
  /\ mapped' = FALSE
  /\ queue' = IF mapped THEN Append(queue, Do("destroyed")) ELSE queue
  /\ UNCHANGED <<conn, inCallback, socket, history, removals, closed, destroyed, calls>>

PeerLeaves ==
  /\ \/ peer = "open" /\ peer' \in {"closed", "reset"}
     \/ peer = "closed" /\ peer' = "reset"
  /\ UNCHANGED <<conn, queue, inCallback, finSent, wire, history, server, calls>>

------------------------------------------------------------------------------
\* What Channel::handleEvent does with the events epoll reports.
Handlers == HandleRead \/ HandleClose \/ HandleWrite

LoopStep ==
  \/ RunEstablished \/ RunSend \/ RunShutdown \/ RunUserFunctor \/ RunDestroyed

CallStep(t) == SendQueues(t) \/ ShutdownStores(t) \/ ShutdownQueues(t)

Next ==
  \/ LoopStep
  \/ Handlers
  \/ CallbackReturns
  \/ \E m \in Messages : SendFromCallback(m)
  \/ ShutdownFromCallback
  \/ \E t \in Threads :
       \/ \E m \in Messages : SendTests(t, m)
       \/ ShutdownTests(t)
       \/ CallStep(t)
  \/ ServerRemoves
  \/ ServerEnds
  \/ PeerLeaves

Spec == Init /\ [][Next]_vars

\* The loop runs its queue and reports a close, callbacks return, and a call
\* that was begun goes on.  A socket whose peer has not failed becomes
\* writable again and again: the peer reads.
FairSpec ==
  /\ Spec
  /\ SF_vars(LoopStep)
  /\ SF_vars(HandleClose)
  /\ SF_vars(HandleWrite)
  /\ WF_vars(CallbackReturns)
  /\ \A t \in Threads : WF_vars(CallStep(t))

------------------------------------------------------------------------------
(* Properties *)

\* What the kernel took followed by what is buffered is, byte for byte, what
\* sendInLoop accepted, in that order: a direct write never overtakes buffered
\* bytes, and no partial write repeats or drops any.
BytesInOrder == wire \o outputBuffer = accepted

\* While the connection is up, EPOLLOUT is registered exactly when bytes are
\* waiting: output never gets stuck and an idle socket never spins.
WritingIffPending ==
  ~closed /\ ~destroyed => (writing <=> outputBuffer # <<>>)

\* The channel never sits in epoll without an event of interest, where it
\* could only report a hang-up, however its handlers and functors interleave.
NoIdleRegistration == registered => reading \/ writing

\* From connectEstablished until handleClose or connectDestroyed the channel is
\* in epoll for reading, so the peer's data and its close are always noticed.
NeverDeaf ==
  state # "kConnecting" /\ ~closed /\ ~destroyed => registered /\ reading

\* Until connectEstablished, the first functor of all, has run, the connection
\* is in no epoll set and nobody has come past a test of state_.
Unestablished ==
  LET later == Functors \ {Do("established")} IN
  IF state = "kConnecting"
  THEN /\ queue # <<>> /\ Head(queue) = Do("established") /\ Tail(queue) \in Seq(later)
       /\ ~registered /\ ~reading /\ ~writing /\ outputBuffer = <<>>
       /\ ~inCallback /\ ~closed /\ ~destroyed
       /\ \A t \in Threads : calls[t].at = "idle"
  ELSE queue \in Seq(later)

\* Types, the bytes, and what the channel is registered for.
Inv == TypeOK /\ BytesInOrder /\ Unestablished /\ NoIdleRegistration /\ NeverDeaf

\* The message that functor f brings, if it is one of thread t; from says who
\* has sent each message.
Brought(f, from, t) ==
  IF f.op = "send" /\ from[f.msg] = t THEN <<f.msg>> ELSE <<>>

\* Those that the functors in q bring.
BroughtBy(q, from, t) == FlattenSeq([i \in 1..Len(q) |-> Brought(q[i], from, t)])

\* The messages of a thread that are on their way to sendInLoop.
OnTheWay(t) ==
  BroughtBy(queue, sender, t)
    \o (IF calls[t].at = "send" THEN <<calls[t].msg>> ELSE <<>>)

\* To the users of send() and shutdown() the connection is the stream of bytes
\* ByteStream.tla describes: each thread's messages in its order, their bytes
\* once and in order, FIN after all of them unless the connection is down.
Stream == INSTANCE ByteStream WITH
  Sources <- Threads,
  used <- {m \in Messages : sender[m] # "unsent"},
  offered <- [t \in Threads |-> OnTheWay(t)],
  taken <- accepted,
  fin <- finSent,
  down <- closed \/ destroyed \/ peer = "reset"
ImplementsByteStream == Stream!Spec

\* A shutdown asked for is carried out: the FIN goes out, or the connection
\* goes down first.
ShutdownSendsFin ==
  (state = "kDisconnecting") ~> (finSent \/ closed \/ destroyed)

\* A message that was accepted reaches the kernel, or the connection goes down.
AcceptedIsWritten ==
  (outputBuffer # <<>>) ~> (outputBuffer = <<>> \/ closed \/ destroyed)
==============================================================================
