------------------------------ MODULE TcpServer ------------------------------
(***************************************************************************)
(* The life of connections in a TcpServer (net/TcpServer.cc): the main     *)
(* loop accepts them and keeps them in connections_, an I/O loop owns each *)
(* one's channel, and the two hand the connection back and forth with      *)
(* functors until it is established, closed, erased and destroyed.  When   *)
(* the main loop has ended, ~TcpServer destroys what is left and the pool  *)
(* quits and joins the I/O loops.                                          *)
(*                                                                         *)
(* A loop is what EventLoop.tla proves of it: rounds of callbacks, then    *)
(* the functors queued before the swap, in order, then the test of quit_.  *)
(* Other threads call send() and shutdown(), in steps: the test of state_, *)
(* then the store and the functor.  What is sent is left to                *)
(* TcpConnection.tla; here a send may only leave bytes behind, for which   *)
(* EPOLLOUT is switched on.                                                *)
(*                                                                         *)
(* A connection is alive, and its descriptor open, while some shared_ptr   *)
(* holds it: connections_ or a functor (the guard and connPtr of a running *)
(* handler are inside one step).  The functors of send() and shutdown()    *)
(* have a raw pointer: user code is taken to hold the connection until     *)
(* they have run, to hold it no longer, and to call nothing once the       *)
(* server is gone.  Every loop has the Epoller of Epoller.tla, and the     *)
(* process may run out of descriptors.                                     *)
(***************************************************************************)
EXTENDS Integers, Sequences

CONSTANTS
  IoLoops,     \* the loops the pool may have
  MainLoop,    \* baseLoop_
  Conns,       \* the connections clients open
  ConnId,      \* the number nextConnId_ gives each when it is accepted
  Acceptor,    \* acceptChannel_
  None,        \* stands for no loop and for no channel
  MaxFds,      \* bound: the most descriptors left for connections
  MaxCalls     \* bound: calls of send() and shutdown() on each connection

ASSUME ServerAssumption ==
  /\ MainLoop \notin IoLoops
  /\ None \notin IoLoops \cup {MainLoop}
  /\ Acceptor \notin Conns
  /\ MaxFds \in Nat \ {0}
  /\ MaxCalls \in [Conns -> Nat]

Loops == IoLoops \cup {MainLoop}

VARIABLES
  pool,         \* the loops setThreadNum() asked for, none for 0
  phase,        \* what each loop is doing
  quit,         \* quit_ of each loop
  queue,        \* pendingFunctors_ of each loop
  batch,        \* the functors each loop took in this round
  ran,          \* connections of those it has run and not yet destroyed
  owner,        \* getLoop() of each connection, none before it is accepted
  connections,  \* connections_
  state,        \* state_ of each connection
  limit,        \* how many descriptors the process has left for connections
  channel,      \* channel_ of each connection, and acceptChannel_
  epoller,      \* poller_ of each loop
  peerGone,     \* connections the client has closed
  ups, downs,   \* history: how often the user heard of each connection
  destroyed,    \* history: connections connectDestroyed has run for
  server,       \* how far the server has come
  sending,      \* calls of send() past their test, by connection
  stopping,     \* calls of shutdown() past their test
  called,       \* how often user code has called them
  overwritten,  \* history: shutdown() has stored kDisconnecting over kDisconnected
  late          \* history: sendInLoop has switched EPOLLOUT on after
                \* connectDestroyed

loopVars == <<pool, limit, phase, quit, queue, batch, ran>>
connVars == <<state, channel, epoller>>
heard == <<ups, downs>>
calls == <<sending, stopping, called, overwritten>>
vars == <<pool, limit, phase, quit, queue, batch, ran, owner, connections, state,
          channel, epoller, peerGone, ups, downs, destroyed, server,
          sending, stopping, called, overwritten, late>>

Channels == Conns \cup {Acceptor}
ListenFd == 0
Fds == ListenFd..MaxFds

INSTANCE Epoller

ASSUME ChannelAssumption == NoChannel \notin Channels

\* The functors that hold the connection with a shared_ptr, and the others.
LifeOps == {"established", "remove", "destroyed"}
CallOps == {"send", "shutdown"}
Functor == [op : LifeOps \cup CallOps, conn : Conns]
F(op, c) == [op |-> op, conn |-> c]

TypeOK ==
  /\ pool \subseteq IoLoops
  /\ phase \in [Loops -> {"events", "functors", "ended"}]
  /\ quit \in [Loops -> BOOLEAN]
  /\ queue \in [Loops -> Seq(Functor)]
  /\ batch \in [Loops -> Seq(Functor)]
  /\ ran \in [Loops -> SUBSET Conns]
  /\ owner \in [Conns -> Loops \cup {None}]
  /\ connections \subseteq Conns
  /\ state \in [Conns -> {"kConnecting", "kConnected", "kDisconnecting", "kDisconnected"}]
  /\ limit \in 1..MaxFds
  /\ channel \in [Channels -> ChannelType \cup {None}]
  /\ epoller \in [Loops -> EpollerType]
  /\ peerGone \subseteq Conns
  /\ ups \in [Conns -> Nat]
  /\ downs \in [Conns -> Nat]
  /\ destroyed \subseteq Conns
  /\ server \in {"running", "dtor", "joining", "gone"}
  /\ sending \in [Conns -> Nat]
  /\ stopping \in [Conns -> Nat]
  /\ called \in [Conns -> Nat]
  /\ overwritten \subseteq Conns
  /\ late \subseteq destroyed

\* Acceptor::listen: enableReading.
Listening == WithEvents(NewChannel(ListenFd), {"read"})

\* TcpServer::start has run: the pool is up and the acceptor listens.  A loop
\* outside the pool was never started.
Init ==
  /\ pool \in {{}, IoLoops}
  /\ phase = [l \in Loops |-> IF l \in pool \cup {MainLoop} THEN "events" ELSE "ended"]
  /\ quit = [l \in Loops |-> FALSE]
  /\ queue = [l \in Loops |-> <<>>]
  /\ batch = [l \in Loops |-> <<>>]
  /\ ran = [l \in Loops |-> {}]
  /\ owner = [c \in Conns |-> None]
  /\ connections = {}
  /\ state = [c \in Conns |-> "kConnecting"]
  /\ limit \in 1..MaxFds
  /\ channel = [c \in Channels |->
                  IF c = Acceptor THEN UpdatedChannel(Listening) ELSE None]
  /\ epoller = [l \in Loops |->
                  IF l = MainLoop THEN Updated(NewEpoller, Acceptor, Listening)
                  ELSE NewEpoller]
  /\ peerGone = {}
  /\ ups = [c \in Conns |-> 0]
  /\ downs = [c \in Conns |-> 0]
  /\ destroyed = {}
  /\ server = "running"
  /\ sending = [c \in Conns |-> 0]
  /\ stopping = [c \in Conns |-> 0]
  /\ called = [c \in Conns |-> 0]
  /\ overwritten = {}
  /\ late = {}

------------------------------------------------------------------------------
(* The connection's own functions, as changes of its variables. *)

\* Channel::update with new events_, in the loop that owns the channel.
Update(c, events) ==
  LET changed == WithEvents(channel[c], events) IN
  /\ channel' = [channel EXCEPT ![c] = UpdatedChannel(changed)]
  /\ epoller' = [epoller EXCEPT ![owner[c]] = Updated(@, c, changed)]

\* connectEstablished, ch being the channel in the home loop l: kConnected, tie,
\* enableReading, connectionCallback_.
ConnectEstablished(c, ch, l) ==
  LET reading == WithEvents(ch, {"read"}) IN
  /\ state' = [state EXCEPT ![c] = "kConnected"]
  /\ channel' = [channel EXCEPT ![c] = UpdatedChannel(reading)]
  /\ epoller' = [epoller EXCEPT ![l] = Updated(@, c, reading)]
  /\ ups' = [ups EXCEPT ![c] = @ + 1]
  /\ UNCHANGED <<downs, destroyed>>

\* connectDestroyed tells the user only if handleClose has not.
TellsDown(c) == state[c] = "kConnected"

\* connectDestroyed: the channel is removed in any case.  A shutdown() that stores
\* between the test of state_ and the store here is overwritten at once; only its
\* functor, which changes the socket alone, would be left.
ConnectDestroyed(c) ==
  LET ep == epoller[owner[c]]
      off == IF TellsDown(c) THEN Disabled(ep, c, channel[c])
             ELSE [ch |-> channel[c], ep |-> ep]
      gone == Forgotten(off.ep, c, off.ch)
  IN
  /\ IF TellsDown(c)
     THEN /\ state' = [state EXCEPT ![c] = "kDisconnected"]
          /\ downs' = [downs EXCEPT ![c] = @ + 1]
     ELSE UNCHANGED <<state, downs>>
  /\ channel' = [channel EXCEPT ![c] = gone.ch]
  /\ epoller' = [epoller EXCEPT ![owner[c]] = gone.ep]
  /\ destroyed' = destroyed \cup {c}
  /\ UNCHANGED ups

\* Mutant: the state is not looked at again.
GivesUp_Never(c) == FALSE

\* "disconnected, give up writing"
GivesUp(c) == state[c] = "kDisconnected"

\* sendInLoop: the kernel takes everything or, bytes being left behind, EPOLLOUT
\* has to be on.
SendInLoop(c) ==
  \/ UNCHANGED <<channel, epoller, late>>
  \/ /\ ~GivesUp(c)
     /\ "write" \notin channel[c].events
     /\ Update(c, channel[c].events \cup {"write"})
     /\ late' = late \cup ({c} \cap destroyed)

------------------------------------------------------------------------------
(* Rounds of a loop. *)

BeginFunctors(l) ==
  /\ phase[l] = "events"
  /\ phase' = [phase EXCEPT ![l] = "functors"]
  /\ batch' = [batch EXCEPT ![l] = queue[l]]
  /\ queue' = [queue EXCEPT ![l] = <<>>]
  /\ UNCHANGED <<pool, limit, ran, quit, owner, connections, connVars, peerGone,
                 heard, destroyed, server, calls, late>>

\* The functors are destroyed together, when doPendingFunctors returns.
EndRound(l) ==
  /\ phase[l] = "functors"
  /\ batch[l] = <<>>
  /\ ran' = [ran EXCEPT ![l] = {}]
  /\ phase' = [phase EXCEPT ![l] = IF quit[l] THEN "ended" ELSE "events"]
  /\ UNCHANGED <<pool, limit, quit, queue, batch, owner, connections, connVars,
                 peerGone, heard, destroyed, server, calls, late>>

NextFunctor(l, op) ==
  /\ phase[l] = "functors"
  /\ batch[l] # <<>>
  /\ Head(batch[l]).op = op
  /\ batch' = [batch EXCEPT ![l] = Tail(@)]
  /\ ran' = IF op \in LifeOps
            THEN [ran EXCEPT ![l] = @ \cup {Head(batch[l]).conn}] ELSE ran

RunEstablished(l) ==
  /\ NextFunctor(l, "established")
  /\ LET c == Head(batch[l]).conn IN ConnectEstablished(c, channel[c], l)
  /\ UNCHANGED <<pool, limit, phase, quit, queue, owner, connections, peerGone, server,
                 calls, late>>

RunDestroyed(l) ==
  /\ NextFunctor(l, "destroyed")
  /\ ConnectDestroyed(Head(batch[l]).conn)
  /\ UNCHANGED <<pool, limit, phase, quit, queue, owner, connections, peerGone, server,
                 calls, late>>

\* Mutant: removeConnectionInLoop only erases the map entry.
AfterErase_Nothing(c) == <<>>

\* Mutant: the entry is never erased.
MapAfterErase_Keeps(c) == connections

\* connections_.erase(name), or the reset() in ~TcpServer.
MapAfterErase(c) == connections \ {c}

\* conn->getLoop()
HomeOf(c) == owner[c]

\* removeConnectionInLoop erases the map entry and queues connectDestroyed.
AfterErase(c) == <<F("destroyed", c)>>

RunRemove ==
  /\ NextFunctor(MainLoop, "remove")
  /\ LET c == Head(batch[MainLoop]).conn IN
       /\ connections' = MapAfterErase(c)
       /\ queue' = [queue EXCEPT ![HomeOf(c)] = @ \o AfterErase(c)]
  /\ UNCHANGED <<pool, limit, phase, quit, owner, connVars, peerGone, heard,
                 destroyed, server, calls, late>>

RunSend(l) ==
  /\ NextFunctor(l, "send")
  /\ SendInLoop(Head(batch[l]).conn)
  /\ UNCHANGED <<pool, limit, phase, quit, queue, owner, connections, state, peerGone,
                 heard, destroyed, server, calls>>

\* shutdownInLoop changes the socket only.
RunShutdown(l) ==
  /\ NextFunctor(l, "shutdown")
  /\ UNCHANGED <<pool, limit, phase, quit, queue, owner, connections, connVars, peerGone,
                 heard, destroyed, server, calls, late>>

------------------------------------------------------------------------------
(* Callbacks. *)

\* The loops getNextLoop may answer.
Candidates == IF pool = {} THEN {MainLoop} ELSE pool

\* The functors a loop has still to run, in the order it will run them.
Waiting(l) == batch[l] \o queue[l]
Elements(s) == {s[i] : i \in 1..Len(s)}
Pending(l) == Elements(Waiting(l))

\* The loops that hold a connection with a functor.
Holding(c) == {l \in Loops : c \in ran[l] \/ \E f \in Pending(l) : f.conn = c}

\* User code is in a call and has tested state_.
InCall(c) == sending[c] > 0 \/ stopping[c] > 0

\* Some shared_ptr to the connection exists: the object lives, its descriptor
\* is open.
Held(c) == c \in connections \/ Holding(c) # {} \/ InCall(c)

\* The descriptors the process has left.
FreeFds == (1..limit) \ {channel[c].fd : c \in {d \in Conns : Held(d)}}

\* accept() answers with the least of them.
NewFd == CHOOSE f \in FreeFds : \A g \in FreeFds : f <= g

\* Acceptor::handleRead: accept() returns a connection not seen before, when a
\* descriptor is left; else handleRead only logs, and epoll reports the listening
\* socket again.
Accepted(c) ==
  /\ phase[MainLoop] = "events"
  /\ Acceptor \in epoller[MainLoop].kernel
  /\ owner[c] = None
  /\ FreeFds # {}
  /\ \A d \in Conns : ConnId[d] < ConnId[c] => owner[d] # None

\* newConnection, called back by the acceptor: runInLoop(connectEstablished)
\* runs at once if the main loop itself owns the connection.
Accept(c) ==
  /\ Accepted(c)
  /\ connections' = connections \cup {c}
  /\ \E l \in Candidates :
       /\ owner' = [owner EXCEPT ![c] = l]
       /\ IF l = MainLoop
          THEN ConnectEstablished(c, NewChannel(NewFd), l) /\ UNCHANGED queue
          ELSE /\ queue' = [queue EXCEPT ![l] = Append(@, F("established", c))]
               /\ channel' = [channel EXCEPT ![c] = NewChannel(NewFd)]
               /\ UNCHANGED <<state, epoller, heard, destroyed>>
  /\ UNCHANGED <<pool, limit, ran, phase, quit, batch, peerGone, server, calls, late>>

\* epoll may report the connection.  The kernel drops a closed descriptor by
\* itself, Epoller.tla keeps its channel in the list.
Watched(c) ==
  /\ owner[c] # None
  /\ phase[owner[c]] = "events"
  /\ c \in epoller[owner[c]].kernel
  /\ Held(c)

\* handleClose, from handleRead or on EPOLLHUP alone, which needs no interest:
\* disconnected, user told, closeCallback_ = removeConnection, which goes through
\* the main loop.
HandleClose(c) ==
  /\ c \in peerGone
  /\ Watched(c)
  /\ state' = [state EXCEPT ![c] = "kDisconnected"]
  /\ Update(c, {})
  /\ downs' = [downs EXCEPT ![c] = @ + 1]
  /\ IF owner[c] = MainLoop
     THEN /\ connections' = MapAfterErase(c)
          /\ queue' = [queue EXCEPT ![MainLoop] = @ \o AfterErase(c)]
     ELSE /\ queue' = [queue EXCEPT ![MainLoop] = Append(@, F("remove", c))]
          /\ UNCHANGED connections
  /\ UNCHANGED <<pool, limit, ran, phase, quit, batch, owner, peerGone, ups,
                 destroyed, server, calls, late>>

\* handleWrite has written the rest.
HandleWrite(c) ==
  /\ Watched(c)
  /\ "write" \in channel[c].events
  /\ Update(c, channel[c].events \ {"write"})
  /\ UNCHANGED <<loopVars, owner, connections, state, peerGone, heard, destroyed,
                 server, calls, late>>

PeerCloses(c) ==
  /\ owner[c] # None
  /\ c \notin peerGone
  /\ peerGone' = peerGone \cup {c}
  /\ UNCHANGED <<loopVars, owner, connections, connVars, heard,
                 destroyed, server, calls, late>>

------------------------------------------------------------------------------
(* Calls of user code. *)

Calls(c) ==
  /\ server # "gone"
  /\ called[c] < MaxCalls[c]
  /\ called' = [called EXCEPT ![c] = @ + 1]
  /\ state[c] = "kConnected"

\* On the loop's thread, from a callback of any connection or, in the main loop's,
\* outside of it, a call is one step.
OnLoopThread(c) == owner[c] = MainLoop \/ phase[owner[c]] # "ended"

SendFromCallback(c) ==
  /\ Calls(c)
  /\ OnLoopThread(c)
  /\ SendInLoop(c)
  /\ UNCHANGED <<loopVars, owner, connections, state, peerGone, heard, destroyed,
                 server, sending, stopping, overwritten>>

ShutdownFromCallback(c) ==
  /\ Calls(c)
  /\ OnLoopThread(c)
  /\ state' = [state EXCEPT ![c] = "kDisconnecting"]
  /\ UNCHANGED <<loopVars, owner, connections, channel, epoller, peerGone, heard,
                 destroyed, server, sending, stopping, overwritten, late>>

\* On any other thread: send() has found kConnected ...
SendTests(c) ==
  /\ Calls(c)
  /\ sending' = [sending EXCEPT ![c] = @ + 1]
  /\ UNCHANGED <<loopVars, owner, connections, connVars, peerGone, heard, destroyed,
                 server, stopping, overwritten, late>>

\* ... and queues sendInLoop.
SendQueues(c) ==
  /\ sending[c] > 0
  /\ sending' = [sending EXCEPT ![c] = @ - 1]
  /\ queue' = [queue EXCEPT ![owner[c]] = Append(@, F("send", c))]
  /\ UNCHANGED <<pool, limit, phase, quit, batch, ran, owner, connections, connVars,
                 peerGone, heard, destroyed, server, stopping, called, overwritten, late>>

\* shutdown() has found kConnected ...
ShutdownTests(c) ==
  /\ Calls(c)
  /\ stopping' = [stopping EXCEPT ![c] = @ + 1]
  /\ UNCHANGED <<loopVars, owner, connections, connVars, peerGone, heard, destroyed,
                 server, sending, overwritten, late>>

\* ... stores kDisconnecting, whatever state_ is by now, and queues shutdownInLoop.
ShutdownStores(c) ==
  /\ stopping[c] > 0
  /\ stopping' = [stopping EXCEPT ![c] = @ - 1]
  /\ state' = [state EXCEPT ![c] = "kDisconnecting"]
  /\ overwritten' = IF state[c] = "kDisconnected"
                    THEN overwritten \cup {c} ELSE overwritten
  /\ queue' = [queue EXCEPT ![owner[c]] = Append(@, F("shutdown", c))]
  /\ UNCHANGED <<pool, limit, phase, quit, batch, ran, owner, connections, channel,
                 epoller, peerGone, heard, destroyed, server, sending, called, late>>

------------------------------------------------------------------------------
(* The end of the server, on the main thread. *)

\* User code makes the main loop quit.
QuitMain ==
  /\ ~quit[MainLoop]
  /\ quit' = [quit EXCEPT ![MainLoop] = TRUE]
  /\ UNCHANGED <<pool, limit, ran, phase, queue, batch, owner, connections, connVars, peerGone,
                 heard, destroyed, server, calls, late>>

BeginDtor ==
  /\ server = "running"
  /\ phase[MainLoop] = "ended"
  /\ server' = "dtor"
  /\ UNCHANGED <<loopVars, owner, connections, connVars, peerGone, heard, destroyed,
                 calls, late>>

\* One turn of ~TcpServer's loop: the map's pointer is reset, connectDestroyed
\* runs in the connection's loop.
DtorDestroys(c) ==
  /\ server = "dtor"
  /\ c \in connections
  /\ connections' = MapAfterErase(c)
  /\ IF HomeOf(c) = MainLoop
     THEN ConnectDestroyed(c) /\ UNCHANGED queue
     ELSE /\ queue' = [queue EXCEPT ![HomeOf(c)] = Append(@, F("destroyed", c))]
          /\ UNCHANGED <<connVars, heard, destroyed>>
  /\ UNCHANGED <<pool, limit, ran, phase, quit, batch, owner, peerGone, server,
                 calls, late>>

DtorReachesPool ==
  /\ server = "dtor"
  /\ connections = {}
  /\ server' = "joining"
  /\ UNCHANGED <<loopVars, owner, connections, connVars, peerGone, heard, destroyed,
                 calls, late>>

\* Mutant: joins the thread without telling its loop to quit.
QuitBeforeJoin_Skipped(l) == quit

\* loop_->quit()
QuitBeforeJoin(l) == [quit EXCEPT ![l] = TRUE]

\* ~EventLoopThread of one thread after the other: quit(), then join().
DtorQuits(l) ==
  /\ server = "joining"
  /\ l \in pool
  /\ \A k \in pool : quit[k] => phase[k] = "ended"
  /\ quit' = QuitBeforeJoin(l)
  /\ UNCHANGED <<pool, limit, ran, phase, queue, batch, owner, connections, connVars, peerGone,
                 heard, destroyed, server, calls, late>>

\* Mutant: the destructor goes on while I/O loops still run.
Joined_NotAwaited(l) == TRUE

\* thread_.join()
Joined(l) == phase[l] = "ended"

\* ~Acceptor takes its channel out of epoll.
AcceptorEnds ==
  LET off == Disabled(epoller[MainLoop], Acceptor, channel[Acceptor])
      gone == Forgotten(off.ep, Acceptor, off.ch)
  IN  /\ channel' = [channel EXCEPT ![Acceptor] = gone.ch]
      /\ epoller' = [epoller EXCEPT ![MainLoop] = gone.ep]

\* The pool is gone, then the acceptor.
DtorEnds ==
  /\ server = "joining"
  /\ \A l \in pool : quit[l] /\ Joined(l)
  /\ AcceptorEnds
  /\ server' = "gone"
  /\ UNCHANGED <<loopVars, owner, connections, state, peerGone, heard, destroyed,
                 calls, late>>

------------------------------------------------------------------------------
LoopStep(l) ==
  \/ RunEstablished(l)
  \/ RunDestroyed(l)
  \/ RunSend(l)
  \/ RunShutdown(l)
  \/ EndRound(l)
  \/ l = MainLoop /\ RunRemove

\* A round that somebody wakes the loop for.
WokenRound(l) == (queue[l] # <<>> \/ quit[l]) /\ BeginFunctors(l)

DtorStep ==
  \/ BeginDtor
  \/ \E c \in Conns : DtorDestroys(c)
  \/ DtorReachesPool
  \/ \E l \in pool : ~quit[l] /\ DtorQuits(l)
  \/ DtorEnds

Next ==
  \/ \E l \in Loops : LoopStep(l) \/ BeginFunctors(l)
  \/ \E c \in Conns :
       \/ Accept(c) \/ HandleClose(c) \/ HandleWrite(c) \/ PeerCloses(c)
       \/ SendFromCallback(c) \/ ShutdownFromCallback(c)
       \/ SendTests(c) \/ SendQueues(c) \/ ShutdownTests(c) \/ ShutdownStores(c)
  \/ QuitMain
  \/ DtorStep

Spec == Init /\ [][Next]_vars

\* Loops run their functors, report closed peers they read from and waiting
\* clients (epoll is level-triggered) and obey a wakeup; a call that has been
\* made goes on; the main thread goes on destroying once it has begun.  Clients
\* and user code owe nothing.
FairSpec ==
  /\ Spec
  /\ \A l \in Loops : WF_vars(LoopStep(l) \/ WokenRound(l))
  /\ \A c \in Conns : SF_vars(HandleClose(c) /\ "read" \in channel[c].events)
  /\ WF_vars(\E c \in Conns : SendQueues(c) \/ ShutdownStores(c))
  /\ SF_vars(\E c \in Conns : Accept(c))
  /\ WF_vars(DtorStep)

------------------------------------------------------------------------------
(* Properties *)

\* A channel that a running loop's Epoller knows belongs to a connection that
\* is still alive: epoll never reports a freed channel, and channels_ never
\* answers with one for a descriptor that has been given out again.  The one
\* exception is a send() that was under way when connectDestroyed ran, on a
\* connection being shut down: sendInLoop puts the removed channel back.
NoDanglingChannel ==
  \A l \in Loops : phase[l] # "ended" =>
    \A c \in Conns :
      c \in epoller[l].kernel \/ (\E f \in Fds : epoller[l].channels[f] = c) =>
        Held(c) \/ c \in late

\* No epoll_ctl fails, though descriptors are reused (adding or changing one
\* would end the program), and what epoll watches, what channels_ says and what
\* each channel's index_ says agree: on its own loop and on no other.  Only the
\* entry of a channel put back after connectDestroyed may be given to another.
EpollAgrees ==
  \A l \in Loops :
    /\ epoller[l].errors = {}
    /\ \A c \in Conns :
         /\ c \in epoller[l].kernel <=> owner[c] = l /\ channel[c].index = "kAdded"
         /\ c \in epoller[l].kernel => channel[c].events # {}
         /\ \A f \in Fds :
              /\ epoller[l].channels[f] = c => owner[c] = l /\ channel[c].fd = f
              /\ c \notin late =>
                   (epoller[l].channels[f] = c <=>
                      owner[c] = l /\ channel[c].fd = f /\ channel[c].index # "kNew")

\* removeConnectionInLoop is only ever queued in the main loop and every other
\* functor in the loop that owns the connection: no other thread touches the
\* channel, or connections_.
Confined ==
  \A l \in Loops : \A f \in Pending(l) :
    l = IF f.op = "remove" THEN MainLoop ELSE owner[f.conn]

\* connectDestroyed is not ahead of connectEstablished, and none of the functors
\* that make a connection's life waits twice, unless shutdown() has made a closed
\* connection look open: that one can be closed, and removed, again.
InOrder(s, reopened) ==
  \A i, j \in 1..Len(s) :
    i < j /\ s[i].conn = s[j].conn /\ s[i].op \in LifeOps =>
      /\ s[i].op = s[j].op => s[i].op # "established" /\ s[i].conn \in reopened
      /\ ~(s[i].op = "destroyed" /\ s[j].op = "established")

RunInOrder == \A l \in Loops : InOrder(Waiting(l), overwritten)

\* An accepted connection is in one place: in connections_, with connectDestroyed
\* queued by removeConnectionInLoop or by ~TcpServer but never by both, or
\* destroyed.  Only one that shutdown() has made look open is destroyed twice.
Ending(c) == owner[c] # None /\ F("destroyed", c) \in Pending(owner[c])

InOnePlace ==
  \A c \in Conns :
    /\ owner[c] # None <=> c \in connections \/ Ending(c) \/ c \in destroyed
    /\ ~(c \in connections /\ Ending(c))
    /\ ~(c \in connections /\ c \in destroyed)
    /\ Ending(c) /\ c \in destroyed => c \in overwritten

\* handleClose calls removeConnection on a raw TcpServer*: no loop is left that
\* could when the server is gone, and no channel of the server is in the main
\* loop's epoll, but one that was put back after it had been closed.
NobodyUsesGone ==
  server = "gone" =>
    /\ \A l \in Loops : phase[l] = "ended"
    /\ epoller[MainLoop].kernel \subseteq overwritten

\* What makes these inductive, with what is below: how far a connection has come
\* decides what its functors, its state_ and its channel are.
Unseen(c) ==
  owner[c] = None =>
    /\ ups[c] = 0 /\ downs[c] = 0 /\ state[c] = "kConnecting"
    /\ c \notin peerGone
    /\ ~InCall(c)

Established(c) ==
  owner[c] # None =>
    /\ channel[c] \in ChannelType
    /\ channel[c].fd # ListenFd
    /\ ups[c] = 0 <=> F("established", c) \in Pending(owner[c])
    /\ ups[c] = 0 => /\ owner[c] # MainLoop
                     /\ downs[c] = 0
                     /\ state[c] = "kConnecting"
                     /\ channel[c].index = "kNew"

\* send() or shutdown() has been called and has not been carried out.
Called(c) ==
  InCall(c) \/ \E op \in CallOps, l \in Loops : F(op, c) \in Pending(l)

\* From connectEstablished to connectDestroyed.
Up(c) == owner[c] # None /\ ups[c] = 1 /\ c \notin destroyed

\* state_ tells whether the user has heard of the end, and of a connection whose
\* end has been heard of the channel is out of epoll: unless shutdown() has
\* overwritten kDisconnected.
Closed(c) ==
  /\ Called(c) => ups[c] = 1
  /\ Up(c) => channel[c].index # "kNew"
  /\ Up(c) /\ downs[c] = 0 => channel[c].index = "kAdded" /\ "read" \in channel[c].events
  /\ state[c] = "kConnected" => Up(c) /\ downs[c] = 0
  /\ state[c] = "kConnecting" => ups[c] = 0
  /\ downs[c] > 0 => state[c] \in {"kDisconnecting", "kDisconnected"}
  /\ state[c] = "kDisconnected" \/ c \in overwritten => downs[c] > 0
  /\ downs[c] > 0 /\ c \notin overwritten =>
       state[c] = "kDisconnected" /\ channel[c].index # "kAdded"

\* How connectDestroyed is reached, and what is left after it.
Ended(c) ==
  /\ c \in destroyed => channel[c].index = "kNew" \/ c \in late
  /\ c \in late /\ owner[c] = MainLoop => c \in overwritten
  /\ F("remove", c) \in Pending(MainLoop) =>
       /\ downs[c] > 0
       /\ c \notin overwritten /\ phase[MainLoop] # "ended" => c \in connections
  /\ Ending(c) /\ (owner[c] = MainLoop \/ phase[MainLoop] # "ended") => downs[c] > 0
  /\ c \in destroyed /\ phase[MainLoop] # "ended" => downs[c] > 0

LivesAreInStep ==
  \A c \in Conns : Unseen(c) /\ Established(c) /\ Closed(c) /\ Ended(c)

\* A descriptor is given out again only when nothing holds its connection.
OwnDescriptors ==
  \A c, d \in Conns :
    c # d /\ Held(c) /\ Held(d) => channel[c].fd # channel[d].fd

ServerInStep ==
  /\ \A l \in Loops : phase[l] = "events" => batch[l] = <<>>
  /\ \A l \in IoLoops \ pool : phase[l] = "ended"
  /\ server # "running" => phase[MainLoop] = "ended"
  /\ server \in {"joining", "gone"} => connections = {}
  /\ server # "gone" =>
       /\ channel[Acceptor] = UpdatedChannel(Listening)
       /\ Acceptor \in epoller[MainLoop].kernel

Inv ==
  /\ TypeOK
  /\ Confined
  /\ RunInOrder
  /\ InOnePlace
  /\ LivesAreInStep
  /\ OwnDescriptors
  /\ ServerInStep
  /\ NobodyUsesGone

\* The user hears of a connection's beginning once, and of its end only after
\* that; of the end at most once, whether the peer or ~TcpServer ends it and
\* however send() and shutdown() race them, unless a shutdown() found kConnected
\* before the close and stored kDisconnecting after it.  When the connection was
\* destroyed the user has heard of both, unless ~TcpServer destroyed it while
\* user code was shutting it down.
AnnouncedUpThenDown ==
  \A c \in Conns :
    /\ ups[c] <= 1
    /\ downs[c] > 0 => ups[c] = 1
    /\ c \notin overwritten => downs[c] <= 1
    /\ c \in destroyed => ups[c] = 1 /\ (downs[c] > 0 \/ state[c] = "kDisconnecting")

\* An accepted connection whose client has gone is destroyed, unless the main
\* loop is asked to quit.
ClosedIsDestroyed ==
  \A c \in Conns : (c \in peerGone) ~> (c \in destroyed \/ quit[MainLoop])

\* A client is only kept waiting for ever, while the server runs, by connections
\* of clients that stay: every closed connection gives its descriptor back.
WaitingIsAccepted ==
  (\E c \in Conns : <>[](owner[c] = None /\ ~quit[MainLoop]))
    => <>[](\A f \in 1..limit :
              \E c \in Conns : Held(c) /\ channel[c].fd = f /\ c \notin peerGone)

\* The server's destructor ends.
DtorReturns == (server = "dtor") ~> (server = "gone")
==============================================================================
