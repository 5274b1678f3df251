--------------------------- MODULE TcpServer_proofs ---------------------------
(***************************************************************************)
(* Proofs about TcpServer.tla: for any number of loops, connections,       *)
(* descriptors and calls of send() and shutdown(), whatever order peers,   *)
(* user code and ~TcpServer end the connections in, each is announced up   *)
(* once and then down, destroyed in its own loop, and alive while epoll    *)
(* knows its channel; and no epoll_ctl fails although descriptors are      *)
(* reused.  What a shutdown() that overwrites kDisconnected, and a send()  *)
(* that outlives connectDestroyed, can undo is exactly what is stated.     *)
(***************************************************************************)
EXTENDS TcpServer, WellFoundedInduction, TLAPS

(***************************************************************************)
(* Sequences of functors.                                                  *)
(***************************************************************************)

Ops == LifeOps \cup CallOps

\* A functor is known by its operation and its connection.
LEMMA FunctorIs ==
  ASSUME NEW op \in Ops, NEW c \in Conns
  PROVE  F(op, c) \in Functor /\ F(op, c).op = op /\ F(op, c).conn = c
  BY DEF F, Functor, Ops

LEMMA FunctorOf ==
  ASSUME NEW f \in Functor
  PROVE  f.op \in Ops /\ f.conn \in Conns /\ f = F(f.op, f.conn)
  BY DEF F, Functor, Ops

\* The operations are different ones.
LEMMA OpsAre ==
  /\ {"established", "remove", "destroyed"} = LifeOps
  /\ {"send", "shutdown"} = CallOps
  /\ Ops = {"established", "remove", "destroyed", "send", "shutdown"}
  BY DEF Ops, LifeOps, CallOps

\* A functor that can wait only once.
Single(f, reopened) ==
  f.op \in LifeOps /\ (f.op = "established" \/ f.conn \notin reopened)

LEMMA ConcatAppend ==
  ASSUME NEW s \in Seq(Functor), NEW t \in Seq(Functor), NEW f \in Functor
  PROVE  s \o Append(t, f) = Append(s \o t, f)
  OBVIOUS

LEMMA ConcatTail ==
  ASSUME NEW s \in Seq(Functor), NEW t \in Seq(Functor), s # <<>>
  PROVE  s \o t # <<>> /\ Head(s \o t) = Head(s) /\ Tail(s) \o t = Tail(s \o t)
  OBVIOUS

LEMMA ConcatEmpty ==
  ASSUME NEW s \in Seq(Functor)
  PROVE  s \o <<>> = s /\ <<>> \o s = s
  OBVIOUS

LEMMA ElementsAppend ==
  ASSUME NEW s \in Seq(Functor), NEW f \in Functor
  PROVE  /\ Append(s, f) \in Seq(Functor)
         /\ Elements(Append(s, f)) = Elements(s) \cup {f}
<1>1. /\ Append(s, f) \in Seq(Functor) /\ Len(Append(s, f)) = Len(s) + 1
      /\ Append(s, f)[Len(s) + 1] = f
      /\ \A i \in 1..Len(s) : Append(s, f)[i] = s[i]
  OBVIOUS
<1>2. Len(s) \in Nat
  OBVIOUS
<1>3. ASSUME NEW x \in Elements(Append(s, f)) PROVE x \in Elements(s) \cup {f}
  <2>1. PICK i \in 1..(Len(s) + 1) : x = Append(s, f)[i]
    BY <1>1 DEF Elements
  <2>2. i \in 1..Len(s) \/ i = Len(s) + 1
    BY <1>2
  <2>3. QED
    BY <1>1, <2>1, <2>2 DEF Elements
<1>4. ASSUME NEW x \in Elements(s) \cup {f} PROVE x \in Elements(Append(s, f))
  <2>1. CASE x \in Elements(s)
    <3>1. PICK i \in 1..Len(s) : x = s[i]
      BY <2>1 DEF Elements
    <3>2. i \in 1..Len(Append(s, f)) /\ x = Append(s, f)[i]
      BY <1>1, <1>2, <3>1
    <3>3. QED
      BY <3>2 DEF Elements
  <2>2. CASE x = f
    <3>1. Len(s) + 1 \in 1..Len(Append(s, f))
      BY <1>1, <1>2
    <3>2. QED
      BY <1>1, <2>2, <3>1 DEF Elements
  <2>3. QED
    BY <2>1, <2>2
<1>5. QED
  BY <1>1, <1>3, <1>4

\* What may be put behind a sequence in order.
LEMMA InOrderAppend ==
  ASSUME NEW s \in Seq(Functor), NEW f \in Functor, NEW W, InOrder(s, W),
         Single(f, W) => f \notin Elements(s),
         f.op = "established" => F("destroyed", f.conn) \notin Elements(s)
  PROVE  InOrder(Append(s, f), W)
<1> DEFINE t == Append(s, f)
<1>1. /\ Len(t) = Len(s) + 1 /\ t[Len(s) + 1] = f /\ Len(s) \in Nat
      /\ \A i \in 1..Len(s) : t[i] = s[i]
  OBVIOUS
<1> HIDE DEF t
<1> SUFFICES ASSUME NEW i \in 1..Len(t), NEW j \in 1..Len(t), i < j, t[i].conn = t[j].conn,
                    t[i].op \in LifeOps
             PROVE  /\ t[i].op = t[j].op => t[i].op # "established" /\ t[i].conn \in W
                    /\ ~(t[i].op = "destroyed" /\ t[j].op = "established")
  BY DEF InOrder, t
<1>2. i \in 1..Len(s) /\ t[i] = s[i] /\ s[i] \in Functor /\ s[i] \in Elements(s)
  BY <1>1 DEF Elements
<1>3. CASE j \in 1..Len(s)
  BY <1>1, <1>2, <1>3 DEF InOrder
<1>4. CASE j = Len(s) + 1
  <2>1. s[i].conn = f.conn /\ s[i] = F(s[i].op, f.conn) /\ f = F(f.op, f.conn)
    BY <1>1, <1>2, <1>4, FunctorOf
  <2>2. s[i].op = f.op => s[i].op # "established" /\ s[i].conn \in W
    BY <1>2, <2>1 DEF Single
  <2>3. ~(s[i].op = "destroyed" /\ f.op = "established")
    BY <1>2, <2>1
  <2>4. QED
    BY <1>1, <1>2, <1>4, <2>2, <2>3
<1>5. QED
  BY <1>1, <1>3, <1>4

\* Running the first functor takes one copy of it and no other out.
LEMMA TailOfLine ==
  ASSUME NEW s \in Seq(Functor), s # <<>>, NEW W, InOrder(s, W)
  PROVE  /\ Tail(s) \in Seq(Functor)
         /\ Head(s) \in Functor
         /\ Head(s) \in Elements(s)
         /\ \A x : x # Head(s) => (x \in Elements(Tail(s)) <=> x \in Elements(s))
         /\ Single(Head(s), W) => Head(s) \notin Elements(Tail(s))
         /\ InOrder(Tail(s), W)
<1> DEFINE t == Tail(s)
<1>1. /\ t \in Seq(Functor) /\ Len(t) = Len(s) - 1 /\ Len(s) \in Nat /\ Len(s) > 0
      /\ \A i \in 1..Len(t) : t[i] = s[i + 1]
      /\ Head(s) = s[1] /\ s[1] \in Functor
  OBVIOUS
<1> HIDE DEF t
<1>2. Head(s) \in Functor /\ Head(s) \in Elements(s)
  BY <1>1 DEF Elements
<1>3. Single(s[1], W) => \A i \in 2..Len(s) : s[i] # s[1]
  BY <1>1 DEF InOrder, Single
<1>4. ASSUME NEW x \in Elements(t)
      PROVE  x \in Elements(s) /\ (Single(s[1], W) => x # s[1])
  <2>1. PICK i \in 1..Len(t) : x = t[i]
    BY DEF Elements
  <2>2. i + 1 \in 2..Len(s) /\ i + 1 \in 1..Len(s) /\ x = s[i + 1]
    BY <1>1, <2>1
  <2>3. x \in Elements(s)
    BY <2>2 DEF Elements
  <2>4. QED
    BY <1>3, <2>2, <2>3
<1>5. ASSUME NEW x \in Elements(s), x # Head(s) PROVE x \in Elements(t)
  <2>1. PICK i \in 1..Len(s) : x = s[i]
    BY DEF Elements
  <2>2. i # 1
    BY <1>1, <1>5, <2>1
  <2>3. i - 1 \in 1..Len(t) /\ t[i - 1] = s[i]
    BY <1>1, <2>2
  <2>4. QED
    BY <2>1, <2>3 DEF Elements
<1>6. InOrder(t, W)
  <2> SUFFICES ASSUME NEW i \in 1..Len(t), NEW j \in 1..Len(t), i < j, t[i].conn = t[j].conn,
                      t[i].op \in LifeOps
               PROVE  /\ t[i].op = t[j].op => t[i].op # "established" /\ t[i].conn \in W
                      /\ ~(t[i].op = "destroyed" /\ t[j].op = "established")
    BY DEF InOrder
  <2>1. /\ t[i] = s[i + 1] /\ t[j] = s[j + 1] /\ i + 1 < j + 1
        /\ i + 1 \in 1..Len(s) /\ j + 1 \in 1..Len(s)
    BY <1>1
  <2>2. QED
    BY <2>1 DEF InOrder
<1>7. QED
  BY <1>1, <1>2, <1>4, <1>5, <1>6 DEF t

\* connectDestroyed is never run ahead of connectEstablished.
LEMMA EstablishedFirst ==
  ASSUME NEW s \in Seq(Functor), s # <<>>, NEW W, InOrder(s, W), NEW c \in Conns,
         Head(s) = F("destroyed", c)
  PROVE  F("established", c) \notin Elements(s)
<1> SUFFICES ASSUME F("established", c) \in Elements(s) PROVE FALSE
  OBVIOUS
<1>1. PICK j \in 1..Len(s) : s[j] = F("established", c)
  BY DEF Elements
<1>2. s[1] = F("destroyed", c) /\ 1 \in 1..Len(s)
  OBVIOUS
<1>3. /\ s[1].op = "destroyed" /\ s[1].conn = c
      /\ s[j].op = "established" /\ s[j].conn = c
  BY <1>1, <1>2, FunctorIs, OpsAre
<1>4. 1 < j
  BY <1>3
<1>5. QED
  BY <1>2, <1>3, <1>4 DEF InOrder, LifeOps

\* An order with exceptions is one with more of them.
LEMMA InOrderMore ==
  ASSUME NEW s, NEW W, NEW V, W \subseteq V, InOrder(s, W)
  PROVE  InOrder(s, V)
  BY DEF InOrder

(***************************************************************************)
(* Epoller.                                                                *)
(***************************************************************************)

\* A new channel is added.
LEMMA AddedChannel ==
  ASSUME NEW ep \in EpollerType, NEW c \in Channels, NEW ch \in ChannelType,
         ch.index = "kNew", c \notin ep.kernel
  PROVE  LET up == Updated(ep, c, ch) IN
         /\ up \in EpollerType
         /\ up.kernel = ep.kernel \cup {c}
         /\ up.channels = [ep.channels EXCEPT ![ch.fd] = c]
         /\ up.errors = ep.errors
  BY DEF Updated, CtlAdd, EpollerType, ChannelType, Indices

LEMMA UpdatedChannelType ==
  ASSUME NEW ch \in ChannelType
  PROVE  /\ UpdatedChannel(ch) \in ChannelType
         /\ UpdatedChannel(ch).fd = ch.fd
         /\ UpdatedChannel(ch).events = ch.events
         /\ UpdatedChannel(ch).index = IndexAfterUpdate(ch)
  BY DEF UpdatedChannel, IndexAfterUpdate, ChannelType, Indices

LEMMA WithEventsType ==
  ASSUME NEW ch \in ChannelType, NEW e \in SUBSET Events
  PROVE  /\ WithEvents(ch, e) \in ChannelType
         /\ WithEvents(ch, e).fd = ch.fd
         /\ WithEvents(ch, e).events = e
         /\ WithEvents(ch, e).index = ch.index
  BY DEF WithEvents, ChannelType

\* disableAll takes an added channel out of epoll, not out of channels_.
LEMMA DisabledChannel ==
  ASSUME NEW ep \in EpollerType, NEW c \in Channels, NEW ch \in ChannelType,
         ch.index = "kAdded", c \in ep.kernel
  PROVE  LET off == Disabled(ep, c, ch) IN
         /\ off.ep \in EpollerType /\ off.ch \in ChannelType
         /\ off.ep.kernel = ep.kernel \ {c}
         /\ off.ep.channels = ep.channels
         /\ off.ep.errors = ep.errors
         /\ off.ch.index = "kDeleted" /\ off.ch.fd = ch.fd
<1> DEFINE none == WithEvents(ch, {})
<1>1. none \in ChannelType /\ none.fd = ch.fd /\ none.events = {} /\ none.index = "kAdded"
  BY WithEventsType DEF Events
<1> HIDE DEF none
<1>2. Updated(ep, c, none) = CtlDel(ep, c)
  BY <1>1 DEF Updated
<1>3. CtlDel(ep, c) = [ep EXCEPT !.kernel = ep.kernel \ {c}]
  BY DEF CtlDel
<1>4. /\ UpdatedChannel(none) \in ChannelType
      /\ UpdatedChannel(none).index = "kDeleted"
      /\ UpdatedChannel(none).fd = ch.fd
  BY <1>1, UpdatedChannelType DEF IndexAfterUpdate
<1>5. QED
  BY <1>2, <1>3, <1>4 DEF Disabled, none, EpollerType

\* remove takes it out of channels_, and of epoll if it is still there.
LEMMA ForgottenChannel ==
  ASSUME NEW ep \in EpollerType, NEW c \in Channels, NEW ch \in ChannelType,
         ch.index = "kAdded" <=> c \in ep.kernel
  PROVE  LET gone == Forgotten(ep, c, ch) IN
         /\ gone.ep \in EpollerType /\ gone.ch \in ChannelType
         /\ gone.ep.kernel = ep.kernel \ {c}
         /\ gone.ep.channels = [ep.channels EXCEPT ![ch.fd] = NoChannel]
         /\ gone.ep.errors = ep.errors
         /\ gone.ch.index = "kNew" /\ gone.ch.fd = ch.fd
<1> DEFINE forgotten == [ep EXCEPT !.channels[ch.fd] = NoChannel]
<1>1. /\ forgotten \in EpollerType
      /\ forgotten.kernel = ep.kernel /\ forgotten.errors = ep.errors
      /\ forgotten.channels = [ep.channels EXCEPT ![ch.fd] = NoChannel]
  BY DEF EpollerType, ChannelType
<1>2. RemovedChannel(ch) \in ChannelType /\ RemovedChannel(ch).index = "kNew"
      /\ RemovedChannel(ch).fd = ch.fd
  BY DEF RemovedChannel, ChannelType, Indices
<1>3. Removed(ep, c, ch) = IF ch.index = "kAdded" THEN CtlDel(forgotten, c) ELSE forgotten
  BY DEF Removed
<1> HIDE DEF forgotten
<1>4. CASE ch.index = "kAdded"
  <2>1. Removed(ep, c, ch) = [forgotten EXCEPT !.kernel = forgotten.kernel \ {c}]
    BY <1>1, <1>3, <1>4 DEF CtlDel
  <2>2. QED
    BY <1>1, <1>2, <2>1 DEF Forgotten, EpollerType
<1>5. CASE ch.index # "kAdded"
  <2>1. Removed(ep, c, ch) = forgotten /\ c \notin ep.kernel
    BY <1>3, <1>5
  <2>2. ep.kernel \ {c} = ep.kernel
    BY <2>1
  <2>3. QED
    BY <1>1, <1>2, <2>1, <2>2 DEF Forgotten
<1>6. QED
  BY <1>4, <1>5

\* What updateChannel leaves of the interest list and of channels_: the list has
\* the channel exactly when index_ says so.
LEMMA UpdatedEpoller ==
  ASSUME NEW ep \in EpollerType, NEW c \in Channels, NEW ch \in ChannelType,
         ch.index = "kAdded" <=> c \in ep.kernel,
         ch.index = "kAdded" \/ ch.events # {}
  PROVE  LET up == Updated(ep, c, ch) IN
         /\ up \in EpollerType
         /\ up.errors = ep.errors
         /\ c \in up.kernel <=> IndexAfterUpdate(ch) = "kAdded"
         /\ \A d \in Channels \ {c} : d \in up.kernel <=> d \in ep.kernel
         /\ ch.index = "kNew" => up.channels = [ep.channels EXCEPT ![ch.fd] = c]
         /\ ch.index # "kNew" => up.channels = ep.channels
<1> DEFINE up == Updated(ep, c, ch)
<1>1. CASE ch.index = "kNew"
  <2>1. /\ up \in EpollerType /\ up.kernel = ep.kernel \cup {c}
        /\ up.channels = [ep.channels EXCEPT ![ch.fd] = c]
        /\ up.errors = ep.errors
    BY <1>1, AddedChannel
  <2>2. QED
    BY <1>1, <2>1 DEF IndexAfterUpdate
<1>2. CASE ch.index = "kDeleted"
  <2>1. up = [ep EXCEPT !.kernel = ep.kernel \cup {c}]
    BY <1>2 DEF Updated, CtlAdd
  <2>2. /\ up \in EpollerType /\ up.kernel = ep.kernel \cup {c}
        /\ up.channels = ep.channels /\ up.errors = ep.errors
    BY <2>1 DEF EpollerType
  <2>3. QED
    BY <1>2, <2>2 DEF IndexAfterUpdate
<1>3. CASE ch.index = "kAdded" /\ ch.events = {}
  <2>1. up = [ep EXCEPT !.kernel = ep.kernel \ {c}]
    BY <1>3 DEF Updated, CtlDel
  <2>2. /\ up \in EpollerType /\ up.kernel = ep.kernel \ {c}
        /\ up.channels = ep.channels /\ up.errors = ep.errors
    BY <2>1 DEF EpollerType
  <2>3. QED
    BY <1>3, <2>2 DEF IndexAfterUpdate
<1>4. CASE ch.index = "kAdded" /\ ch.events # {}
  <2>1. up = ep
    BY <1>4 DEF Updated, CtlMod
  <2>2. QED
    BY <1>4, <2>1 DEF IndexAfterUpdate
<1>5. QED
  <2>1. ch.index \in {"kNew", "kAdded", "kDeleted"}
    BY DEF ChannelType, Indices
  <2>2. QED
    BY <1>1, <1>2, <1>3, <1>4, <2>1

(***************************************************************************)
(* What waits in the loops.                                                *)
(***************************************************************************)

Lines == [Loops -> Seq(Functor)]

\* A loop's line is its batch followed by its queue.
LEMMA LineType ==
  ASSUME TypeOK, NEW l \in Loops
  PROVE  /\ Waiting(l) \in Seq(Functor)
         /\ batch[l] \in Seq(Functor) /\ queue[l] \in Seq(Functor)
         /\ Pending(l) \subseteq Functor
<1>1. batch[l] \in Seq(Functor) /\ queue[l] \in Seq(Functor)
  BY DEF TypeOK
<1>2. Waiting(l) \in Seq(Functor)
  BY <1>1 DEF Waiting
<1>3. QED
  BY <1>1, <1>2 DEF Pending, Elements

LEMMA LineTypeNext ==
  ASSUME batch' \in Lines, queue' \in Lines, NEW l \in Loops
  PROVE  Pending(l)' \subseteq Functor
<1>1. batch'[l] \in Seq(Functor) /\ queue'[l] \in Seq(Functor)
  BY DEF Lines
<1>2. Waiting(l)' \in Seq(Functor)
  BY <1>1 DEF Waiting
<1>3. QED
  BY <1>2 DEF Pending, Elements

\* A line in order stays so when more connections look open.
LEMMA OrderStays ==
  ASSUME RunInOrder, NEW l \in Loops, overwritten \subseteq overwritten'
  PROVE  InOrder(Waiting(l), overwritten')
  BY InOrderMore DEF RunInOrder

\* The lines are in order if each of them is.
LEMMA OrderNext ==
  ASSUME \A l \in Loops : InOrder(Waiting(l)', overwritten')
  PROVE  RunInOrder'
  BY DEF RunInOrder, InOrder

\* queueInLoop(f) on loop h.
Queues(h, f) == queue' = [queue EXCEPT ![h] = Append(@, f)]

LEMMA LineQueue ==
  ASSUME TypeOK, RunInOrder, NEW h \in Loops, NEW f \in Functor,
         Single(f, overwritten) => f \notin Pending(h),
         f.op = "established" => F("destroyed", f.conn) \notin Pending(h),
         batch' = batch, overwritten \subseteq overwritten',
         Queues(h, f)
  PROVE  /\ batch' \in Lines /\ queue' \in Lines
         /\ Pending(h)' = Pending(h) \cup {f}
         /\ \A l \in Loops : l # h => Pending(l)' = Pending(l)
         /\ RunInOrder'
<1>1. queue \in Lines /\ batch \in Lines
  BY DEF TypeOK, Lines
<1>2. queue'[h] = Append(queue[h], f) /\ \A l \in Loops : l # h => queue'[l] = queue[l]
  BY <1>1 DEF Lines, Queues
<1>3. queue' \in Lines /\ batch' \in Lines
  BY <1>1, LineType, ElementsAppend DEF Lines, Queues
<1>4. Waiting(h)' = Append(Waiting(h), f)
  <2>1. Waiting(h)' = batch[h] \o Append(queue[h], f)
    BY <1>2 DEF Waiting
  <2>2. batch[h] \in Seq(Functor) /\ queue[h] \in Seq(Functor)
    BY LineType
  <2>3. QED
    BY <2>1, <2>2, ConcatAppend DEF Waiting
<1>5. \A l \in Loops : l # h => Waiting(l)' = Waiting(l)
  BY <1>2 DEF Waiting
<1>6. Pending(h)' = Pending(h) \cup {f}
  BY <1>4, LineType, ElementsAppend DEF Pending
<1>7. \A l \in Loops : l # h => Pending(l)' = Pending(l)
  BY <1>5 DEF Pending
<1>8. InOrder(Waiting(h)', overwritten')
  <2>1. InOrder(Append(Waiting(h), f), overwritten)
    BY LineType, InOrderAppend DEF Pending, RunInOrder
  <2>2. QED
    BY <1>4, <2>1, InOrderMore
<1>9. RunInOrder'
  <2>1. \A l \in Loops : InOrder(Waiting(l)', overwritten')
    BY <1>5, <1>8, OrderStays
  <2>2. QED
    BY <2>1, OrderNext
<1>10. QED
  BY <1>3, <1>6, <1>7, <1>9

\* A loop runs the first of its functors.
Takes(h) == batch' = [batch EXCEPT ![h] = Tail(@)]

\* Of what waits, a copy of f in loop h is taken out and g is put in loop k.
Moved(h, f, k, g) ==
  /\ \A l \in Loops : \A x \in Functor : ~(l = h /\ x = f) =>
       (x \in Pending(l)' <=> x \in Pending(l) \/ (l = k /\ x = g))
  /\ Single(f, overwritten) /\ ~(h = k /\ f = g) => f \notin Pending(h)'

TakenOut(h, f) ==
  /\ \A l \in Loops : \A x \in Functor : ~(l = h /\ x = f) =>
       (x \in Pending(l)' <=> x \in Pending(l))
  /\ Single(f, overwritten) => f \notin Pending(h)'

LEMMA LineNext ==
  ASSUME TypeOK, RunInOrder, NEW h \in Loops, batch[h] # <<>>,
         Takes(h),
         queue' = queue, overwritten' = overwritten
  PROVE  /\ batch' \in Lines /\ queue' \in Lines
         /\ Head(batch[h]) \in Pending(h)
         /\ Head(Waiting(h)) = Head(batch[h]) /\ Waiting(h) # <<>>
         /\ TakenOut(h, Head(batch[h]))
         /\ RunInOrder'
<1>1. queue \in Lines /\ batch \in Lines
  BY DEF TypeOK, Lines
<1>2. batch'[h] = Tail(batch[h]) /\ \A l \in Loops : l # h => batch'[l] = batch[l]
  BY <1>1 DEF Lines, Takes
<1>3. batch' \in Lines /\ queue' \in Lines
  BY <1>1, LineType DEF Lines, Takes
<1>4. /\ Waiting(h) # <<>> /\ Head(Waiting(h)) = Head(batch[h])
      /\ Waiting(h)' = Tail(Waiting(h))
  BY <1>2, LineType, ConcatTail DEF Waiting
<1>5. \A l \in Loops : l # h => Waiting(l)' = Waiting(l)
  BY <1>2 DEF Waiting
<1>6. InOrder(Waiting(h), overwritten)
  BY DEF RunInOrder
<1>7. /\ \A x : x # Head(batch[h]) =>
           (x \in Elements(Tail(Waiting(h))) <=> x \in Elements(Waiting(h)))
      /\ Single(Head(batch[h]), overwritten) =>
           Head(batch[h]) \notin Elements(Tail(Waiting(h)))
      /\ Head(batch[h]) \in Elements(Waiting(h))
      /\ InOrder(Tail(Waiting(h)), overwritten)
  BY <1>4, <1>6, LineType, TailOfLine
<1>8. RunInOrder'
  <2>1. \A l \in Loops : InOrder(Waiting(l)', overwritten')
    BY <1>4, <1>5, <1>7 DEF RunInOrder
  <2>2. QED
    BY <2>1, OrderNext
<1>9. Pending(h)' = Elements(Tail(Waiting(h)))
      /\ \A l \in Loops : l # h => Pending(l)' = Pending(l)
  BY <1>4, <1>5 DEF Pending
<1>10. TakenOut(h, Head(batch[h]))
  BY <1>7, <1>9 DEF TakenOut, Pending
<1>11. QED
  BY <1>3, <1>4, <1>7, <1>8, <1>10 DEF Pending

\* The swap: what was queued becomes the batch, the line stays as it is.
LEMMA LineSwap ==
  ASSUME TypeOK, RunInOrder, NEW h \in Loops, batch[h] = <<>>,
         batch' = [batch EXCEPT ![h] = queue[h]],
         queue' = [queue EXCEPT ![h] = <<>>], overwritten' = overwritten
  PROVE  /\ batch' \in Lines /\ queue' \in Lines
         /\ \A l \in Loops : Pending(l)' = Pending(l)
         /\ RunInOrder'
<1>1. queue \in Lines /\ batch \in Lines
  BY DEF TypeOK, Lines
<1>2. batch' \in Lines /\ queue' \in Lines
  BY <1>1, LineType DEF Lines
<1>3. \A l \in Loops : Waiting(l)' = Waiting(l)
  <2> TAKE l \in Loops
  <2>1. CASE l = h
    <3>1. batch'[l] = queue[h] /\ queue'[l] = <<>>
      BY <1>1, <2>1 DEF Lines
    <3>2. queue[h] \in Seq(Functor)
      BY LineType
    <3>3. QED
      BY <2>1, <3>1, <3>2, ConcatEmpty DEF Waiting
  <2>2. CASE l # h
    BY <1>1, <2>2 DEF Lines, Waiting
  <2>3. QED
    BY <2>1, <2>2
<1>4. RunInOrder'
  <2>1. \A l \in Loops : InOrder(Waiting(l)', overwritten')
    BY <1>3 DEF RunInOrder
  <2>2. QED
    BY <2>1, OrderNext
<1>5. QED
  BY <1>2, <1>3, <1>4 DEF Pending

\* removeConnectionInLoop: the main loop takes one functor out and puts another
\* behind what waits in loop h, its own or not.
LEMMA LineRemove ==
  ASSUME TypeOK, RunInOrder, NEW h \in Loops, NEW g \in Functor,
         Single(g, overwritten) => g \notin Pending(h), g.op = "destroyed",
         batch[MainLoop] # <<>>, overwritten' = overwritten,
         Takes(MainLoop),
         Queues(h, g)
  PROVE  /\ batch' \in Lines /\ queue' \in Lines
         /\ Head(batch[MainLoop]) \in Pending(MainLoop)
         /\ Moved(MainLoop, Head(batch[MainLoop]), h, g)
         /\ g \in Pending(h)'
         /\ RunInOrder'
<1> DEFINE m == MainLoop
           f == Head(batch[m])
<1>0. m \in Loops
  BY DEF Loops
<1>1. queue \in Lines /\ batch \in Lines
  BY DEF TypeOK, Lines
<1>2. /\ batch'[m] = Tail(batch[m]) /\ \A l \in Loops : l # m => batch'[l] = batch[l]
      /\ queue'[h] = Append(queue[h], g) /\ \A l \in Loops : l # h => queue'[l] = queue[l]
  BY <1>0, <1>1 DEF Lines, Takes, Queues
<1>3. batch' \in Lines /\ queue' \in Lines
  BY <1>0, <1>1, LineType, ElementsAppend DEF Lines, Takes, Queues
<1>4. /\ Waiting(m) # <<>> /\ Head(Waiting(m)) = f
      /\ Tail(batch[m]) \o queue[m] = Tail(Waiting(m))
  BY <1>0, LineType, ConcatTail DEF Waiting
<1>5. /\ Tail(Waiting(m)) \in Seq(Functor)
      /\ \A x : x # f => (x \in Elements(Tail(Waiting(m))) <=> x \in Pending(m))
      /\ Single(f, overwritten) => f \notin Elements(Tail(Waiting(m)))
      /\ f \in Pending(m)
      /\ InOrder(Tail(Waiting(m)), overwritten)
  BY <1>0, <1>4, LineType, TailOfLine DEF RunInOrder, Pending
<1> DEFINE rest(l) == IF l = m THEN Tail(Waiting(m)) ELSE Waiting(l)
<1>6. \A l \in Loops : /\ rest(l) \in Seq(Functor)
                      /\ InOrder(rest(l), overwritten)
                      /\ \A x : ~(l = m /\ x = f) => (x \in Elements(rest(l)) <=> x \in Pending(l))
  BY <1>5, LineType DEF RunInOrder, Pending
<1>6a. Single(f, overwritten) => f \notin Elements(rest(m))
  BY <1>5
<1>7. \A l \in Loops : l # h => Waiting(l)' = rest(l)
  <2> TAKE l \in Loops
  <2> HAVE l # h
  <2>1. CASE l = m
    BY <1>2, <1>4, <2>1 DEF Waiting
  <2>2. CASE l # m
    <3>1. batch'[l] = batch[l] /\ queue'[l] = queue[l]
      BY <1>2, <2>2
    <3>2. Waiting(l)' = Waiting(l)
      BY <3>1 DEF Waiting
    <3>3. QED
      BY <2>2, <3>2
  <2>3. QED
    BY <2>1, <2>2
<1>8. Waiting(h)' = Append(rest(h), g)
  <2>1. CASE h = m
    <3>1. Waiting(h)' = Tail(batch[m]) \o Append(queue[m], g)
      BY <1>2, <2>1 DEF Waiting
    <3>2. Tail(batch[m]) \in Seq(Functor) /\ queue[m] \in Seq(Functor)
      BY <1>0, LineType
    <3>3. Tail(batch[m]) \o Append(queue[m], g) = Append(Tail(batch[m]) \o queue[m], g)
      BY <3>2, ConcatAppend
    <3>4. QED
      BY <1>4, <2>1, <3>1, <3>3
  <2>2. CASE h # m
    <3>1. Waiting(h)' = batch[h] \o Append(queue[h], g)
      BY <1>2, <2>2 DEF Waiting
    <3>2. batch[h] \in Seq(Functor) /\ queue[h] \in Seq(Functor)
      BY LineType
    <3>3. QED
      BY <2>2, <3>1, <3>2, ConcatAppend DEF Waiting
  <2>3. QED
    BY <2>1, <2>2
<1> HIDE DEF rest, f
<1>9. g.op # "established" /\ (Single(g, overwritten) => g \notin Elements(rest(h)))
  <2>1. CASE h = m /\ g = f
    BY <1>6a, <2>1
  <2>2. CASE ~(h = m /\ g = f)
    BY <1>6, <2>2
  <2>3. QED
    BY <2>1, <2>2
<1>10. /\ Elements(Append(rest(h), g)) = Elements(rest(h)) \cup {g}
       /\ InOrder(Append(rest(h), g), overwritten)
  <2>1. Elements(Append(rest(h), g)) = Elements(rest(h)) \cup {g}
    BY <1>6, ElementsAppend
  <2>2. InOrder(Append(rest(h), g), overwritten)
    BY <1>6, <1>9, InOrderAppend
  <2>3. QED
    BY <2>1, <2>2
<1>11. RunInOrder'
  <2>1. \A l \in Loops : InOrder(Waiting(l)', overwritten')
    BY <1>6, <1>7, <1>8, <1>10
  <2>2. QED
    BY <2>1, OrderNext
<1>12. \A l \in Loops : Pending(l)' = Elements(rest(l)) \cup (IF l = h THEN {g} ELSE {})
  <2> TAKE l \in Loops
  <2>1. CASE l = h
    BY <1>8, <1>10, <2>1 DEF Pending
  <2>2. CASE l # h
    BY <1>7, <2>2 DEF Pending
  <2>3. QED
    BY <2>1, <2>2
<1>13. Moved(m, f, h, g)
  <2>1. ASSUME NEW l \in Loops, NEW x \in Functor, ~(l = m /\ x = f)
        PROVE  x \in Pending(l)' <=> x \in Pending(l) \/ (l = h /\ x = g)
    BY <1>6, <1>12, <2>1
  <2>2. ASSUME Single(f, overwritten), ~(m = h /\ f = g) PROVE f \notin Pending(m)'
    BY <1>0, <1>6a, <1>12, <2>2
  <2>3. QED
    BY <2>1, <2>2 DEF Moved
<1>14. QED
  BY <1>3, <1>5, <1>11, <1>12, <1>13 DEF f

(***************************************************************************)
(* The life of one connection, and the steps that do not concern it.       *)
(***************************************************************************)

Place(c) ==
  /\ owner[c] # None <=> c \in connections \/ Ending(c) \/ c \in destroyed
  /\ ~(c \in connections /\ Ending(c))
  /\ ~(c \in connections /\ c \in destroyed)
  /\ Ending(c) /\ c \in destroyed => c \in overwritten

Announced(c) ==
  /\ ups[c] <= 1
  /\ downs[c] > 0 => ups[c] = 1
  /\ c \notin overwritten => downs[c] <= 1
  /\ c \in destroyed => ups[c] = 1 /\ (downs[c] > 0 \/ state[c] = "kDisconnecting")

Life(c) ==
  Place(c) /\ Announced(c) /\ Unseen(c) /\ Established(c) /\ Closed(c) /\ Ended(c)

IInv == Inv /\ EpollAgrees /\ AnnouncedUpThenDown

LEMMA LifeOf ==
  (InOnePlace /\ AnnouncedUpThenDown /\ LivesAreInStep) <=> \A c \in Conns : Life(c)
  BY DEF InOnePlace, AnnouncedUpThenDown, LivesAreInStep, Life, Place, Announced

\* Every connection's life goes on: what the invariant says of them all.
LEMMA AllLives ==
  ASSUME \A d \in Conns : Life(d)'
  PROVE  InOnePlace' /\ AnnouncedUpThenDown' /\ LivesAreInStep'
  BY DEF InOnePlace, AnnouncedUpThenDown, LivesAreInStep, Life, Place, Announced

\* The invariant in its parts.
LEMMA Parts ==
  ASSUME IInv
  PROVE  /\ TypeOK /\ Confined /\ RunInOrder /\ OwnDescriptors /\ ServerInStep
         /\ NobodyUsesGone /\ EpollAgrees
         /\ \A c \in Conns : Life(c)
  BY LifeOf DEF IInv, Inv

LEMMA OwnerIs ==
  ASSUME TypeOK, NEW c \in Conns
  PROVE  /\ owner[c] \in Loops \/ owner[c] = None
         /\ MainLoop \in Loops /\ None \notin Loops
         /\ ups[c] \in Nat /\ downs[c] \in Nat /\ sending[c] \in Nat /\ stopping[c] \in Nat
  BY ServerAssumption DEF TypeOK, Loops

\* The functors of d stay where they are.
SameFunctors(d) ==
  \A op \in Ops, l \in Loops : F(op, d) \in Pending(l)' <=> F(op, d) \in Pending(l)

\* Nothing of d changes, but that its client may close it, and that a loop may
\* let go of it.
Untouched(d) ==
  /\ owner'[d] = owner[d] /\ ups'[d] = ups[d] /\ downs'[d] = downs[d]
  /\ state'[d] = state[d] /\ channel'[d] = channel[d]
  /\ d \in connections' <=> d \in connections
  /\ d \in destroyed' <=> d \in destroyed
  /\ d \in overwritten' <=> d \in overwritten
  /\ d \in late' <=> d \in late
  /\ sending'[d] = sending[d] /\ stopping'[d] = stopping[d]
  /\ \A l \in Loops : d \in ran'[l] => d \in ran[l]
  /\ d \in peerGone' => d \in peerGone \/ owner[d] # None
  /\ phase[MainLoop] = "ended" => phase'[MainLoop] = "ended"
  /\ SameFunctors(d)

LEMMA CalledKept ==
  ASSUME NEW d \in Conns, sending'[d] = sending[d], stopping'[d] = stopping[d], SameFunctors(d)
  PROVE  Called(d)' <=> Called(d)
<1>1. InCall(d)' <=> InCall(d)
  BY DEF InCall
<1>2. \A op \in CallOps, l \in Loops : F(op, d) \in Pending(l)' <=> F(op, d) \in Pending(l)
  BY DEF SameFunctors, Ops
<1>3. QED
  BY <1>1, <1>2 DEF Called

LEMMA LifeGoesOn ==
  ASSUME TypeOK, NEW d \in Conns, Life(d), Untouched(d)
  PROVE  Life(d)'
<1>1. MainLoop \in Loops /\ (owner[d] \in Loops \/ owner[d] = None)
  BY OwnerIs
<1>2. Ending(d)' <=> Ending(d)
  BY <1>1 DEF Ending, Untouched, SameFunctors, Ops, LifeOps
<1>3. F("remove", d) \in Pending(MainLoop)' <=> F("remove", d) \in Pending(MainLoop)
  BY <1>1 DEF Untouched, SameFunctors, Ops, LifeOps
<1>4. owner[d] # None =>
        (F("established", d) \in Pending(owner[d])' <=> F("established", d) \in Pending(owner[d]))
  BY <1>1 DEF Untouched, SameFunctors, Ops, LifeOps
<1>5. Place(d)'
  BY <1>2 DEF Life, Place, Untouched
<1>6. Announced(d)' /\ Unseen(d)'
  BY DEF Life, Announced, Unseen, Untouched, InCall
<1>7. Established(d)'
  BY <1>4 DEF Life, Established, Untouched
<1>8. Closed(d)'
  <2>1. Called(d)' <=> Called(d)
    BY CalledKept DEF Untouched
  <2>2. QED
    BY <2>1 DEF Life, Closed, Up, Untouched
<1>9. Ended(d)'
  BY <1>2, <1>3 DEF Life, Ended, Untouched
<1>10. QED
  BY <1>5, <1>6, <1>7, <1>8, <1>9 DEF Life

\* A step that does not concern a connection does not make anybody hold it.
LEMMA HeldKept ==
  ASSUME TypeOK', NEW d \in Conns, Untouched(d)
  PROVE  Held(d)' => Held(d)
<1>1. \A l \in Loops : Pending(l)' \subseteq Functor
  BY LineTypeNext DEF TypeOK, Lines
<1>2. ASSUME NEW l \in Holding(d)' PROVE l \in Holding(d)
  <2>1. l \in Loops /\ (d \in ran'[l] \/ \E f \in Pending(l)' : f.conn = d)
    BY DEF Holding
  <2>2. CASE d \in ran'[l]
    BY <2>1, <2>2 DEF Untouched, Holding
  <2>3. CASE \E f \in Pending(l)' : f.conn = d
    <3>1. PICK f \in Pending(l)' : f.conn = d
      BY <2>3
    <3>2. f.op \in Ops /\ f = F(f.op, d)
      BY <1>1, <2>1, <3>1, FunctorOf
    <3>3. f \in Pending(l)
      BY <2>1, <3>1, <3>2 DEF Untouched, SameFunctors
    <3>4. QED
      BY <2>1, <3>1, <3>3 DEF Holding
  <2>4. QED
    BY <2>1, <2>2, <2>3
<1>3. d \in connections' => d \in connections
  BY DEF Untouched
<1>4. InCall(d)' => InCall(d)
  BY DEF Untouched, InCall
<1>5. QED
  BY <1>2, <1>3, <1>4 DEF Held

\* What a functor or a call under way says of the connection it is for.
LEMMA HeldBy ==
  ASSUME NEW c \in Conns,
         \/ c \in connections
         \/ \E op \in Ops, l \in Loops : F(op, c) \in Pending(l)
         \/ InCall(c)
  PROVE  Held(c)
<1>1. ASSUME NEW op \in Ops, NEW l \in Loops, F(op, c) \in Pending(l) PROVE Held(c)
  <2>1. F(op, c).conn = c
    BY FunctorIs
  <2>2. l \in Holding(c)
    BY <1>1, <2>1 DEF Holding
  <2>3. QED
    BY <2>2 DEF Held
<1>2. QED
  BY <1>1 DEF Held

LEMMA DescriptorsStay ==
  ASSUME OwnDescriptors, TypeOK',
         \A d \in Conns : Untouched(d) \/ (Held(d) /\ channel'[d].fd = channel[d].fd)
  PROVE  OwnDescriptors'
<1>1. ASSUME NEW d \in Conns
      PROVE  (Held(d)' => Held(d)) /\ channel'[d].fd = channel[d].fd
  <2>1. CASE Untouched(d)
    BY <2>1, HeldKept DEF Untouched
  <2>2. CASE Held(d) /\ channel'[d].fd = channel[d].fd
    BY <2>2
  <2>3. QED
    BY <2>1, <2>2
<1>2. QED
  BY <1>1 DEF OwnDescriptors

\* What a step that concerns some connections has to show.
LEMMA StepInv ==
  ASSUME IInv, TypeOK', RunInOrder', Confined', OwnDescriptors', EpollAgrees',
         ServerInStep', NobodyUsesGone',
         \A d \in Conns : Untouched(d) \/ Life(d)'
  PROVE  IInv'
<1>1. ASSUME NEW d \in Conns PROVE Life(d)'
  <2>1. TypeOK /\ Life(d)
    BY Parts
  <2>2. QED
    BY <2>1, LifeGoesOn
<1>2. QED
  BY <1>1, AllLives DEF IInv, Inv

(***************************************************************************)
(* Steps that leave functors, channels and epoll alone.                    *)
(***************************************************************************)

lines == <<batch, queue, overwritten>>

LEMMA LinesKept ==
  ASSUME UNCHANGED lines, RunInOrder
  PROVE  (\A l \in Loops : Pending(l)' = Pending(l)) /\ RunInOrder'
<1>1. \A l \in Loops : Waiting(l)' = Waiting(l)
  BY DEF lines, Waiting
<1>2. \A l \in Loops : Pending(l)' = Pending(l)
  BY <1>1 DEF Pending
<1>3. RunInOrder'
  <2>1. \A l \in Loops : InOrder(Waiting(l)', overwritten')
    BY <1>1 DEF RunInOrder, lines
  <2>2. QED
    BY <2>1, OrderNext
<1>4. QED
  BY <1>2, <1>3

LEMMA ConfinedKept ==
  ASSUME Confined, UNCHANGED owner, \A l \in Loops : Pending(l)' = Pending(l)
  PROVE  Confined'
  BY DEF Confined

LEMMA EpollKept ==
  ASSUME UNCHANGED <<owner, channel, epoller, late>>
  PROVE  (EpollAgrees => EpollAgrees')
  BY DEF EpollAgrees

LEMMA QuietStep ==
  ASSUME IInv, TypeOK', ServerInStep', NobodyUsesGone',
         RunInOrder', \A l \in Loops : Pending(l)' = Pending(l),
         UNCHANGED <<owner, connections, connVars, ups, downs, destroyed,
                     sending, stopping, overwritten, late>>,
         \A l \in Loops : ran'[l] \subseteq ran[l],
         \A d \in peerGone' : d \in peerGone \/ owner[d] # None,
         phase[MainLoop] = "ended" => phase'[MainLoop] = "ended"
  PROVE  IInv'
<1>1. ASSUME NEW d \in Conns PROVE Untouched(d)
  <2>1. SameFunctors(d)
    BY DEF SameFunctors
  <2>2. QED
    BY <2>1 DEF Untouched, connVars
<1>2. OwnDescriptors'
  BY <1>1, Parts, DescriptorsStay
<1>3. Confined' /\ EpollAgrees'
  BY Parts, ConfinedKept, EpollKept DEF connVars
<1>4. QED
  BY <1>1, <1>2, <1>3, StepInv

\* The rest of the server while some loop still runs.
LEMMA ServerKept ==
  ASSUME ServerInStep, NobodyUsesGone, UNCHANGED <<pool, phase, server>>,
         connections' \subseteq connections \/ server = "running",
         \A l \in Loops : phase[l] = "events" => batch'[l] = batch[l],
         channel'[Acceptor] = channel[Acceptor],
         \A k \in Loops : Acceptor \in epoller[k].kernel => Acceptor \in epoller'[k].kernel,
         server # "gone"
  PROVE  ServerInStep' /\ NobodyUsesGone'
<1>1. MainLoop \in Loops
  BY DEF Loops
<1>2. QED
  BY <1>1 DEF ServerInStep, NobodyUsesGone

\* A call that goes on when the server may be gone.
LEMMA ServerStays ==
  ASSUME ServerInStep, NobodyUsesGone,
         UNCHANGED <<pool, phase, server, connections, batch, channel, epoller>>,
         overwritten \subseteq overwritten'
  PROVE  ServerInStep' /\ NobodyUsesGone'
  BY DEF ServerInStep, NobodyUsesGone

LEMMA EndRoundInv ==
  ASSUME IInv, NEW h \in Loops, EndRound(h) PROVE IInv'
<1> USE DEF EndRound, connVars, heard, calls
<1>1. TypeOK /\ RunInOrder /\ ServerInStep /\ NobodyUsesGone
  BY Parts
<1>2. phase \in [Loops -> {"events", "functors", "ended"}] /\ phase[h] = "functors"
      /\ batch[h] = <<>>
  BY <1>1 DEF TypeOK
<1>3. /\ phase' \in [Loops -> {"events", "functors", "ended"}]
      /\ phase'[h] \in {"events", "ended"}
      /\ \A l \in Loops : l # h => phase'[l] = phase[l]
  BY <1>2
<1>4. ran' \in [Loops -> SUBSET Conns] /\ \A l \in Loops : ran'[l] \subseteq ran[l]
  BY <1>1 DEF TypeOK
<1>5. TypeOK'
  BY <1>1, <1>3, <1>4 DEF TypeOK
<1>6. MainLoop \in Loops /\ IoLoops \subseteq Loops
  BY DEF Loops
<1>7. ServerInStep'
  BY <1>1, <1>2, <1>3, <1>6 DEF ServerInStep
<1>8. NobodyUsesGone'
  BY <1>1, <1>2 DEF NobodyUsesGone
<1>9. phase[MainLoop] = "ended" => phase'[MainLoop] = "ended"
  BY <1>2, <1>3, <1>6
<1>10. RunInOrder' /\ \A l \in Loops : Pending(l)' = Pending(l)
  BY <1>1, LinesKept DEF lines
<1>11. QED
  BY <1>4, <1>5, <1>7, <1>8, <1>9, <1>10, QuietStep

LEMMA PeerClosesInv ==
  ASSUME IInv, NEW c \in Conns, PeerCloses(c) PROVE IInv'
<1> USE DEF PeerCloses, loopVars, connVars, heard, calls
<1>1. TypeOK /\ RunInOrder /\ ServerInStep /\ NobodyUsesGone
  BY Parts
<1>2. TypeOK'
  BY <1>1 DEF TypeOK
<1>3. ServerInStep' /\ NobodyUsesGone'
  BY <1>1, ServerStays
<1>4. RunInOrder' /\ \A l \in Loops : Pending(l)' = Pending(l)
  BY <1>1, LinesKept DEF lines
<1>5. QED
  BY <1>2, <1>3, <1>4, QuietStep

\* The steps of user code and of ~TcpServer that only set a flag.
LEMMA FlagInv ==
  ASSUME IInv,
         \/ QuitMain \/ BeginDtor \/ DtorReachesPool
         \/ \E l \in pool : DtorQuits(l)
  PROVE  IInv'
<1> USE DEF loopVars, connVars, heard, calls
<1>0. TypeOK /\ RunInOrder /\ ServerInStep /\ NobodyUsesGone
  BY Parts
<1>1. UNCHANGED <<batch, queue, ran, owner, connections, connVars, ups, downs, destroyed,
                  phase, peerGone, sending, stopping, called, overwritten, late>>
  BY DEF QuitMain, BeginDtor, DtorReachesPool, DtorQuits
<1>2. MainLoop \in Loops /\ pool \subseteq Loops
  BY <1>0 DEF Loops, TypeOK
<1>3. TypeOK'
  <2>1. quit' \in [Loops -> BOOLEAN]
    BY <1>0, <1>2 DEF TypeOK, QuitMain, BeginDtor, DtorReachesPool, DtorQuits, QuitBeforeJoin
  <2>2. server' \in {"running", "dtor", "joining", "gone"}
    BY <1>0 DEF TypeOK, QuitMain, BeginDtor, DtorReachesPool, DtorQuits
  <2>3. UNCHANGED <<pool, limit>>
    BY DEF QuitMain, BeginDtor, DtorReachesPool, DtorQuits
  <2>4. QED
    BY <1>0, <1>1, <2>1, <2>2, <2>3 DEF TypeOK
<1>4. UNCHANGED pool /\ (server' = server \/ BeginDtor \/ DtorReachesPool)
  BY DEF QuitMain, BeginDtor, DtorReachesPool, DtorQuits
<1>5. ServerInStep'
  BY <1>0, <1>1, <1>4 DEF ServerInStep, BeginDtor, DtorReachesPool
<1>6. NobodyUsesGone'
  BY <1>0, <1>1, <1>4 DEF NobodyUsesGone, BeginDtor, DtorReachesPool
<1>7. RunInOrder' /\ \A l \in Loops : Pending(l)' = Pending(l)
  BY <1>0, <1>1, LinesKept DEF lines
<1>8. QED
  BY <1>1, <1>3, <1>5, <1>6, <1>7, QuietStep

\* The swap of a loop moves its functors, not their order.
LEMMA BeginFunctorsInv ==
  ASSUME IInv, NEW h \in Loops, BeginFunctors(h) PROVE IInv'
<1> USE DEF BeginFunctors, connVars, heard, calls
<1>0. TypeOK /\ RunInOrder /\ ServerInStep /\ NobodyUsesGone
  BY Parts
<1>1. batch[h] = <<>>
  BY <1>0 DEF ServerInStep
<1>2. /\ batch' \in Lines /\ queue' \in Lines
      /\ \A l \in Loops : Pending(l)' = Pending(l)
      /\ RunInOrder'
  BY <1>0, <1>1, LineSwap
<1>3. phase' \in [Loops -> {"events", "functors", "ended"}]
      /\ phase'[h] = "functors" /\ phase[h] = "events"
      /\ \A l \in Loops : l # h => phase'[l] = phase[l]
  BY <1>0 DEF TypeOK
<1>4. /\ MainLoop \in Loops /\ IoLoops \subseteq Loops
      /\ \A l \in Loops : l # h => batch'[l] = batch[l]
  BY <1>0 DEF Loops, TypeOK
<1>5. TypeOK'
  BY <1>0, <1>2, <1>3 DEF TypeOK, Lines
<1>6. ServerInStep'
  BY <1>0, <1>3, <1>4 DEF ServerInStep
<1>7. NobodyUsesGone'
  BY <1>0, <1>3 DEF NobodyUsesGone
<1>8. phase[MainLoop] = "ended" => phase'[MainLoop] = "ended"
  BY <1>3, <1>4
<1>9. QED
  BY <1>2, <1>5, <1>6, <1>7, <1>8, QuietStep

(***************************************************************************)
(* A change of one channel and of its loop's epoller.                      *)
(***************************************************************************)

\* channels_ and the interest list know d as they did before, but that the entry
\* of one put back after connectDestroyed may be lost.
SameFor(d, ep, old) ==
  /\ d \in ep.kernel <=> d \in old.kernel
  /\ \A f \in Fds : ep.channels[f] = d => old.channels[f] = d
  /\ d \notin late => \A f \in Fds : ep.channels[f] = d <=> old.channels[f] = d

\* They know c as its channel ch says.
Knows(ep, c, ch) ==
  /\ c \in ep.kernel <=> ch.index = "kAdded"
  /\ c \in ep.kernel => ch.events # {}
  /\ \A f \in Fds : ep.channels[f] = c => ch.fd = f
  /\ c \notin late' => \A f \in Fds : ep.channels[f] = c <=> ch.fd = f /\ ch.index # "kNew"

\* c and its loop's epoller get new values.
Becomes(l, c, ep, ch) ==
  /\ epoller' = [epoller EXCEPT ![l] = ep]
  /\ channel' = [channel EXCEPT ![c] = ch]

\* Only c is put back.
LateBut(c) ==
  /\ late \subseteq late'
  /\ \A d \in Conns \ {c} : d \in late' => d \in late

\* Channels and epollers keep their types, those of c's changing alone.
ChannelStep(c) ==
  /\ channel' \in [Channels -> ChannelType \cup {None}]
  /\ epoller' \in [Loops -> EpollerType]
  /\ channel'[Acceptor] = channel[Acceptor]
  /\ \A d \in Conns \ {c} : channel'[d] = channel[d]
  /\ \A k \in Loops : Acceptor \in epoller[k].kernel => Acceptor \in epoller'[k].kernel

LEMMA EpollStep ==
  ASSUME TypeOK, EpollAgrees,
         NEW l \in Loops, NEW c \in Conns, NEW ep \in EpollerType, NEW ch \in ChannelType,
         Becomes(l, c, ep, ch), LateBut(c),
         owner[c] = l \/ owner[c] = None,
         owner'[c] = l, \A d \in Conns \ {c} : owner'[d] = owner[d],
         ep.errors = {}, Knows(ep, c, ch),
         Acceptor \in epoller[l].kernel => Acceptor \in ep.kernel,
         \A d \in Conns \ {c} : SameFor(d, ep, epoller[l])
  PROVE  EpollAgrees' /\ ChannelStep(c) /\ channel'[c] = ch
<1>1. /\ channel \in [Channels -> ChannelType \cup {None}]
      /\ epoller \in [Loops -> EpollerType]
      /\ c \in Channels /\ Conns \subseteq Channels /\ Acceptor \in Channels /\ Acceptor # c
  BY ServerAssumption DEF TypeOK, Channels
<1>2. /\ channel' \in [Channels -> ChannelType \cup {None}]
      /\ epoller' \in [Loops -> EpollerType]
      /\ channel'[c] = ch /\ channel'[Acceptor] = channel[Acceptor]
      /\ \A d \in Conns \ {c} : channel'[d] = channel[d]
      /\ epoller'[l] = ep /\ \A k \in Loops \ {l} : epoller'[k] = epoller[k]
  BY <1>1 DEF Becomes
<1>3. None \notin Loops
  BY ServerAssumption DEF Loops
<1>4. ASSUME NEW k \in Loops
      PROVE  /\ epoller'[k].errors = {}
             /\ \A d \in Conns :
                  /\ d \in epoller'[k].kernel <=> owner'[d] = k /\ channel'[d].index = "kAdded"
                  /\ d \in epoller'[k].kernel => channel'[d].events # {}
                  /\ \A f \in Fds :
                       /\ epoller'[k].channels[f] = d => owner'[d] = k /\ channel'[d].fd = f
                       /\ d \notin late' =>
                            (epoller'[k].channels[f] = d <=>
                               owner'[d] = k /\ channel'[d].fd = f /\ channel'[d].index # "kNew")
  <2>1. CASE k = l
    <3>1. epoller'[k].errors = {}
      BY <1>2, <2>1
    <3>2. ASSUME NEW d \in Conns
          PROVE  /\ d \in epoller'[k].kernel <=> owner'[d] = k /\ channel'[d].index = "kAdded"
                 /\ d \in epoller'[k].kernel => channel'[d].events # {}
                 /\ \A f \in Fds :
                      /\ epoller'[k].channels[f] = d => owner'[d] = k /\ channel'[d].fd = f
                      /\ d \notin late' =>
                           (epoller'[k].channels[f] = d <=>
                              owner'[d] = k /\ channel'[d].fd = f /\ channel'[d].index # "kNew")
      <4>1. CASE d = c
        BY <1>2, <2>1, <4>1 DEF Knows
      <4>2. CASE d # c
        <5>1. /\ SameFor(d, ep, epoller[l]) /\ owner'[d] = owner[d] /\ channel'[d] = channel[d]
              /\ d \in late' <=> d \in late
          BY <1>2, <4>2 DEF LateBut
        <5>2. QED
          BY <1>2, <2>1, <5>1 DEF SameFor, EpollAgrees
      <4>3. QED
        BY <4>1, <4>2
    <3>3. QED
      BY <3>1, <3>2
  <2>2. CASE k # l
    <3>1. epoller'[k] = epoller[k]
      BY <1>2, <2>2
    <3>2. owner'[c] # k /\ owner[c] # k
      BY <1>3, <2>2
    <3>3. \A d \in Conns \ {c} :
            owner'[d] = owner[d] /\ channel'[d] = channel[d] /\ (d \in late' <=> d \in late)
      BY <1>2 DEF LateBut
    <3>4. \A f \in Fds : epoller[k].channels[f] # c
      BY <3>2 DEF EpollAgrees
    <3>5. QED
      BY <3>1, <3>2, <3>3, <3>4 DEF EpollAgrees
  <2>3. QED
    BY <2>1, <2>2
<1>5. EpollAgrees'
  BY <1>4 DEF EpollAgrees
<1>6. \A k \in Loops : Acceptor \in epoller[k].kernel => Acceptor \in epoller'[k].kernel
  BY <1>2
<1>7. QED
  BY <1>2, <1>5, <1>6 DEF ChannelStep

\* The channels channels_ still needs do not have c's descriptor.
OthersApart(l, c, fd) ==
  \A d \in Conns \ {c} :
    owner[d] = l /\ channel[d].index # "kNew" /\ d \notin late => channel[d].fd # fd

\* Channel::update: ch is c's channel with its new events_.
LEMMA UpdateInEpoll ==
  ASSUME TypeOK, EpollAgrees,
         NEW l \in Loops, NEW c \in Conns, NEW ch \in ChannelType,
         \/ owner[c] = None /\ ch.index = "kNew"
         \/ owner[c] = l /\ channel[c].index = ch.index /\ channel[c].fd = ch.fd,
         owner'[c] = l, \A d \in Conns \ {c} : owner'[d] = owner[d],
         ch.index = "kAdded" \/ ch.events # {},
         ch.index = "kNew" => OthersApart(l, c, ch.fd),
         LateBut(c),
         Becomes(l, c, Updated(epoller[l], c, ch), UpdatedChannel(ch))
  PROVE  EpollAgrees' /\ ChannelStep(c) /\ channel'[c] = UpdatedChannel(ch)
<1> DEFINE ep == Updated(epoller[l], c, ch)
           new == UpdatedChannel(ch)
<1>1. /\ c \in Channels /\ epoller[l] \in EpollerType /\ Acceptor \in Channels /\ Acceptor # c
      /\ owner[c] = l \/ owner[c] = None
      /\ None \notin Loops
  BY ServerAssumption DEF TypeOK, Channels, Loops
<1>2. /\ epoller[l].errors = {}
      /\ ch.index = "kAdded" <=> c \in epoller[l].kernel
      /\ \A f \in Fds : epoller[l].channels[f] = c => owner[c] = l /\ ch.fd = f
      /\ c \notin late => \A f \in Fds :
           epoller[l].channels[f] = c <=> ch.fd = f /\ ch.index # "kNew"
  BY <1>1 DEF EpollAgrees
<1>3. /\ new \in ChannelType /\ new.fd = ch.fd /\ new.events = ch.events
      /\ new.index = IndexAfterUpdate(ch) /\ new.index \in {"kAdded", "kDeleted"}
      /\ new.index = "kAdded" => new.events # {}
  BY UpdatedChannelType DEF IndexAfterUpdate
<1>4. /\ ep \in EpollerType
      /\ ep.errors = {}
      /\ c \in ep.kernel <=> new.index = "kAdded"
      /\ \A d \in Channels \ {c} : d \in ep.kernel <=> d \in epoller[l].kernel
      /\ ch.index = "kNew" => ep.channels = [epoller[l].channels EXCEPT ![ch.fd] = c]
      /\ ch.index # "kNew" => ep.channels = epoller[l].channels
  BY <1>1, <1>2, <1>3, UpdatedEpoller
<1> HIDE DEF ep, new
<1>5. /\ ch.fd \in Fds /\ epoller[l].channels \in [Fds -> Channels \cup {NoChannel}]
  BY <1>1 DEF ChannelType, EpollerType
<1>6. /\ ch.index = "kNew" =>
           /\ ep.channels[ch.fd] = c
           /\ \A f \in Fds : f # ch.fd => ep.channels[f] = epoller[l].channels[f]
  BY <1>4, <1>5
<1>7. Knows(ep, c, new)
  <2>1. \A f \in Fds : ep.channels[f] = c => new.fd = f
    BY <1>2, <1>3, <1>4, <1>6
  <2>2. c \notin late' => \A f \in Fds : ep.channels[f] = c <=> new.fd = f /\ new.index # "kNew"
    <3>1. c \notin late' => c \notin late
      BY DEF LateBut
    <3>2. CASE ch.index = "kNew"
      BY <1>2, <1>3, <1>6, <3>2
    <3>3. CASE ch.index # "kNew"
      BY <1>2, <1>3, <1>4, <3>1, <3>3
    <3>4. QED
      BY <3>2, <3>3
  <2>3. QED
    BY <1>3, <1>4, <2>1, <2>2 DEF Knows
<1>8. ASSUME NEW d \in Conns \ {c} PROVE SameFor(d, ep, epoller[l])
  <2>1. d \in ep.kernel <=> d \in epoller[l].kernel
    BY <1>4 DEF Channels
  <2>2. \A f \in Fds : ep.channels[f] = d => epoller[l].channels[f] = d
    BY <1>4, <1>6
  <2>3. ch.index = "kNew" /\ d \notin late => epoller[l].channels[ch.fd] # d
    BY <1>5 DEF EpollAgrees, OthersApart
  <2>4. d \notin late => \A f \in Fds : epoller[l].channels[f] = d => ep.channels[f] = d
    BY <1>4, <1>6, <2>3
  <2>5. QED
    BY <2>1, <2>2, <2>4 DEF SameFor
<1>9. Becomes(l, c, ep, new)
  BY DEF ep, new
<1>10. Acceptor \in epoller[l].kernel => Acceptor \in ep.kernel
  BY <1>1, <1>4
<1>11. EpollAgrees' /\ ChannelStep(c) /\ channel'[c] = new
  BY <1>1, <1>3, <1>4, <1>7, <1>8, <1>9, <1>10, EpollStep
<1>12. QED
  BY <1>11 DEF new

\* connectEstablished adds the channel.
LEMMA EstablishedInEpoll ==
  ASSUME TypeOK, EpollAgrees,
         NEW l \in Loops, NEW c \in Conns, NEW ch \in ChannelType, ch.index = "kNew",
         owner[c] = None \/ (owner[c] = l /\ channel[c] = ch),
         owner'[c] = l, \A d \in Conns \ {c} : owner'[d] = owner[d],
         OthersApart(l, c, ch.fd), LateBut(c),
         ConnectEstablished(c, ch, l)
  PROVE  /\ EpollAgrees' /\ ChannelStep(c)
         /\ channel'[c] \in ChannelType /\ channel'[c].fd = ch.fd
         /\ channel'[c].index = "kAdded" /\ channel'[c].events = {"read"}
<1> DEFINE reading == WithEvents(ch, {"read"})
<1>1. /\ reading \in ChannelType /\ reading.fd = ch.fd
      /\ reading.index = "kNew" /\ reading.events = {"read"}
  BY WithEventsType DEF Events
<1>2. Becomes(l, c, Updated(epoller[l], c, reading), UpdatedChannel(reading))
  BY DEF ConnectEstablished, Becomes
<1> HIDE DEF reading
<1>3. EpollAgrees' /\ ChannelStep(c) /\ channel'[c] = UpdatedChannel(reading)
  BY <1>1, <1>2, UpdateInEpoll
<1>4. QED
  BY <1>1, <1>3, UpdatedChannelType DEF IndexAfterUpdate

\* enableWriting, disableWriting and disableAll in the loop that owns the channel.
LEMMA ChangedInEpoll ==
  ASSUME TypeOK, EpollAgrees, UNCHANGED owner,
         NEW c \in Conns, owner[c] \in Loops, NEW events \in SUBSET Events,
         channel[c] \in ChannelType,
         channel[c].index = "kAdded" \/ events # {},
         channel[c].index = "kNew" => OthersApart(owner[c], c, channel[c].fd),
         LateBut(c),
         Update(c, events)
  PROVE  /\ EpollAgrees' /\ ChannelStep(c)
         /\ channel'[c] \in ChannelType /\ channel'[c].fd = channel[c].fd
         /\ channel'[c].events = events
         /\ channel'[c].index =
              IF channel[c].index = "kAdded" /\ events = {} THEN "kDeleted" ELSE "kAdded"
<1> DEFINE ch == WithEvents(channel[c], events)
           l == owner[c]
<1>1. /\ ch \in ChannelType /\ ch.fd = channel[c].fd
      /\ ch.index = channel[c].index /\ ch.events = events
  BY WithEventsType
<1>2. Becomes(l, c, Updated(epoller[l], c, ch), UpdatedChannel(ch))
  <2>1. epoller' = [epoller EXCEPT ![l] = Updated(@, c, ch)]
    BY DEF Update
  <2>2. epoller' = [epoller EXCEPT ![l] = Updated(epoller[l], c, ch)]
    BY <2>1
  <2>3. channel' = [channel EXCEPT ![c] = UpdatedChannel(ch)]
    BY DEF Update
  <2>4. QED
    BY <2>2, <2>3 DEF Becomes
<1> HIDE DEF ch
<1>3. l \in Loops /\ owner[c] = l /\ owner'[c] = l /\ \A d \in Conns \ {c} : owner'[d] = owner[d]
  OBVIOUS
<1> HIDE DEF l
<1>4. ch.index = "kNew" => OthersApart(l, c, ch.fd)
  BY <1>1, <1>3
<1>5. EpollAgrees' /\ ChannelStep(c) /\ channel'[c] = UpdatedChannel(ch)
  BY <1>1, <1>2, <1>3, <1>4, UpdateInEpoll
<1>6. QED
  BY <1>1, <1>5, UpdatedChannelType DEF IndexAfterUpdate

\* connectDestroyed takes it out of epoll, if it is there, and of channels_.
LEMMA DestroyedInEpoll ==
  ASSUME TypeOK, EpollAgrees, UNCHANGED <<owner, late>>,
         NEW c \in Conns, owner[c] \in Loops,
         channel[c] \in ChannelType,
         state[c] = "kConnected" => channel[c].index = "kAdded",
         OthersApart(owner[c], c, channel[c].fd),
         ConnectDestroyed(c)
  PROVE  /\ EpollAgrees' /\ ChannelStep(c)
         /\ channel'[c] \in ChannelType /\ channel'[c].fd = channel[c].fd
         /\ channel'[c].index = "kNew"
<1> DEFINE l == owner[c]
           fd == channel[c].fd
           off == IF TellsDown(c) THEN Disabled(epoller[l], c, channel[c])
                  ELSE [ch |-> channel[c], ep |-> epoller[l]]
           old == off.ep
           was == off.ch
           gone == Forgotten(old, c, was)
           ep == gone.ep
           new == gone.ch
<1>1. /\ c \in Channels /\ epoller[l] \in EpollerType
      /\ epoller[l].errors = {}
      /\ channel[c].index = "kAdded" <=> c \in epoller[l].kernel
  BY DEF TypeOK, Channels, EpollAgrees
<1>2. Becomes(l, c, ep, new)
  BY DEF ConnectDestroyed, Becomes
<1>3. /\ old \in EpollerType /\ was \in ChannelType
      /\ old.kernel \ {c} = epoller[l].kernel \ {c}
      /\ old.channels = epoller[l].channels
      /\ old.errors = {}
      /\ was.fd = fd
      /\ was.index = "kAdded" <=> c \in old.kernel
  <2>1. CASE TellsDown(c)
    <3>1. channel[c].index = "kAdded" /\ c \in epoller[l].kernel
      BY <1>1, <2>1 DEF TellsDown
    <3>2. off = Disabled(epoller[l], c, channel[c])
      BY <2>1
    <3>3. QED
      BY <1>1, <3>1, <3>2, DisabledChannel
  <2>2. CASE ~TellsDown(c)
    BY <1>1, <2>2
  <2>3. QED
    BY <2>1, <2>2
<1> HIDE DEF off, old, was
<1>4. /\ ep \in EpollerType /\ new \in ChannelType
      /\ ep.kernel = epoller[l].kernel \ {c}
      /\ ep.channels = [epoller[l].channels EXCEPT ![fd] = NoChannel]
      /\ ep.errors = {}
      /\ new.index = "kNew" /\ new.fd = fd
  <2>1. /\ gone.ep \in EpollerType /\ gone.ch \in ChannelType
        /\ gone.ep.kernel = old.kernel \ {c}
        /\ gone.ep.channels = [old.channels EXCEPT ![was.fd] = NoChannel]
        /\ gone.ep.errors = old.errors
        /\ gone.ch.index = "kNew" /\ gone.ch.fd = was.fd
    BY <1>1, <1>3, ForgottenChannel
  <2>2. QED
    BY <1>3, <2>1
<1> HIDE DEF gone, ep, new
<1>5. /\ fd \in Fds /\ epoller[l].channels \in [Fds -> Channels \cup {NoChannel}]
      /\ \A f \in Fds : f # fd => epoller[l].channels[f] # c
  BY <1>1 DEF ChannelType, EpollerType, EpollAgrees
<1>6. /\ ep.channels[fd] = NoChannel
      /\ \A f \in Fds : f # fd => ep.channels[f] = epoller[l].channels[f]
  BY <1>4, <1>5
<1>7. \A d \in Conns : NoChannel # d
  BY ChannelAssumption DEF Channels
<1>8. Knows(ep, c, new)
  <2>1. \A f \in Fds : ep.channels[f] # c
    BY <1>5, <1>6, <1>7
  <2>2. QED
    BY <1>4, <2>1 DEF Knows
<1>9. ASSUME NEW d \in Conns \ {c} PROVE SameFor(d, ep, epoller[l])
  <2>1. d \in ep.kernel <=> d \in epoller[l].kernel
    BY <1>4
  <2>2. \A f \in Fds : ep.channels[f] = d => epoller[l].channels[f] = d
    BY <1>6, <1>7
  <2>3. d \notin late => epoller[l].channels[fd] # d
    BY <1>5 DEF EpollAgrees, OthersApart
  <2>4. d \notin late => \A f \in Fds : epoller[l].channels[f] = d => ep.channels[f] = d
    BY <1>6, <2>3
  <2>5. QED
    BY <2>1, <2>2, <2>4 DEF SameFor
<1>10. /\ l \in Loops /\ owner[c] = l /\ owner'[c] = l
       /\ \A d \in Conns \ {c} : owner'[d] = owner[d]
       /\ LateBut(c)
  BY DEF LateBut
<1>11. Acceptor \in epoller[l].kernel => Acceptor \in ep.kernel
  BY <1>4, ServerAssumption
<1> HIDE DEF l, fd
<1>12. EpollAgrees' /\ ChannelStep(c) /\ channel'[c] = new
  BY <1>2, <1>4, <1>8, <1>9, <1>10, <1>11, EpollStep
<1>13. QED
  BY <1>4, <1>12 DEF fd

(***************************************************************************)
(* Calls of send() and shutdown().                                         *)
(***************************************************************************)

States == {"kConnecting", "kConnected", "kDisconnecting", "kDisconnected"}

\* What running the first functor of a loop does to the lines.
LEMMA FunctorTaken ==
  ASSUME IInv, NEW h \in Loops, NEW op \in Ops, NextFunctor(h, op),
         UNCHANGED <<queue, owner, overwritten>>,
         NEW c, c = Head(batch[h]).conn
  PROVE  /\ c \in Conns /\ F(op, c) \in Pending(h) /\ phase[h] = "functors"
         /\ Waiting(h) # <<>> /\ Head(Waiting(h)) = F(op, c)
         /\ h = IF op = "remove" THEN MainLoop ELSE owner[c]
         /\ batch' \in Lines /\ ran' \in [Loops -> SUBSET Conns]
         /\ TakenOut(h, F(op, c))
         /\ \A l \in Loops : l # h => batch'[l] = batch[l]
         /\ \A d \in Conns \ {c} : SameFunctors(d) /\ \A l \in Loops : d \in ran'[l] => d \in ran[l]
         /\ \A o \in Ops \ {op}, l \in Loops : F(o, c) \in Pending(l)' <=> F(o, c) \in Pending(l)
         /\ RunInOrder' /\ Confined'
<1>0. TypeOK /\ RunInOrder /\ Confined
  BY Parts
<1>1. batch[h] # <<>> /\ Takes(h) /\ queue' = queue
  BY DEF NextFunctor, Takes
<1>2. /\ batch' \in Lines /\ queue' \in Lines
      /\ Head(batch[h]) \in Pending(h)
      /\ Head(Waiting(h)) = Head(batch[h]) /\ Waiting(h) # <<>>
      /\ TakenOut(h, Head(batch[h]))
      /\ RunInOrder'
  BY <1>0, <1>1, LineNext
<1>3. Head(batch[h]) \in Functor /\ Head(batch[h]).op = op
  BY <1>0, <1>2, LineType DEF NextFunctor
<1>4. c \in Conns /\ Head(batch[h]) = F(op, c) /\ F(op, c).op = op /\ F(op, c).conn = c
  BY <1>3, FunctorOf, FunctorIs
<1>5. h = IF op = "remove" THEN MainLoop ELSE owner[c]
  BY <1>0, <1>2, <1>4 DEF Confined
<1>6. /\ ran' \in [Loops -> SUBSET Conns]
      /\ \A d \in Conns \ {c}, l \in Loops : d \in ran'[l] => d \in ran[l]
  BY <1>0, <1>4 DEF NextFunctor, TypeOK
<1>7. TakenOut(h, F(op, c))
  BY <1>2, <1>4
<1>8. ASSUME NEW d \in Conns, NEW o \in Ops, d # c \/ o # op, NEW l \in Loops
      PROVE  F(o, d) \in Pending(l)' <=> F(o, d) \in Pending(l)
  <2>1. F(o, d) # F(op, c) /\ F(o, d) \in Functor
    BY <1>4, <1>8, FunctorIs
  <2>2. QED
    BY <1>7, <2>1 DEF TakenOut
<1>9. Confined'
  <2> SUFFICES ASSUME NEW l \in Loops, NEW f \in Pending(l)'
               PROVE  l = IF f.op = "remove" THEN MainLoop ELSE owner'[f.conn]
    BY DEF Confined
  <2>1. f \in Functor
    BY <1>2, LineTypeNext
  <2>2. f \in Pending(l)
    BY <1>2, <1>4, <1>7, <2>1 DEF TakenOut
  <2>3. QED
    BY <1>0, <2>2 DEF Confined
<1>10. \A l \in Loops : l # h => batch'[l] = batch[l]
  BY <1>0, <1>1 DEF TypeOK, Takes
<1>11. phase[h] = "functors"
  BY DEF NextFunctor
<1>12. \A d \in Conns \ {c} : SameFunctors(d)
  BY <1>8 DEF SameFunctors
<1>13. QED
  BY <1>2, <1>4, <1>5, <1>6, <1>7, <1>8, <1>9, <1>10, <1>11, <1>12

\* What queueing a functor behind the others does.
LEMMA FunctorQueued ==
  ASSUME IInv, NEW h \in Loops, NEW op \in Ops, NEW c \in Conns,
         Queues(h, F(op, c)), UNCHANGED <<batch, owner>>, overwritten \subseteq overwritten',
         h = IF op = "remove" THEN MainLoop ELSE owner[c],
         op # "established",
         Single(F(op, c), overwritten) => F(op, c) \notin Pending(h)
  PROVE  /\ queue' \in Lines
         /\ Pending(h)' = Pending(h) \cup {F(op, c)}
         /\ \A l \in Loops : l # h => Pending(l)' = Pending(l)
         /\ \A d \in Conns \ {c} : SameFunctors(d)
         /\ \A o \in Ops \ {op}, l \in Loops : F(o, c) \in Pending(l)' <=> F(o, c) \in Pending(l)
         /\ RunInOrder' /\ Confined'
<1>0. TypeOK /\ RunInOrder /\ Confined
  BY Parts
<1>1. F(op, c) \in Functor /\ F(op, c).op = op /\ F(op, c).conn = c
  BY FunctorIs
<1>2. /\ queue' \in Lines /\ RunInOrder'
      /\ Pending(h)' = Pending(h) \cup {F(op, c)}
      /\ \A l \in Loops : l # h => Pending(l)' = Pending(l)
  BY <1>0, <1>1, LineQueue
<1>3. ASSUME NEW d \in Conns, NEW o \in Ops, d # c \/ o # op, NEW l \in Loops
      PROVE  F(o, d) \in Pending(l)' <=> F(o, d) \in Pending(l)
  <2>1. F(o, d) # F(op, c)
    BY <1>1, <1>3, FunctorIs
  <2>2. QED
    BY <1>2, <2>1
<1>4. Confined'
  <2> SUFFICES ASSUME NEW l \in Loops, NEW f \in Pending(l)'
               PROVE  l = IF f.op = "remove" THEN MainLoop ELSE owner'[f.conn]
    BY DEF Confined
  <2>1. f \in Pending(l) \/ (l = h /\ f = F(op, c))
    BY <1>2
  <2>2. QED
    BY <1>0, <1>1, <2>1 DEF Confined
<1>5. QED
  BY <1>2, <1>3, <1>4 DEF SameFunctors

\* A channel a loop's Epoller knows belongs to a connection that is held, unless
\* it was put back after connectDestroyed ...
LEMMA KnownIsHeld ==
  ASSUME IInv, NEW d \in Conns, owner[d] # None, channel[d].index # "kNew", d \notin late
  PROVE  Held(d)
<1>1. TypeOK /\ Life(d)
  BY Parts
<1>2. owner[d] \in Loops /\ d \notin destroyed
  BY <1>1, OwnerIs DEF Life, Ended
<1>3. d \in connections \/ F("destroyed", d) \in Pending(owner[d])
  BY <1>1, <1>2 DEF Life, Place, Ending
<1>4. QED
  BY <1>2, <1>3, HeldBy DEF Ops, LifeOps

\* ... so it has no other held connection's descriptor.
LEMMA HeldApart ==
  ASSUME IInv, NEW c \in Conns, Held(c), NEW l \in Loops
  PROVE  OthersApart(l, c, channel[c].fd)
<1> SUFFICES ASSUME NEW d \in Conns \ {c}, owner[d] = l, channel[d].index # "kNew", d \notin late
             PROVE  channel[d].fd # channel[c].fd
  BY DEF OthersApart
<1>1. OwnDescriptors /\ owner[d] # None
  BY Parts, OwnerIs
<1>2. Held(d)
  BY <1>1, KnownIsHeld
<1>3. QED
  BY <1>1, <1>2 DEF OwnDescriptors

\* Only a connection that is up, or was, is sent to or shut down.
LEMMA CalledIsUp ==
  ASSUME IInv, NEW c \in Conns, ups[c] = 1
  PROVE  /\ owner[c] \in Loops /\ owner[c] # None
         /\ channel[c] \in ChannelType /\ channel[c].fd # ListenFd
         /\ F("established", c) \notin Pending(owner[c])
<1>1. TypeOK /\ Life(c)
  BY Parts
<1>2. owner[c] # None
  BY <1>1 DEF Life, Unseen
<1>3. QED
  BY <1>1, <1>2, OwnerIs DEF Life, Established

\* Who finds kConnected finds the connection up and alive.
LEMMA FoundConnected ==
  ASSUME IInv, NEW c \in Conns, Calls(c)
  PROVE  /\ ups[c] = 1 /\ downs[c] = 0 /\ c \notin destroyed /\ c \notin overwritten
         /\ state[c] = "kConnected" /\ server # "gone"
         /\ channel[c].index = "kAdded" /\ "read" \in channel[c].events
         /\ Held(c)
         /\ called' \in [Conns -> Nat]
<1>1. TypeOK /\ Life(c) /\ state[c] = "kConnected" /\ server # "gone"
  BY Parts DEF Calls
<1>2. /\ ups[c] = 1 /\ downs[c] = 0 /\ c \notin destroyed /\ c \notin overwritten
      /\ channel[c].index = "kAdded" /\ "read" \in channel[c].events
  BY <1>1 DEF Life, Closed, Up
<1>3. Held(c)
  <2>1. owner[c] \in Loops /\ owner[c] # None
    BY <1>2, CalledIsUp
  <2>2. c \in connections \/ F("destroyed", c) \in Pending(owner[c])
    BY <1>1, <1>2, <2>1 DEF Life, Place, Ending
  <2>3. QED
    BY <2>1, <2>2, HeldBy DEF Ops, LifeOps
<1>4. called' \in [Conns -> Nat]
  BY <1>1 DEF Calls, TypeOK
<1>5. QED
  BY <1>1, <1>2, <1>3, <1>4

\* A step of a call on c, which has been established.
CallStep(c) ==
  /\ ups[c] = 1
  /\ UNCHANGED <<owner, ups, downs, connections, destroyed, phase>>
  /\ \A op \in LifeOps, l \in Loops : F(op, c) \in Pending(l)' <=> F(op, c) \in Pending(l)
  /\ state'[c] \in {state[c], "kDisconnecting"}
  /\ channel'[c] \in ChannelType /\ channel'[c].fd = channel[c].fd
  /\ c \in overwritten => c \in overwritten'
  /\ c \in late => c \in late'

LEMMA CallLife ==
  ASSUME IInv, NEW c \in Conns, CallStep(c)
  PROVE  /\ Place(c)' /\ Announced(c)' /\ Unseen(c)' /\ Established(c)'
         /\ Ending(c)' <=> Ending(c)
         /\ F("remove", c) \in Pending(MainLoop)' <=> F("remove", c) \in Pending(MainLoop)
<1> USE DEF CallStep
<1>1. TypeOK /\ Life(c) /\ MainLoop \in Loops
  BY Parts, OwnerIs
<1>2. /\ owner[c] \in Loops /\ owner[c] # None
      /\ channel[c].fd # ListenFd
      /\ F("established", c) \notin Pending(owner[c])
  BY CalledIsUp
<1>3. Ending(c)' <=> Ending(c)
  BY <1>2 DEF Ending, LifeOps
<1>4. F("remove", c) \in Pending(MainLoop)' <=> F("remove", c) \in Pending(MainLoop)
  BY <1>1 DEF LifeOps
<1>5. F("established", c) \notin Pending(owner[c])'
  BY <1>2 DEF LifeOps
<1>6. Place(c)'
  BY <1>1, <1>3 DEF Life, Place
<1>7. Announced(c)'
  BY <1>1 DEF Life, Announced
<1>8. Unseen(c)'
  BY <1>2 DEF Unseen
<1>9. Established(c)'
  BY <1>2, <1>5 DEF Established
<1>10. QED
  BY <1>3, <1>4, <1>6, <1>7, <1>8, <1>9

\* A step of a call that leaves the connection as it is.
LEMMA CallLifeSame ==
  ASSUME IInv, NEW c \in Conns, CallStep(c),
         state'[c] = state[c], channel'[c] = channel[c],
         c \in overwritten' <=> c \in overwritten, c \in late' <=> c \in late
  PROVE  Life(c)'
<1> USE DEF CallStep
<1>1. Life(c)
  BY Parts
<1>2. /\ Place(c)' /\ Announced(c)' /\ Unseen(c)' /\ Established(c)'
      /\ Ending(c)' <=> Ending(c)
      /\ F("remove", c) \in Pending(MainLoop)' <=> F("remove", c) \in Pending(MainLoop)
  BY CallLife
<1>3. Closed(c)'
  BY <1>1 DEF Life, Closed, Up
<1>4. Ended(c)'
  BY <1>1, <1>2 DEF Life, Ended
<1>5. QED
  BY <1>2, <1>3, <1>4 DEF Life

\* send() and shutdown() test state_.
LEMMA TestsInv ==
  ASSUME IInv, NEW c \in Conns, SendTests(c) \/ ShutdownTests(c) PROVE IInv'
<1>1. TypeOK /\ RunInOrder /\ Confined /\ ServerInStep /\ NobodyUsesGone /\ EpollAgrees
      /\ OwnDescriptors
  BY Parts
<1>2. /\ Calls(c)
      /\ UNCHANGED <<pool, limit, phase, quit, queue, batch, ran, owner, connections, state,
                     channel, epoller, peerGone, ups, downs, destroyed, server,
                     overwritten, late>>
  BY DEF SendTests, ShutdownTests, loopVars, connVars, heard
<1>3. /\ sending' \in [Conns -> Nat] /\ stopping' \in [Conns -> Nat]
      /\ \A d \in Conns \ {c} : sending'[d] = sending[d] /\ stopping'[d] = stopping[d]
  <2>1. sending \in [Conns -> Nat] /\ stopping \in [Conns -> Nat]
    BY <1>1 DEF TypeOK
  <2>2. CASE SendTests(c)
    <3>1. sending' = [sending EXCEPT ![c] = @ + 1] /\ stopping' = stopping
      BY <2>2 DEF SendTests
    <3>2. QED
      BY <2>1, <3>1
  <2>3. CASE ShutdownTests(c)
    <3>1. stopping' = [stopping EXCEPT ![c] = @ + 1] /\ sending' = sending
      BY <2>3 DEF ShutdownTests
    <3>2. QED
      BY <2>1, <3>1
  <2>4. QED
    BY <2>2, <2>3
<1>4. /\ ups[c] = 1 /\ Held(c) /\ called' \in [Conns -> Nat]
  BY <1>2, FoundConnected
<1>5. TypeOK'
  BY <1>1, <1>2, <1>3, <1>4 DEF TypeOK
<1>6. RunInOrder' /\ \A l \in Loops : Pending(l)' = Pending(l)
  BY <1>1, <1>2, LinesKept DEF lines
<1>7. Confined' /\ EpollAgrees'
  BY <1>1, <1>2, <1>6, ConfinedKept, EpollKept
<1>8. ServerInStep' /\ NobodyUsesGone'
  BY <1>1, <1>2, ServerStays
<1>9. ASSUME NEW d \in Conns \ {c} PROVE Untouched(d)
  <2>1. SameFunctors(d)
    BY <1>6 DEF SameFunctors
  <2>2. QED
    BY <1>2, <1>3, <2>1 DEF Untouched
<1>10. Life(c)'
  <2>1. CallStep(c)
    BY <1>2, <1>4, <1>6, CalledIsUp DEF CallStep
  <2>2. QED
    BY <1>2, <2>1, CallLifeSame
<1>11. OwnDescriptors'
  BY <1>1, <1>2, <1>4, <1>5, <1>9, DescriptorsStay
<1>12. QED
  BY <1>5, <1>6, <1>7, <1>8, <1>9, <1>10, <1>11, StepInv

\* shutdown() on the loop's thread.
LEMMA ShutdownFromCallbackInv ==
  ASSUME IInv, NEW c \in Conns, ShutdownFromCallback(c) PROVE IInv'
<1>1. TypeOK /\ RunInOrder /\ Confined /\ ServerInStep /\ NobodyUsesGone /\ EpollAgrees
      /\ OwnDescriptors /\ Life(c)
  BY Parts
<1>2. /\ Calls(c)
      /\ state' = [state EXCEPT ![c] = "kDisconnecting"]
      /\ UNCHANGED <<pool, limit, phase, quit, queue, batch, ran, owner, connections,
                     channel, epoller, peerGone, ups, downs, destroyed, server,
                     sending, stopping, overwritten, late>>
  BY DEF ShutdownFromCallback, loopVars, heard
<1>3. /\ state' \in [Conns -> States] /\ state'[c] = "kDisconnecting"
      /\ \A d \in Conns \ {c} : state'[d] = state[d]
  BY <1>1, <1>2 DEF TypeOK, States
<1>4. /\ ups[c] = 1 /\ downs[c] = 0 /\ c \notin overwritten /\ Held(c)
      /\ called' \in [Conns -> Nat]
  BY <1>2, FoundConnected
<1>5. TypeOK'
  BY <1>1, <1>2, <1>3, <1>4 DEF TypeOK, States
<1>6. RunInOrder' /\ \A l \in Loops : Pending(l)' = Pending(l)
  BY <1>1, <1>2, LinesKept DEF lines
<1>7. Confined' /\ EpollAgrees'
  BY <1>1, <1>2, <1>6, ConfinedKept, EpollKept
<1>8. ServerInStep' /\ NobodyUsesGone'
  BY <1>1, <1>2, ServerStays
<1>9. ASSUME NEW d \in Conns \ {c} PROVE Untouched(d)
  <2>1. SameFunctors(d)
    BY <1>6 DEF SameFunctors
  <2>2. QED
    BY <1>2, <1>3, <2>1 DEF Untouched
<1>10. Life(c)'
  <2>1. CallStep(c)
    BY <1>2, <1>3, <1>4, <1>6, CalledIsUp DEF CallStep
  <2>2. /\ Place(c)' /\ Announced(c)' /\ Unseen(c)' /\ Established(c)'
        /\ Ending(c)' <=> Ending(c)
        /\ F("remove", c) \in Pending(MainLoop)' <=> F("remove", c) \in Pending(MainLoop)
    BY <2>1, CallLife
  <2>3. Closed(c)'
    BY <1>1, <1>2, <1>3, <1>4 DEF Life, Closed, Up
  <2>4. Ended(c)'
    BY <1>1, <1>2, <2>2 DEF Life, Ended
  <2>5. QED
    BY <2>2, <2>3, <2>4 DEF Life
<1>11. OwnDescriptors'
  BY <1>1, <1>2, <1>4, <1>5, <1>9, DescriptorsStay
<1>12. QED
  BY <1>5, <1>6, <1>7, <1>8, <1>9, <1>10, <1>11, StepInv

\* send() queues sendInLoop.
LEMMA SendQueuesInv ==
  ASSUME IInv, NEW c \in Conns, SendQueues(c) PROVE IInv'
<1>1. TypeOK /\ RunInOrder /\ Confined /\ ServerInStep /\ NobodyUsesGone /\ EpollAgrees
      /\ OwnDescriptors /\ Life(c)
  BY Parts
<1>2. /\ sending[c] > 0 /\ sending' = [sending EXCEPT ![c] = @ - 1]
      /\ Queues(owner[c], F("send", c))
      /\ UNCHANGED <<pool, limit, phase, quit, batch, ran, owner, connections, state, channel,
                     epoller, peerGone, ups, downs, destroyed, server, stopping, called,
                     overwritten, late>>
  BY DEF SendQueues, Queues, connVars, heard
<1>3. /\ sending' \in [Conns -> Nat]
      /\ \A d \in Conns \ {c} : sending'[d] = sending[d]
  BY <1>1, <1>2 DEF TypeOK
<1>4. InCall(c) /\ Held(c) /\ ups[c] = 1
  <2>1. InCall(c) /\ Held(c)
    BY <1>2, HeldBy DEF InCall
  <2>2. QED
    BY <1>1, <2>1 DEF Called, Life, Closed
<1>5. owner[c] \in Loops /\ channel[c] \in ChannelType
  BY <1>4, CalledIsUp
<1>6. /\ queue' \in Lines
      /\ \A d \in Conns \ {c} : SameFunctors(d)
      /\ \A o \in Ops \ {"send"}, l \in Loops : F(o, c) \in Pending(l)' <=> F(o, c) \in Pending(l)
      /\ RunInOrder' /\ Confined'
  <2>1. "send" \in Ops /\ ~Single(F("send", c), overwritten)
    BY FunctorIs DEF Ops, CallOps, LifeOps, Single
  <2>2. overwritten \subseteq overwritten'
    BY <1>2
  <2>3. QED
    BY <1>2, <1>5, <2>1, <2>2, FunctorQueued
<1>7. TypeOK'
  BY <1>1, <1>2, <1>3, <1>6 DEF TypeOK, Lines
<1>8. EpollAgrees'
  BY <1>1, <1>2, EpollKept
<1>9. ServerInStep' /\ NobodyUsesGone'
  BY <1>1, <1>2, ServerStays
<1>10. ASSUME NEW d \in Conns \ {c} PROVE Untouched(d)
  BY <1>2, <1>3, <1>6 DEF Untouched
<1>11. Life(c)'
  <2>1. CallStep(c)
    BY <1>2, <1>4, <1>5, <1>6 DEF CallStep, LifeOps, Ops, CallOps
  <2>2. QED
    BY <1>2, <2>1, CallLifeSame
<1>12. OwnDescriptors'
  BY <1>1, <1>2, <1>4, <1>7, <1>10, DescriptorsStay
<1>13. QED
  BY <1>6, <1>7, <1>8, <1>9, <1>10, <1>11, <1>12, StepInv

\* shutdown() stores kDisconnecting: over kDisconnected only if the connection
\* was closed meanwhile, and the user has heard of that.
LEMMA ShutdownStoresInv ==
  ASSUME IInv, NEW c \in Conns, ShutdownStores(c) PROVE IInv'
<1>1. TypeOK /\ RunInOrder /\ Confined /\ ServerInStep /\ NobodyUsesGone /\ EpollAgrees
      /\ OwnDescriptors /\ Life(c)
  BY Parts
<1>2. /\ stopping[c] > 0 /\ stopping' = [stopping EXCEPT ![c] = @ - 1]
      /\ state' = [state EXCEPT ![c] = "kDisconnecting"]
      /\ overwritten' = IF state[c] = "kDisconnected"
                        THEN overwritten \cup {c} ELSE overwritten
      /\ Queues(owner[c], F("shutdown", c))
      /\ UNCHANGED <<pool, limit, phase, quit, batch, ran, owner, connections, channel,
                     epoller, peerGone, ups, downs, destroyed, server, sending, called, late>>
  BY DEF ShutdownStores, Queues, heard
<1>3. /\ stopping' \in [Conns -> Nat]
      /\ \A d \in Conns \ {c} : stopping'[d] = stopping[d]
      /\ state' \in [Conns -> States] /\ state'[c] = "kDisconnecting"
      /\ \A d \in Conns \ {c} : state'[d] = state[d]
      /\ overwritten \subseteq overwritten' /\ overwritten' \subseteq Conns
      /\ \A d \in Conns \ {c} : d \in overwritten' => d \in overwritten
      /\ c \in overwritten' <=> c \in overwritten \/ state[c] = "kDisconnected"
  BY <1>1, <1>2 DEF TypeOK, States
<1>4. InCall(c) /\ Held(c) /\ ups[c] = 1
  <2>1. InCall(c) /\ Held(c)
    BY <1>2, HeldBy DEF InCall
  <2>2. QED
    BY <1>1, <2>1 DEF Called, Life, Closed
<1>5. owner[c] \in Loops /\ channel[c] \in ChannelType
  BY <1>4, CalledIsUp
<1>6. /\ queue' \in Lines
      /\ \A d \in Conns \ {c} : SameFunctors(d)
      /\ \A o \in Ops \ {"shutdown"}, l \in Loops :
           F(o, c) \in Pending(l)' <=> F(o, c) \in Pending(l)
      /\ RunInOrder' /\ Confined'
  <2>1. "shutdown" \in Ops /\ ~Single(F("shutdown", c), overwritten)
    BY FunctorIs DEF Ops, CallOps, LifeOps, Single
  <2>2. QED
    BY <1>2, <1>3, <1>5, <2>1, FunctorQueued
<1>7. TypeOK'
  BY <1>1, <1>2, <1>3, <1>6 DEF TypeOK, Lines, States
<1>8. EpollAgrees'
  BY <1>1, <1>2, EpollKept
<1>9. ServerInStep' /\ NobodyUsesGone'
  BY <1>1, <1>2, <1>3, ServerStays
<1>10. ASSUME NEW d \in Conns \ {c} PROVE Untouched(d)
  BY <1>2, <1>3, <1>6 DEF Untouched
<1>11. Life(c)'
  <2>1. CallStep(c)
    BY <1>2, <1>3, <1>4, <1>5, <1>6 DEF CallStep, LifeOps, Ops, CallOps
  <2>2. /\ Place(c)' /\ Announced(c)' /\ Unseen(c)' /\ Established(c)'
        /\ Ending(c)' <=> Ending(c)
        /\ F("remove", c) \in Pending(MainLoop)' <=> F("remove", c) \in Pending(MainLoop)
    BY <2>1, CallLife
  <2>3. Closed(c)'
    BY <1>1, <1>2, <1>3, <1>4 DEF Life, Closed, Up
  <2>4. Ended(c)'
    BY <1>1, <1>2, <1>3, <2>2 DEF Life, Ended
  <2>5. QED
    BY <2>2, <2>3, <2>4 DEF Life
<1>12. OwnDescriptors'
  BY <1>1, <1>2, <1>4, <1>7, <1>10, DescriptorsStay
<1>13. QED
  BY <1>6, <1>7, <1>8, <1>9, <1>10, <1>11, <1>12, StepInv

\* shutdownInLoop.
LEMMA RunShutdownInv ==
  ASSUME IInv, NEW h \in Loops, RunShutdown(h) PROVE IInv'
<1>0. PICK c : c = Head(batch[h]).conn
  OBVIOUS
<1>1. TypeOK /\ ServerInStep /\ NobodyUsesGone /\ EpollAgrees /\ OwnDescriptors
  BY Parts
<1>2. /\ NextFunctor(h, "shutdown")
      /\ UNCHANGED <<pool, limit, phase, quit, queue, owner, connections, state, channel,
                     epoller, peerGone, ups, downs, destroyed, server, sending, stopping,
                     called, overwritten, late>>
  BY DEF RunShutdown, connVars, heard, calls
<1>3. /\ c \in Conns /\ F("shutdown", c) \in Pending(h) /\ phase[h] = "functors"
      /\ batch' \in Lines /\ ran' \in [Loops -> SUBSET Conns]
      /\ \A l \in Loops : l # h => batch'[l] = batch[l]
      /\ \A d \in Conns \ {c} : SameFunctors(d) /\ \A l \in Loops : d \in ran'[l] => d \in ran[l]
      /\ \A o \in Ops \ {"shutdown"}, l \in Loops :
           F(o, c) \in Pending(l)' <=> F(o, c) \in Pending(l)
      /\ RunInOrder' /\ Confined'
  <2>1. "shutdown" \in Ops
    BY DEF Ops, CallOps
  <2>2. QED
    BY <1>0, <1>2, <2>1, FunctorTaken
<1>4. Held(c) /\ ups[c] = 1
  <2>1. Held(c)
    BY <1>3, HeldBy DEF Ops, CallOps
  <2>2. Called(c) /\ Life(c)
    BY <1>3, Parts DEF Called, CallOps
  <2>3. QED
    BY <2>1, <2>2 DEF Life, Closed
<1>5. TypeOK'
  BY <1>1, <1>2, <1>3 DEF TypeOK, Lines
<1>6. EpollAgrees'
  BY <1>1, <1>2, EpollKept
<1>7. ServerInStep' /\ NobodyUsesGone'
  <2>1. server # "gone" /\ \A l \in Loops : phase[l] = "events" => batch'[l] = batch[l]
    BY <1>1, <1>3 DEF NobodyUsesGone
  <2>2. QED
    BY <1>1, <1>2, <2>1, ServerKept
<1>8. ASSUME NEW d \in Conns \ {c} PROVE Untouched(d)
  BY <1>2, <1>3 DEF Untouched
<1>9. Life(c)'
  <2>1. CallStep(c)
    BY <1>2, <1>3, <1>4, CalledIsUp DEF CallStep, LifeOps, Ops, CallOps
  <2>2. QED
    BY <1>2, <1>3, <2>1, CallLifeSame
<1>10. OwnDescriptors'
  BY <1>1, <1>2, <1>4, <1>5, <1>8, DescriptorsStay
<1>11. QED
  BY <1>3, <1>5, <1>6, <1>7, <1>8, <1>9, <1>10, StepInv

\* sendInLoop.  After connectDestroyed it puts the removed channel back; in the
\* main loop it cannot unless the closed connection was made to look open.
LEMMA SendLife ==
  ASSUME IInv, NEW c \in Conns, Held(c), ups[c] = 1, SendInLoop(c),
         UNCHANGED <<owner, ups, downs, connections, destroyed, phase, state, overwritten>>,
         \A op \in LifeOps, l \in Loops : F(op, c) \in Pending(l)' <=> F(op, c) \in Pending(l),
         c \in destroyed /\ owner[c] = MainLoop => phase[MainLoop] # "ended"
  PROVE  /\ EpollAgrees' /\ ChannelStep(c) /\ LateBut(c) /\ late' \subseteq destroyed
         /\ Life(c)' /\ channel'[c].fd = channel[c].fd
<1>1. TypeOK /\ EpollAgrees /\ Life(c)
  BY Parts
<1>2. owner[c] \in Loops /\ owner[c] # None /\ channel[c] \in ChannelType
  BY CalledIsUp
<1>3. CASE UNCHANGED <<channel, epoller, late>>
  <2>1. EpollAgrees'
    BY <1>1, <1>3, EpollKept
  <2>2. ChannelStep(c) /\ LateBut(c) /\ late' \subseteq destroyed
    BY <1>1, <1>3 DEF TypeOK, ChannelStep, LateBut
  <2>3. CallStep(c)
    BY <1>2, <1>3 DEF CallStep
  <2>4. Life(c)'
    BY <1>3, <2>3, CallLifeSame
  <2>5. QED
    BY <1>3, <2>1, <2>2, <2>4
<1>4. CASE /\ ~GivesUp(c)
           /\ Update(c, channel[c].events \cup {"write"})
           /\ late' = late \cup ({c} \cap destroyed)
  <2>1. /\ channel[c].events \cup {"write"} \in SUBSET Events
        /\ channel[c].events \cup {"write"} # {}
    BY <1>2 DEF ChannelType, Events
  <2>2. LateBut(c) /\ late' \subseteq destroyed
    BY <1>1, <1>4 DEF LateBut, TypeOK
  <2>3. OthersApart(owner[c], c, channel[c].fd)
    BY <1>2, HeldApart
  <2>4. /\ EpollAgrees' /\ ChannelStep(c)
        /\ channel'[c] \in ChannelType /\ channel'[c].fd = channel[c].fd
        /\ channel'[c].events = channel[c].events \cup {"write"}
        /\ channel'[c].index = "kAdded"
    BY <1>1, <1>2, <1>4, <2>1, <2>2, <2>3, ChangedInEpoll
  <2>5. CallStep(c)
    BY <1>2, <2>2, <2>4 DEF CallStep, LateBut
  <2>6. /\ Place(c)' /\ Announced(c)' /\ Unseen(c)' /\ Established(c)'
        /\ Ending(c)' <=> Ending(c)
        /\ F("remove", c) \in Pending(MainLoop)' <=> F("remove", c) \in Pending(MainLoop)
    BY <2>5, CallLife
  <2>7. state[c] # "kDisconnected"
    BY <1>4 DEF GivesUp
  <2>8. Closed(c)'
    BY <1>1, <2>4, <2>7 DEF Life, Closed, Up
  <2>9. Ended(c)'
    <3>1. c \in destroyed => c \in late'
      BY <1>4
    <3>2. c \in late' /\ owner[c] = MainLoop => c \in overwritten
      BY <1>1, <1>4, <2>7 DEF Life, Ended, Closed
    <3>3. QED
      BY <1>1, <2>6, <3>1, <3>2 DEF Life, Ended
  <2>10. QED
    BY <2>2, <2>4, <2>6, <2>8, <2>9 DEF Life
<1>5. QED
  BY <1>3, <1>4 DEF SendInLoop

LEMMA RunSendInv ==
  ASSUME IInv, NEW h \in Loops, RunSend(h) PROVE IInv'
<1>0. PICK c : c = Head(batch[h]).conn
  OBVIOUS
<1>1. TypeOK /\ ServerInStep /\ NobodyUsesGone /\ OwnDescriptors
  BY Parts
<1>2. /\ NextFunctor(h, "send") /\ SendInLoop(c)
      /\ UNCHANGED <<pool, limit, phase, quit, queue, owner, connections, state,
                     peerGone, ups, downs, destroyed, server, sending, stopping,
                     called, overwritten>>
  BY <1>0 DEF RunSend, heard, calls
<1>3. /\ c \in Conns /\ F("send", c) \in Pending(h) /\ phase[h] = "functors"
      /\ h = owner[c]
      /\ batch' \in Lines /\ ran' \in [Loops -> SUBSET Conns]
      /\ \A l \in Loops : l # h => batch'[l] = batch[l]
      /\ \A d \in Conns \ {c} : SameFunctors(d) /\ \A l \in Loops : d \in ran'[l] => d \in ran[l]
      /\ \A o \in Ops \ {"send"}, l \in Loops :
           F(o, c) \in Pending(l)' <=> F(o, c) \in Pending(l)
      /\ RunInOrder' /\ Confined'
  <2>1. "send" \in Ops
    BY DEF Ops, CallOps
  <2>2. QED
    BY <1>0, <1>2, <2>1, FunctorTaken
<1>4. Held(c) /\ ups[c] = 1
  <2>1. Held(c)
    BY <1>3, HeldBy DEF Ops, CallOps
  <2>2. Called(c) /\ Life(c)
    BY <1>3, Parts DEF Called, CallOps
  <2>3. QED
    BY <2>1, <2>2 DEF Life, Closed
<1>5. /\ EpollAgrees' /\ ChannelStep(c) /\ LateBut(c) /\ late' \subseteq destroyed
      /\ Life(c)' /\ channel'[c].fd = channel[c].fd
  <2>1. \A op \in LifeOps, l \in Loops : F(op, c) \in Pending(l)' <=> F(op, c) \in Pending(l)
    BY <1>3 DEF LifeOps, Ops, CallOps
  <2>2. QED
    BY <1>2, <1>3, <1>4, <2>1, SendLife
<1>6. TypeOK'
  BY <1>1, <1>2, <1>3, <1>5 DEF TypeOK, Lines, ChannelStep
<1>7. ServerInStep' /\ NobodyUsesGone'
  <2>1. server # "gone" /\ \A l \in Loops : phase[l] = "events" => batch'[l] = batch[l]
    BY <1>1, <1>3 DEF NobodyUsesGone
  <2>2. QED
    BY <1>1, <1>2, <1>5, <2>1, ServerKept DEF ChannelStep
<1>8. ASSUME NEW d \in Conns \ {c} PROVE Untouched(d)
  BY <1>2, <1>3, <1>5 DEF Untouched, ChannelStep, LateBut
<1>9. OwnDescriptors'
  BY <1>1, <1>4, <1>5, <1>6, <1>8, DescriptorsStay
<1>10. QED
  BY <1>3, <1>5, <1>6, <1>7, <1>8, <1>9, StepInv

LEMMA SendFromCallbackInv ==
  ASSUME IInv, NEW c \in Conns, SendFromCallback(c) PROVE IInv'
<1>1. TypeOK /\ RunInOrder /\ Confined /\ ServerInStep /\ NobodyUsesGone /\ OwnDescriptors
  BY Parts
<1>2. /\ Calls(c) /\ SendInLoop(c)
      /\ UNCHANGED <<pool, limit, phase, quit, queue, batch, ran, owner, connections, state,
                     peerGone, ups, downs, destroyed, server, sending, stopping, overwritten>>
  BY DEF SendFromCallback, loopVars, heard
<1>3. /\ ups[c] = 1 /\ Held(c) /\ c \notin destroyed /\ server # "gone"
      /\ called' \in [Conns -> Nat]
  BY <1>2, FoundConnected
<1>4. RunInOrder' /\ \A l \in Loops : Pending(l)' = Pending(l)
  BY <1>1, <1>2, LinesKept DEF lines
<1>5. /\ EpollAgrees' /\ ChannelStep(c) /\ LateBut(c) /\ late' \subseteq destroyed
      /\ Life(c)' /\ channel'[c].fd = channel[c].fd
  BY <1>2, <1>3, <1>4, SendLife
<1>6. TypeOK'
  BY <1>1, <1>2, <1>3, <1>5 DEF TypeOK, ChannelStep
<1>7. Confined'
  BY <1>1, <1>2, <1>4, ConfinedKept
<1>8. ServerInStep' /\ NobodyUsesGone'
  BY <1>1, <1>2, <1>3, <1>5, ServerKept DEF ChannelStep
<1>9. ASSUME NEW d \in Conns \ {c} PROVE Untouched(d)
  <2>1. SameFunctors(d)
    BY <1>4 DEF SameFunctors
  <2>2. QED
    BY <1>2, <1>5, <2>1 DEF Untouched, ChannelStep, LateBut
<1>10. OwnDescriptors'
  BY <1>1, <1>3, <1>5, <1>6, <1>9, DescriptorsStay
<1>11. QED
  BY <1>4, <1>5, <1>6, <1>7, <1>8, <1>9, <1>10, StepInv

(***************************************************************************)
(* connectEstablished, and the callbacks.                                  *)
(***************************************************************************)

LEMMA RunEstablishedInv ==
  ASSUME IInv, NEW h \in Loops, RunEstablished(h) PROVE IInv'
<1>0. PICK c : c = Head(batch[h]).conn
  OBVIOUS
<1>1. TypeOK /\ ServerInStep /\ NobodyUsesGone /\ OwnDescriptors /\ EpollAgrees
  BY Parts
<1>2. /\ NextFunctor(h, "established")
      /\ ConnectEstablished(c, channel[c], h)
      /\ UNCHANGED <<pool, limit, phase, quit, queue, owner, connections, peerGone, server,
                     sending, stopping, called, overwritten, late>>
  BY <1>0 DEF RunEstablished, calls
<1>3. /\ c \in Conns /\ F("established", c) \in Pending(h) /\ phase[h] = "functors"
      /\ h = owner[c]
      /\ batch' \in Lines /\ ran' \in [Loops -> SUBSET Conns]
      /\ TakenOut(h, F("established", c))
      /\ \A l \in Loops : l # h => batch'[l] = batch[l]
      /\ \A d \in Conns \ {c} : SameFunctors(d) /\ \A l \in Loops : d \in ran'[l] => d \in ran[l]
      /\ \A o \in Ops \ {"established"}, l \in Loops :
           F(o, c) \in Pending(l)' <=> F(o, c) \in Pending(l)
      /\ RunInOrder' /\ Confined'
  <2>1. "established" \in Ops
    BY DEF Ops, LifeOps
  <2>2. QED
    BY <1>0, <1>2, <2>1, FunctorTaken
<1>4. Life(c) /\ owner[c] # None /\ MainLoop \in Loops /\ Held(c)
  BY <1>1, <1>3, Parts, OwnerIs, HeldBy DEF Ops, LifeOps
<1>5. /\ ups[c] = 0 /\ downs[c] = 0 /\ channel[c] \in ChannelType
      /\ channel[c].index = "kNew" /\ channel[c].fd # ListenFd
      /\ c \notin destroyed /\ c \notin overwritten /\ c \notin late
  BY <1>1, <1>3, <1>4 DEF Life, Established, Announced, Closed, TypeOK
<1>6. /\ EpollAgrees' /\ ChannelStep(c)
      /\ channel'[c] \in ChannelType /\ channel'[c].fd = channel[c].fd
      /\ channel'[c].index = "kAdded" /\ channel'[c].events = {"read"}
  <2>1. OthersApart(h, c, channel[c].fd) /\ LateBut(c)
    BY <1>2, <1>3, <1>4, HeldApart DEF LateBut
  <2>2. owner'[c] = h /\ owner[c] = h /\ \A d \in Conns \ {c} : owner'[d] = owner[d]
    BY <1>2, <1>3
  <2>3. QED
    BY <1>1, <1>2, <1>3, <1>5, <2>1, <2>2, EstablishedInEpoll
<1>7. /\ state' \in [Conns -> States]
      /\ state'[c] = "kConnected" /\ \A d \in Conns \ {c} : state'[d] = state[d]
      /\ ups' \in [Conns -> Nat]
      /\ ups'[c] = 1 /\ \A d \in Conns \ {c} : ups'[d] = ups[d]
      /\ UNCHANGED <<downs, destroyed>>
  BY <1>1, <1>2, <1>3, <1>5 DEF ConnectEstablished, TypeOK, States
<1>8. TypeOK'
  BY <1>1, <1>2, <1>3, <1>6, <1>7 DEF TypeOK, Lines, States, ChannelStep
<1>9. ASSUME NEW d \in Conns \ {c} PROVE Untouched(d)
  BY <1>2, <1>3, <1>6, <1>7 DEF Untouched, ChannelStep
<1>10. Life(c)'
  <2>1. /\ F("destroyed", c) \in Pending(owner[c])' <=> F("destroyed", c) \in Pending(owner[c])
        /\ F("remove", c) \in Pending(MainLoop)' <=> F("remove", c) \in Pending(MainLoop)
    BY <1>2, <1>3, <1>4 DEF Ops, LifeOps
  <2>2. Ending(c)' <=> Ending(c)
    BY <1>2, <2>1 DEF Ending
  <2>3. Place(c)' /\ Announced(c)' /\ Unseen(c)'
    BY <1>2, <1>4, <1>5, <1>7, <2>2 DEF Life, Place, Announced, Unseen
  <2>4. Established(c)'
    <3>1. Single(F("established", c), overwritten) /\ F("established", c) \in Functor
      BY <1>3, FunctorIs DEF Single, LifeOps, Ops
    <3>2. F("established", c) \notin Pending(owner[c])'
      BY <1>2, <1>3, <3>1 DEF TakenOut
    <3>3. QED
      BY <1>2, <1>5, <1>6, <1>7, <3>2 DEF Established
  <2>5. Closed(c)'
    BY <1>2, <1>4, <1>5, <1>6, <1>7 DEF Closed, Up
  <2>6. Ended(c)'
    BY <1>2, <1>4, <1>5, <1>7, <2>1, <2>2 DEF Life, Ended
  <2>7. QED
    BY <2>3, <2>4, <2>5, <2>6 DEF Life
<1>11. OwnDescriptors'
  BY <1>1, <1>4, <1>6, <1>8, <1>9, DescriptorsStay
<1>12. ServerInStep' /\ NobodyUsesGone'
  <2>1. server # "gone" /\ \A l \in Loops : phase[l] = "events" => batch'[l] = batch[l]
    BY <1>1, <1>3 DEF NobodyUsesGone
  <2>2. QED
    BY <1>1, <1>2, <1>6, <2>1, ServerKept DEF ChannelStep
<1>13. QED
  BY <1>3, <1>6, <1>8, <1>9, <1>10, <1>11, <1>12, StepInv

\* A channel epoll reports is one that was established.
LEMMA WatchedIsUp ==
  ASSUME IInv, NEW c \in Conns, Watched(c)
  PROVE  /\ owner[c] \in Loops /\ owner[c] # None /\ phase[owner[c]] = "events"
         /\ channel[c] \in ChannelType /\ channel[c].index = "kAdded"
         /\ ups[c] = 1 /\ Held(c) /\ server # "gone"
<1>1. TypeOK /\ EpollAgrees /\ NobodyUsesGone /\ Life(c)
  BY Parts
<1>2. /\ owner[c] \in Loops /\ owner[c] # None /\ phase[owner[c]] = "events"
      /\ c \in epoller[owner[c]].kernel /\ Held(c)
  BY <1>1, OwnerIs DEF Watched
<1>3. channel[c].index = "kAdded" /\ server # "gone"
  BY <1>1, <1>2 DEF EpollAgrees, NobodyUsesGone
<1>4. ups[c] # 0 /\ channel[c] \in ChannelType
  BY <1>1, <1>2, <1>3 DEF Life, Established
<1>5. ups[c] = 1
  BY <1>1, <1>4, OwnerIs DEF Life, Announced
<1>6. QED
  BY <1>2, <1>3, <1>4, <1>5

\* handleWrite switches EPOLLOUT off; a connection that is read from stays in epoll.
LEMMA HandleWriteInv ==
  ASSUME IInv, NEW c \in Conns, HandleWrite(c) PROVE IInv'
<1>1. TypeOK /\ RunInOrder /\ Confined /\ ServerInStep /\ NobodyUsesGone /\ EpollAgrees
      /\ OwnDescriptors /\ Life(c)
  BY Parts
<1>2. /\ Watched(c)
      /\ Update(c, channel[c].events \ {"write"})
      /\ UNCHANGED <<pool, limit, phase, quit, queue, batch, ran, owner, connections, state,
                     peerGone, ups, downs, destroyed, server, sending, stopping, called,
                     overwritten, late>>
  BY DEF HandleWrite, loopVars, heard, calls
<1>3. /\ owner[c] \in Loops /\ owner[c] # None
      /\ channel[c] \in ChannelType /\ channel[c].index = "kAdded"
      /\ ups[c] = 1 /\ Held(c) /\ server # "gone"
  BY <1>2, WatchedIsUp
<1>4. /\ EpollAgrees' /\ ChannelStep(c)
      /\ channel'[c] \in ChannelType /\ channel'[c].fd = channel[c].fd
      /\ channel'[c].events = channel[c].events \ {"write"}
      /\ channel'[c].index = IF channel[c].events \ {"write"} = {} THEN "kDeleted" ELSE "kAdded"
  <2>1. channel[c].events \ {"write"} \in SUBSET Events /\ LateBut(c)
    BY <1>2, <1>3 DEF ChannelType, LateBut
  <2>2. QED
    BY <1>1, <1>2, <1>3, <2>1, ChangedInEpoll
<1>5. TypeOK'
  BY <1>1, <1>2, <1>4 DEF TypeOK, ChannelStep
<1>6. RunInOrder' /\ \A l \in Loops : Pending(l)' = Pending(l)
  BY <1>1, <1>2, LinesKept DEF lines
<1>7. Confined'
  BY <1>1, <1>2, <1>6, ConfinedKept
<1>8. ServerInStep' /\ NobodyUsesGone'
  BY <1>1, <1>2, <1>3, <1>4, ServerKept DEF ChannelStep
<1>9. ASSUME NEW d \in Conns \ {c} PROVE Untouched(d)
  <2>1. SameFunctors(d)
    BY <1>6 DEF SameFunctors
  <2>2. QED
    BY <1>2, <1>4, <2>1 DEF Untouched, ChannelStep
<1>10. Life(c)'
  <2>1. CallStep(c)
    BY <1>2, <1>3, <1>4, <1>6 DEF CallStep
  <2>2. /\ Place(c)' /\ Announced(c)' /\ Unseen(c)' /\ Established(c)'
        /\ Ending(c)' <=> Ending(c)
        /\ F("remove", c) \in Pending(MainLoop)' <=> F("remove", c) \in Pending(MainLoop)
    BY <2>1, CallLife
  <2>3. Closed(c)'
    BY <1>1, <1>2, <1>3, <1>4 DEF Life, Closed, Up
  <2>4. Ended(c)'
    BY <1>1, <1>2, <1>3, <2>2 DEF Life, Ended
  <2>5. QED
    BY <2>2, <2>3, <2>4 DEF Life
<1>11. OwnDescriptors'
  BY <1>1, <1>3, <1>4, <1>5, <1>9, DescriptorsStay
<1>12. QED
  BY <1>4, <1>5, <1>6, <1>7, <1>8, <1>9, <1>10, <1>11, StepInv

\* accept() has a least descriptor to answer with.
LEMMA LeastOf ==
  ASSUME NEW S \in SUBSET Nat, S # {}
  PROVE  \E m \in S : \A k \in S : m <= k
<1>1. PICK m \in S : \A k \in S : ~(<<k, m>> \in OpToRel(<, Nat))
  BY WFMin, NatLessThanWellFounded, Zenon
<1>2. \A k \in S : ~(k < m)
  BY <1>1 DEF OpToRel
<1>3. QED
  BY <1>2

\* The new descriptor is nobody else's who is held.
LEMMA NewFdIsFree ==
  ASSUME IInv, FreeFds # {}
  PROVE  /\ NewFd \in Fds /\ NewFd # ListenFd
         /\ \A d \in Conns : Held(d) => channel[d].fd # NewFd
<1>1. FreeFds \subseteq 1..limit /\ limit \in 1..MaxFds
  BY Parts DEF FreeFds, TypeOK
<1>2. FreeFds \in SUBSET Nat
  BY <1>1
<1>3. NewFd \in FreeFds
  BY <1>2, LeastOf DEF NewFd
<1>4. NewFd \in Fds /\ NewFd # ListenFd
  BY <1>1, <1>3, ServerAssumption DEF Fds, ListenFd
<1>5. QED
  BY <1>3, <1>4 DEF FreeFds

\* Nothing waits for a connection nobody has seen.
LEMMA NothingWaits ==
  ASSUME IInv, NEW c \in Conns, owner[c] = None
  PROVE  /\ \A op \in Ops, l \in Loops : F(op, c) \notin Pending(l)
         /\ c \notin connections /\ c \notin destroyed
         /\ c \notin overwritten /\ c \notin late /\ ~InCall(c)
         /\ ups[c] = 0 /\ downs[c] = 0 /\ state[c] = "kConnecting"
<1>1. None \notin Loops /\ MainLoop \in Loops
  BY ServerAssumption DEF Loops
<1>2. Life(c) /\ Confined /\ TypeOK
  BY Parts
<1>3. /\ ups[c] = 0 /\ downs[c] = 0 /\ state[c] = "kConnecting" /\ ~InCall(c)
      /\ c \notin connections /\ c \notin destroyed /\ c \notin overwritten /\ c \notin late
  BY <1>2 DEF Life, Place, Unseen, Closed, TypeOK
<1>4. ASSUME NEW op \in Ops, NEW l \in Loops, F(op, c) \in Pending(l) PROVE FALSE
  <2>1. F(op, c).op = op /\ F(op, c).conn = c
    BY FunctorIs
  <2>2. l = IF op = "remove" THEN MainLoop ELSE None
    BY <1>2, <1>4, <2>1 DEF Confined
  <2>3. op = "remove" /\ l = MainLoop
    BY <1>1, <2>2
  <2>4. QED
    BY <1>2, <1>3, <1>4, <2>3 DEF Life, Ended
<1>5. QED
  BY <1>3, <1>4

LEMMA AcceptInv ==
  ASSUME IInv, NEW c \in Conns, Accept(c) PROVE IInv'
<1>0. TypeOK /\ RunInOrder /\ Confined /\ ServerInStep /\ NobodyUsesGone /\ EpollAgrees
      /\ OwnDescriptors
  BY Parts
<1>1. /\ phase[MainLoop] = "events" /\ owner[c] = None /\ FreeFds # {}
      /\ connections' = connections \cup {c}
      /\ UNCHANGED <<pool, limit, ran, phase, quit, batch, peerGone, server,
                     sending, stopping, called, overwritten, late>>
  BY DEF Accept, Accepted, calls
<1>2. PICK l \in Candidates :
        /\ owner' = [owner EXCEPT ![c] = l]
        /\ IF l = MainLoop
           THEN ConnectEstablished(c, NewChannel(NewFd), l) /\ UNCHANGED queue
           ELSE /\ queue' = [queue EXCEPT ![l] = Append(@, F("established", c))]
                /\ channel' = [channel EXCEPT ![c] = NewChannel(NewFd)]
                /\ UNCHANGED <<state, epoller, heard, destroyed>>
  BY DEF Accept
<1>3. l \in Loops /\ MainLoop \in Loops /\ None \notin Loops
  BY <1>0, <1>2, ServerAssumption DEF Candidates, TypeOK, Loops
<1>4. /\ \A op \in Ops, k \in Loops : F(op, c) \notin Pending(k)
      /\ c \notin connections /\ c \notin destroyed
      /\ c \notin overwritten /\ c \notin late /\ ~InCall(c)
      /\ ups[c] = 0 /\ downs[c] = 0 /\ state[c] = "kConnecting"
  BY <1>1, NothingWaits
<1>5. PICK fd : fd = NewFd
  OBVIOUS
<1>6. /\ fd \in Fds /\ fd # ListenFd
      /\ \A d \in Conns : Held(d) => channel[d].fd # fd
  BY <1>1, <1>5, NewFdIsFree
<1> DEFINE ch == NewChannel(fd)
<1>7. ch \in ChannelType /\ ch.fd = fd /\ ch.index = "kNew"
  BY <1>6 DEF NewChannel, ChannelType, Indices, Events
<1> HIDE DEF ch
<1>8. /\ owner' \in [Conns -> Loops \cup {None}]
      /\ owner'[c] = l /\ \A d \in Conns \ {c} : owner'[d] = owner[d]
  BY <1>0, <1>2, <1>3 DEF TypeOK
<1>9. OthersApart(l, c, fd) /\ LateBut(c)
  BY <1>1, <1>3, <1>6, KnownIsHeld DEF OthersApart, LateBut
\* What becomes of the lines, of the channels and of what the user has heard.
<1>10. /\ queue' \in Lines /\ RunInOrder'
       /\ \A k \in Loops : k # l => Pending(k)' = Pending(k)
       /\ Pending(l)' = Pending(l) \cup (IF l = MainLoop THEN {} ELSE {F("established", c)})
       /\ EpollAgrees' /\ ChannelStep(c)
       /\ channel'[c] \in ChannelType /\ channel'[c].fd = fd
       /\ l = MainLoop => channel'[c].index = "kAdded" /\ channel'[c].events = {"read"}
       /\ l # MainLoop => channel'[c].index = "kNew"
       /\ state' \in [Conns -> States]
       /\ state'[c] = (IF l = MainLoop THEN "kConnected" ELSE "kConnecting")
       /\ \A d \in Conns \ {c} : state'[d] = state[d]
       /\ ups' \in [Conns -> Nat]
       /\ ups'[c] = (IF l = MainLoop THEN 1 ELSE 0)
       /\ \A d \in Conns \ {c} : ups'[d] = ups[d]
       /\ UNCHANGED <<downs, destroyed>>
  <2>1. CASE l = MainLoop
    <3>1. ConnectEstablished(c, ch, l) /\ UNCHANGED queue
      BY <1>2, <1>5, <2>1 DEF ch
    <3>2. /\ EpollAgrees' /\ ChannelStep(c)
          /\ channel'[c] \in ChannelType /\ channel'[c].fd = ch.fd
          /\ channel'[c].index = "kAdded" /\ channel'[c].events = {"read"}
      BY <1>0, <1>1, <1>3, <1>7, <1>8, <1>9, <3>1, EstablishedInEpoll
    <3>3. /\ state' \in [Conns -> States]
          /\ state'[c] = "kConnected" /\ \A d \in Conns \ {c} : state'[d] = state[d]
          /\ ups' \in [Conns -> Nat]
          /\ ups'[c] = 1 /\ \A d \in Conns \ {c} : ups'[d] = ups[d]
          /\ UNCHANGED <<downs, destroyed>>
      BY <1>0, <1>4, <3>1 DEF ConnectEstablished, TypeOK, States
    <3>4. (\A k \in Loops : Pending(k)' = Pending(k)) /\ RunInOrder' /\ queue' \in Lines
      BY <1>0, <1>1, <3>1, LinesKept DEF lines, TypeOK, Lines
    <3>5. QED
      BY <1>3, <1>7, <2>1, <3>2, <3>3, <3>4
  <2>2. CASE l # MainLoop
    <3>1. /\ Queues(l, F("established", c))
          /\ channel' = [channel EXCEPT ![c] = ch]
          /\ UNCHANGED <<state, epoller, ups, downs, destroyed>>
      BY <1>2, <1>5, <2>2 DEF ch, Queues, heard
    <3>2. /\ F("established", c) \in Functor
          /\ F("established", c).conn = c
      BY FunctorIs DEF Ops, LifeOps
    <3>3. /\ queue' \in Lines /\ RunInOrder'
          /\ \A k \in Loops : k # l => Pending(k)' = Pending(k)
          /\ Pending(l)' = Pending(l) \cup {F("established", c)}
      <4>1. F("established", c) \notin Pending(l) /\ F("destroyed", c) \notin Pending(l)
        BY <1>3, <1>4 DEF Ops, LifeOps
      <4>2. batch' = batch /\ overwritten \subseteq overwritten'
        BY <1>1
      <4>3. QED
        BY <1>0, <1>3, <3>1, <3>2, <4>1, <4>2, LineQueue
    <3>4. epoller[l] \in EpollerType /\ epoller[l].errors = {}
      BY <1>0, <1>3 DEF TypeOK, EpollAgrees
    <3>5. Becomes(l, c, epoller[l], ch)
      <4>1. epoller' = [epoller EXCEPT ![l] = epoller[l]]
        BY <1>0, <3>1 DEF TypeOK
      <4>2. QED
        BY <3>1, <4>1 DEF Becomes
    <3>6. Knows(epoller[l], c, ch)
      BY <1>0, <1>1, <1>3, <1>7 DEF Knows, EpollAgrees
    <3>7. \A d \in Conns \ {c} : SameFor(d, epoller[l], epoller[l])
      BY DEF SameFor
    <3>8. EpollAgrees' /\ ChannelStep(c) /\ channel'[c] = ch
      BY <1>0, <1>1, <1>3, <1>7, <1>8, <1>9, <3>4, <3>5, <3>6, <3>7, EpollStep
    <3>9. state \in [Conns -> States] /\ ups \in [Conns -> Nat]
      BY <1>0 DEF TypeOK, States
    <3>10. QED
      BY <1>4, <1>7, <2>2, <3>1, <3>3, <3>8, <3>9
  <2>3. QED
    BY <2>1, <2>2
<1>11. TypeOK'
  BY <1>0, <1>1, <1>8, <1>10 DEF TypeOK, Lines, States, ChannelStep
<1>12. /\ F("established", c).conn = c /\ F("established", c).op = "established"
       /\ \A d \in Conns, op \in Ops : F("established", c) = F(op, d) => d = c /\ op = "established"
  BY FunctorIs DEF Ops, LifeOps
<1>13. Confined'
  <2> SUFFICES ASSUME NEW k \in Loops, NEW f \in Pending(k)'
               PROVE  k = IF f.op = "remove" THEN MainLoop ELSE owner'[f.conn]
    BY DEF Confined
  <2>1. CASE f \in Pending(k)
    <3>1. f \in Functor /\ k = IF f.op = "remove" THEN MainLoop ELSE owner[f.conn]
      BY <1>0, <2>1, LineType DEF Confined
    <3>2. f.conn \in Conns /\ f.conn # c
      BY <1>4, <2>1, <3>1, FunctorOf
    <3>3. QED
      BY <1>8, <3>1, <3>2
  <2>2. CASE f \notin Pending(k)
    BY <1>8, <1>10, <1>12, <2>2
  <2>3. QED
    BY <2>1, <2>2
<1>14. ASSUME NEW d \in Conns \ {c} PROVE Untouched(d)
  <2>1. SameFunctors(d)
    BY <1>10, <1>12 DEF SameFunctors
  <2>2. QED
    BY <1>1, <1>8, <1>10, <2>1 DEF Untouched, ChannelStep
<1>15. Life(c)'
  <2>1. /\ \A op \in Ops \ {"established"}, k \in Loops : F(op, c) \notin Pending(k)'
        /\ F("established", c) \in Pending(l)' <=> l # MainLoop
    BY <1>3, <1>4, <1>10, <1>12 DEF Ops, LifeOps
  <2>2. F("destroyed", c) \notin Pending(l)' /\ F("remove", c) \notin Pending(MainLoop)'
    BY <1>3, <2>1 DEF Ops, LifeOps
  <2>3. ~Ending(c)'
    BY <1>8, <2>2 DEF Ending
  <2>4. Place(c)' /\ Announced(c)' /\ Unseen(c)'
    BY <1>1, <1>3, <1>4, <1>8, <1>10, <2>3 DEF Place, Announced, Unseen
  <2>5. Established(c)'
    <3>1. /\ channel'[c] \in ChannelType /\ channel'[c].fd # ListenFd
          /\ downs'[c] = 0
      BY <1>4, <1>6, <1>10
    <3>2. ups'[c] = 0 <=> F("established", c) \in Pending(owner[c])'
      BY <1>8, <1>10, <2>1
    <3>3. QED
      BY <1>8, <1>10, <3>1, <3>2 DEF Established
  <2>6. ~Called(c)'
    <3>1. ~InCall(c)'
      BY <1>1, <1>4 DEF InCall
    <3>2. \A op \in CallOps, k \in Loops : F(op, c) \notin Pending(k)'
      BY <2>1 DEF Ops, LifeOps, CallOps
    <3>3. QED
      BY <3>1, <3>2 DEF Called
  <2>7. Closed(c)'
    BY <1>1, <1>3, <1>4, <1>8, <1>10, <2>6 DEF Closed, Up
  <2>8. Ended(c)'
    BY <1>1, <1>4, <1>10, <2>2, <2>3 DEF Ended
  <2>9. QED
    BY <2>4, <2>5, <2>7, <2>8 DEF Life
<1>16. OwnDescriptors'
  <2>1. ASSUME NEW d \in Conns \ {c}, Held(d)'
        PROVE  Held(d) /\ channel'[d].fd = channel[d].fd
    BY <1>10, <1>11, <1>14, <2>1, HeldKept DEF ChannelStep
  <2> SUFFICES ASSUME NEW d \in Conns, NEW e \in Conns, d # e, Held(d)', Held(e)'
               PROVE  channel'[d].fd # channel'[e].fd
    BY DEF OwnDescriptors
  <2>2. CASE d = c
    BY <1>6, <1>10, <2>1, <2>2
  <2>3. CASE e = c
    BY <1>6, <1>10, <2>1, <2>3
  <2>4. CASE d # c /\ e # c
    BY <1>0, <2>1, <2>4 DEF OwnDescriptors
  <2>5. QED
    BY <2>2, <2>3, <2>4
<1>17. ServerInStep' /\ NobodyUsesGone'
  <2>1. server = "running"
    BY <1>0, <1>1 DEF ServerInStep, TypeOK
  <2>2. QED
    BY <1>0, <1>1, <1>10, <2>1, ServerKept DEF ChannelStep
<1>18. QED
  BY <1>10, <1>11, <1>13, <1>14, <1>15, <1>16, <1>17, StepInv

LEMMA HandleCloseInv ==
  ASSUME IInv, NEW c \in Conns, HandleClose(c) PROVE IInv'
<1>0. TypeOK /\ RunInOrder /\ Confined /\ ServerInStep /\ NobodyUsesGone /\ EpollAgrees
      /\ OwnDescriptors /\ Life(c) /\ MainLoop \in Loops
  BY Parts, OwnerIs
<1>1. PICK l : l = owner[c]
  OBVIOUS
<1>2. /\ Watched(c)
      /\ state' = [state EXCEPT ![c] = "kDisconnected"]
      /\ Update(c, {})
      /\ downs' = [downs EXCEPT ![c] = @ + 1]
      /\ UNCHANGED <<pool, limit, ran, phase, quit, batch, owner, peerGone, ups,
                     destroyed, server, sending, stopping, called, overwritten, late>>
  BY DEF HandleClose, calls
<1>3. IF l = MainLoop
      THEN /\ connections' = connections \ {c}
           /\ queue' = [queue EXCEPT ![MainLoop] = @ \o <<F("destroyed", c)>>]
      ELSE /\ queue' = [queue EXCEPT ![MainLoop] = Append(@, F("remove", c))]
           /\ UNCHANGED connections
  BY <1>1 DEF HandleClose, MapAfterErase, AfterErase
<1>4. /\ l \in Loops /\ l # None /\ phase[l] = "events"
      /\ channel[c] \in ChannelType /\ channel[c].index = "kAdded"
      /\ ups[c] = 1 /\ Held(c) /\ server # "gone"
      /\ channel[c].fd # ListenFd /\ F("established", c) \notin Pending(l)
  BY <1>1, <1>2, WatchedIsUp, CalledIsUp
\* Unless shutdown() made it look open, this is the first the user hears of its
\* end, and connections_ still has it.
<1>5. downs[c] \in Nat /\ (c \notin overwritten => downs[c] = 0)
  BY <1>0, <1>4, OwnerIs DEF Life, Closed
<1>6. c \notin overwritten =>
        /\ F("remove", c) \notin Pending(MainLoop)
        /\ l = MainLoop \/ phase[MainLoop] # "ended" => ~Ending(c)
        /\ phase[MainLoop] # "ended" => c \in connections
  BY <1>0, <1>1, <1>4, <1>5 DEF Life, Ended, Place
<1>7. c \in destroyed => c \in late /\ (l = MainLoop => c \in overwritten)
  BY <1>0, <1>1, <1>4 DEF Life, Ended
<1>8. /\ EpollAgrees' /\ ChannelStep(c)
      /\ channel'[c] \in ChannelType /\ channel'[c].fd = channel[c].fd
      /\ channel'[c].index = "kDeleted"
  <2>1. {} \in SUBSET Events /\ LateBut(c)
    BY <1>2 DEF LateBut
  <2>2. QED
    BY <1>0, <1>1, <1>2, <1>4, <2>1, ChangedInEpoll
<1>9. /\ state' \in [Conns -> States]
      /\ state'[c] = "kDisconnected" /\ \A d \in Conns \ {c} : state'[d] = state[d]
      /\ downs' \in [Conns -> Nat]
      /\ downs'[c] = downs[c] + 1 /\ \A d \in Conns \ {c} : downs'[d] = downs[d]
  BY <1>0, <1>2 DEF TypeOK, States
\* The functor it queues in the main loop.
<1>10. PICK op : op = IF l = MainLoop THEN "destroyed" ELSE "remove"
  OBVIOUS
<1>11. op \in LifeOps /\ op \in Ops /\ op # "established" /\ F(op, c) \in Functor
       /\ F(op, c).op = op /\ F(op, c).conn = c
  BY <1>10, FunctorIs DEF Ops, LifeOps
<1>12. Queues(MainLoop, F(op, c))
  <2>1. CASE l = MainLoop
    <3>1. queue[MainLoop] \in Seq(Functor)
      BY <1>0, LineType
    <3>2. queue[MainLoop] \o <<F(op, c)>> = Append(queue[MainLoop], F(op, c))
      BY <1>11, <3>1
    <3>3. QED
      BY <1>3, <1>10, <2>1, <3>2 DEF Queues
  <2>2. CASE l # MainLoop
    BY <1>3, <1>10, <2>2 DEF Queues
  <2>3. QED
    BY <2>1, <2>2
<1>13. /\ queue' \in Lines
       /\ Pending(MainLoop)' = Pending(MainLoop) \cup {F(op, c)}
       /\ \A k \in Loops : k # MainLoop => Pending(k)' = Pending(k)
       /\ \A d \in Conns \ {c} : SameFunctors(d)
       /\ \A o \in Ops \ {op}, k \in Loops : F(o, c) \in Pending(k)' <=> F(o, c) \in Pending(k)
       /\ RunInOrder' /\ Confined'
  <2>1. Single(F(op, c), overwritten) => F(op, c) \notin Pending(MainLoop)
    <3>1. Single(F(op, c), overwritten) => c \notin overwritten
      BY <1>11 DEF Single
    <3>2. QED
      BY <1>1, <1>4, <1>6, <1>10, <3>1 DEF Ending
  <2>2. MainLoop = IF op = "remove" THEN MainLoop ELSE owner[c]
    BY <1>1, <1>10
  <2>3. UNCHANGED <<batch, owner>> /\ overwritten \subseteq overwritten'
    BY <1>2
  <2>4. QED
    BY <1>0, <1>11, <1>12, <2>1, <2>2, <2>3, FunctorQueued
<1>14. connections' \subseteq connections
       /\ \A d \in Conns \ {c} : d \in connections' <=> d \in connections
  BY <1>3
<1>15. TypeOK'
  BY <1>0, <1>2, <1>8, <1>9, <1>13, <1>14 DEF TypeOK, Lines, States, ChannelStep
<1>16. ASSUME NEW d \in Conns \ {c} PROVE Untouched(d)
  BY <1>2, <1>8, <1>9, <1>13, <1>14 DEF Untouched, ChannelStep
<1>17. Life(c)'
  <2>1. owner'[c] = l /\ owner[c] = l
    BY <1>1, <1>2
  <2>2. /\ F("established", c) \notin Pending(l)'
        /\ l = MainLoop => /\ Ending(c)' /\ c \notin connections'
                           /\ F("remove", c) \in Pending(MainLoop)' => F("remove", c) \in Pending(MainLoop)
        /\ l # MainLoop => /\ Ending(c)' <=> Ending(c)
                           /\ c \in connections' <=> c \in connections
    <3>1. F("established", c) \notin Pending(l)'
      BY <1>4, <1>11, <1>13 DEF Ops, LifeOps
    <3>2. CASE l = MainLoop
      BY <1>0, <1>3, <1>4, <1>10, <1>13, <2>1, <3>1, <3>2 DEF Ending, Ops, LifeOps
    <3>3. CASE l # MainLoop
      <4>1. Pending(l)' = Pending(l)
        BY <1>4, <1>13, <3>3
      <4>2. QED
        BY <1>3, <2>1, <3>1, <3>3, <4>1 DEF Ending
    <3>4. QED
      BY <3>2, <3>3
  <2>3. Place(c)'
    BY <1>0, <1>2, <1>4, <1>7, <2>1, <2>2 DEF Life, Place
  <2>4. Announced(c)' /\ Unseen(c)'
    BY <1>2, <1>4, <1>5, <1>9, <2>1 DEF Announced, Unseen
  <2>5. Established(c)' /\ Closed(c)'
    BY <1>2, <1>4, <1>5, <1>8, <1>9, <2>1, <2>2 DEF Established, Closed, Up
  <2>6. Ended(c)'
    <3>1. downs'[c] > 0
      BY <1>5, <1>9
    <3>2. c \in late' /\ owner'[c] = MainLoop => c \in overwritten'
      BY <1>0, <1>2 DEF Life, Ended
    <3>3. F("remove", c) \in Pending(MainLoop)' =>
            (c \notin overwritten' /\ phase'[MainLoop] # "ended" => c \in connections')
      BY <1>2, <1>6, <2>2
    <3>4. QED
      BY <1>2, <1>7, <3>1, <3>2, <3>3 DEF Ended
  <2>7. QED
    BY <2>3, <2>4, <2>5, <2>6 DEF Life
<1>18. OwnDescriptors'
  BY <1>0, <1>4, <1>8, <1>15, <1>16, DescriptorsStay
<1>19. ServerInStep' /\ NobodyUsesGone'
  BY <1>0, <1>2, <1>4, <1>8, <1>14, ServerKept DEF ChannelStep
<1>20. QED
  BY <1>8, <1>13, <1>15, <1>16, <1>17, <1>18, <1>19, StepInv

(***************************************************************************)
(* How a connection ends.                                                  *)
(***************************************************************************)

\* What connectDestroyed leaves.
DestroyedStep(c) ==
  /\ EpollAgrees' /\ ChannelStep(c) /\ channel'[c].fd = channel[c].fd
  /\ state' \in [Conns -> States]
  /\ downs' \in [Conns -> Nat]
  /\ \A d \in Conns \ {c} : state'[d] = state[d] /\ downs'[d] = downs[d]
  /\ destroyed' = destroyed \cup {c} /\ ups' = ups

\* connectDestroyed of a connection that was established, from a functor or in
\* ~TcpServer.
LEMMA DestroyedLife ==
  ASSUME IInv, NEW c \in Conns, ups[c] = 1, Held(c),
         ConnectDestroyed(c),
         UNCHANGED <<owner, phase, peerGone, sending, stopping, overwritten, late>>,
         c \notin connections', phase[MainLoop] = "ended" \/ (Ending(c) /\ c \notin connections),
         F("destroyed", c) \in Pending(owner[c])' => c \in overwritten,
         \A o \in Ops \ {"destroyed"}, l \in Loops :
           F(o, c) \in Pending(l)' <=> F(o, c) \in Pending(l)
  PROVE  Life(c)' /\ DestroyedStep(c)
<1>1. TypeOK /\ EpollAgrees /\ Life(c) /\ MainLoop \in Loops /\ downs[c] \in Nat
  BY Parts, OwnerIs
<1>2. /\ owner[c] \in Loops /\ owner[c] # None
      /\ channel[c] \in ChannelType /\ channel[c].fd # ListenFd
      /\ F("established", c) \notin Pending(owner[c])
  BY CalledIsUp
<1>3. /\ state[c] \in {"kConnected", "kDisconnecting", "kDisconnected"}
      /\ TellsDown(c) => /\ channel[c].index = "kAdded" /\ downs[c] = 0
                         /\ c \notin overwritten
      /\ ~TellsDown(c) => downs[c] > 0 \/ state[c] = "kDisconnecting"
  BY <1>1 DEF Life, Closed, Up, TypeOK, TellsDown
<1>4. /\ EpollAgrees' /\ ChannelStep(c)
      /\ channel'[c] \in ChannelType /\ channel'[c].fd = channel[c].fd
      /\ channel'[c].index = "kNew"
  <2>1. OthersApart(owner[c], c, channel[c].fd)
    BY <1>2, HeldApart
  <2>2. state[c] = "kConnected" => channel[c].index = "kAdded"
    BY <1>3 DEF TellsDown
  <2>3. QED
    BY <1>1, <1>2, <2>1, <2>2, DestroyedInEpoll
<1>5. /\ state' \in [Conns -> States]
      /\ downs' \in [Conns -> Nat]
      /\ \A d \in Conns \ {c} : state'[d] = state[d] /\ downs'[d] = downs[d]
      /\ TellsDown(c) => state'[c] = "kDisconnected" /\ downs'[c] = 1
      /\ ~TellsDown(c) => state'[c] = state[c] /\ downs'[c] = downs[c]
      /\ destroyed' = destroyed \cup {c} /\ ups' = ups
  <2>1. /\ IF TellsDown(c)
           THEN /\ state' = [state EXCEPT ![c] = "kDisconnected"]
                /\ downs' = [downs EXCEPT ![c] = @ + 1]
           ELSE UNCHANGED <<state, downs>>
        /\ destroyed' = destroyed \cup {c} /\ ups' = ups
    BY DEF ConnectDestroyed
  <2>2. state \in [Conns -> States] /\ downs \in [Conns -> Nat]
    BY <1>1 DEF TypeOK, States
  <2>3. CASE TellsDown(c)
    <3>1. /\ state' = [state EXCEPT ![c] = "kDisconnected"]
          /\ downs' = [downs EXCEPT ![c] = 1]
      BY <1>3, <2>1, <2>3
    <3>2. QED
      BY <2>1, <2>2, <2>3, <3>1 DEF States
  <2>4. CASE ~TellsDown(c)
    BY <2>1, <2>2, <2>4
  <2>5. QED
    BY <2>3, <2>4
<1>6. /\ F("established", c) \notin Pending(owner[c])'
      /\ F("remove", c) \in Pending(MainLoop)' <=> F("remove", c) \in Pending(MainLoop)
      /\ Called(c)' <=> Called(c)
  <2>1. F("established", c) \notin Pending(owner[c])'
    BY <1>2 DEF Ops, LifeOps
  <2>2. F("remove", c) \in Pending(MainLoop)' <=> F("remove", c) \in Pending(MainLoop)
    BY <1>1 DEF Ops, LifeOps
  <2>3. Called(c)' <=> Called(c)
    <3>1. InCall(c)' <=> InCall(c)
      BY DEF InCall
    <3>2. \A op \in CallOps, l \in Loops : F(op, c) \in Pending(l)' <=> F(op, c) \in Pending(l)
      BY DEF Ops, CallOps
    <3>3. QED
      BY <3>1, <3>2 DEF Called
  <2>4. QED
    BY <2>1, <2>2, <2>3
<1>7. Life(c)'
  <2>1. Ending(c)' => c \in overwritten
    BY DEF Ending
  <2>2. Place(c)' /\ Unseen(c)'
    BY <1>2, <1>5, <2>1 DEF Place, Unseen
  <2>3. Announced(c)'
    BY <1>1, <1>3, <1>5 DEF Life, Announced
  <2>4. Established(c)'
    BY <1>2, <1>4, <1>5, <1>6 DEF Established
  <2>5. Closed(c)'
    BY <1>1, <1>3, <1>4, <1>5, <1>6 DEF Life, Closed, Up, TellsDown
  <2>6. Ended(c)'
    <3>1. downs[c] > 0 => downs'[c] > 0
      BY <1>1, <1>5
    <3>2. phase[MainLoop] # "ended" => downs[c] > 0
      BY <1>1 DEF Life, Ended
    <3>3. c \in overwritten => downs[c] > 0
      BY <1>1 DEF Life, Closed
    <3>4. F("remove", c) \in Pending(MainLoop)' =>
            downs[c] > 0 /\ (c \in overwritten \/ phase[MainLoop] = "ended")
      BY <1>1, <1>6 DEF Life, Ended
    <3>5. c \in late /\ owner[c] = MainLoop => c \in overwritten
      BY <1>1 DEF Life, Ended
    <3>6. QED
      BY <1>4, <2>1, <3>1, <3>2, <3>3, <3>4, <3>5 DEF Ended
  <2>7. QED
    BY <2>2, <2>3, <2>4, <2>5, <2>6 DEF Life
<1>8. QED
  BY <1>4, <1>5, <1>7 DEF DestroyedStep

LEMMA RunDestroyedInv ==
  ASSUME IInv, NEW h \in Loops, RunDestroyed(h) PROVE IInv'
<1>0. PICK c : c = Head(batch[h]).conn
  OBVIOUS
<1>1. TypeOK /\ RunInOrder /\ ServerInStep /\ NobodyUsesGone /\ OwnDescriptors
  BY Parts
<1>2. /\ NextFunctor(h, "destroyed")
      /\ ConnectDestroyed(c)
      /\ UNCHANGED <<pool, limit, phase, quit, queue, owner, connections, peerGone, server,
                     sending, stopping, called, overwritten, late>>
  BY <1>0 DEF RunDestroyed, calls
<1>3. /\ c \in Conns /\ F("destroyed", c) \in Pending(h) /\ phase[h] = "functors"
      /\ Waiting(h) # <<>> /\ Head(Waiting(h)) = F("destroyed", c)
      /\ h = owner[c]
      /\ batch' \in Lines /\ ran' \in [Loops -> SUBSET Conns]
      /\ TakenOut(h, F("destroyed", c))
      /\ \A l \in Loops : l # h => batch'[l] = batch[l]
      /\ \A d \in Conns \ {c} : SameFunctors(d) /\ \A l \in Loops : d \in ran'[l] => d \in ran[l]
      /\ \A o \in Ops \ {"destroyed"}, l \in Loops :
           F(o, c) \in Pending(l)' <=> F(o, c) \in Pending(l)
      /\ RunInOrder' /\ Confined'
  <2>1. "destroyed" \in Ops
    BY DEF Ops, LifeOps
  <2>2. QED
    BY <1>0, <1>2, <2>1, FunctorTaken
<1>4. Life(c) /\ owner[c] # None /\ Held(c) /\ ups[c] \in Nat
  BY <1>1, <1>3, Parts, OwnerIs, HeldBy DEF Ops, LifeOps
<1>5. F("established", c) \notin Pending(h)
  BY <1>1, <1>3, LineType, EstablishedFirst DEF RunInOrder, Pending
<1>6. ups[c] = 1 /\ Ending(c) /\ c \notin connections
  BY <1>3, <1>4, <1>5 DEF Life, Place, Established, Announced, Ending
<1>7. F("destroyed", c) \in Pending(owner[c])' => c \in overwritten
  <2>1. F("destroyed", c).op = "destroyed" /\ F("destroyed", c).conn = c
    BY <1>3, FunctorIs DEF Ops, LifeOps
  <2>2. QED
    BY <1>2, <1>3, <2>1 DEF TakenOut, Single, LifeOps
<1>8. Life(c)' /\ DestroyedStep(c)
  BY <1>2, <1>3, <1>4, <1>6, <1>7, DestroyedLife
<1>9. TypeOK'
  <2>1. late' \subseteq destroyed'
    BY <1>1, <1>2, <1>8 DEF TypeOK, DestroyedStep
  <2>2. QED
    BY <1>1, <1>2, <1>3, <1>8, <2>1 DEF TypeOK, Lines, States, DestroyedStep, ChannelStep
<1>10. ASSUME NEW d \in Conns \ {c} PROVE Untouched(d)
  BY <1>2, <1>3, <1>8 DEF Untouched, DestroyedStep, ChannelStep
<1>11. ServerInStep' /\ NobodyUsesGone'
  <2>1. server # "gone" /\ \A l \in Loops : phase[l] = "events" => batch'[l] = batch[l]
    BY <1>1, <1>3 DEF NobodyUsesGone
  <2>2. QED
    BY <1>1, <1>2, <1>8, <2>1, ServerKept DEF DestroyedStep, ChannelStep
<1>12. OwnDescriptors'
  BY <1>1, <1>4, <1>8, <1>9, <1>10, DescriptorsStay DEF DestroyedStep
<1>13. QED
  BY <1>3, <1>8, <1>9, <1>10, <1>11, <1>12, StepInv DEF DestroyedStep

LEMMA RunRemoveInv ==
  ASSUME IInv, RunRemove PROVE IInv'
<1>0. PICK c : c = Head(batch[MainLoop]).conn
  OBVIOUS
<1>1. TypeOK /\ RunInOrder /\ Confined /\ ServerInStep /\ NobodyUsesGone /\ OwnDescriptors
      /\ EpollAgrees /\ MainLoop \in Loops
  BY Parts DEF Loops
<1>2. /\ NextFunctor(MainLoop, "remove")
      /\ connections' = connections \ {c}
      /\ queue' = [queue EXCEPT ![owner[c]] = @ \o <<F("destroyed", c)>>]
      /\ UNCHANGED <<pool, limit, phase, quit, owner, state, channel, epoller, peerGone,
                     ups, downs, destroyed, server, sending, stopping, called, overwritten, late>>
  BY <1>0 DEF RunRemove, MapAfterErase, HomeOf, AfterErase, connVars, heard, calls
<1>3. /\ phase[MainLoop] = "functors" /\ batch[MainLoop] # <<>>
      /\ Head(batch[MainLoop]).op = "remove"
      /\ Takes(MainLoop)
      /\ ran' = [ran EXCEPT ![MainLoop] = @ \cup {c}]
  BY <1>0, <1>2 DEF NextFunctor, Takes, LifeOps
<1>4. Head(batch[MainLoop]) \in Functor /\ Head(batch[MainLoop]) \in Pending(MainLoop)
  <2>1. batch[MainLoop] \in Seq(Functor) /\ queue[MainLoop] \in Seq(Functor)
    BY <1>1, LineType
  <2>2. Waiting(MainLoop) # <<>> /\ Head(Waiting(MainLoop)) = Head(batch[MainLoop])
    BY <1>3, <2>1, ConcatTail DEF Waiting
  <2>3. InOrder(Waiting(MainLoop), overwritten) /\ Waiting(MainLoop) \in Seq(Functor)
    BY <1>1, LineType DEF RunInOrder
  <2>4. QED
    BY <2>2, <2>3, TailOfLine DEF Pending
<1>5. c \in Conns /\ Head(batch[MainLoop]) = F("remove", c)
  BY <1>0, <1>3, <1>4, FunctorOf
<1>6. /\ F("destroyed", c) \in Functor /\ F("destroyed", c).op = "destroyed"
      /\ F("destroyed", c).conn = c
      /\ F("remove", c) \in Functor /\ F("remove", c).op = "remove"
      /\ F("remove", c).conn = c
  BY <1>5, FunctorIs DEF Ops, LifeOps
<1>7. Life(c) /\ Held(c) /\ ups[c] \in Nat
  BY <1>1, <1>4, <1>5, Parts, OwnerIs, HeldBy DEF Ops, LifeOps
<1>8. downs[c] > 0 /\ ups[c] = 1 /\ (c \notin overwritten => c \in connections)
  BY <1>3, <1>4, <1>5, <1>7 DEF Life, Ended, Announced
<1>9. /\ owner[c] # None /\ owner[c] \in Loops
      /\ F("established", c) \notin Pending(owner[c])
      /\ c \notin overwritten => c \notin destroyed /\ F("destroyed", c) \notin Pending(owner[c])
  BY <1>5, <1>7, <1>8, CalledIsUp DEF Life, Place, Ending
<1>10. Queues(owner[c], F("destroyed", c))
  <2>1. queue[owner[c]] \in Seq(Functor)
    BY <1>1, <1>9, LineType
  <2>2. queue[owner[c]] \o <<F("destroyed", c)>> = Append(queue[owner[c]], F("destroyed", c))
    BY <1>6, <2>1
  <2>3. QED
    BY <1>2, <2>2 DEF Queues
<1>11. /\ batch' \in Lines /\ queue' \in Lines
       /\ Moved(MainLoop, F("remove", c), owner[c], F("destroyed", c))
       /\ F("destroyed", c) \in Pending(owner[c])'
       /\ RunInOrder'
  <2>1. Single(F("destroyed", c), overwritten) => F("destroyed", c) \notin Pending(owner[c])
    BY <1>6, <1>9 DEF Single
  <2>2. overwritten' = overwritten
    BY <1>2
  <2>3. PICK h \in Loops, g \in Functor : h = owner[c] /\ g = F("destroyed", c)
    BY <1>6, <1>9
  <2>4. /\ batch' \in Lines /\ queue' \in Lines
        /\ Moved(MainLoop, Head(batch[MainLoop]), h, g)
        /\ g \in Pending(h)'
        /\ RunInOrder'
    <3>1. /\ Single(g, overwritten) => g \notin Pending(h)
          /\ g.op = "destroyed" /\ Queues(h, g)
      BY <1>6, <1>10, <2>1, <2>3
    <3>2. QED
      BY <1>1, <1>3, <2>2, <3>1, LineRemove
  <2>5. Moved(MainLoop, F("remove", c), h, g)
    BY <1>5, <2>4
  <2>6. owner'[c] = h
    BY <1>2, <2>3
  <2>7. QED
    BY <2>3, <2>4, <2>5, <2>6
<1>12. TypeOK'
  <2>1. ran' \in [Loops -> SUBSET Conns]
    BY <1>1, <1>3, <1>5 DEF TypeOK
  <2>2. QED
    BY <1>1, <1>2, <1>11, <2>1 DEF TypeOK, Lines
<1>13. Confined'
  <2> SUFFICES ASSUME NEW l \in Loops, NEW f \in Pending(l)'
               PROVE  l = IF f.op = "remove" THEN MainLoop ELSE owner'[f.conn]
    BY DEF Confined
  <2>1. f \in Functor
    BY <1>11, LineTypeNext
  <2>2. f \in Pending(l) \/ (l = owner[c] /\ f = F("destroyed", c))
    BY <1>4, <1>5, <1>11, <2>1 DEF Moved
  <2>3. QED
    BY <1>1, <1>2, <1>6, <2>2 DEF Confined
<1>14. ASSUME NEW d \in Conns, NEW o \in Ops, d # c \/ o \notin {"remove", "destroyed"},
              NEW l \in Loops
       PROVE  F(o, d) \in Pending(l)' <=> F(o, d) \in Pending(l)
  <2>1. /\ F(o, d) \in Functor
        /\ F(o, d) # F("remove", c) /\ F(o, d) # F("destroyed", c)
    BY <1>6, <1>14, FunctorIs
  <2>2. QED
    BY <1>11, <2>1 DEF Moved
<1>15. ASSUME NEW d \in Conns \ {c} PROVE Untouched(d)
  <2>1. SameFunctors(d)
    BY <1>14 DEF SameFunctors
  <2>2. \A l \in Loops : d \in ran'[l] => d \in ran[l]
    BY <1>1, <1>3 DEF TypeOK
  <2>3. QED
    BY <1>2, <2>1, <2>2 DEF Untouched
<1>16. Life(c)'
  <2>1. F("remove", c) \in Pending(MainLoop)' => c \in overwritten
    BY <1>6, <1>11 DEF Moved, Single, LifeOps
  <2>2. F("established", c) \notin Pending(owner[c])'
    BY <1>2, <1>5, <1>9, <1>14 DEF Ops, LifeOps
  <2>3. Ending(c)' /\ c \notin connections'
    BY <1>2, <1>9, <1>11 DEF Ending
  <2>4. Called(c)' <=> Called(c)
    <3>1. InCall(c)' <=> InCall(c)
      BY <1>2 DEF InCall
    <3>2. \A op \in CallOps, l \in Loops : F(op, c) \in Pending(l)' <=> F(op, c) \in Pending(l)
      BY <1>5, <1>14 DEF Ops, CallOps
    <3>3. QED
      BY <3>1, <3>2 DEF Called
  <2>5. Place(c)' /\ Announced(c)' /\ Unseen(c)'
    BY <1>2, <1>7, <1>9, <2>3 DEF Life, Place, Announced, Unseen
  <2>6. Established(c)'
    BY <1>2, <1>7, <1>8, <2>2 DEF Life, Established
  <2>7. Closed(c)'
    BY <1>2, <1>7, <2>4 DEF Life, Closed, Up
  <2>8. Ended(c)'
    BY <1>2, <1>7, <1>8, <2>1 DEF Life, Ended
  <2>9. QED
    BY <2>5, <2>6, <2>7, <2>8 DEF Life
<1>17. EpollAgrees'
  BY <1>1, <1>2, EpollKept
<1>18. OwnDescriptors'
  BY <1>1, <1>2, <1>7, <1>12, <1>15, DescriptorsStay
<1>19. ServerInStep' /\ NobodyUsesGone'
  <2>1. server # "gone"
    BY <1>1, <1>3 DEF NobodyUsesGone
  <2>2. \A l \in Loops : phase[l] = "events" => batch'[l] = batch[l]
    BY <1>1, <1>3 DEF TypeOK, Takes
  <2>3. QED
    BY <1>1, <1>2, <2>1, <2>2, ServerKept
<1>20. QED
  BY <1>11, <1>12, <1>13, <1>15, <1>16, <1>17, <1>18, <1>19, StepInv

LEMMA DtorDestroysInv ==
  ASSUME IInv, NEW c \in Conns, DtorDestroys(c) PROVE IInv'
<1>0. TypeOK /\ RunInOrder /\ Confined /\ ServerInStep /\ NobodyUsesGone /\ OwnDescriptors
      /\ EpollAgrees /\ MainLoop \in Loops /\ Life(c)
  BY Parts DEF Loops
<1>1. /\ server = "dtor" /\ c \in connections /\ connections' = connections \ {c}
      /\ UNCHANGED <<pool, limit, ran, phase, quit, batch, owner, peerGone, server,
                     sending, stopping, called, overwritten, late>>
  BY DEF DtorDestroys, MapAfterErase, calls
<1>2. phase[MainLoop] = "ended" /\ Held(c)
  BY <1>0, <1>1, HeldBy DEF ServerInStep
<1>3. /\ owner[c] # None /\ owner[c] \in Loops /\ c \notin destroyed
      /\ F("destroyed", c) \notin Pending(owner[c])
  BY <1>0, <1>1, OwnerIs DEF Life, Place, Ending
<1>4. CASE owner[c] = MainLoop
  <2>1. ConnectDestroyed(c) /\ UNCHANGED queue
    BY <1>4 DEF DtorDestroys, HomeOf
  <2>2. (\A l \in Loops : Pending(l)' = Pending(l)) /\ RunInOrder'
    BY <1>0, <1>1, <2>1, LinesKept DEF lines
  <2>3. ups[c] = 1
    BY <1>0, <1>3, <1>4, OwnerIs DEF Life, Established, Announced
  <2>4. Life(c)' /\ DestroyedStep(c)
    <3>1. F("destroyed", c) \notin Pending(owner[c])'
      BY <1>1, <1>3, <2>2
    <3>2. QED
      BY <1>1, <1>2, <2>1, <2>2, <2>3, <3>1, DestroyedLife
  <2>5. TypeOK'
    <3>1. late' \subseteq destroyed'
      BY <1>0, <1>1, <2>4 DEF TypeOK, DestroyedStep
    <3>2. QED
      BY <1>0, <1>1, <2>1, <2>4, <3>1 DEF TypeOK, States, DestroyedStep, ChannelStep
  <2>6. ASSUME NEW d \in Conns \ {c} PROVE Untouched(d)
    <3>1. SameFunctors(d)
      BY <2>2 DEF SameFunctors
    <3>2. QED
      BY <1>1, <2>4, <3>1 DEF Untouched, DestroyedStep, ChannelStep
  <2>7. Confined'
    BY <1>0, <1>1, <2>2, ConfinedKept
  <2>8. ServerInStep' /\ NobodyUsesGone'
    BY <1>0, <1>1, <2>4, ServerKept DEF DestroyedStep, ChannelStep
  <2>9. OwnDescriptors'
    BY <1>0, <1>2, <2>4, <2>5, <2>6, DescriptorsStay DEF DestroyedStep
  <2>10. QED
    BY <2>2, <2>4, <2>5, <2>6, <2>7, <2>8, <2>9, StepInv DEF DestroyedStep
<1>5. CASE owner[c] # MainLoop
  <2>1. PICK l \in Loops : l = owner[c]
    BY <1>3
  <2>2. /\ Queues(l, F("destroyed", c))
        /\ UNCHANGED <<state, channel, epoller, ups, downs, destroyed>>
    BY <1>5, <2>1 DEF DtorDestroys, HomeOf, Queues, connVars, heard
  <2>3. "destroyed" \in Ops
    BY DEF Ops, LifeOps
  <2>4. /\ queue' \in Lines
        /\ Pending(l)' = Pending(l) \cup {F("destroyed", c)}
        /\ \A d \in Conns \ {c} : SameFunctors(d)
        /\ \A o \in Ops \ {"destroyed"}, k \in Loops :
             F(o, c) \in Pending(k)' <=> F(o, c) \in Pending(k)
        /\ RunInOrder' /\ Confined'
    <3>1. UNCHANGED <<batch, owner>> /\ overwritten \subseteq overwritten'
      BY <1>1
    <3>2. QED
      BY <1>3, <2>1, <2>2, <2>3, <3>1, FunctorQueued
  <2>5. TypeOK'
    BY <1>0, <1>1, <2>2, <2>4 DEF TypeOK, Lines
  <2>6. ASSUME NEW d \in Conns \ {c} PROVE Untouched(d)
    BY <1>1, <2>2, <2>4 DEF Untouched
  <2>7. Life(c)'
    <3>1. /\ F("established", c) \in Pending(owner[c])' <=> F("established", c) \in Pending(owner[c])
          /\ F("remove", c) \in Pending(MainLoop)' <=> F("remove", c) \in Pending(MainLoop)
      BY <1>0, <1>1, <1>3, <2>4 DEF Ops, LifeOps
    <3>2. Called(c)' <=> Called(c)
      <4>1. InCall(c)' <=> InCall(c)
        BY <1>1 DEF InCall
      <4>2. \A op \in CallOps, k \in Loops : F(op, c) \in Pending(k)' <=> F(op, c) \in Pending(k)
        BY <2>4 DEF Ops, CallOps
      <4>3. QED
        BY <4>1, <4>2 DEF Called
    <3>3. Ending(c)'
      BY <1>1, <1>3, <2>1, <2>4 DEF Ending
    <3>4. Place(c)' /\ Announced(c)' /\ Unseen(c)'
      BY <1>0, <1>1, <1>3, <2>2, <3>3 DEF Life, Place, Announced, Unseen, InCall
    <3>5. Established(c)'
      BY <1>0, <1>1, <2>2, <3>1 DEF Life, Established
    <3>6. Closed(c)'
      BY <1>0, <1>1, <2>2, <3>2 DEF Life, Closed, Up
    <3>7. Ended(c)'
      BY <1>0, <1>1, <1>2, <1>5, <2>2, <3>1 DEF Life, Ended
    <3>8. QED
      BY <3>4, <3>5, <3>6, <3>7 DEF Life
  <2>8. EpollAgrees'
    BY <1>0, <1>1, <2>2, EpollKept
  <2>9. ServerInStep' /\ NobodyUsesGone'
    BY <1>0, <1>1, <2>2, ServerKept
  <2>10. OwnDescriptors'
    BY <1>0, <1>2, <2>2, <2>5, <2>6, DescriptorsStay
  <2>11. QED
    BY <2>4, <2>5, <2>6, <2>7, <2>8, <2>9, <2>10, StepInv
<1>6. QED
  BY <1>4, <1>5

\* When ~TcpServer has emptied connections_, no connection is left in the main
\* loop's epoll, but one that was put back after it had been closed.
LEMMA MainIsEmptied ==
  ASSUME IInv, connections = {}, NEW c \in Conns, c \in epoller[MainLoop].kernel
  PROVE  c \in overwritten
<1>1. TypeOK /\ EpollAgrees /\ Life(c) /\ MainLoop \in Loops
  BY Parts, OwnerIs
<1>2. owner[c] = MainLoop /\ channel[c].index = "kAdded" /\ owner[c] # None
  BY <1>1, OwnerIs DEF EpollAgrees
<1>3. ups[c] = 1
  BY <1>1, <1>2, OwnerIs DEF Life, Established, Announced
<1>4. CASE c \in destroyed
  BY <1>1, <1>2, <1>4 DEF Life, Ended
<1>5. CASE c \notin destroyed
  <2>1. Ending(c)
    BY <1>1, <1>2, <1>5 DEF Life, Place
  <2>2. downs[c] > 0
    BY <1>1, <1>2, <2>1 DEF Life, Ended
  <2>3. QED
    BY <1>1, <1>2, <2>2 DEF Life, Closed
<1>6. QED
  BY <1>4, <1>5

LEMMA ListeningType ==
  /\ Listening \in ChannelType /\ Listening.index = "kNew" /\ Listening.fd = ListenFd
  /\ UpdatedChannel(Listening) \in ChannelType
  /\ UpdatedChannel(Listening).index = "kAdded"
  /\ UpdatedChannel(Listening).fd = ListenFd
<1>1. ListenFd \in Fds
  BY ServerAssumption DEF ListenFd, Fds
<1>2. NewChannel(ListenFd) \in ChannelType
      /\ NewChannel(ListenFd).index = "kNew" /\ NewChannel(ListenFd).fd = ListenFd
  BY <1>1 DEF NewChannel, ChannelType, Indices, Events
<1>3. /\ Listening \in ChannelType /\ Listening.index = "kNew"
      /\ Listening.fd = ListenFd /\ Listening.events = {"read"}
  BY <1>2, WithEventsType DEF Listening, Events
<1>4. QED
  BY <1>3, UpdatedChannelType DEF IndexAfterUpdate

LEMMA DtorEndsInv ==
  ASSUME IInv, DtorEnds PROVE IInv'
<1>0. TypeOK /\ RunInOrder /\ Confined /\ EpollAgrees /\ ServerInStep /\ OwnDescriptors
  BY Parts
<1>1. /\ server = "joining" /\ \A l \in pool : phase[l] = "ended"
      /\ server' = "gone"
      /\ UNCHANGED <<pool, limit, phase, quit, queue, batch, ran, owner, connections, state,
                     peerGone, ups, downs, destroyed, sending, stopping, called,
                     overwritten, late>>
  BY DEF DtorEnds, Joined, loopVars, heard, calls
<1>2. /\ connections = {} /\ phase[MainLoop] = "ended" /\ MainLoop \in Loops
      /\ channel[Acceptor] = UpdatedChannel(Listening)
      /\ Acceptor \in epoller[MainLoop].kernel
      /\ epoller[MainLoop] \in EpollerType /\ epoller[MainLoop].errors = {}
      /\ Acceptor \in Channels
  BY <1>0, <1>1 DEF ServerInStep, Loops, TypeOK, Channels, EpollAgrees
<1> DEFINE old == epoller[MainLoop]
           was == channel[Acceptor]
           off == Disabled(old, Acceptor, was)
           mid == off.ep
           ch == off.ch
           gone == Forgotten(mid, Acceptor, ch)
           ep == gone.ep
           new == gone.ch
<1>3. /\ was \in ChannelType /\ was.index = "kAdded" /\ was.fd = ListenFd
      /\ Acceptor \in old.kernel /\ old \in EpollerType /\ old.errors = {}
  BY <1>2, ListeningType
<1>4. /\ channel' = [channel EXCEPT ![Acceptor] = new]
      /\ epoller' = [epoller EXCEPT ![MainLoop] = ep]
  BY DEF DtorEnds, AcceptorEnds
<1> HIDE DEF old, was
<1>5. /\ mid \in EpollerType /\ ch \in ChannelType
      /\ mid.kernel = old.kernel \ {Acceptor}
      /\ mid.channels = old.channels
      /\ mid.errors = {}
      /\ ch.index = "kDeleted" /\ ch.fd = ListenFd
  BY <1>2, <1>3, DisabledChannel
<1> HIDE DEF off, mid, ch
<1>6. /\ ep \in EpollerType /\ new \in ChannelType
      /\ ep.kernel = mid.kernel \ {Acceptor}
      /\ ep.channels = [mid.channels EXCEPT ![ch.fd] = NoChannel]
      /\ ep.errors = mid.errors
  <2>1. ch.index = "kAdded" <=> Acceptor \in mid.kernel
    BY <1>5
  <2>2. QED
    BY <1>2, <1>5, <2>1, ForgottenChannel
<1> HIDE DEF gone, ep, new
<1>7. /\ channel' \in [Channels -> ChannelType \cup {None}]
      /\ epoller' \in [Loops -> EpollerType]
      /\ \A d \in Conns : channel'[d] = channel[d]
      /\ epoller'[MainLoop] = ep
      /\ \A l \in Loops : l # MainLoop => epoller'[l] = epoller[l]
  BY <1>0, <1>2, <1>4, <1>6, ServerAssumption DEF TypeOK, Channels
<1>8. TypeOK'
  BY <1>0, <1>1, <1>7 DEF TypeOK
<1>9. ep.kernel = old.kernel \ {Acceptor}
  BY <1>5, <1>6
<1>10. ASSUME NEW d \in Conns PROVE SameFor(d, ep, old)
  <2>1. d # Acceptor /\ NoChannel # d
    BY ServerAssumption, ChannelAssumption DEF Channels
  <2>2. old.channels[ListenFd] # d
    <3>1. ListenFd \in Fds
      BY ServerAssumption DEF Fds, ListenFd
    <3>2. old.channels[ListenFd] = d => owner[d] = MainLoop /\ channel[d].fd = ListenFd
      BY <1>0, <1>2, <3>1 DEF EpollAgrees, old
    <3>3. owner[d] # None => channel[d].fd # ListenFd
      BY Parts DEF Life, Established
    <3>4. QED
      BY <1>0, <3>2, <3>3, OwnerIs
  <2>3. \A f \in Fds : ep.channels[f] = (IF f = ListenFd THEN NoChannel ELSE old.channels[f])
    BY <1>3, <1>5, <1>6 DEF EpollerType
  <2>4. QED
    BY <1>9, <2>1, <2>2, <2>3 DEF SameFor
<1>11. EpollAgrees'
  <2>1. ASSUME NEW l \in Loops, NEW d \in Conns
        PROVE  SameFor(d, epoller'[l], epoller[l])
    <3>1. CASE l = MainLoop
      BY <1>7, <1>10, <3>1 DEF old
    <3>2. CASE l # MainLoop
      BY <1>7, <3>2 DEF SameFor
    <3>3. QED
      BY <3>1, <3>2
  <2>2. \A l \in Loops : epoller'[l].errors = {}
    BY <1>0, <1>5, <1>6, <1>7 DEF EpollAgrees
  <2>3. QED
    BY <1>0, <1>1, <1>7, <2>1, <2>2 DEF EpollAgrees, SameFor
<1>12. (\A l \in Loops : Pending(l)' = Pending(l)) /\ RunInOrder'
  BY <1>0, <1>1, LinesKept DEF lines
<1>13. Confined'
  BY <1>0, <1>1, <1>12, ConfinedKept
<1>14. ASSUME NEW d \in Conns PROVE Untouched(d)
  <2>1. SameFunctors(d)
    BY <1>12 DEF SameFunctors
  <2>2. QED
    BY <1>1, <1>7, <2>1 DEF Untouched
<1>15. OwnDescriptors'
  BY <1>0, <1>8, <1>14, DescriptorsStay
<1>16. ServerInStep'
  BY <1>0, <1>1 DEF ServerInStep
<1>17. NobodyUsesGone'
  <2>1. \A l \in Loops : phase[l] = "ended"
    BY <1>0, <1>1, <1>2 DEF ServerInStep, Loops
  <2>2. old.kernel \ {Acceptor} \subseteq overwritten
    <3>1. old.kernel \subseteq Conns \cup {Acceptor}
      BY <1>3 DEF EpollerType, Channels
    <3>2. \A d \in Conns : d \in old.kernel => d \in overwritten
      BY <1>2, MainIsEmptied DEF old
    <3>3. QED
      BY <3>1, <3>2
  <2>3. QED
    BY <1>1, <1>7, <1>9, <2>1, <2>2 DEF NobodyUsesGone
<1>18. QED
  BY <1>8, <1>11, <1>12, <1>13, <1>14, <1>15, <1>16, <1>17, StepInv

(***************************************************************************)
(* The theorems.                                                           *)
(***************************************************************************)

LEMMA InitIInv ==
  ASSUME Init PROVE IInv
<1>1. MainLoop \in Loops /\ None \notin Loops /\ Acceptor \in Channels /\ Acceptor \notin Conns
  BY ServerAssumption DEF Loops, Channels
<1>2. NewEpoller \in EpollerType /\ NewEpoller.kernel = {} /\ NewEpoller.errors = {}
      /\ NewEpoller.channels = [f \in Fds |-> NoChannel]
  BY DEF NewEpoller, EpollerType
<1> DEFINE up == Updated(NewEpoller, Acceptor, Listening)
<1>3. /\ up \in EpollerType /\ up.kernel = {Acceptor} /\ up.errors = {}
      /\ up.channels = [NewEpoller.channels EXCEPT ![Listening.fd] = Acceptor]
  <2>1. NewEpoller.kernel \cup {Acceptor} = {Acceptor}
    BY <1>2
  <2>2. Acceptor \notin NewEpoller.kernel
    BY <1>2
  <2>3. /\ up \in EpollerType
        /\ up.kernel = NewEpoller.kernel \cup {Acceptor}
        /\ up.channels = [NewEpoller.channels EXCEPT ![Listening.fd] = Acceptor]
        /\ up.errors = NewEpoller.errors
    BY <1>1, <1>2, <2>2, ListeningType, AddedChannel
  <2>4. QED
    BY <1>2, <2>1, <2>3
<1> HIDE DEF up
<1> USE DEF Init
<1>4. /\ epoller[MainLoop] = up
      /\ \A l \in Loops : l # MainLoop => epoller[l] = NewEpoller
      /\ channel[Acceptor] = UpdatedChannel(Listening)
  BY <1>1 DEF up
<1>5. epoller \in [Loops -> EpollerType]
  BY <1>2, <1>3 DEF up
<1>6. channel \in [Channels -> ChannelType \cup {None}]
  BY ListeningType
<1>7. TypeOK
  <2>1. /\ pool \subseteq IoLoops /\ limit \in 1..MaxFds
        /\ phase \in [Loops -> {"events", "functors", "ended"}]
        /\ ran \in [Loops -> SUBSET Conns]
    OBVIOUS
  <2>2. queue \in [Loops -> Seq(Functor)] /\ batch \in [Loops -> Seq(Functor)]
    OBVIOUS
  <2>3. /\ sending \in [Conns -> Nat] /\ stopping \in [Conns -> Nat]
        /\ called \in [Conns -> Nat] /\ overwritten \subseteq Conns
        /\ late \subseteq destroyed
    OBVIOUS
  <2>4. QED
    BY <1>5, <1>6, <2>1, <2>2, <2>3 DEF TypeOK
<1>8. \A l \in Loops : Waiting(l) = <<>> /\ Pending(l) = {}
  BY DEF Waiting, Pending, Elements
<1>9. RunInOrder
  BY <1>8 DEF RunInOrder, InOrder
<1>10. Confined
  BY <1>8 DEF Confined
<1>11. ASSUME NEW c \in Conns PROVE Life(c)
  <2>1. /\ owner[c] = None /\ ups[c] = 0 /\ downs[c] = 0 /\ state[c] = "kConnecting"
        /\ connections = {} /\ destroyed = {} /\ peerGone = {}
        /\ overwritten = {} /\ late = {}
    OBVIOUS
  <2>2. ~Ending(c)
    BY <2>1 DEF Ending
  <2>3. F("remove", c) \notin Pending(MainLoop)
    BY <1>1, <1>8
  <2>4. ~InCall(c) /\ ~Called(c)
    BY <1>8 DEF InCall, Called
  <2>5. QED
    BY <2>1, <2>2, <2>3, <2>4
       DEF Life, Place, Announced, Unseen, Established, Closed, Up, Ended
<1>12. InOnePlace /\ AnnouncedUpThenDown /\ LivesAreInStep
  BY <1>11, LifeOf
<1>13. OwnDescriptors
  <2>1. \A c \in Conns : ~Held(c)
    BY <1>8 DEF Held, Holding, InCall
  <2>2. QED
    BY <2>1 DEF OwnDescriptors
<1>14. ServerInStep /\ NobodyUsesGone
  <2>1. server = "running" /\ \A l \in Loops : batch[l] = <<>>
    OBVIOUS
  <2>2. \A l \in IoLoops \ pool : phase[l] = "ended"
    BY ServerAssumption DEF Loops
  <2>3. Acceptor \in epoller[MainLoop].kernel
    BY <1>3, <1>4
  <2>4. QED
    BY <1>4, <2>1, <2>2, <2>3 DEF ServerInStep, NobodyUsesGone
<1>15. EpollAgrees
  <2>1. \A c \in Conns, l \in Loops : owner[c] # l
    BY <1>1
  <2>2. ASSUME NEW l \in Loops, NEW c \in Conns
        PROVE  /\ epoller[l].errors = {} /\ c \notin epoller[l].kernel
               /\ \A f \in Fds : epoller[l].channels[f] # c
    <3>1. NoChannel # c /\ Acceptor # c
      BY <1>1, ChannelAssumption DEF Channels
    <3>2. CASE l = MainLoop
      BY <1>2, <1>3, <1>4, <3>1, <3>2
    <3>3. CASE l # MainLoop
      BY <1>2, <1>4, <3>1, <3>3
    <3>4. QED
      BY <3>2, <3>3
  <2>3. \A l \in Loops : epoller[l].errors = {}
    BY <1>2, <1>3, <1>4
  <2>4. QED
    BY <2>1, <2>2, <2>3 DEF EpollAgrees
<1>16. QED
  BY <1>7, <1>9, <1>10, <1>12, <1>13, <1>14, <1>15 DEF IInv, Inv

LEMMA StutterIInv ==
  ASSUME IInv, UNCHANGED vars PROVE IInv'
<1> USE DEF vars
<1>1. TypeOK /\ RunInOrder /\ ServerInStep /\ NobodyUsesGone
  BY Parts
<1>2. TypeOK'
  BY <1>1 DEF TypeOK
<1>3. ServerInStep' /\ NobodyUsesGone'
  BY <1>1, ServerStays
<1>4. RunInOrder' /\ \A l \in Loops : Pending(l)' = Pending(l)
  BY <1>1, LinesKept DEF lines
<1>5. QED
  BY <1>2, <1>3, <1>4, QuietStep DEF connVars

LEMMA NextIInv ==
  ASSUME IInv, [Next]_vars PROVE IInv'
<1>1. CASE \E l \in Loops : LoopStep(l)
  BY <1>1, RunEstablishedInv, RunDestroyedInv, RunSendInv, RunShutdownInv, EndRoundInv,
     RunRemoveInv
     DEF LoopStep
<1>2. CASE \E l \in Loops : BeginFunctors(l)
  BY <1>2, BeginFunctorsInv
<1>3. CASE \E c \in Conns : Accept(c) \/ HandleClose(c) \/ HandleWrite(c) \/ PeerCloses(c)
  BY <1>3, AcceptInv, HandleCloseInv, HandleWriteInv, PeerClosesInv
<1>4. CASE \E c \in Conns :
             \/ SendFromCallback(c) \/ ShutdownFromCallback(c)
             \/ SendTests(c) \/ SendQueues(c) \/ ShutdownTests(c) \/ ShutdownStores(c)
  BY <1>4, SendFromCallbackInv, ShutdownFromCallbackInv, TestsInv, SendQueuesInv,
     ShutdownStoresInv
<1>5. CASE QuitMain
  BY <1>5, FlagInv
<1>6. CASE DtorStep
  BY <1>6, FlagInv, DtorDestroysInv, DtorEndsInv DEF DtorStep
<1>7. CASE UNCHANGED vars
  BY <1>7, StutterIInv
<1>8. QED
  BY <1>1, <1>2, <1>3, <1>4, <1>5, <1>6, <1>7 DEF Next

LEMMA IInvHolds == Spec => []IInv
<1>1. Init => IInv
  BY InitIInv
<1>2. IInv /\ [Next]_vars => IInv'
  BY NextIInv
<1>3. QED
  BY <1>1, <1>2, PTL DEF Spec

\* Functors wait in the loop that owns their connection; every accepted connection
\* is in one place, its descriptor its own; kDisconnected means that its end has been
\* heard of and its channel is out of epoll; when the server is gone no loop can call
\* it.  Of a connection that shutdown() has made look open after its close, it says
\* what is left: it may be closed, removed and destroyed again, and put back in epoll.
THEOREM ServerInvHolds == Spec => []Inv
<1>1. IInv => Inv
  BY DEF IInv
<1>2. QED
  BY <1>1, IInvHolds, PTL

\* channels_, the interest list and index_ agree and no epoll_ctl fails, however
\* descriptors are reused, and though a send() under way may put a channel back after
\* connectDestroyed has removed it: only that one's entry of channels_ may be lost.
THEOREM EpollAlwaysAgrees == Spec => []EpollAgrees
<1>1. IInv => EpollAgrees
  BY DEF IInv
<1>2. QED
  BY <1>1, IInvHolds, PTL

\* The user hears of a connection's beginning before its end and of its beginning
\* once, for any calls of send() and shutdown() from any threads.  Of its end he may
\* hear more than once if a shutdown() found kConnected before the close and stored
\* kDisconnecting after it, and only then.
THEOREM AnnouncedOnce == Spec => []AnnouncedUpThenDown
<1>1. IInv => AnnouncedUpThenDown
  BY DEF IInv
<1>2. QED
  BY <1>1, IInvHolds, PTL

\* epoll and channels_ only know channels of connections that are alive, for any calls
\* of send() and shutdown(), except those of connections for which a send() was under
\* way when connectDestroyed ran.
THEOREM NoChannelDangles == Spec => []NoDanglingChannel
<1>1. IInv => NoDanglingChannel
  <2> SUFFICES ASSUME IInv, NEW l \in Loops, NEW c \in Conns,
                      c \in epoller[l].kernel \/ (\E f \in Fds : epoller[l].channels[f] = c)
               PROVE  Held(c) \/ c \in late
    BY DEF NoDanglingChannel
  <2>1. EpollAgrees /\ TypeOK
    BY Parts
  <2>2. owner[c] = l /\ owner[c] # None
    BY <2>1, OwnerIs DEF EpollAgrees
  <2>3. c \in late \/ channel[c].index # "kNew"
    BY <2>1 DEF EpollAgrees
  <2>4. QED
    BY <2>2, <2>3, KnownIsHeld
<1>2. QED
  BY <1>1, IInvHolds, PTL
===============================================================================
