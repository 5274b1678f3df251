------------------------ MODULE TcpConnection_proofs -------------------------
(***************************************************************************)
(* Proofs about TcpConnection for any threads, messages, message size and  *)
(* high-water mark.  Inv and WritingIffPending are inductive together: the *)
(* bytes need no more than themselves, what the channel is registered for  *)
(* needs Unestablished, which says that connectEstablished runs first and  *)
(* only once.                                                              *)
(*                                                                         *)
(* The second half proves that a connection is a ByteStream.  This needs   *)
(* SendsInv besides, which says where a message is until it passes         *)
(* sendInLoop, and what FlattenSeq does at both ends of a sequence.        *)
(***************************************************************************)
EXTENDS TcpConnection, SequenceTheorems, WellFoundedInduction, TLAPS

\* Every functor but connectEstablished.
Later == Functors \ {Do("established")}

IInv == Inv /\ WritingIffPending

------------------------------------------------------------------------------
(* Facts about the bytes and the functors. *)

\* A message is a sequence of Size bytes.
LEMMA BytesOfMessage ==
  ASSUME NEW m \in Messages
  PROVE  Bytes(m) \in Seq(Byte) /\ Len(Bytes(m)) = Size
<1>1. Size \in Nat
  BY ConnAssumption
<1>2. \A i \in 1..Size : <<m, i>> \in Byte
  BY DEF Byte
<1>3. Bytes(m) \in [1..Size -> Byte]
  BY <1>2 DEF Bytes
<1>4. Bytes(m) \in Seq(Byte)
  BY <1>1, <1>3, SeqDef
<1>5. DOMAIN Bytes(m) = 1..Size
  BY DEF Bytes
<1>6. Len(Bytes(m)) = Size
  BY <1>1, <1>4, <1>5, LenProperties
<1> QED
  BY <1>4, <1>6

\* A sequence of bytes cut in two is the two parts joined.
LEMMA CutInTwo ==
  ASSUME NEW s \in Seq(Byte), NEW n \in 0..Len(s)
  PROVE  /\ SubSeq(s, 1, n) \in Seq(Byte)
         /\ SubSeq(s, n + 1, Len(s)) \in Seq(Byte)
         /\ Len(SubSeq(s, n + 1, Len(s))) = Len(s) - n
         /\ SubSeq(s, 1, n) \o SubSeq(s, n + 1, Len(s)) = s
<1>1. Len(s) \in Nat /\ \A i \in 1..Len(s) : s[i] \in Byte
  BY LenProperties, ElementOfSeq
<1>2. \A i \in 1..n : s[i] \in Byte
  BY <1>1
<1>3. \A i \in (n + 1)..Len(s) : s[i] \in Byte
  BY <1>1
<1>4. SubSeq(s, 1, n) \in Seq(Byte)
  BY <1>1, <1>2, SubSeqProperties
<1>5. /\ SubSeq(s, n + 1, Len(s)) \in Seq(Byte)
      /\ Len(SubSeq(s, n + 1, Len(s))) = IF n + 1 <= Len(s) THEN Len(s) - (n + 1) + 1 ELSE 0
  BY <1>1, <1>3, SubSeqProperties
<1>6. SubSeq(s, 1, n) \o SubSeq(s, n + 1, Len(s)) = SubSeq(s, 1, Len(s))
  <2>1. 1 \in 1..(Len(s) + 1) /\ n \in (1 - 1)..Len(s) /\ Len(s) \in n..Len(s)
    BY <1>1
  <2> QED
    BY <2>1, ConcatAdjacentSubSeq
<1>7. SubSeq(s, 1, Len(s)) = s
  BY SubSeqFull
<1>8. Len(SubSeq(s, n + 1, Len(s))) = Len(s) - n
  BY <1>1, <1>5
<1> QED
  BY <1>4, <1>5, <1>6, <1>7, <1>8

LEMMA JoinIsBytes ==
  ASSUME NEW s \in Seq(Byte), NEW t \in Seq(Byte)
  PROVE  s \o t \in Seq(Byte)
  OBVIOUS

\* Joining bytes is associative.
LEMMA JoinAssociates ==
  \A s, t, u \in Seq(Byte) : (s \o t) \o u = s \o (t \o u)
BY ConcatAssociative, SMT

\* What sendInLoop queues is never connectEstablished.
LEMMA AfterSendLater ==
  ASSUME NEW q \in Seq(Later), NEW n
  PROVE  AfterSend(q, n) \in Seq(Later)
<1> DEFINE one(op) == <<Do(op)>>
<1>1. Do("writeComplete") \in Later /\ Do("highWater") \in Later
  BY DEF Later, Functors, Do
<1>2. <<>> \in Seq(Later) /\ one("writeComplete") \in Seq(Later) /\ one("highWater") \in Seq(Later)
  BY <1>1, EmptySeq
<1> DEFINE a == IF n = Size THEN one("writeComplete") ELSE <<>>
           b == IF n < Size /\ CrossesMark(Len(outputBuffer), Size - n)
                THEN one("highWater") ELSE <<>>
<1>3. a \in Seq(Later) /\ b \in Seq(Later)
  BY <1>2
<1>4. AfterSend(q, n) = (q \o a) \o b
  BY DEF AfterSend
<1> HIDE DEF a, b
<1> QED
  BY <1>3, <1>4, ConcatProperties

\* The first functor is taken from the queue of an established connection.
LEMMA QueueOneLess ==
  ASSUME Unestablished, queue # <<>>, Head(queue).op # "established"
  PROVE  state # "kConnecting" /\ Tail(queue) \in Seq(Later)
<1>1. Do("established").op = "established"
  BY DEF Do
<1>2. state # "kConnecting" /\ queue \in Seq(Later)
  BY <1>1 DEF Unestablished, Later
<1> QED
  BY <1>2, HeadTailProperties

\* What keeps Unestablished once the connection is established.
LEMMA StaysEstablished ==
  ASSUME state' # "kConnecting", queue' \in Seq(Later)
  PROVE  Unestablished'
  BY DEF Unestablished, Later

------------------------------------------------------------------------------
(* sendInLoop() keeps the bytes in order and EPOLLOUT on while some wait. *)

LEMMA SendInLoopKeeps ==
  ASSUME IInv, NEW m \in Messages, NEW q \in Seq(Later), SendInLoop(m, q),
         UNCHANGED <<closed, destroyed>>
  PROVE  /\ queue' \in Seq(Later)
         /\ state' = state /\ reading' = reading
         /\ finSent' = finSent /\ peer' = peer
         /\ writing' \in BOOLEAN /\ registered' \in BOOLEAN
         /\ outputBuffer' \in Seq(Byte) /\ wire' \in Seq(Byte) /\ accepted' \in Seq(Byte)
         /\ BytesInOrder' /\ WritingIffPending' /\ NoIdleRegistration'
         /\ registered => registered'
<1> USE DEF IInv, Inv
<1>0. /\ writing \in BOOLEAN /\ registered \in BOOLEAN
      /\ outputBuffer \in Seq(Byte) /\ wire \in Seq(Byte) /\ accepted \in Seq(Byte)
  BY DEF TypeOK
<1>1. CASE (SendGivesUp \/ SendFaults) /\ queue' = q
  <2>1. UNCHANGED <<conn, socket, accepted>> /\ queue' = q
    BY <1>1 DEF SendGivesUp, SendFaults
  <2>2. BytesInOrder' /\ WritingIffPending' /\ NoIdleRegistration'
    BY <2>1 DEF conn, socket, BytesInOrder, WritingIffPending, NoIdleRegistration
  <2> QED
    BY <1>0, <2>1, <2>2 DEF conn, socket
<1>2. ASSUME NEW n \in 0..Size, SendWrites(m, n), queue' = AfterSend(q, n)
      PROVE  /\ queue' \in Seq(Later)
             /\ state' = state /\ reading' = reading
             /\ finSent' = finSent /\ peer' = peer
             /\ writing' \in BOOLEAN /\ registered' \in BOOLEAN
             /\ outputBuffer' \in Seq(Byte) /\ wire' \in Seq(Byte) /\ accepted' \in Seq(Byte)
             /\ BytesInOrder' /\ WritingIffPending' /\ NoIdleRegistration'
             /\ registered => registered'
  <2> USE <1>2 DEF SendWrites
  <2> DEFINE now == SubSeq(Bytes(m), 1, n)
             later == SubSeq(Bytes(m), n + 1, Size)
  <2>1. Bytes(m) \in Seq(Byte) /\ Len(Bytes(m)) = Size /\ Size \in Nat /\ Size > 0
             /\ n \in Nat /\ n <= Size
    BY BytesOfMessage, ConnAssumption
  <2>2. /\ now \in Seq(Byte) /\ later \in Seq(Byte)
        /\ Len(later) = Size - n /\ now \o later = Bytes(m)
    BY <2>1, CutInTwo
  <2>3. n = 0 => now = <<>>
    BY <2>1, SubSeqEmpty
  <2>4. /\ outputBuffer' = outputBuffer \o later
        /\ wire' = wire \o now
        /\ accepted' = accepted \o Bytes(m)
        /\ MayWriteNow \/ n = 0
    OBVIOUS
  <2> HIDE DEF now, later
  <2>5. outputBuffer' \in Seq(Byte) /\ wire' \in Seq(Byte) /\ accepted' \in Seq(Byte)
    BY <1>0, <2>1, <2>2, <2>4, JoinIsBytes, Zenon
  <2>6. BytesInOrder'
    <3>1. CASE n = 0
      <4>1. wire' = wire
        BY <1>0, <2>3, <2>4, <3>1, ConcatEmptySeq
      <4>2. now \o later = later
        BY <2>2, <2>3, <3>1, ConcatEmptySeq
      <4>3. wire \o (outputBuffer \o later) = (wire \o outputBuffer) \o later
        BY <1>0, <2>2, JoinAssociates, Zenon
      <4> QED
        BY <2>2, <2>4, <4>1, <4>2, <4>3 DEF BytesInOrder
    <3>2. CASE MayWriteNow
      <4>1. outputBuffer = <<>> /\ wire = accepted
        BY <1>0, <3>2, ConcatEmptySeq DEF MayWriteNow, BytesInOrder
      <4>2. outputBuffer' = later
        BY <2>2, <2>4, <4>1, ConcatEmptySeq
      <4>3. (wire \o now) \o later = wire \o (now \o later)
        BY <1>0, <2>2, JoinAssociates, Zenon
      <4> QED
        BY <2>2, <2>4, <4>1, <4>2, <4>3 DEF BytesInOrder
    <3> QED
      BY <2>4, <3>1, <3>2
  <2>7. writing' = (writing \/ Size - n > 0)
    BY DEF WantsWriting
  <2>8. WritingIffPending'
    <3>1. Len(outputBuffer') = Len(outputBuffer) + (Size - n)
      BY <1>0, <2>2, <2>4, ConcatProperties
    <3>2. /\ Len(outputBuffer) \in Nat
          /\ outputBuffer # <<>> <=> Len(outputBuffer) # 0
          /\ outputBuffer' # <<>> <=> Len(outputBuffer') # 0
      BY <1>0, <2>5, EmptySeq, LenProperties
    <3>3. outputBuffer' # <<>> <=> (outputBuffer # <<>> \/ Size - n > 0)
      <4>1. Size - n \in Nat
        BY <2>1
      <4>2. \A a, d \in Nat : a + d # 0 <=> (a # 0 \/ d > 0)
        OBVIOUS
      <4>3. Len(outputBuffer') # 0 <=> (Len(outputBuffer) # 0 \/ Size - n > 0)
        BY <3>1, <3>2, <4>1, <4>2, Zenon
      <4> QED
        BY <3>2, <4>3, Zenon
    <3> QED
      BY <2>7, <3>3 DEF WritingIffPending
  <2>9. /\ registered' = (registered \/ (writing' /\ ~writing))
        /\ writing => writing'
    BY <1>0, <2>7 DEF RegisteredBy
  <2>10. NoIdleRegistration'
    BY <1>0, <2>7, <2>9 DEF NoIdleRegistration
  <2>11. queue' \in Seq(Later)
    BY AfterSendLater
  <2>12. writing' \in BOOLEAN /\ registered' \in BOOLEAN
    BY <1>0, <2>7, <2>9
  <2> QED
    BY <2>5, <2>6, <2>8, <2>9, <2>10, <2>11, <2>12
<1> QED
  BY <1>1, <1>2 DEF SendInLoop

------------------------------------------------------------------------------
(* The initial states and each action. *)

\* A queue without connectEstablished is a queue.
LEMMA LaterAreFunctors == Seq(Later) \subseteq Seq(Functors)
  BY SeqMonotonic DEF Later

LEMMA InitInv == Init => IInv
<1> SUFFICES ASSUME Init PROVE IInv
  OBVIOUS
<1> USE DEF Init
<1>1. Do("established") \in Functors
  BY DEF Do, Functors
<1>2. /\ queue \in Seq(Functors) /\ queue # <<>>
      /\ Head(queue) = Do("established") /\ Tail(queue) = <<>>
  BY <1>1
<1>3. <<>> \in Seq(Byte) /\ <<>> \in Seq(Later) /\ <<>> \o <<>> = <<>>
  BY EmptySeq, ConcatEmptySeq
<1>4. calls \in [Threads -> [at : {"idle"}, msg : {NoMessage}]]
  BY DEF Idle
<1>5. TypeOK
  BY <1>2, <1>3, <1>4 DEF TypeOK, States
<1>6. BytesInOrder /\ NoIdleRegistration /\ NeverDeaf /\ WritingIffPending
  BY <1>3 DEF BytesInOrder, NoIdleRegistration, NeverDeaf, WritingIffPending
<1>7. Unestablished
  <2>1. \A t \in Threads : calls[t].at = "idle"
    BY DEF Idle
  <2> QED
    BY <1>2, <1>3, <2>1 DEF Unestablished, Later
<1> QED
  BY <1>5, <1>6, <1>7 DEF IInv, Inv

\* connectEstablished.
LEMMA RunEstablishedInv == ASSUME IInv, RunEstablished PROVE IInv'
<1> USE DEF IInv, Inv, RunEstablished, NextFunctor, socket, Others, server
<1>1. state = "kConnecting" /\ Tail(queue) \in Seq(Later)
  <2>1. ASSUME queue \in Seq(Later) PROVE FALSE
    <3>1. Head(queue) \in Later /\ Head(queue) \in Functors
      BY <2>1, HeadTailProperties DEF Later
    <3>2. Head(queue) = Do("established")
      BY <3>1 DEF Functors, Do
    <3> QED
      BY <3>1, <3>2 DEF Later
  <2> QED
    BY <2>1 DEF Unestablished, Later
<1>2. TypeOK'
  BY <1>1, LaterAreFunctors DEF TypeOK, States
<1>3. Unestablished'
  BY <1>1 DEF Unestablished, Later
<1>4. BytesInOrder' /\ NoIdleRegistration' /\ NeverDeaf' /\ WritingIffPending'
  BY <1>1 DEF BytesInOrder, NoIdleRegistration, NeverDeaf, WritingIffPending, Unestablished
<1> QED
  BY <1>2, <1>3, <1>4

\* sendInLoop as a functor.
LEMMA RunSendInv == ASSUME IInv, RunSend PROVE IInv'
<1> USE DEF IInv, Inv, RunSend, NextFunctor, server
<1>1. state # "kConnecting" /\ Tail(queue) \in Seq(Later)
  BY QueueOneLess
<1>2. Head(queue).msg \in Messages
  <2>1. Head(queue) \in Functors
    BY HeadTailProperties DEF TypeOK
  <2> QED
    BY <2>1 DEF Functors
<1>3. /\ queue' \in Seq(Later)
      /\ state' = state /\ reading' = reading
      /\ finSent' = finSent /\ peer' = peer
      /\ writing' \in BOOLEAN /\ registered' \in BOOLEAN
      /\ outputBuffer' \in Seq(Byte) /\ wire' \in Seq(Byte) /\ accepted' \in Seq(Byte)
      /\ BytesInOrder' /\ WritingIffPending' /\ NoIdleRegistration'
      /\ registered => registered'
  BY <1>1, <1>2, SendInLoopKeeps
<1>4. sender' \in [Messages -> Threads \cup {"unsent", "passed"}]
  BY DEF TypeOK
<1>5. TypeOK'
  BY <1>3, <1>4, LaterAreFunctors DEF TypeOK
<1>6. Unestablished'
  BY <1>1, <1>3, StaysEstablished
<1>7. NeverDeaf'
  BY <1>3 DEF NeverDeaf
<1> QED
  BY <1>3, <1>5, <1>6, <1>7

\* sendInLoop called by a user callback.
LEMMA SendFromCallbackInv ==
  ASSUME IInv, NEW m \in Messages, SendFromCallback(m) PROVE IInv'
<1> USE DEF IInv, Inv, SendFromCallback, server
<1>1. state # "kConnecting" /\ queue \in Seq(Later)
  BY DEF Unestablished, Later
<1>2. /\ queue' \in Seq(Later)
      /\ state' = state /\ reading' = reading
      /\ finSent' = finSent /\ peer' = peer
      /\ writing' \in BOOLEAN /\ registered' \in BOOLEAN
      /\ outputBuffer' \in Seq(Byte) /\ wire' \in Seq(Byte) /\ accepted' \in Seq(Byte)
      /\ BytesInOrder' /\ WritingIffPending' /\ NoIdleRegistration'
      /\ registered => registered'
  BY <1>1, SendInLoopKeeps
<1>3. sender' \in [Messages -> Threads \cup {"unsent", "passed"}]
  BY DEF TypeOK
<1>4. TypeOK'
  BY <1>2, <1>3, LaterAreFunctors DEF TypeOK
<1>5. Unestablished'
  BY <1>1, <1>2, StaysEstablished
<1>6. NeverDeaf'
  BY <1>2 DEF NeverDeaf
<1> QED
  BY <1>2, <1>4, <1>5, <1>6

\* The functors that change no byte: shutdownInLoop, the user's and
\* connectDestroyed.
LEMMA OtherFunctorsInv ==
  ASSUME IInv, RunShutdown \/ RunUserFunctor \/ RunDestroyed PROVE IInv'
<1> USE DEF IInv, Inv, RunShutdown, RunUserFunctor, RunDestroyed, NextFunctor, ShutdownInLoop,
            conn, socket, Others, server
<1>1. state # "kConnecting" /\ Tail(queue) \in Seq(Later)
  BY QueueOneLess
<1>2. Tail(queue) \in Seq(Functors)
  BY <1>1, LaterAreFunctors
<1>3. CASE RunShutdown
  <2>1. TypeOK'
    BY <1>2, <1>3 DEF TypeOK, FinNow
  <2>2. BytesInOrder'
    BY <1>3 DEF BytesInOrder
  <2>3. NoIdleRegistration' /\ NeverDeaf' /\ WritingIffPending'
    BY <1>3 DEF NoIdleRegistration, NeverDeaf, WritingIffPending
  <2> QED
    BY <1>1, <1>3, <2>1, <2>2, <2>3, StaysEstablished
<1>4. CASE RunUserFunctor
  <2>1. TypeOK'
    BY <1>2, <1>4 DEF TypeOK
  <2>2. BytesInOrder' /\ NoIdleRegistration' /\ NeverDeaf' /\ WritingIffPending'
    BY <1>4 DEF BytesInOrder, NoIdleRegistration, NeverDeaf, WritingIffPending
  <2> QED
    BY <1>1, <1>4, <2>1, <2>2, StaysEstablished
<1>5. CASE RunDestroyed
  <2>1. TypeOK'
    BY <1>2, <1>5 DEF TypeOK, States
  <2>2. BytesInOrder' /\ NoIdleRegistration' /\ NeverDeaf' /\ WritingIffPending'
    BY <1>5 DEF BytesInOrder, NoIdleRegistration, NeverDeaf, WritingIffPending
  <2> QED
    BY <1>1, <1>5, <2>1, <2>2, StaysEstablished
<1> QED
  BY <1>3, <1>4, <1>5

\* handleRead, handleClose, and the end of a callback.
LEMMA HandleReadCloseInv ==
  ASSUME IInv, HandleRead \/ HandleClose \/ CallbackReturns PROVE IInv'
<1> USE DEF IInv, Inv, HandleRead, HandleClose, CallbackReturns, conn, socket, Others, server
<1>1. state # "kConnecting" /\ queue \in Seq(Later)
  BY DEF Unestablished, Later
<1>2. CASE HandleRead
  <2>1. TypeOK'
    BY <1>2 DEF TypeOK
  <2>2. BytesInOrder'
    BY <1>2 DEF BytesInOrder
  <2>3. NoIdleRegistration' /\ NeverDeaf' /\ WritingIffPending'
    BY <1>2 DEF NoIdleRegistration, NeverDeaf, WritingIffPending
  <2> QED
    BY <1>1, <1>2, <2>1, <2>2, <2>3, StaysEstablished
<1>4. CASE CallbackReturns
  <2>1. TypeOK'
    BY <1>4 DEF TypeOK
  <2>2. BytesInOrder'
    BY <1>4 DEF BytesInOrder
  <2>3. NoIdleRegistration' /\ NeverDeaf' /\ WritingIffPending'
    BY <1>4 DEF NoIdleRegistration, NeverDeaf, WritingIffPending
  <2> QED
    BY <1>1, <1>4, <2>1, <2>2, <2>3, StaysEstablished
<1>3. CASE HandleClose
  <2>1. reading' = FALSE /\ writing' = FALSE /\ registered' = FALSE
    BY <1>3 DEF InterestAfterClose
  <2>2. TypeOK'
    <3>1. removals' \in Nat
      BY <1>3 DEF TypeOK
    <3> QED
      BY <1>1, <1>3, <2>1, <3>1 DEF TypeOK, States
  <2>3. BytesInOrder' /\ NoIdleRegistration' /\ NeverDeaf' /\ WritingIffPending'
    BY <1>3, <2>1 DEF BytesInOrder, NoIdleRegistration, NeverDeaf, WritingIffPending
  <2> QED
    BY <1>1, <1>3, <2>2, <2>3, StaysEstablished
<1> QED
  BY <1>2, <1>3, <1>4

\* handleWrite: the bytes move from the buffer to the wire.
LEMMA HandleWriteInv == ASSUME IInv, HandleWrite PROVE IInv'
<1> USE DEF IInv, Inv, HandleWrite, Others, server
<1>0. /\ outputBuffer \in Seq(Byte) /\ wire \in Seq(Byte)
      /\ state # "kConnecting" /\ queue \in Seq(Later)
  BY DEF TypeOK, Unestablished, Later
<1>1. PICK n \in 1..Len(outputBuffer) :
        LET left == Len(outputBuffer) - n IN
        /\ wire' = wire \o SubSeq(outputBuffer, 1, n)
        /\ outputBuffer' = SubSeq(outputBuffer, n + 1, Len(outputBuffer))
        /\ writing' = StillWriting(left)
        /\ reading' = ReadingAfterWrite(left)
        /\ registered' = (reading' \/ writing')
        /\ queue' = IF left = 0 THEN Append(queue, Do("writeComplete")) ELSE queue
        /\ finSent' = (finSent \/ (left = 0 /\ state = "kDisconnecting" /\ ~writing'))
  OBVIOUS
<1> DEFINE now == SubSeq(outputBuffer, 1, n)
           later == SubSeq(outputBuffer, n + 1, Len(outputBuffer))
<1>2. /\ Len(outputBuffer) \in Nat /\ n \in Nat /\ n <= Len(outputBuffer)
      /\ n \in 0..Len(outputBuffer)
  BY <1>0, LenProperties
<1>3. /\ now \in Seq(Byte) /\ later \in Seq(Byte)
      /\ Len(later) = Len(outputBuffer) - n /\ now \o later = outputBuffer
  BY <1>0, <1>2, CutInTwo
<1>4. /\ wire' = wire \o now /\ outputBuffer' = later
      /\ writing' = (Len(outputBuffer) - n > 0) /\ reading' = reading
      /\ registered' = (reading' \/ writing')
  BY <1>1 DEF StillWriting, ReadingAfterWrite
<1>5. queue' \in Seq(Later)
  <2>1. Do("writeComplete") \in Later
    BY DEF Do, Later, Functors
  <2> QED
    BY <1>0, <1>1, <2>1, AppendProperties
<1>6. finSent' \in BOOLEAN
  BY <1>1 DEF TypeOK
<1> HIDE DEF now, later
<1>7. wire' \in Seq(Byte) /\ outputBuffer' \in Seq(Byte)
  BY <1>0, <1>3, <1>4, JoinIsBytes, Zenon
<1>8. TypeOK'
  <2>0. reading \in BOOLEAN
    BY DEF TypeOK
  <2>1. reading' \in BOOLEAN /\ writing' \in BOOLEAN /\ registered' \in BOOLEAN
    <3>1. writing' \in BOOLEAN
      <4>1. \A a, b \in Nat : (a - b > 0) \in BOOLEAN
        OBVIOUS
      <4> QED
        BY <1>2, <1>4, <4>1, Zenon
    <3>2. registered' \in BOOLEAN
      BY <1>4, Zenon
    <3> QED
      BY <1>4, <2>0, <3>1, <3>2, Zenon
  <2>2. queue' \in Seq(Functors)
    BY <1>5, LaterAreFunctors
  <2> QED
    BY <1>6, <1>7, <2>1, <2>2 DEF TypeOK
<1>9. BytesInOrder'
  <2>1. (wire \o now) \o later = wire \o (now \o later)
    BY <1>0, <1>3, JoinAssociates, Zenon
  <2> QED
    BY <1>3, <1>4, <2>1 DEF BytesInOrder
<1>10. Unestablished'
  BY <1>0, <1>5, StaysEstablished
<1>11. WritingIffPending'
  <2>1. outputBuffer' # <<>> <=> Len(outputBuffer') # 0
    BY <1>7, EmptySeq, LenProperties
  <2>2. Len(outputBuffer') = Len(outputBuffer) - n
    BY <1>3, <1>4
  <2>3. writing' <=> Len(outputBuffer') # 0
    <3>1. \A a, b \in Nat : b <= a => (a - b > 0 <=> a - b # 0)
      OBVIOUS
    <3> QED
      BY <1>2, <1>4, <2>2, <3>1, Zenon
  <2> QED
    BY <2>1, <2>3 DEF WritingIffPending
<1>12. NoIdleRegistration' /\ NeverDeaf'
  BY <1>4 DEF NoIdleRegistration, NeverDeaf
<1> QED
  BY <1>8, <1>9, <1>10, <1>11, <1>12

\* shutdown() on the loop thread.
LEMMA ShutdownFromCallbackInv == ASSUME IInv, ShutdownFromCallback PROVE IInv'
<1> USE DEF IInv, Inv, ShutdownFromCallback, ShutdownInLoop, Others, server
<1>1. queue \in Seq(Later)
  BY DEF Unestablished, Later
<1>2. TypeOK'
  BY DEF TypeOK, States, FinNow
<1>3. BytesInOrder' /\ NoIdleRegistration' /\ NeverDeaf' /\ WritingIffPending'
  BY DEF BytesInOrder, NoIdleRegistration, NeverDeaf, WritingIffPending
<1> QED
  BY <1>1, <1>2, <1>3, StaysEstablished

\* What other threads, TcpServer and the peer do: state_ may change, a functor
\* may join the queue, and nothing the channel is about.
LEMMA OutsideInv ==
  ASSUME IInv,
         UNCHANGED <<reading, writing, registered, outputBuffer, inCallback, closed, destroyed,
                     wire, accepted>>,
         TypeOK',
         state = "kConnecting" => UNCHANGED <<state, calls>>,
         state' = "kConnecting" => state = "kConnecting",
         queue' = queue \/ \E f \in Later : queue' = Append(queue, f)
  PROVE  IInv'
<1> USE DEF IInv, Inv
<1>1. BytesInOrder' /\ NoIdleRegistration' /\ NeverDeaf' /\ WritingIffPending'
  BY DEF BytesInOrder, NoIdleRegistration, NeverDeaf, WritingIffPending
<1>2. Unestablished'
  <2>1. CASE state = "kConnecting"
    <3>1. CASE queue' = queue
      BY <2>1, <3>1 DEF Unestablished
    <3>2. ASSUME NEW f \in Later, queue' = Append(queue, f) PROVE Unestablished'
      <4>1. /\ queue \in Seq(Functors) /\ queue # <<>>
            /\ Head(queue) = Do("established") /\ Tail(queue) \in Seq(Later)
        BY <2>1 DEF Unestablished, Later, TypeOK
      <4>2. /\ Head(queue') = Do("established")
            /\ Tail(queue') = Append(Tail(queue), f) /\ queue' # <<>>
        BY <3>2, <4>1, HeadTailAppend, AppendProperties DEF Later
      <4>3. Tail(queue') \in Seq(Later)
        BY <3>2, <4>1, <4>2, AppendProperties
      <4> QED
        BY <2>1, <4>2, <4>3 DEF Unestablished, Later
    <3> QED
      BY <3>1, <3>2
  <2>2. CASE state # "kConnecting"
    <3>1. queue \in Seq(Later)
      BY <2>2 DEF Unestablished, Later
    <3>2. queue' \in Seq(Later)
      BY <3>1, AppendProperties
    <3> QED
      BY <2>2, <3>2, StaysEstablished
  <2> QED
    BY <2>1, <2>2
<1> QED
  BY <1>1, <1>2

\* Every action of other threads, of TcpServer and of the peer is one of these.
LEMMA CallsInv ==
  ASSUME IInv, NEW t \in Threads,
         \/ \E m \in Messages : SendTests(t, m)
         \/ ShutdownTests(t)
         \/ CallStep(t)
  PROVE  IInv'
<1> USE DEF IInv, Inv, conn, socket, history, server
<1>1. ASSUME NEW m \in Messages, SendTests(t, m) PROVE IInv'
  <2> USE <1>1 DEF SendTests
  <2>1. At("send", m) \in [at : {"send"}, msg : Messages]
    BY DEF At
  <2>2. TypeOK'
    BY <2>1 DEF TypeOK
  <2> QED
    BY <2>2, OutsideInv
<1>2. CASE ShutdownTests(t)
  <2> USE <1>2 DEF ShutdownTests
  <2>1. At("shutdown", NoMessage) \in [at : {"idle", "shutdown", "queueShutdown"}, msg : {NoMessage}]
    BY DEF At
  <2>2. TypeOK'
    BY <2>1 DEF TypeOK
  <2> QED
    BY <2>2, OutsideInv
<1>3. ASSUME calls[t].at # "idle" PROVE state # "kConnecting"
  BY <1>3 DEF Unestablished
<1>4. Idle \in [at : {"idle", "shutdown", "queueShutdown"}, msg : {NoMessage}]
  BY DEF Idle
<1>5. CASE SendQueues(t)
  <2> USE <1>5 DEF SendQueues
  <2>1. calls[t].msg \in Messages
    BY DEF TypeOK
  <2>2. DoSend(calls[t].msg) \in Later
    BY <2>1 DEF DoSend, Do, Later, Functors
  <2>3. TypeOK'
    BY <1>4, <2>2, AppendProperties DEF TypeOK, Later
  <2> QED
    BY <1>3, <2>2, <2>3, OutsideInv
<1>6. CASE ShutdownStores(t)
  <2> USE <1>6 DEF ShutdownStores
  <2>1. At("queueShutdown", NoMessage) \in [at : {"idle", "shutdown", "queueShutdown"}, msg : {NoMessage}]
    BY DEF At
  <2>2. TypeOK'
    BY <2>1 DEF TypeOK, States
  <2> QED
    BY <1>3, <2>2, OutsideInv
<1>7. CASE ShutdownQueues(t)
  <2> USE <1>7 DEF ShutdownQueues
  <2>1. Do("shutdown") \in Later
    BY DEF Do, Later, Functors
  <2>2. TypeOK'
    BY <1>4, <2>1, AppendProperties DEF TypeOK, Later
  <2> QED
    BY <1>3, <2>1, <2>2, OutsideInv
<1> QED
  BY <1>1, <1>2, <1>5, <1>6, <1>7 DEF CallStep

LEMMA ServerAndPeerInv ==
  ASSUME IInv, ServerRemoves \/ ServerEnds \/ PeerLeaves PROVE IInv'
<1> USE DEF IInv, Inv, conn, socket, history, server
<1>1. Do("destroyed") \in Later
  BY DEF Do, Later, Functors
<1>2. Append(queue, Do("destroyed")) \in Seq(Functors)
  BY <1>1, AppendProperties DEF Later, TypeOK
<1>3. CASE ServerRemoves
  <2> USE <1>3 DEF ServerRemoves
  <2>1. removals' \in Nat
    BY DEF TypeOK
  <2>2. TypeOK'
    BY <1>2, <2>1 DEF TypeOK
  <2> QED
    BY <1>1, <2>2, OutsideInv
<1>4. CASE ServerEnds
  <2> USE <1>4 DEF ServerEnds
  <2>1. TypeOK'
    BY <1>2 DEF TypeOK
  <2> QED
    BY <1>1, <2>1, OutsideInv
<1>5. CASE PeerLeaves
  <2> USE <1>5 DEF PeerLeaves
  <2>1. TypeOK'
    BY DEF TypeOK
  <2> QED
    BY <2>1, OutsideInv
<1> QED
  BY <1>3, <1>4, <1>5

------------------------------------------------------------------------------
LEMMA StepInv == IInv /\ [Next]_vars => IInv'
<1> SUFFICES ASSUME IInv, [Next]_vars PROVE IInv'
  OBVIOUS
<1>1. CASE LoopStep
  BY <1>1, RunEstablishedInv, RunSendInv, OtherFunctorsInv DEF LoopStep
<1>2. CASE Handlers \/ CallbackReturns
  BY <1>2, HandleReadCloseInv, HandleWriteInv DEF Handlers
<1>3. CASE \E m \in Messages : SendFromCallback(m)
  BY <1>3, SendFromCallbackInv
<1>4. CASE ShutdownFromCallback
  BY <1>4, ShutdownFromCallbackInv
<1>5. CASE \E t \in Threads : \/ \E m \in Messages : SendTests(t, m)
                              \/ ShutdownTests(t)
                              \/ CallStep(t)
  BY <1>5, CallsInv
<1>6. CASE ServerRemoves \/ ServerEnds \/ PeerLeaves
  BY <1>6, ServerAndPeerInv
<1>7. CASE UNCHANGED vars
  <2>1. TypeOK'
    BY <1>7 DEF vars, IInv, Inv, TypeOK
  <2> QED
    BY <1>7, <2>1, OutsideInv DEF vars, IInv, Inv
<1> QED
  BY <1>1, <1>2, <1>3, <1>4, <1>5, <1>6, <1>7 DEF Next

\* The inductive invariant.
LEMMA InvIsInductive == Spec => []IInv
<1> QED
  BY InitInv, StepInv, PTL DEF Spec

\* Types, the bytes in order, connectEstablished first, and the channel in epoll
\* for reading from there until the connection closes: in every reachable state
\* (sendInLoop, handleWrite, handleClose).
THEOREM ConnectionInvHolds == Spec => []Inv
<1>1. IInv => Inv
  BY DEF IInv
<1> QED
  BY <1>1, InvIsInductive, PTL

\* EPOLLOUT is on exactly while bytes wait (sendInLoop, handleWrite).
THEOREM WritesWhileBytesWait == Spec => []WritingIffPending
<1>1. IInv => WritingIffPending
  BY DEF IInv
<1> QED
  BY <1>1, InvIsInductive, PTL

------------------------------------------------------------------------------
(* Induction *)

\* Induction over the naturals, for a set.
LEMMA InductionOverNat ==
  ASSUME NEW Holds, 0 \in Holds, \A n \in Nat : n \in Holds => n + 1 \in Holds
  PROVE  \A n \in Nat : n \in Holds
<1> DEFINE S == Nat \ Holds
<1> SUFFICES ASSUME S # {} PROVE FALSE
  OBVIOUS
<1>1. PICK m \in S : \A k \in S : ~(<<k, m>> \in OpToRel(<, Nat))
  <2>1. S \subseteq Nat
    OBVIOUS
  <2> HIDE DEF S
  <2> QED
    BY <2>1, WFMin, NatLessThanWellFounded, Zenon
<1>2. \A k \in S : ~(k < m)
  BY <1>1 DEF OpToRel
<1>3. m \in Nat /\ m \notin Holds /\ m # 0
  OBVIOUS
<1> HIDE DEF S
<1>6. m - 1 \in Nat /\ m - 1 < m /\ (m - 1) + 1 = m
  BY <1>3
<1>4. m - 1 \in Holds
  BY <1>2, <1>6 DEF S
<1>5. (m - 1) + 1 \in Holds
  BY <1>4, <1>6
<1> QED
  BY <1>3, <1>5, <1>6, Zenon

------------------------------------------------------------------------------
(* FlattenSeq *)

\* f is the function FlattenSeq(ss) is computed with.
IsFlatten(f, ss) ==
  f = [i \in 1..Len(ss) |-> IF i = 1 THEN ss[i] ELSE f[i - 1] \o ss[i]]

\* There is one, so the CHOOSE of FlattenSeq finds it.
LEMMA FlattenExists ==
  ASSUME NEW S, NEW ss \in Seq(S)
  PROVE  \E f : IsFlatten(f, ss)
<1> DEFINE Holds == {n \in Nat : \A tt \in Seq(S) : Len(tt) = n => \E f : IsFlatten(f, tt)}
<1>1. 0 \in Holds
  <2> SUFFICES ASSUME NEW tt \in Seq(S), Len(tt) = 0 PROVE \E f : IsFlatten(f, tt)
    OBVIOUS
  <2> DEFINE f == [i \in 1..0 |-> 0]
  <2>1. IsFlatten(f, tt)
    BY DEF IsFlatten
  <2> QED
    BY <2>1
<1>2. ASSUME NEW n \in Nat, n \in Holds PROVE n + 1 \in Holds
  <2> SUFFICES ASSUME NEW tt \in Seq(S), Len(tt) = n + 1 PROVE \E f : IsFlatten(f, tt)
    OBVIOUS
  <2> DEFINE front == SubSeq(tt, 1, n)
  <2>1. front \in Seq(S) /\ Len(front) = n /\ \A i \in 1..n : front[i] = tt[i]
    BY <1>2
  <2>2. PICK g : IsFlatten(g, front)
    BY <1>2, <2>1
  <2> HIDE DEF front
  <2> DEFINE f == [i \in 1..(n + 1) |->
                     IF i <= n THEN g[i] ELSE IF i = 1 THEN tt[i] ELSE g[n] \o tt[i]]
  <2>3. \A i \in 1..n : g[i] = IF i = 1 THEN tt[i] ELSE g[i - 1] \o tt[i]
    BY <2>1, <2>2 DEF IsFlatten
  <2>4. ASSUME NEW i \in 1..(n + 1)
        PROVE  f[i] = IF i = 1 THEN tt[i] ELSE f[i - 1] \o tt[i]
    <3>1. CASE i <= n
      <4>1. i \in 1..n /\ (i # 1 => i - 1 \in 1..(n + 1) /\ i - 1 <= n)
        BY <3>1
      <4>2. f[i] = g[i] /\ (i # 1 => f[i - 1] = g[i - 1])
        BY <3>1, <4>1
      <4> HIDE DEF f
      <4> QED
        BY <2>3, <4>1, <4>2
    <3>2. CASE i = n + 1
      <4>1. ~(i <= n) /\ (i # 1 => i - 1 = n /\ n \in 1..(n + 1) /\ n <= n)
        BY <3>2
      <4>2. f[i] = IF i = 1 THEN tt[i] ELSE g[n] \o tt[i]
        BY <4>1
      <4>3. i # 1 => f[i - 1] = g[n]
        BY <4>1
      <4> HIDE DEF f
      <4> QED
        BY <4>2, <4>3
    <3> QED
      BY <3>1, <3>2
  <2>5. IsFlatten(f, tt)
    <3>1. f = [i \in 1..(n + 1) |-> f[i]]
      OBVIOUS
    <3> HIDE DEF f
    <3> QED
      BY <2>4, <3>1 DEF IsFlatten
  <2> QED
    BY <2>5
<1>3. Len(ss) \in Holds
  <2> HIDE DEF Holds
  <2> QED
    BY <1>1, <1>2, InductionOverNat
<1> QED
  BY <1>3

\* Such a function depends on the elements only.
LEMMA FlattenUnique ==
  ASSUME NEW ss, NEW tt, Len(ss) \in Nat, Len(tt) \in Nat, NEW f, NEW g,
         IsFlatten(f, ss), IsFlatten(g, tt), NEW m \in Nat,
         m <= Len(ss), m <= Len(tt), \A i \in 1..m : ss[i] = tt[i]
  PROVE  \A i \in 1..m : f[i] = g[i]
<1> DEFINE Holds == {n \in Nat : n \in 1..m => f[n] = g[n]}
<1>1. 0 \in Holds
  OBVIOUS
<1>2. ASSUME NEW n \in Nat, n \in Holds PROVE n + 1 \in Holds
  <2> SUFFICES ASSUME n + 1 \in 1..m PROVE f[n + 1] = g[n + 1]
    OBVIOUS
  <2>1. n + 1 \in 1..Len(ss) /\ n + 1 \in 1..Len(tt) /\ (n + 1) - 1 = n
        /\ (n + 1 # 1 => n \in 1..m)
    OBVIOUS
  <2>2. f[n + 1] = IF n + 1 = 1 THEN ss[n + 1] ELSE f[n] \o ss[n + 1]
    BY <2>1 DEF IsFlatten
  <2>3. g[n + 1] = IF n + 1 = 1 THEN tt[n + 1] ELSE g[n] \o tt[n + 1]
    BY <2>1 DEF IsFlatten
  <2> QED
    BY <1>2, <2>1, <2>2, <2>3
<1>3. \A n \in Nat : n \in Holds
  <2> HIDE DEF Holds
  <2> QED
    BY <1>1, <1>2, InductionOverNat
<1> QED
  BY <1>3

\* No sequence, nothing.
LEMMA FlattenEmpty == FlattenSeq(<<>>) = <<>>
  BY DEF FlattenSeq

\* FlattenSeq is the last value of one.
LEMMA FlattenIs ==
  ASSUME NEW S, NEW ss \in Seq(S), Len(ss) # 0
  PROVE  \E f : IsFlatten(f, ss) /\ FlattenSeq(ss) = f[Len(ss)]
<1> DEFINE f == CHOOSE f : IsFlatten(f, ss)
<1>1. IsFlatten(f, ss)
  BY FlattenExists
<1>2. FlattenSeq(ss) = f[Len(ss)]
  BY DEF FlattenSeq, IsFlatten
<1> QED
  BY <1>1, <1>2

\* One more sequence goes behind the others.
LEMMA FlattenAppend ==
  ASSUME NEW S, NEW ss \in Seq(Seq(S)), NEW x \in Seq(S)
  PROVE  FlattenSeq(Append(ss, x)) = FlattenSeq(ss) \o x
<1> DEFINE tt == Append(ss, x)
           n == Len(ss)
<1>1. /\ tt \in Seq(Seq(S)) /\ n \in Nat /\ Len(tt) = n + 1 /\ tt[n + 1] = x
      /\ \A i \in 1..n : tt[i] = ss[i]
  BY AppendProperties
<1> HIDE DEF tt
<1>2. PICK g : IsFlatten(g, tt) /\ FlattenSeq(tt) = g[n + 1]
  BY <1>1, FlattenIs
<1>3. n + 1 \in 1..(n + 1) /\ (n + 1) - 1 = n
  BY <1>1
<1>4. g[n + 1] = IF n + 1 = 1 THEN x ELSE g[n] \o x
  BY <1>1, <1>2, <1>3 DEF IsFlatten
<1>5. CASE n = 0
  <2>1. ss = <<>>
    BY <1>5
  <2>2. <<>> \o x = x
    OBVIOUS
  <2> QED
    BY <1>2, <1>4, <1>5, <2>1, <2>2, FlattenEmpty DEF tt
<1>6. CASE n # 0
  <2>1. PICK f : IsFlatten(f, ss) /\ FlattenSeq(ss) = f[n]
    BY <1>6, FlattenIs
  <2>2. n \in 1..n /\ n <= Len(ss) /\ n <= Len(tt)
    BY <1>1, <1>6
  <2>3. f[n] = g[n]
    <3>1. \A i \in 1..n : ss[i] = tt[i]
      BY <1>1
    <3>2. /\ n \in Nat /\ n <= Len(ss) /\ n <= Len(tt)
          /\ IsFlatten(f, ss) /\ IsFlatten(g, tt)
      BY <1>1, <1>2, <2>1, <2>2
    <3>3. Len(ss) \in Nat /\ Len(tt) \in Nat
      BY <1>1
    <3> HIDE DEF n
    <3>4. \A i \in 1..n : f[i] = g[i]
      BY <3>1, <3>2, <3>3, FlattenUnique
    <3> QED
      BY <2>2, <3>4
  <2> QED
    BY <1>1, <1>2, <1>4, <1>6, <2>1, <2>3 DEF tt
<1> QED
  BY <1>5, <1>6

\* And nothing but what is in them comes out.
LEMMA FlattenType ==
  ASSUME NEW S, NEW ss \in Seq(Seq(S))
  PROVE  FlattenSeq(ss) \in Seq(S)
<1> DEFINE Holds == {n \in Nat : \A tt \in Seq(Seq(S)) : Len(tt) = n => FlattenSeq(tt) \in Seq(S)}
<1>1. 0 \in Holds
  <2> SUFFICES ASSUME NEW tt \in Seq(Seq(S)), Len(tt) = 0 PROVE FlattenSeq(tt) \in Seq(S)
    OBVIOUS
  <2>1. tt = <<>>
    OBVIOUS
  <2>2. FlattenSeq(tt) = <<>>
    BY <2>1, FlattenEmpty
  <2> QED
    BY <2>2, EmptySeq
<1>2. ASSUME NEW n \in Nat, n \in Holds PROVE n + 1 \in Holds
  <2> SUFFICES ASSUME NEW tt \in Seq(Seq(S)), Len(tt) = n + 1 PROVE FlattenSeq(tt) \in Seq(S)
    OBVIOUS
  <2>1. PICK front \in Seq(Seq(S)), x \in Seq(S) : tt = Append(front, x)
    <3>1. tt # <<>>
      BY <1>2
    <3> QED
      BY <3>1, SequenceEmptyOrAppend
  <2>2. Len(front) = n
    BY <1>2, <2>1
  <2> QED
    BY <1>2, <2>1, <2>2, FlattenAppend, ConcatProperties
<1>3. Len(ss) \in Holds
  <2> HIDE DEF Holds
  <2> QED
    BY <1>1, <1>2, InductionOverNat
<1> QED
  BY <1>3

\* Facts about sequences of sequences, stated for any set of elements.
LEMMA NotEmpty ==
  ASSUME NEW s, Len(s) # 0
  PROVE  s # <<>>
  OBVIOUS

LEMMA AppendPoints ==
  ASSUME NEW S, NEW s \in Seq(S), NEW x \in S
  PROVE  /\ Append(s, x) = [i \in 1..(Len(s) + 1) |-> Append(s, x)[i]]
         /\ \A i \in 1..Len(s) : Append(s, x)[i] = s[i]
         /\ Append(s, x)[Len(s) + 1] = x
<1>1. /\ Append(s, x) \in Seq(S) /\ Len(Append(s, x)) = Len(s) + 1
      /\ \A i \in 1..Len(s) : Append(s, x)[i] = s[i]
      /\ Append(s, x)[Len(s) + 1] = x
  BY AppendProperties
<1>2. Append(s, x) \in [1..(Len(s) + 1) -> S]
  BY <1>1, LenProperties
<1> QED
  BY <1>1, <1>2

LEMMA HeadTailPoints ==
  ASSUME NEW S, NEW s \in Seq(S), Len(s) # 0
  PROVE  /\ s # <<>>
         /\ Head(s) = s[1]
         /\ Tail(s) = [i \in 1..(Len(s) - 1) |-> s[i + 1]]
<1>1. s # <<>>
  BY NotEmpty
<1>2. /\ Tail(s) \in Seq(S) /\ Len(Tail(s)) = Len(s) - 1
      /\ \A i \in 1..(Len(s) - 1) : Tail(s)[i] = s[i + 1]
  BY <1>1, HeadTailProperties
<1>3. Tail(s) \in [1..(Len(s) - 1) -> S]
  BY <1>2, LenProperties
<1>4. Tail(s) = [i \in 1..(Len(s) - 1) |-> Tail(s)[i]]
  BY <1>3
<1>5. Tail(s) = [i \in 1..(Len(s) - 1) |-> s[i + 1]]
  BY <1>2, <1>4, Zenon
<1>6. Head(s) = s[1]
  OBVIOUS
<1> QED
  BY <1>1, <1>5, <1>6

LEMMA JoinThree ==
  ASSUME NEW S, NEW s \in Seq(S), NEW t \in Seq(S), NEW u \in Seq(S)
  PROVE  (s \o t) \o u = s \o (t \o u)
  BY ConcatAssociative

\* The first sequence goes before the others.
LEMMA FlattenCons ==
  ASSUME NEW S, NEW m \in Nat
  PROVE  \A tt \in Seq(Seq(S)) :
           Len(tt) = m + 1 => FlattenSeq(tt) = Head(tt) \o FlattenSeq(Tail(tt))
<1> DEFINE Holds == {n \in Nat : \A tt \in Seq(Seq(S)) :
                       Len(tt) = n + 1 => FlattenSeq(tt) = Head(tt) \o FlattenSeq(Tail(tt))}
<1>1. 0 \in Holds
  <2> SUFFICES ASSUME NEW tt \in Seq(Seq(S)), Len(tt) = 1
               PROVE  FlattenSeq(tt) = Head(tt) \o FlattenSeq(Tail(tt))
    OBVIOUS
  <2>0. tt # <<>>
    <3>1. Len(tt) # 0
      OBVIOUS
    <3> QED
      BY <3>1, NotEmpty, Zenon
  <2>1. PICK front \in Seq(Seq(S)), x \in Seq(S) : tt = Append(front, x)
    BY <2>0, SequenceEmptyOrAppend
  <2>2. front = <<>> /\ Len(front) = 0
    BY <2>1
  <2>5. Head(tt) = x /\ Tail(tt) = <<>>
    BY <2>1, <2>2
  <2>3. FlattenSeq(tt) = FlattenSeq(<<>>) \o x
    BY <2>1, <2>2, FlattenAppend
  <2>4. <<>> \o x = x /\ x \o <<>> = x
    OBVIOUS
  <2> QED
    BY <2>3, <2>4, <2>5, FlattenEmpty
<1>2. ASSUME NEW n \in Nat, n \in Holds PROVE n + 1 \in Holds
  <2> SUFFICES ASSUME NEW tt \in Seq(Seq(S)), Len(tt) = n + 2
               PROVE  FlattenSeq(tt) = Head(tt) \o FlattenSeq(Tail(tt))
    OBVIOUS
  <2>1. PICK front \in Seq(Seq(S)), x \in Seq(S) : tt = Append(front, x)
    <3>1. tt # <<>>
      OBVIOUS
    <3> QED
      BY <3>1, SequenceEmptyOrAppend
  <2>2. Len(front) = n + 1 /\ front # <<>>
    BY <2>1
  <2>3. /\ Head(tt) = Head(front) /\ Tail(tt) = Append(Tail(front), x)
        /\ Head(front) \in Seq(S) /\ Tail(front) \in Seq(Seq(S))
    BY <2>1, <2>2
  <2>4. FlattenSeq(front) = Head(front) \o FlattenSeq(Tail(front))
    BY <1>2, <2>2
  <2>5. /\ FlattenSeq(tt) = FlattenSeq(front) \o x
        /\ FlattenSeq(Tail(tt)) = FlattenSeq(Tail(front)) \o x
    BY <2>1, <2>3, FlattenAppend
  <2>6. FlattenSeq(Tail(front)) \in Seq(S)
    BY <2>3, FlattenType
  <2>7. (Head(front) \o FlattenSeq(Tail(front))) \o x
          = Head(front) \o (FlattenSeq(Tail(front)) \o x)
    <3> DEFINE h == Head(front)
               r == FlattenSeq(Tail(front))
    <3>1. h \in Seq(S) /\ r \in Seq(S) /\ x \in Seq(S)
      BY <2>3, <2>6
    <3> HIDE DEF h, r
    <3>2. (h \o r) \o x = h \o (r \o x)
      BY <3>1, JoinThree, SMTT(30)
    <3> QED
      BY <3>2 DEF h, r
  <2> QED
    BY <2>3, <2>4, <2>5, <2>7
<1>3. \A n \in Nat : n \in Holds
  <2> HIDE DEF Holds
  <2> QED
    BY <1>1, <1>2, InductionOverNat
<1> QED
  BY <1>3

------------------------------------------------------------------------------
(* The messages that the functors of a queue bring. *)

\* It is a sequence of messages, for a functor and for a queue.
LEMMA BroughtIsSequence ==
  ASSUME NEW f \in Functors, NEW from, NEW t
  PROVE  Brought(f, from, t) \in Seq(Messages)
  BY EmptySeq DEF Brought, Functors

LEMMA PiecesAreSequences ==
  ASSUME NEW q \in Seq(Functors), NEW from, NEW t
  PROVE  [i \in 1..Len(q) |-> Brought(q[i], from, t)] \in Seq(Seq(Messages))
<1>1. Len(q) \in Nat /\ \A i \in 1..Len(q) : q[i] \in Functors
  OBVIOUS
<1>2. \A i \in 1..Len(q) : Brought(q[i], from, t) \in Seq(Messages)
  BY <1>1, BroughtIsSequence
<1> QED
  BY <1>1, <1>2

LEMMA BroughtByType ==
  ASSUME NEW q \in Seq(Functors), NEW from, NEW t
  PROVE  BroughtBy(q, from, t) \in Seq(Messages)
  BY PiecesAreSequences, FlattenType DEF BroughtBy

\* How it grows and shrinks with the queue.
LEMMA BroughtByEmpty ==
  ASSUME NEW from, NEW t
  PROVE  BroughtBy(<<>>, from, t) = <<>>
<1>1. [i \in 1..Len(<<>>) |-> Brought(<<>>[i], from, t)] = <<>>
  OBVIOUS
<1> QED
  BY <1>1, FlattenEmpty DEF BroughtBy

LEMMA BroughtByAppend ==
  ASSUME NEW q \in Seq(Functors), NEW f \in Functors, NEW from, NEW t
  PROVE  BroughtBy(Append(q, f), from, t) = BroughtBy(q, from, t) \o Brought(f, from, t)
<1> DEFINE p(s) == [i \in 1..Len(s) |-> Brought(s[i], from, t)]
           r == Append(q, f)
<1>0. p(q) \in Seq(Seq(Messages)) /\ DOMAIN p(q) = 1..Len(q) /\ Len(q) \in Nat
  BY PiecesAreSequences
<1>1. p(q) \in Seq(Seq(Messages)) /\ Len(p(q)) = Len(q) /\ Len(q) \in Nat
  <2> HIDE DEF p
  <2> QED
    BY <1>0, LenProperties
<1>2. Brought(f, from, t) \in Seq(Messages)
  BY BroughtIsSequence
<1>3. /\ Len(r) = Len(q) + 1 /\ r[Len(q) + 1] = f
      /\ \A i \in 1..Len(q) : r[i] = q[i]
  OBVIOUS
<1> HIDE DEF r
<1>4. p(r) = Append(p(q), Brought(f, from, t))
  <2> DEFINE a == Append(p(q), Brought(f, from, t))
  <2>1. /\ a = [i \in 1..(Len(q) + 1) |-> a[i]]
        /\ \A i \in 1..Len(q) : a[i] = p(q)[i]
        /\ a[Len(q) + 1] = Brought(f, from, t)
    <3> DEFINE ss == p(q)
               x == Brought(f, from, t)
    <3>1. ss \in Seq(Seq(Messages)) /\ Len(ss) = Len(q) /\ x \in Seq(Messages)
      BY <1>1, <1>2
    <3> HIDE DEF ss, x
    <3>2. /\ Append(ss, x) = [i \in 1..(Len(ss) + 1) |-> Append(ss, x)[i]]
          /\ \A i \in 1..Len(ss) : Append(ss, x)[i] = ss[i]
          /\ Append(ss, x)[Len(ss) + 1] = x
      BY <3>1, AppendPoints, Zenon
    <3> QED
      BY <3>1, <3>2 DEF ss, x
  <2>2. ASSUME NEW i \in 1..(Len(q) + 1) PROVE p(r)[i] = a[i]
    <3>1. p(r)[i] = Brought(r[i], from, t)
      BY <1>3
    <3>2. CASE i = Len(q) + 1
      BY <1>3, <2>1, <3>1, <3>2
    <3>3. CASE i # Len(q) + 1
      <4>1. i \in 1..Len(q)
        BY <1>1, <3>3
      <4>2. p(q)[i] = Brought(q[i], from, t)
        BY <4>1
      <4> HIDE DEF a, p
      <4> QED
        BY <1>3, <2>1, <3>1, <4>1, <4>2
    <3> QED
      BY <3>2, <3>3
  <2>3. p(r) = [i \in 1..(Len(q) + 1) |-> p(r)[i]]
    BY <1>3
  <2>4. a = p(r)
    <3> DEFINE b == p(r)
               n == Len(q) + 1
    <3>1. a = [i \in 1..n |-> a[i]] /\ b = [i \in 1..n |-> b[i]]
          /\ \A i \in 1..n : b[i] = a[i]
      BY <2>1, <2>2, <2>3
    <3> HIDE DEF a, b, n
    <3> QED
      BY <3>1 DEF b
  <2> QED
    BY <2>4
<1>5. FlattenSeq(p(r)) = FlattenSeq(p(q)) \o Brought(f, from, t)
  <2> HIDE DEF p
  <2> QED
    BY <1>1, <1>2, <1>4, FlattenAppend
<1> QED
  BY <1>5 DEF BroughtBy, r

LEMMA BroughtByCons ==
  ASSUME NEW q \in Seq(Functors), q # <<>>, NEW from, NEW t
  PROVE  BroughtBy(q, from, t) = Brought(Head(q), from, t) \o BroughtBy(Tail(q), from, t)
<1> DEFINE p(s) == [i \in 1..Len(s) |-> Brought(s[i], from, t)]
<1>1. p(q) \in Seq(Seq(Messages)) /\ Len(p(q)) = Len(q)
  BY PiecesAreSequences
<1>2. /\ Len(q) \in Nat \ {0} /\ 1 \in 1..Len(q) /\ Head(q) = q[1]
      /\ Tail(q) \in Seq(Functors) /\ Len(Tail(q)) = Len(q) - 1
      /\ \A i \in 1..(Len(q) - 1) : Tail(q)[i] = q[i + 1] /\ i + 1 \in 1..Len(q)
  OBVIOUS
<1>3. p(q)[1] = Brought(Head(q), from, t)
  BY <1>2
<1>4. \A i \in 1..(Len(q) - 1) : p(q)[i + 1] = Brought(Tail(q)[i], from, t)
  BY <1>2
<1>5. p(Tail(q)) = [i \in 1..(Len(q) - 1) |-> Brought(Tail(q)[i], from, t)]
  BY <1>2
<1>6. p(q) # <<>> /\ Head(p(q)) = p(q)[1]
      /\ Tail(p(q)) = [i \in 1..(Len(q) - 1) |-> p(q)[i + 1]]
  <2> DEFINE ss == p(q)
             n == Len(q)
  <2>1. ss \in Seq(Seq(Messages)) /\ Len(ss) = n /\ n \in Nat \ {0}
    BY <1>1, <1>2
  <2> HIDE DEF ss, n
  <2>2. ss # <<>> /\ Head(ss) = ss[1] /\ Tail(ss) = [i \in 1..(n - 1) |-> ss[i + 1]]
    BY <2>1, HeadTailPoints
  <2> QED
    BY <2>2 DEF ss, n
<1>7. Tail(p(q)) = p(Tail(q))
  <2> HIDE DEF p
  <2> QED
    BY <1>4, <1>5, <1>6
<1>8. FlattenSeq(p(q)) = Head(p(q)) \o FlattenSeq(Tail(p(q)))
  <2> DEFINE ss == p(q)
             m == Len(q) - 1
  <2>1. ss \in Seq(Seq(Messages)) /\ m \in Nat /\ Len(ss) = m + 1
    BY <1>1, <1>2
  <2> HIDE DEF ss, m
  <2>2. FlattenSeq(ss) = Head(ss) \o FlattenSeq(Tail(ss))
    BY <2>1, FlattenCons
  <2> QED
    BY <2>2 DEF ss
<1>9. FlattenSeq(p(q)) = Brought(Head(q), from, t) \o FlattenSeq(p(Tail(q)))
  <2> HIDE DEF p
  <2> QED
    BY <1>3, <1>6, <1>7, <1>8
<1> QED
  BY <1>9 DEF BroughtBy

\* What the functors bring depends on who sent their messages only.
LEMMA BroughtBySame ==
  ASSUME NEW q, NEW from, NEW and, NEW t,
         \A i \in 1..Len(q) : Brought(q[i], from, t) = Brought(q[i], and, t)
  PROVE  BroughtBy(q, from, t) = BroughtBy(q, and, t)
<1>1. [i \in 1..Len(q) |-> Brought(q[i], from, t)] = [i \in 1..Len(q) |-> Brought(q[i], and, t)]
  OBVIOUS
<1> QED
  BY <1>1 DEF BroughtBy

------------------------------------------------------------------------------
(* Where a message is until it passes sendInLoop. *)

\* Every message in q has been sent by a thread.
SendersKnown(q, from) ==
  \A i \in 1..Len(q) : q[i].op = "send" => from[q[i].msg] \in Threads

\* No message is in q twice.
OneFunctorEach(q) ==
  \A i, j \in 1..Len(q) : q[i].op = "send" /\ q[j] = q[i] => i = j

NotIn(q, m) == \A i \in 1..Len(q) : q[i] # DoSend(m)

\* Until it passes sendInLoop, a message is in its thread's call or in one
\* functor; and a connection that says it is down is.
SendsInv ==
  /\ SendersKnown(queue, sender)
  /\ OneFunctorEach(queue)
  /\ \A t \in Threads : calls[t].at = "send" =>
       sender[calls[t].msg] = t /\ NotIn(queue, calls[t].msg)
  /\ state = "kDisconnected" => closed \/ destroyed

\* The variables of ByteStream.
Used == {m \in Messages : sender[m] # "unsent"}
Offered == [t \in Threads |-> OnTheWay(t)]
Down == closed \/ destroyed \/ peer = "reset"

\* r brings what q brings.
BringsSame(q, r) ==
  /\ \A from, t : BroughtBy(r, from, t) = BroughtBy(q, from, t)
  /\ \A from : SendersKnown(q, from) => SendersKnown(r, from)
  /\ OneFunctorEach(q) => OneFunctorEach(r)
  /\ \A m : NotIn(q, m) => NotIn(r, m)

\* BringsSame is reflexive and transitive.
LEMMA SameItself == \A q : BringsSame(q, q)
  BY DEF BringsSame

LEMMA SameTwice ==
  ASSUME NEW q, NEW r, NEW s, BringsSame(q, r), BringsSame(r, s)
  PROVE  BringsSame(q, s)
  BY DEF BringsSame

\* Where the functors of a longer or shorter queue are.
LEMMA InAppend ==
  ASSUME NEW q \in Seq(Functors), NEW f \in Functors
  PROVE  /\ Append(q, f) \in Seq(Functors)
         /\ Len(q) \in Nat /\ Len(Append(q, f)) = Len(q) + 1
         /\ \A i \in 1..Len(q) : Append(q, f)[i] = q[i]
         /\ Append(q, f)[Len(q) + 1] = f
         /\ \A i \in 1..(Len(q) + 1) : i \in 1..Len(q) \/ i = Len(q) + 1
  OBVIOUS

LEMMA InTail ==
  ASSUME NEW q \in Seq(Functors), q # <<>>
  PROVE  /\ Tail(q) \in Seq(Functors) /\ Head(q) \in Functors /\ Head(q) = q[1]
         /\ Len(q) \in Nat /\ 1 \in 1..Len(q) /\ Len(Tail(q)) = Len(q) - 1
         /\ \A i \in 1..Len(Tail(q)) : Tail(q)[i] = q[i + 1] /\ i + 1 \in 1..Len(q)
  OBVIOUS

\* A functor that is no sendInLoop brings nothing.
LEMMA SameAppend ==
  ASSUME NEW q \in Seq(Functors), NEW f \in Functors, f.op # "send"
  PROVE  BringsSame(q, Append(q, f))
<1> DEFINE r == Append(q, f)
           n == Len(q)
<1>1. /\ n \in Nat /\ Len(r) = n + 1
      /\ \A i \in 1..n : r[i] = q[i]
      /\ r[n + 1] = f
      /\ \A i \in 1..(n + 1) : i \in 1..n \/ i = n + 1
  BY InAppend
<1>2. ASSUME NEW from, NEW t PROVE BroughtBy(r, from, t) = BroughtBy(q, from, t)
  <2>1. Brought(f, from, t) = <<>>
    BY DEF Brought
  <2>2. BroughtBy(q, from, t) \in Seq(Messages)
    BY BroughtByType
  <2>3. BroughtBy(q, from, t) \o <<>> = BroughtBy(q, from, t)
    BY <2>2, ConcatEmptySeq
  <2>4. BroughtBy(Append(q, f), from, t) = BroughtBy(q, from, t) \o Brought(f, from, t)
    BY BroughtByAppend, Zenon
  <2> QED
    BY <2>1, <2>3, <2>4
<1> HIDE DEF r, n
<1>3. \A from : SendersKnown(q, from) => SendersKnown(r, from)
  BY <1>1 DEF SendersKnown, n
<1>4. OneFunctorEach(q) => OneFunctorEach(r)
  <2> SUFFICES ASSUME OneFunctorEach(q), NEW i \in 1..(n + 1), NEW j \in 1..(n + 1),
                      r[i].op = "send", r[j] = r[i]
               PROVE  i = j
    BY <1>1 DEF OneFunctorEach
  <2>1. i # n + 1 /\ j # n + 1
    BY <1>1
  <2>2. i \in 1..n /\ j \in 1..n
    BY <1>1, <2>1
  <2> QED
    BY <1>1, <2>2 DEF OneFunctorEach, n
<1>5. \A m : NotIn(q, m) => NotIn(r, m)
  <2>1. \A m : DoSend(m).op = "send"
    BY DEF DoSend
  <2> QED
    BY <1>1, <2>1 DEF NotIn, n
<1> QED
  BY <1>2, <1>3, <1>4, <1>5 DEF BringsSame, r

\* What is left of a queue, and what its first functor brought.
LEMMA OneLess ==
  ASSUME NEW q \in Seq(Functors), q # <<>>
  PROVE  /\ \A from, t :
              BroughtBy(q, from, t) = Brought(Head(q), from, t) \o BroughtBy(Tail(q), from, t)
         /\ \A from : SendersKnown(q, from) => SendersKnown(Tail(q), from)
         /\ OneFunctorEach(q) => OneFunctorEach(Tail(q))
         /\ \A m : NotIn(q, m) => NotIn(Tail(q), m)
<1>1. \A from, t : BroughtBy(q, from, t) = Brought(Head(q), from, t) \o BroughtBy(Tail(q), from, t)
  BY BroughtByCons
<1> DEFINE r == Tail(q)
           n == Len(r)
<1>2. \A i \in 1..n : r[i] = q[i + 1] /\ i + 1 \in 1..Len(q)
  BY InTail
<1> HIDE DEF r, n
<1>3. \A from : SendersKnown(q, from) => SendersKnown(r, from)
  BY <1>2 DEF SendersKnown, n
<1>4. OneFunctorEach(q) => OneFunctorEach(r)
  <2> SUFFICES ASSUME OneFunctorEach(q), NEW i \in 1..n, NEW j \in 1..n,
                      r[i].op = "send", r[j] = r[i]
               PROVE  i = j
    BY DEF OneFunctorEach, n
  <2>1. i + 1 = j + 1
    BY <1>2 DEF OneFunctorEach
  <2> QED
    BY <2>1
<1>5. \A m : NotIn(q, m) => NotIn(r, m)
  BY <1>2 DEF NotIn, n
<1> QED
  BY <1>1, <1>3, <1>4, <1>5 DEF r

\* Such a functor may also leave.
LEMMA SameTail ==
  ASSUME NEW q \in Seq(Functors), q # <<>>, Head(q).op # "send"
  PROVE  BringsSame(q, Tail(q))
<1>1. ASSUME NEW from, NEW t PROVE BroughtBy(Tail(q), from, t) = BroughtBy(q, from, t)
  <2>1. Brought(Head(q), from, t) = <<>>
    BY DEF Brought
  <2>2. BroughtBy(Tail(q), from, t) \in Seq(Messages)
    BY InTail, BroughtByType
  <2>3. <<>> \o BroughtBy(Tail(q), from, t) = BroughtBy(Tail(q), from, t)
    BY <2>2, ConcatEmptySeq
  <2> QED
    BY <2>1, <2>3, OneLess
<1> QED
  BY <1>1, OneLess DEF BringsSame

\* The functors sendInLoop queues are none of them.
LEMMA SameAfterSend ==
  ASSUME NEW q \in Seq(Functors), NEW n
  PROVE  AfterSend(q, n) \in Seq(Functors) /\ BringsSame(q, AfterSend(q, n))
<1> DEFINE w == Do("writeComplete")
           h == Do("highWater")
<1>1. w \in Functors /\ h \in Functors /\ w.op # "send" /\ h.op # "send"
  BY DEF Do, Functors
<1> DEFINE A == n = Size
           B == n < Size /\ CrossesMark(Len(outputBuffer), Size - n)
           r == IF A THEN Append(q, w) ELSE q
           s == IF B THEN Append(r, h) ELSE r
<1>2. r \in Seq(Functors) /\ BringsSame(q, r)
  BY <1>1, SameAppend, SameItself, InAppend
<1> HIDE DEF w, h, A, B
<1>3. s \in Seq(Functors) /\ BringsSame(r, s)
  <2> HIDE DEF r
  <2> QED
    BY <1>1, <1>2, SameAppend, SameItself, InAppend
<1>4. AfterSend(q, n) = s
  <2>1. AfterSend(q, n) = (q \o (IF A THEN <<w>> ELSE <<>>)) \o (IF B THEN <<h>> ELSE <<>>)
    BY DEF AfterSend, A, B, w, h
  <2>2. \A p \in Seq(Functors), f \in Functors : p \o <<f>> = Append(p, f) /\ p \o <<>> = p
    OBVIOUS
  <2>3. q \o (IF A THEN <<w>> ELSE <<>>) = r
    BY <1>1, <2>2
  <2>4. r \o (IF B THEN <<h>> ELSE <<>>) = s
    <3> HIDE DEF r
    <3> QED
      BY <1>1, <1>2, <2>2
  <2> QED
    BY <2>1, <2>3, <2>4
<1> HIDE DEF r, s
<1> QED
  BY <1>2, <1>3, <1>4, SameTwice

------------------------------------------------------------------------------
(* Quiet steps. *)

\* A step that brings no message anywhere changes neither what was offered nor
\* what is on its way.
LEMMA QuietStep ==
  ASSUME SendsInv, BringsSame(queue, queue'), sender' = sender,
         \A t \in Threads :
           calls'[t] = calls[t] \/ (calls'[t].at # "send" /\ calls[t].at # "send"),
         state' = "kDisconnected" => closed' \/ destroyed'
  PROVE  SendsInv' /\ Used' = Used /\ Offered' = Offered
<1>1. Used' = Used
  BY DEF Used
<1>2. ASSUME NEW t \in Threads PROVE OnTheWay(t)' = OnTheWay(t)
  <2>1. BroughtBy(queue', sender', t) = BroughtBy(queue, sender, t)
    BY DEF BringsSame
  <2>2. (IF calls'[t].at = "send" THEN <<calls'[t].msg>> ELSE <<>>)
          = (IF calls[t].at = "send" THEN <<calls[t].msg>> ELSE <<>>)
    OBVIOUS
  <2>3. OnTheWay(t)' = BroughtBy(queue', sender', t)
                         \o (IF calls'[t].at = "send" THEN <<calls'[t].msg>> ELSE <<>>)
    BY DEF OnTheWay, BroughtBy, Brought
  <2>4. OnTheWay(t) = BroughtBy(queue, sender, t)
                         \o (IF calls[t].at = "send" THEN <<calls[t].msg>> ELSE <<>>)
    BY DEF OnTheWay
  <2> QED
    BY <2>1, <2>2, <2>3, <2>4
<1>3. Offered' = Offered
  BY <1>2 DEF Offered
<1>4. SendersKnown(queue', sender') /\ OneFunctorEach(queue')
  BY DEF SendsInv, BringsSame
<1>5. ASSUME NEW t \in Threads, calls'[t].at = "send"
      PROVE  sender'[calls'[t].msg] = t /\ NotIn(queue', calls'[t].msg)
  <2>1. calls'[t] = calls[t]
    BY <1>5
  <2> QED
    BY <1>5, <2>1 DEF SendsInv, BringsSame
<1>6. SendsInv'
  BY <1>4, <1>5 DEF SendsInv, SendersKnown, OneFunctorEach, NotIn, DoSend
<1> QED
  BY <1>1, <1>3, <1>6

------------------------------------------------------------------------------
(* What leaves *)

\* The beginning of what was accepted, and nothing behind a FIN.
LEMMA WhatLeaves ==
  ASSUME TypeOK, TypeOK', BytesInOrder', NEW x \in Seq(Byte), wire' = wire \o x,
         finSent => wire' = wire
  PROVE  Stream!Leave(accepted')
<1>1. /\ wire \in Seq(Byte) /\ wire' \in Seq(Byte) /\ outputBuffer' \in Seq(Byte)
      /\ accepted' = wire' \o outputBuffer'
  BY DEF TypeOK, BytesInOrder
<1> DEFINE w == wire
           v == wire'
           b == outputBuffer'
           n == Len(v)
<1> HIDE DEF w, v, b
<1>2. w \in Seq(Byte) /\ v \in Seq(Byte) /\ b \in Seq(Byte) /\ v = w \o x /\ accepted' = v \o b
  BY <1>1 DEF w, v, b
<1>3. /\ Len(w) \in Nat /\ Len(x) \in Nat /\ n = Len(w) + Len(x)
      /\ Len(b) \in Nat /\ Len(v \o b) = n + Len(b)
  BY <1>2, ConcatProperties, LenProperties
<1>4. n \in Len(w)..Len(v \o b)
  BY <1>3
<1>5. SubSeq(v \o b, 1, n) = v
  BY <1>2
<1>6. \E k \in Len(w)..Len(v \o b) : v = SubSeq(v \o b, 1, k)
  BY <1>4, <1>5
<1>7. \E k \in Len(wire)..Len(accepted') : wire' = SubSeq(accepted', 1, k)
  BY <1>2, <1>6 DEF w, v
<1> QED
  BY <1>7 DEF Stream!Leave

\* Nothing at all leaves.
LEMMA NothingLeaves ==
  ASSUME TypeOK, TypeOK', BytesInOrder', wire' = wire
  PROVE  Stream!Leave(accepted')
<1>1. <<>> \in Seq(Byte) /\ wire \o <<>> = wire
  BY EmptySeq, ConcatEmptySeq DEF TypeOK
<1> QED
  BY <1>1, WhatLeaves

\* sendInLoop takes the message whole or, once the stream was ended or is down,
\* loses it.
LEMMA SendInLoopTakes ==
  ASSUME IInv, IInv', SendsInv, NEW m \in Messages, NEW q \in Seq(Functors), SendInLoop(m, q),
         UNCHANGED <<closed, destroyed>>
  PROVE  /\ Stream!TakeOrLose(m)
         /\ queue' = q \/ \E n \in 0..Size : queue' = AfterSend(q, n)
         /\ state' = state
<1>0. TypeOK /\ TypeOK' /\ BytesInOrder'
  BY DEF IInv, Inv
<1>1. CASE (SendGivesUp \/ SendFaults) /\ queue' = q
  <2>1. UNCHANGED <<conn, socket, accepted>>
    BY <1>1 DEF SendGivesUp, SendFaults
  <2>2. UNCHANGED <<state, wire, finSent, peer, accepted>>
    BY <2>1 DEF conn, socket
  <2>3. finSent \/ Down
    BY <1>1 DEF SendGivesUp, SendFaults, Gone, WriteFails, SendsInv, Down
  <2>4. Stream!Leave(accepted')
    BY <1>0, <2>2, NothingLeaves
  <2>5. Stream!TakeOrLose(m)
    BY <2>2, <2>3, <2>4 DEF Stream!TakeOrLose, Down
  <2> QED
    BY <1>1, <2>2, <2>5
<1>2. ASSUME NEW n \in 0..Size, SendWrites(m, n), queue' = AfterSend(q, n)
      PROVE  /\ Stream!TakeOrLose(m)
             /\ queue' = q \/ \E i \in 0..Size : queue' = AfterSend(q, i)
             /\ state' = state
  <2> DEFINE now == SubSeq(Bytes(m), 1, n)
  <2>1. /\ wire' = wire \o now /\ accepted' = accepted \o Bytes(m)
        /\ UNCHANGED <<state, finSent, peer>>
        /\ (MayWriteNow /\ ~WriteFails) \/ n = 0
    BY <1>2 DEF SendWrites
  <2>2. now \in Seq(Byte) /\ (n = 0 => now = <<>>)
    <3>1. Bytes(m) \in Seq(Byte) /\ Len(Bytes(m)) = Size
      BY BytesOfMessage
    <3>2. now \in Seq(Byte)
      BY <3>1, CutInTwo
    <3> QED
      BY <3>2, SubSeqEmpty
  <2> HIDE DEF now
  <2>3. finSent => wire' = wire
    <3>1. finSent => n = 0
      BY <2>1 DEF WriteFails
    <3>2. wire \o <<>> = wire
      BY <1>0, ConcatEmptySeq DEF TypeOK
    <3> QED
      BY <2>1, <2>2, <3>1, <3>2
  <2>4. Stream!Leave(accepted')
    BY <1>0, <2>1, <2>2, <2>3, WhatLeaves
  <2>5. accepted' = accepted \o Stream!Bytes(m)
    BY <2>1 DEF Bytes, Stream!Bytes
  <2>6. Stream!TakeOrLose(m)
    BY <2>1, <2>4, <2>5 DEF Stream!TakeOrLose
  <2> QED
    BY <1>2, <2>1, <2>6
<1> QED
  BY <1>1, <1>2 DEF SendInLoop

\* The queue then brings what q brought.
LEMMA AfterSendInLoop ==
  ASSUME NEW q \in Seq(Functors),
         queue' = q \/ \E n \in 0..Size : queue' = AfterSend(q, n)
  PROVE  BringsSame(q, queue')
  BY SameItself, SameAfterSend

------------------------------------------------------------------------------
(* The steps of a message *)

\* What is on the way now and after the step.
LEMMA OnTheWayIs ==
  ASSUME NEW t
  PROVE  /\ OnTheWay(t) = BroughtBy(queue, sender, t)
              \o (IF calls[t].at = "send" THEN <<calls[t].msg>> ELSE <<>>)
         /\ OnTheWay(t)' = BroughtBy(queue', sender', t)
              \o (IF calls'[t].at = "send" THEN <<calls'[t].msg>> ELSE <<>>)
  BY DEF OnTheWay, BroughtBy, Brought

\* A message in no functor of q may change hands without q bringing anything
\* else.
LEMMA OtherSender ==
  ASSUME NEW q \in Seq(Functors), NEW m \in Messages, NotIn(q, m),
         NEW from, DOMAIN from = Messages, NEW whose, NEW t,
         whose = [from EXCEPT ![m] = whose[m]]
  PROVE  /\ BroughtBy(q, whose, t) = BroughtBy(q, from, t)
         /\ SendersKnown(q, from) => SendersKnown(q, whose)
<1>1. ASSUME NEW i \in 1..Len(q), q[i].op = "send" PROVE whose[q[i].msg] = from[q[i].msg]
  <2>1. q[i] \in Functors
    OBVIOUS
  <2>2. q[i] = DoSend(q[i].msg)
    BY <1>1, <2>1 DEF Functors, DoSend
  <2>3. q[i].msg # m /\ q[i].msg \in Messages
    BY <1>1, <2>1, <2>2 DEF NotIn, Functors
  <2> QED
    BY <2>3
<1>2. \A i \in 1..Len(q) : Brought(q[i], from, t) = Brought(q[i], whose, t)
  BY <1>1 DEF Brought
<1>3. BroughtBy(q, whose, t) = BroughtBy(q, from, t)
  BY <1>2, BroughtBySame
<1> QED
  BY <1>1, <1>3 DEF SendersKnown

\* A message nobody has sent is in no functor.
LEMMA UnsentIsNowhere ==
  ASSUME TypeOK, SendsInv, NEW m \in Messages, sender[m] \notin Threads
  PROVE  NotIn(queue, m) /\ \A t \in Threads : calls[t].at = "send" => calls[t].msg # m
<1>1. DoSend(m).op = "send" /\ DoSend(m).msg = m
  BY DEF DoSend
<1> QED
  BY <1>1 DEF NotIn, SendsInv, SendersKnown

\* The functor's send(): the message of s is the first of s on its way.
LEMMA RunSendTakes ==
  ASSUME IInv, IInv', SendsInv, RunSend
  PROVE  SendsInv' /\ \E s \in Threads : Stream!Take(s)
<1> DEFINE q == Tail(queue)
<1>0. TypeOK /\ queue \in Seq(Functors) /\ queue # <<>> /\ Head(queue).op = "send"
  BY DEF IInv, Inv, TypeOK, RunSend, NextFunctor
<1>1. /\ q \in Seq(Functors) /\ Head(queue) \in Functors /\ Head(queue) = queue[1]
      /\ Len(queue) \in Nat /\ 1 \in 1..Len(queue) /\ Len(q) = Len(queue) - 1
      /\ \A i \in 1..Len(q) : q[i] = queue[i + 1] /\ i + 1 \in 1..Len(queue)
  BY <1>0, InTail
<1>a. PICK m \in Messages : m = Head(queue).msg
  BY <1>0, <1>1 DEF Functors
<1>b. PICK s \in Threads : s = sender[m]
  BY <1>0, <1>1, <1>a DEF SendsInv, SendersKnown
<1>2. Head(queue) = DoSend(m)
  BY <1>0, <1>1, <1>a DEF Functors, DoSend
<1>3. SendInLoop(m, q) /\ sender' = [sender EXCEPT ![m] = "passed"]
      /\ UNCHANGED <<inCallback, calls, server>>
  BY <1>a DEF RunSend
<1> HIDE DEF q
<1>4. /\ Stream!TakeOrLose(m)
      /\ queue' = q \/ \E n \in 0..Size : queue' = AfterSend(q, n)
      /\ state' = state /\ calls' = calls /\ closed' = closed /\ destroyed' = destroyed
  BY <1>1, <1>2, <1>3, SendInLoopTakes DEF server
<1>5. BringsSame(q, queue')
  BY <1>1, <1>4, AfterSendInLoop
<1>6. NotIn(q, m) /\ \A t \in Threads : calls[t].at = "send" => calls[t].msg # m
  <2>1. NotIn(q, m)
    <3> SUFFICES ASSUME NEW i \in 1..Len(q), q[i] = DoSend(m) PROVE FALSE
      BY DEF NotIn
    <3>1. queue[i + 1] = queue[1] /\ i + 1 \in 1..Len(queue) /\ queue[1].op = "send"
      BY <1>0, <1>1, <1>2
    <3>2. i + 1 = 1
      BY <1>1, <3>1 DEF SendsInv, OneFunctorEach
    <3> QED
      BY <3>2
  <2>2. ASSUME NEW t \in Threads, calls[t].at = "send" PROVE calls[t].msg # m
    <3>1. queue[1] # DoSend(calls[t].msg)
      BY <1>1, <2>2 DEF SendsInv, NotIn
    <3> QED
      BY <1>1, <1>2, <3>1
  <2> QED
    BY <2>1, <2>2
<1>7. sender \in [Messages -> Threads \cup {"unsent", "passed"}]
      /\ sender' = [sender EXCEPT ![m] = sender'[m]] /\ sender'[m] = "passed"
  BY <1>0, <1>2, <1>3 DEF TypeOK
<1>8. Used' = Used
  <2>1. sender[m] # "unsent"
    BY <1>b, ConnAssumption
  <2> QED
    BY <1>3, <1>7, <2>1 DEF Used
<1>9. ASSUME NEW t \in Threads
      PROVE  BroughtBy(queue', sender', t) = BroughtBy(q, sender, t)
  <2>1. BroughtBy(q, sender', t) = BroughtBy(q, sender, t)
    BY <1>1, <1>2, <1>6, <1>7, OtherSender
  <2> QED
    BY <1>5, <2>1 DEF BringsSame
<1>10. ASSUME NEW t \in Threads
       PROVE  OnTheWay(t) = (IF t = s THEN <<m>> ELSE <<>>) \o OnTheWay(t)'
              /\ OnTheWay(t)' \in Seq(Messages)
  <2> DEFINE c == IF calls[t].at = "send" THEN <<calls[t].msg>> ELSE <<>>
             b == BroughtBy(q, sender, t)
             f == Brought(Head(queue), sender, t)
  <2>1. c \in Seq(Messages) /\ b \in Seq(Messages) /\ f \in Seq(Messages)
    <3>1. c \in Seq(Messages)
      <4>1. calls[t].at = "send" => calls[t].msg \in Messages
        BY <1>0 DEF TypeOK
      <4>2. <<>> \in Seq(Messages) /\ \A n \in Messages : <<n>> \in Seq(Messages)
        OBVIOUS
      <4> QED
        BY <4>1, <4>2
    <3>2. b \in Seq(Messages)
      BY <1>1, BroughtByType
    <3>3. f \in Seq(Messages)
      BY <1>1, BroughtIsSequence
    <3> QED
      BY <3>1, <3>2, <3>3
  <2>2. f = IF t = s THEN <<m>> ELSE <<>>
    BY <1>0, <1>a, <1>b DEF Brought
  <2>3. BroughtBy(queue, sender, t) = f \o b
    BY <1>0, OneLess DEF q
  <2>4. OnTheWay(t) = (f \o b) \o c /\ OnTheWay(t)' = b \o c
    BY <1>4, <1>9, <2>3, OnTheWayIs
  <2> HIDE DEF b, c, f
  <2>5. (f \o b) \o c = f \o (b \o c) /\ b \o c \in Seq(Messages)
    BY <2>1, JoinThree, ConcatProperties
  <2> QED
    BY <2>2, <2>4, <2>5
<1>11. /\ OnTheWay(s) # <<>> /\ Head(OnTheWay(s)) = m
       /\ OnTheWay(s)' = Tail(OnTheWay(s))
  <2>1. \A r \in Seq(Messages) : /\ <<m>> \o r # <<>>
                                 /\ Head(<<m>> \o r) = m /\ Tail(<<m>> \o r) = r
    BY <1>2
  <2>2. OnTheWay(s) = <<m>> \o OnTheWay(s)' /\ OnTheWay(s)' \in Seq(Messages)
    BY <1>2, <1>10
  <2> QED
    BY <2>1, <2>2
<1>12. ASSUME NEW t \in Threads, t # s PROVE OnTheWay(t)' = OnTheWay(t)
  <2>1. \A r \in Seq(Messages) : <<>> \o r = r
    OBVIOUS
  <2> QED
    BY <1>10, <1>12, <2>1
<1>13. Offered' = [Offered EXCEPT ![s] = Tail(@)] /\ Offered[s] # <<>> /\ Head(Offered[s]) = m
  <2>1. \A t \in Threads : OnTheWay(t)' = IF t = s THEN Tail(OnTheWay(t)) ELSE OnTheWay(t)
    BY <1>11, <1>12
  <2>2. Offered[s] = OnTheWay(s)
    BY <1>2 DEF Offered
  <2>3. Offered' = [t \in Threads |-> IF t = s THEN Tail(OnTheWay(t)) ELSE OnTheWay(t)]
    BY <2>1 DEF Offered
  <2>4. [Offered EXCEPT ![s] = Tail(@)]
          = [t \in Threads |-> IF t = s THEN Tail(OnTheWay(t)) ELSE OnTheWay(t)]
    BY <1>2 DEF Offered
  <2> QED
    BY <1>11, <2>2, <2>3, <2>4
<1>14. Stream!Take(s)
  BY <1>4, <1>8, <1>13 DEF Stream!Take, Used, Offered
<1>15. SendsInv'
  <2>1. SendersKnown(q, sender) /\ OneFunctorEach(q)
        /\ \A n : NotIn(queue, n) => NotIn(q, n)
    BY <1>0, OneLess DEF SendsInv, q
  <2>2. SendersKnown(q, sender')
    BY <1>1, <1>2, <1>6, <1>7, <2>1, OtherSender
  <2>3. SendersKnown(queue', sender') /\ OneFunctorEach(queue')
    BY <1>5, <2>1, <2>2 DEF BringsSame
  <2>4. ASSUME NEW t \in Threads, calls'[t].at = "send"
        PROVE  sender'[calls'[t].msg] = t /\ NotIn(queue', calls'[t].msg)
    <3>1. calls'[t] = calls[t] /\ calls[t].msg # m /\ calls[t].msg \in Messages
      BY <1>0, <1>4, <1>6, <2>4 DEF TypeOK
    <3>2. NotIn(queue', calls[t].msg)
      BY <1>5, <2>1, <2>4, <3>1 DEF SendsInv, BringsSame
    <3> QED
      BY <1>3, <1>7, <2>4, <3>1, <3>2 DEF SendsInv
  <2> QED
    BY <1>4, <2>3, <2>4 DEF SendsInv, SendersKnown, OneFunctorEach, NotIn, DoSend
<1> QED
  BY <1>2, <1>14, <1>15

\* A user callback's send(): the message is taken at once.
LEMMA SendFromCallbackTakes ==
  ASSUME IInv, IInv', SendsInv, NEW m \in Messages, SendFromCallback(m)
  PROVE  SendsInv' /\ Stream!TakeNow(m)
<1>0. TypeOK /\ queue \in Seq(Functors) /\ sender[m] = "unsent"
  BY DEF IInv, Inv, TypeOK, SendFromCallback
<1>1. SendInLoop(m, queue) /\ sender' = [sender EXCEPT ![m] = "passed"]
      /\ UNCHANGED <<inCallback, calls, server>>
  BY DEF SendFromCallback
<1>2. /\ Stream!TakeOrLose(m)
      /\ queue' = queue \/ \E n \in 0..Size : queue' = AfterSend(queue, n)
      /\ state' = state /\ calls' = calls /\ closed' = closed /\ destroyed' = destroyed
  BY <1>0, <1>1, SendInLoopTakes DEF server
<1>3. BringsSame(queue, queue')
  BY <1>0, <1>2, AfterSendInLoop
<1>4. sender[m] \notin Threads
  BY <1>0, ConnAssumption
<1>5. NotIn(queue, m) /\ \A t \in Threads : calls[t].at = "send" => calls[t].msg # m
  BY <1>0, <1>4, UnsentIsNowhere
<1>6. sender \in [Messages -> Threads \cup {"unsent", "passed"}]
      /\ sender' = [sender EXCEPT ![m] = sender'[m]] /\ sender'[m] = "passed"
  BY <1>0, <1>1 DEF TypeOK
<1>7. m \notin Used /\ Used' = Used \cup {m}
  BY <1>0, <1>1, <1>6 DEF Used
<1>8. ASSUME NEW t \in Threads PROVE OnTheWay(t)' = OnTheWay(t)
  <2>1. BroughtBy(queue, sender', t) = BroughtBy(queue, sender, t)
    BY <1>0, <1>5, <1>6, OtherSender
  <2>2. BroughtBy(queue', sender', t) = BroughtBy(queue, sender, t)
    BY <1>3, <2>1 DEF BringsSame
  <2> QED
    BY <1>2, <2>2, OnTheWayIs
<1>9. Offered' = Offered
  BY <1>8 DEF Offered
<1>10. Stream!TakeNow(m)
  BY <1>2, <1>7, <1>9 DEF Stream!TakeNow, Used, Offered
<1>11. SendsInv'
  <2>1. SendersKnown(queue, sender') 
    BY <1>0, <1>5, <1>6, OtherSender DEF SendsInv
  <2>2. SendersKnown(queue', sender') /\ OneFunctorEach(queue')
    BY <1>3, <2>1 DEF BringsSame, SendsInv
  <2>3. ASSUME NEW t \in Threads, calls'[t].at = "send"
        PROVE  sender'[calls'[t].msg] = t /\ NotIn(queue', calls'[t].msg)
    <3>1. calls'[t] = calls[t] /\ calls[t].msg # m /\ calls[t].msg \in Messages
      BY <1>0, <1>2, <1>5, <2>3 DEF TypeOK
    <3>2. NotIn(queue', calls[t].msg)
      BY <1>3, <2>3, <3>1 DEF SendsInv, BringsSame
    <3> QED
      BY <1>1, <1>6, <2>3, <3>1, <3>2 DEF SendsInv
  <2> QED
    BY <1>2, <2>2, <2>3 DEF SendsInv, SendersKnown, OneFunctorEach, NotIn, DoSend
<1> QED
  BY <1>10, <1>11

------------------------------------------------------------------------------
(* send() on another thread. *)

\* send()'s test offers the message.
LEMMA SendTestsOffers ==
  ASSUME IInv, SendsInv, NEW t \in Threads, NEW m \in Messages, SendTests(t, m)
  PROVE  SendsInv' /\ Stream!Offer(t, m)
<1>0. TypeOK /\ queue \in Seq(Functors) /\ sender[m] = "unsent" /\ calls[t] = Idle
  BY DEF IInv, Inv, TypeOK, SendTests
<1>1. /\ queue' = queue /\ sender' = [sender EXCEPT ![m] = t]
      /\ calls' = [calls EXCEPT ![t] = At("send", m)]
      /\ UNCHANGED <<state, closed, destroyed, peer, finSent, wire, accepted>>
  BY DEF SendTests, conn, socket, server
<1>2. t # "unsent"
  BY ConnAssumption
<1>3. sender[m] \notin Threads
  BY <1>0, ConnAssumption
<1>4. NotIn(queue, m) /\ \A u \in Threads : calls[u].at = "send" => calls[u].msg # m
  BY <1>0, <1>3, UnsentIsNowhere
<1>5. /\ sender \in [Messages -> Threads \cup {"unsent", "passed"}]
      /\ sender' = [sender EXCEPT ![m] = sender'[m]] /\ sender'[m] = t
      /\ DOMAIN calls = Threads
  BY <1>0, <1>1 DEF TypeOK
<1>6. /\ calls'[t].at = "send" /\ calls'[t].msg = m /\ calls[t].at # "send"
      /\ \A u \in Threads : u # t => calls'[u] = calls[u]
  BY <1>0, <1>1, <1>5 DEF At, Idle
<1>7. m \notin Used /\ Used' = Used \cup {m}
  BY <1>0, <1>1, <1>2, <1>5 DEF Used
<1>8. ASSUME NEW u \in Threads
      PROVE  BroughtBy(queue', sender', u) = BroughtBy(queue, sender, u)
             /\ BroughtBy(queue, sender, u) \in Seq(Messages)
  <2>1. BroughtBy(queue, sender', u) = BroughtBy(queue, sender, u)
    BY <1>0, <1>4, <1>5, OtherSender
  <2>2. BroughtBy(queue, sender, u) \in Seq(Messages)
    BY <1>0, BroughtByType
  <2> QED
    BY <1>1, <2>1, <2>2
<1>9. OnTheWay(t)' = Append(OnTheWay(t), m)
  <2> DEFINE b == BroughtBy(queue, sender, t)
  <2>1. OnTheWay(t) = b \o <<>> /\ OnTheWay(t)' = b \o <<m>> /\ b \in Seq(Messages)
    BY <1>6, <1>8, OnTheWayIs
  <2> HIDE DEF b
  <2>2. b \o <<>> = b /\ b \o <<m>> = Append(b, m)
    BY <2>1
  <2> QED
    BY <2>1, <2>2
<1>10. ASSUME NEW u \in Threads, u # t PROVE OnTheWay(u)' = OnTheWay(u)
  BY <1>6, <1>8, <1>10, OnTheWayIs
<1>11. Offered' = [Offered EXCEPT ![t] = Append(@, m)]
  <2>1. \A u \in Threads :
          OnTheWay(u)' = IF u = t THEN Append(OnTheWay(u), m) ELSE OnTheWay(u)
    BY <1>9, <1>10
  <2>2. Offered' = [u \in Threads |-> IF u = t THEN Append(OnTheWay(u), m) ELSE OnTheWay(u)]
    BY <2>1 DEF Offered
  <2>3. [Offered EXCEPT ![t] = Append(@, m)]
          = [u \in Threads |-> IF u = t THEN Append(OnTheWay(u), m) ELSE OnTheWay(u)]
    BY DEF Offered
  <2> QED
    BY <2>2, <2>3
<1>12. Stream!Offer(t, m)
  BY <1>1, <1>7, <1>11 DEF Stream!Offer, Used, Offered
<1>13. SendsInv'
  <2>1. SendersKnown(queue', sender') /\ OneFunctorEach(queue')
    BY <1>0, <1>1, <1>4, <1>5, OtherSender DEF SendsInv
  <2>2. ASSUME NEW u \in Threads, calls'[u].at = "send"
        PROVE  sender'[calls'[u].msg] = u /\ NotIn(queue', calls'[u].msg)
    <3>1. CASE u = t
      BY <1>1, <1>4, <1>5, <1>6, <3>1
    <3>2. CASE u # t
      <4>1. calls'[u] = calls[u] /\ calls[u].msg # m /\ calls[u].msg \in Messages
        BY <1>0, <1>4, <1>6, <2>2, <3>2 DEF TypeOK
      <4> QED
        BY <1>1, <1>5, <2>2, <4>1 DEF SendsInv
    <3> QED
      BY <3>1, <3>2
  <2> QED
    BY <1>1, <2>1, <2>2 DEF SendsInv, SendersKnown, OneFunctorEach, NotIn, DoSend
<1> QED
  BY <1>12, <1>13

\* Its functor carries the message on.
LEMMA SendQueuesKeeps ==
  ASSUME IInv, SendsInv, NEW t \in Threads, SendQueues(t)
  PROVE  /\ SendsInv' /\ Used' = Used /\ Offered' = Offered
         /\ UNCHANGED <<accepted, wire, finSent, closed, destroyed, peer>>
<1>0. /\ TypeOK /\ queue \in Seq(Functors) /\ calls[t].at = "send"
      /\ UNCHANGED <<state, accepted, wire, finSent, closed, destroyed, peer, sender>>
      /\ calls' = [calls EXCEPT ![t] = Idle] /\ DOMAIN calls = Threads
  BY DEF IInv, Inv, TypeOK, SendQueues, conn, socket, history, server
<1>1. PICK m \in Messages : m = calls[t].msg
  BY <1>0 DEF TypeOK
<1>2. DoSend(m) \in Functors /\ queue' = Append(queue, DoSend(m))
      /\ DoSend(m).op = "send" /\ DoSend(m).msg = m
  BY <1>1 DEF SendQueues, Functors, DoSend
<1>3. sender[m] = t /\ NotIn(queue, m)
  BY <1>0, <1>1 DEF SendsInv
<1>4. /\ calls'[t].at # "send"
      /\ \A u \in Threads : u # t => calls'[u] = calls[u]
  BY <1>0 DEF Idle
<1>5. ASSUME NEW u \in Threads
      PROVE  /\ BroughtBy(queue', sender', u)
                  = BroughtBy(queue, sender, u) \o (IF u = t THEN <<m>> ELSE <<>>)
             /\ BroughtBy(queue, sender, u) \in Seq(Messages)
  <2>1. Brought(DoSend(m), sender, u) = IF u = t THEN <<m>> ELSE <<>>
    BY <1>2, <1>3 DEF Brought
  <2>2. BroughtBy(Append(queue, DoSend(m)), sender, u)
          = BroughtBy(queue, sender, u) \o Brought(DoSend(m), sender, u)
    BY <1>0, <1>2, BroughtByAppend
  <2>3. BroughtBy(queue, sender, u) \in Seq(Messages)
    BY <1>0, BroughtByType
  <2> QED
    BY <1>0, <1>2, <2>1, <2>2, <2>3
<1>6. ASSUME NEW u \in Threads PROVE OnTheWay(u)' = OnTheWay(u)
  <2> DEFINE b == BroughtBy(queue, sender, u)
             c == IF calls[u].at = "send" THEN <<calls[u].msg>> ELSE <<>>
             d == IF calls'[u].at = "send" THEN <<calls'[u].msg>> ELSE <<>>
             e == IF u = t THEN <<m>> ELSE <<>>
  <2>1. /\ b \in Seq(Messages) /\ OnTheWay(u) = b \o c
        /\ OnTheWay(u)' = (b \o e) \o d
    BY <1>5, OnTheWayIs
  <2>2. (u = t => c = <<m>> /\ d = <<>> /\ e = <<m>>) /\ (u # t => d = c /\ e = <<>>)
    BY <1>0, <1>1, <1>4
  <2> HIDE DEF b, c, d, e
  <2>3. b \o <<>> = b /\ (b \o <<m>>) \o <<>> = b \o <<m>>
    BY <2>1
  <2> QED
    BY <2>1, <2>2, <2>3
<1>7. Offered' = Offered /\ Used' = Used
  BY <1>0, <1>6 DEF Offered, Used
<1>8. SendsInv'
  <2> DEFINE r == queue'
             n == Len(queue)
  <2>1. /\ n \in Nat /\ Len(r) = n + 1
        /\ \A i \in 1..n : r[i] = queue[i]
        /\ r[n + 1] = DoSend(m)
        /\ \A i \in 1..(n + 1) : i \in 1..n \/ i = n + 1
    BY <1>0, <1>2, InAppend
  <2> HIDE DEF r, n
  <2>2. SendersKnown(r, sender)
    BY <1>2, <1>3, <2>1 DEF SendsInv, SendersKnown, n
  <2>3. OneFunctorEach(r)
    <3> SUFFICES ASSUME NEW i \in 1..(n + 1), NEW j \in 1..(n + 1),
                        r[i].op = "send", r[j] = r[i]
                 PROVE  i = j
      BY <2>1 DEF OneFunctorEach
    <3>1. \A k \in 1..n : r[k] # DoSend(m)
      BY <1>3, <2>1 DEF NotIn, n
    <3>2. \A k, l \in 1..n : r[k].op = "send" /\ r[l] = r[k] => k = l
      BY <2>1 DEF SendsInv, OneFunctorEach, n
    <3> QED
      BY <2>1, <3>1, <3>2
  <2>4. ASSUME NEW u \in Threads, calls'[u].at = "send"
        PROVE  sender[calls'[u].msg] = u /\ NotIn(r, calls'[u].msg)
    <3>1. u # t /\ calls'[u] = calls[u]
      BY <1>4, <2>4
    <3>2. sender[calls[u].msg] = u /\ NotIn(queue, calls[u].msg)
      BY <2>4, <3>1 DEF SendsInv
    <3>3. DoSend(m) # DoSend(calls[u].msg)
      BY <1>3, <3>1, <3>2 DEF DoSend
    <3>4. NotIn(r, calls[u].msg)
      BY <2>1, <3>2, <3>3 DEF NotIn, n
    <3> QED
      BY <3>1, <3>2, <3>4
  <2> QED
    BY <1>0, <2>2, <2>3, <2>4 DEF SendsInv, SendersKnown, OneFunctorEach, NotIn, DoSend, r
<1> QED
  BY <1>0, <1>7, <1>8

------------------------------------------------------------------------------
(* The steps that bring no message *)

\* What leaves with or before the end of the stream.
LEMMA MoreLeaves ==
  ASSUME IInv, IInv', Used' = Used, Offered' = Offered,
         UNCHANGED <<accepted, closed, destroyed, peer>>,
         NEW x \in Seq(Byte), wire' = wire \o x, finSent => wire' = wire,
         finSent' \in {finSent, TRUE},
         finSent' # finSent => outputBuffer' = <<>> \/ Down
  PROVE  Stream!LeaveMore
<1>1. TypeOK /\ TypeOK' /\ BytesInOrder'
  BY DEF IInv, Inv
<1>2. Stream!Leave(accepted')
  BY <1>1, WhatLeaves
<1>3. outputBuffer' = <<>> => wire' = accepted'
  BY <1>1, ConcatEmptySeq DEF BytesInOrder, TypeOK
<1>4. Stream!Leave(accepted)
  BY <1>2 DEF Stream!Leave
<1>5. finSent' # finSent => wire' = accepted \/ Down
  BY <1>3
<1> QED
  BY <1>4, <1>5 DEF Stream!LeaveMore, Used, Offered, Down

\* The empty sequence may leave.
LEMMA NoneLeaves == ASSUME IInv PROVE \E x \in Seq(Byte) : wire \o x = wire
<1>1. <<>> \in Seq(Byte) /\ wire \o <<>> = wire
  BY EmptySeq, ConcatEmptySeq DEF IInv, Inv, TypeOK
<1> QED
  BY <1>1

\* shutdownInLoop: nothing is waiting when the FIN goes out.
LEMMA ShutdownEnds ==
  ASSUME IInv, IInv', Used' = Used, Offered' = Offered, ShutdownInLoop,
         UNCHANGED <<accepted, closed, destroyed, peer, wire, outputBuffer>>
  PROVE  Stream!LeaveMore
<1>1. finSent' = (finSent \/ ~writing) /\ finSent \in BOOLEAN
  BY DEF ShutdownInLoop, FinNow, IInv, Inv, TypeOK
<1>2. finSent' \in {finSent, TRUE} /\ (finSent' # finSent => ~writing)
  BY <1>1
<1>3. ~writing => outputBuffer' = <<>> \/ Down
  BY DEF IInv, WritingIffPending, Down
<1>4. PICK x \in Seq(Byte) : wire \o x = wire
  BY NoneLeaves
<1> QED
  BY <1>2, <1>3, <1>4, MoreLeaves

\* handleWrite: bytes leave, the last of them perhaps with the FIN.
LEMMA HandleWriteLeaves ==
  ASSUME IInv, IInv', Used' = Used, Offered' = Offered, HandleWrite
  PROVE  Stream!LeaveMore
<1>0. TypeOK /\ outputBuffer \in Seq(Byte) /\ outputBuffer' \in Seq(Byte) /\ ~finSent
      /\ UNCHANGED <<accepted, closed, destroyed, peer>>
  BY DEF IInv, Inv, TypeOK, HandleWrite, WriteFails, Others, server
<1>1. PICK n \in 1..Len(outputBuffer) :
        /\ wire' = wire \o SubSeq(outputBuffer, 1, n)
        /\ outputBuffer' = SubSeq(outputBuffer, n + 1, Len(outputBuffer))
        /\ finSent' = (finSent \/ (Len(outputBuffer) - n = 0 /\ state = "kDisconnecting" /\ ~writing'))
  BY DEF HandleWrite
<1>2. n \in 0..Len(outputBuffer) /\ Len(outputBuffer) \in Nat
  BY <1>0, LenProperties
<1>3. /\ SubSeq(outputBuffer, 1, n) \in Seq(Byte)
      /\ Len(outputBuffer') = Len(outputBuffer) - n
  BY <1>0, <1>1, <1>2, CutInTwo
<1>4. Len(outputBuffer) - n = 0 => outputBuffer' = <<>>
  BY <1>0, <1>3, EmptySeq
<1>5. finSent' \in {finSent, TRUE} /\ (finSent' # finSent => outputBuffer' = <<>>)
  <2> DEFINE done == Len(outputBuffer) - n = 0
             ends == state = "kDisconnecting" /\ ~writing'
  <2>1. finSent' = (finSent \/ (done /\ ends)) /\ (done => outputBuffer' = <<>>)
    BY <1>1, <1>4
  <2>2. ends \in BOOLEAN /\ done \in BOOLEAN /\ finSent \in BOOLEAN
    BY <1>0 DEF TypeOK
  <2> HIDE DEF done, ends
  <2> QED
    BY <2>1, <2>2
<1> QED
  BY <1>0, <1>1, <1>3, <1>5, MoreLeaves

------------------------------------------------------------------------------
(* The steps the stream does not notice. *)

\* A step that neither offers nor takes a message.
Quiet == SendsInv' /\ Used' = Used /\ Offered' = Offered

\* A functor without a message may be queued or leave the queue unnoticed.
LEMMA SameDo ==
  ASSUME NEW q \in Seq(Functors),
         NEW op \in {"established", "destroyed", "shutdown", "writeComplete", "highWater"}
  PROVE  BringsSame(q, Append(q, Do(op)))
<1>1. Do(op) \in Functors /\ Do(op).op # "send"
  BY DEF Do, Functors
<1> QED
  BY <1>1, SameAppend

\* The functors the loop runs, sendInLoop apart.
LEMMA FunctorQuiet ==
  ASSUME IInv, SendsInv,
         RunEstablished \/ RunShutdown \/ RunUserFunctor \/ RunDestroyed
  PROVE  Quiet
<1>0. /\ queue \in Seq(Functors) /\ queue # <<>> /\ Head(queue).op # "send"
      /\ queue' = Tail(queue)
  BY DEF IInv, Inv, TypeOK, RunEstablished, RunShutdown, RunUserFunctor, RunDestroyed,
         NextFunctor
<1>1. BringsSame(queue, queue')
  BY <1>0, SameTail
<1>2. sender' = sender /\ calls' = calls
  BY DEF RunEstablished, RunShutdown, RunUserFunctor, RunDestroyed, Others
<1>3. state' = "kDisconnected" => closed' \/ destroyed'
  BY DEF RunEstablished, RunShutdown, RunUserFunctor, RunDestroyed, Others, conn, server, SendsInv
<1> QED
  BY <1>1, <1>2, <1>3, QuietStep DEF Quiet

\* The channel's handlers, and the user's code apart from send().
LEMMA HandlerQuiet ==
  ASSUME IInv, SendsInv,
         Handlers \/ CallbackReturns \/ ShutdownFromCallback
  PROVE  Quiet
<1>0. queue \in Seq(Functors)
  BY DEF IInv, Inv, TypeOK
<1>1. BringsSame(queue, queue')
  <2>1. queue' = queue \/ queue' = Append(queue, Do("writeComplete"))
    BY DEF Handlers, HandleRead, HandleClose, HandleWrite, CallbackReturns, ShutdownFromCallback
  <2> QED
    BY <1>0, <2>1, SameItself, SameDo
<1>2. sender' = sender /\ calls' = calls
  BY DEF Handlers, HandleRead, HandleClose, HandleWrite, CallbackReturns,
         ShutdownFromCallback, Others
<1>3. state' = "kDisconnected" => closed' \/ destroyed'
  BY DEF Handlers, HandleRead, HandleClose, HandleWrite, CallbackReturns,
         ShutdownFromCallback, Others, conn, server, SendsInv
<1> QED
  BY <1>1, <1>2, <1>3, QuietStep DEF Quiet

\* Other threads' shutdown(), TcpServer and the peer.
LEMMA OutsideQuiet ==
  ASSUME IInv, SendsInv,
         \/ \E t \in Threads : ShutdownTests(t) \/ ShutdownStores(t) \/ ShutdownQueues(t)
         \/ ServerRemoves \/ ServerEnds \/ PeerLeaves
  PROVE  Quiet
<1>0. queue \in Seq(Functors) /\ DOMAIN calls = Threads
  BY DEF IInv, Inv, TypeOK
<1>1. BringsSame(queue, queue')
  <2>1. \/ queue' = queue \/ queue' = Append(queue, Do("shutdown"))
        \/ queue' = Append(queue, Do("destroyed"))
    BY DEF ShutdownTests, ShutdownStores, ShutdownQueues, ServerRemoves, ServerEnds, PeerLeaves
  <2> QED
    BY <1>0, <2>1, SameItself, SameDo
<1>2. sender' = sender
  BY DEF ShutdownTests, ShutdownStores, ShutdownQueues, ServerRemoves, ServerEnds, PeerLeaves,
         history
<1>3. ASSUME NEW u \in Threads
      PROVE  calls'[u] = calls[u] \/ (calls'[u].at # "send" /\ calls[u].at # "send")
  <2>1. CASE ServerRemoves \/ ServerEnds \/ PeerLeaves
    BY <2>1 DEF ServerRemoves, ServerEnds, PeerLeaves
  <2>2. CASE \E t \in Threads : ShutdownTests(t) \/ ShutdownStores(t) \/ ShutdownQueues(t)
    <3>1. PICK t \in Threads : ShutdownTests(t) \/ ShutdownStores(t) \/ ShutdownQueues(t)
      BY <2>2
    <3>2. /\ calls[t].at # "send"
          /\ \E c \in {Idle, At("shutdown", NoMessage), At("queueShutdown", NoMessage)} :
               calls' = [calls EXCEPT ![t] = c]
      BY <3>1 DEF ShutdownTests, ShutdownStores, ShutdownQueues, Idle
    <3> QED
      BY <1>0, <3>2 DEF Idle, At
  <2> QED
    BY <2>1, <2>2
<1>4. state' = "kDisconnected" => closed' \/ destroyed'
  BY DEF ShutdownTests, ShutdownStores, ShutdownQueues, ServerRemoves, ServerEnds, PeerLeaves,
         conn, server, SendsInv
<1> QED
  BY <1>1, <1>2, <1>3, <1>4, QuietStep DEF Quiet

------------------------------------------------------------------------------
(* The refinement *)

\* A step of the stream, or none.
StreamStep == SendsInv' /\ [Stream!Next]_(Stream!vars)

\* Steps the stream does not notice.
LEMMA SameStream ==
  ASSUME Quiet, UNCHANGED <<accepted, wire, finSent, Down>>
  PROVE  StreamStep
<1>1. Stream!vars' = Stream!vars
  BY DEF Quiet, Stream!vars, Used, Offered, Down
<1> QED
  BY <1>1 DEF Quiet, StreamStep

\* The stream of a new connection is empty.
LEMMA InitStream == Init => SendsInv /\ Stream!Init
<1> SUFFICES ASSUME Init PROVE SendsInv /\ Stream!Init
  OBVIOUS
<1>1. <<>> \in Seq(Functors) /\ queue = Append(<<>>, Do("established"))
  BY EmptySeq DEF Init
<1>2. BringsSame(<<>>, queue)
  BY <1>1, SameDo
<1>3. Len(<<>>) = 0
  OBVIOUS
<1>4. SendersKnown(<<>>, sender) /\ OneFunctorEach(<<>>)
  BY <1>3 DEF SendersKnown, OneFunctorEach
<1>5. SendersKnown(queue, sender) /\ OneFunctorEach(queue)
  BY <1>2, <1>4 DEF BringsSame
<1>6. \A t \in Threads : calls[t].at # "send"
  BY DEF Init, Idle
<1>7. state # "kDisconnected"
  BY DEF Init
<1>8. SendsInv
  BY <1>5, <1>6, <1>7 DEF SendsInv
<1>9. ASSUME NEW t \in Threads PROVE OnTheWay(t) = <<>>
  <2>1. BroughtBy(<<>>, sender, t) = <<>>
    BY BroughtByEmpty
  <2>2. BroughtBy(queue, sender, t) = <<>>
    BY <1>2, <2>1 DEF BringsSame
  <2>3. <<>> \o <<>> = <<>>
    OBVIOUS
  <2> QED
    BY <1>6, <2>2, <2>3, OnTheWayIs
<1>10. Offered = [t \in Threads |-> <<>>]
  BY <1>9 DEF Offered
<1>11. Used = {}
  BY DEF Used, Init
<1>12. accepted = <<>> /\ wire = <<>> /\ ~finSent /\ ~Down
  BY DEF Init, Down
<1>13. Stream!Init
  BY <1>10, <1>11, <1>12 DEF Stream!Init, Used, Offered, Down
<1> QED
  BY <1>8, <1>13

LEMMA Unnoticed ==
  ASSUME Quiet, UNCHANGED <<accepted, wire, finSent, closed, destroyed, peer>>
  PROVE  StreamStep
<1>1. Down' = Down
  BY DEF Down
<1> QED
  BY <1>1, SameStream

\* The connection goes down.
LEMMA Breaks ==
  ASSUME Quiet, UNCHANGED <<accepted, wire, finSent>>, Down'
  PROVE  StreamStep
<1>1. Stream!GoDown
  BY DEF Quiet, Stream!GoDown, Used, Offered, Down
<1> QED
  BY <1>1 DEF Quiet, StreamStep, Stream!Next

\* Stuttering.
LEMMA EmptyStep ==
  ASSUME SendsInv, UNCHANGED vars
  PROVE  StreamStep
<1>1. BringsSame(queue, queue')
  BY SameItself DEF vars
<1>2. UNCHANGED <<sender, calls, state, closed, destroyed>>
  BY DEF vars
<1>3. Quiet
  BY <1>1, <1>2, QuietStep DEF Quiet, SendsInv
<1> QED
  BY <1>3, Unnoticed DEF vars

\* The steps of Next, one group after the other.
LEMMA LoopStream ==
  ASSUME IInv, IInv', SendsInv, LoopStep
  PROVE  StreamStep
<1>1. CASE RunSend
  <2>1. SendsInv' /\ \E s \in Threads : Stream!Take(s)
    BY <1>1, RunSendTakes
  <2> QED
    BY <2>1 DEF StreamStep, Stream!Next
<1>2. CASE RunEstablished \/ RunUserFunctor
  <2>1. Quiet
    BY <1>2, FunctorQuiet
  <2>2. UNCHANGED <<accepted, wire, finSent, closed, destroyed, peer>>
    BY <1>2 DEF RunEstablished, RunUserFunctor, socket, Others, server
  <2> QED
    BY <2>1, <2>2, Unnoticed
<1>3. CASE RunShutdown
  <2>1. Quiet
    BY <1>3, FunctorQuiet
  <2>2. ShutdownInLoop /\ UNCHANGED <<accepted, closed, destroyed, peer, wire, outputBuffer>>
    BY <1>3 DEF RunShutdown, conn, Others, server
  <2>3. Stream!LeaveMore
    BY <2>1, <2>2, ShutdownEnds DEF Quiet
  <2> QED
    BY <2>1, <2>3 DEF StreamStep, Quiet, Stream!Next
<1>4. CASE RunDestroyed
  <2>1. Quiet
    BY <1>4, FunctorQuiet
  <2>2. UNCHANGED <<accepted, wire, finSent>> /\ Down'
    BY <1>4 DEF RunDestroyed, socket, Down
  <2> QED
    BY <2>1, <2>2, Breaks
<1> QED
  BY <1>1, <1>2, <1>3, <1>4 DEF LoopStep

LEMMA HandlerStream ==
  ASSUME IInv, IInv', SendsInv, Handlers \/ CallbackReturns \/ ShutdownFromCallback
  PROVE  StreamStep
<1>0. Quiet
  BY HandlerQuiet
<1>1. CASE HandleRead \/ CallbackReturns
  <2>1. UNCHANGED <<accepted, wire, finSent, closed, destroyed, peer>>
    BY <1>1 DEF HandleRead, CallbackReturns, socket, Others, server
  <2> QED
    BY <1>0, <2>1, Unnoticed
<1>2. CASE HandleClose
  <2>1. UNCHANGED <<accepted, wire, finSent>> /\ Down'
    BY <1>2 DEF HandleClose, socket, Down
  <2> QED
    BY <1>0, <2>1, Breaks
<1>3. CASE HandleWrite
  <2>1. Stream!LeaveMore
    BY <1>0, <1>3, HandleWriteLeaves DEF Quiet
  <2> QED
    BY <1>0, <2>1 DEF StreamStep, Quiet, Stream!Next
<1>4. CASE ShutdownFromCallback
  <2>1. ShutdownInLoop /\ UNCHANGED <<accepted, closed, destroyed, peer, wire, outputBuffer>>
    BY <1>4 DEF ShutdownFromCallback, Others, server
  <2>2. Stream!LeaveMore
    BY <1>0, <2>1, ShutdownEnds DEF Quiet
  <2> QED
    BY <1>0, <2>2 DEF StreamStep, Quiet, Stream!Next
<1> QED
  BY <1>1, <1>2, <1>3, <1>4 DEF Handlers

LEMMA OutsideStream ==
  ASSUME IInv, SendsInv,
         \/ \E t \in Threads : ShutdownTests(t) \/ ShutdownStores(t) \/ ShutdownQueues(t)
         \/ ServerRemoves \/ ServerEnds \/ PeerLeaves
  PROVE  StreamStep
<1>0. Quiet
  BY OutsideQuiet
<1>1. CASE \E t \in Threads : ShutdownTests(t) \/ ShutdownStores(t) \/ ShutdownQueues(t)
  <2>1. UNCHANGED <<accepted, wire, finSent, closed, destroyed, peer>>
    BY <1>1 DEF ShutdownTests, ShutdownStores, ShutdownQueues, socket, history, server
  <2> QED
    BY <1>0, <2>1, Unnoticed
<1>2. CASE ServerRemoves \/ ServerEnds
  <2>1. UNCHANGED <<accepted, wire, finSent, closed, destroyed, peer>>
    BY <1>2 DEF ServerRemoves, ServerEnds, socket, history
  <2> QED
    BY <1>0, <2>1, Unnoticed
<1>3. CASE PeerLeaves
  <2>0. UNCHANGED <<accepted, wire, finSent, closed, destroyed>>
    BY <1>3 DEF PeerLeaves, history, server
  <2>1. CASE peer' = "reset"
    BY <1>0, <2>0, <2>1, Breaks DEF Down
  <2>2. CASE peer' # "reset"
    <3>1. peer # "reset"
      BY <1>3 DEF PeerLeaves
    <3>2. Down' = Down
      BY <2>0, <2>2, <3>1 DEF Down
    <3> QED
      BY <1>0, <2>0, <3>2, SameStream
  <2> QED
    BY <2>1, <2>2
<1> QED
  BY <1>1, <1>2, <1>3

LEMMA StreamNext ==
  ASSUME IInv, IInv', SendsInv, [Next]_vars
  PROVE  StreamStep
<1>1. CASE LoopStep
  BY <1>1, LoopStream
<1>2. CASE Handlers \/ CallbackReturns \/ ShutdownFromCallback
  BY <1>2, HandlerStream
<1>3. CASE \E m \in Messages : SendFromCallback(m)
  <2>1. PICK m \in Messages : SendFromCallback(m)
    BY <1>3
  <2>2. SendsInv' /\ Stream!TakeNow(m)
    BY <2>1, SendFromCallbackTakes
  <2> QED
    BY <2>2 DEF StreamStep, Stream!Next
<1>4. CASE \E t \in Threads, m \in Messages : SendTests(t, m)
  <2>1. PICK t \in Threads, m \in Messages : SendTests(t, m)
    BY <1>4
  <2>2. SendsInv' /\ Stream!Offer(t, m)
    BY <2>1, SendTestsOffers
  <2> QED
    BY <2>2 DEF StreamStep, Stream!Next
<1>5. CASE \E t \in Threads : SendQueues(t)
  <2>1. PICK t \in Threads : SendQueues(t)
    BY <1>5
  <2>2. Quiet /\ UNCHANGED <<accepted, wire, finSent, closed, destroyed, peer>>
    BY <2>1, SendQueuesKeeps DEF Quiet
  <2> QED
    BY <2>2, Unnoticed
<1>6. CASE \/ \E t \in Threads : ShutdownTests(t) \/ ShutdownStores(t) \/ ShutdownQueues(t)
           \/ ServerRemoves \/ ServerEnds \/ PeerLeaves
  BY <1>6, OutsideStream
<1>7. CASE UNCHANGED vars
  BY <1>7, EmptyStep
<1> QED
  BY <1>1, <1>2, <1>3, <1>4, <1>5, <1>6, <1>7 DEF Next, CallStep

\* A connection is a ByteStream: whatever the threads, handlers and functors
\* interleave with, each thread's messages are taken in its order, their bytes
\* leave once and in order, and FIN comes after all of them unless the
\* connection went down.
THEOREM ConnectionIsAByteStream == Spec => ImplementsByteStream
<1>1. Init => SendsInv /\ Stream!Init
  BY InitStream
<1>2. IInv /\ IInv' /\ SendsInv /\ [Next]_vars => SendsInv' /\ [Stream!Next]_(Stream!vars)
  BY StreamNext DEF StreamStep
<1> QED
  BY <1>1, <1>2, InvIsInductive, PTL DEF Spec, Stream!Spec, ImplementsByteStream
==============================================================================
