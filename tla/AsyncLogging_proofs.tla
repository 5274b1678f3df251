------------------------- MODULE AsyncLogging_proofs -------------------------
(***************************************************************************)
(* Proofs about AsyncLogging for any set of messages and any capacity.     *)
(***************************************************************************)
EXTENDS AsyncLogging, SequenceTheorems, TLAPS

\* An empty buffer is a buffer, and a pointer to it is a pointer.
LEMMA EmptyBuffer == <<>> \in Buffer /\ IsPointer(<<<<>>>>) /\ IsPointer(Null)
BY EmptySeq DEF Buffer, IsPointer, Null

\* A pointer that is not null points at one buffer.
LEMMA PointerTarget ==
  ASSUME NEW p, IsPointer(p), p # Null
  PROVE  Len(p) = 1 /\ p[1] \in Buffer /\ p \in Seq(Buffer)
<1>1. p \in Seq(Buffer) /\ Len(p) <= 1 /\ p # <<>>
  BY DEF IsPointer, Null
<1>2. Len(p) \in Nat /\ Len(p) # 0
  BY <1>1, EmptySeq, LenProperties
<1>3. Len(p) = 1
  BY <1>1, <1>2
<1> QED
  BY <1>1, <1>3, ElementOfSeq

LEMMA OneNumber == <<1>> \in Seq(Nat)
OBVIOUS

\* The constructor establishes the invariant.
LEMMA InitInv == Init => Inv
<1> SUFFICES ASSUME Init PROVE Inv
  OBVIOUS
<1>1. bufferVec \in Seq(Buffer) /\ buffersToWrite \in Seq(Buffer)
  BY EmptySeq DEF Init
<1>2. TypeOK
  BY <1>1, EmptyBuffer, OneNumber DEF Init, TypeOK, BackendStates
<1>3. SparesEmpty /\ BatchIsLocal
  BY DEF Init, SparesEmpty, BatchIsLocal
<1>4. SparesSuffice
  BY DEF Init, SparesSuffice, Null
<1> QED
  BY <1>2, <1>3, <1>4 DEF Inv

\* Appending to a current buffer with room disturbs no spare.
LEMMA AppendToCurrentInv ==
  ASSUME Inv, NEW m \in Messages, AppendToCurrent(m)
  PROVE  Inv'
<1> USE DEF Inv, AppendToCurrent, front, back, stopping, history
<1>1. currentBuffer[1] \in Buffer
  BY PointerTarget DEF TypeOK, SparesSuffice
<1>2. Append(currentBuffer[1], m) \in Buffer /\ accepted' \in Buffer
  BY <1>1, AppendProperties DEF Buffer, TypeOK
<1>3. IsPointer(currentBuffer') /\ currentBuffer' # Null
  BY <1>2 DEF IsPointer, Null
<1>4. TypeOK'
  BY <1>2, <1>3 DEF TypeOK
<1>5. SparesEmpty' /\ BatchIsLocal'
  BY DEF SparesEmpty, BatchIsLocal
<1>6. SparesSuffice'
  BY <1>3 DEF SparesSuffice
<1> QED
  BY <1>4, <1>5, <1>6

\* When the current buffer is full, the spare or a new buffer replaces it.
LEMMA AppendToNextInv ==
  ASSUME Inv, NEW m \in Messages, AppendToNext(m)
  PROVE  Inv'
<1> USE DEF Inv, AppendToNext, front, back, stopping, history
<1>1. SpareOrNew[1] = <<>>
  BY DEF SpareOrNew, SparesEmpty, Null
<1>2. Append(SpareOrNew[1], m) \in Buffer /\ accepted' \in Buffer
  BY <1>1, EmptySeq, AppendProperties DEF Buffer, TypeOK
<1>3. IsPointer(currentBuffer') /\ currentBuffer' # Null
  BY <1>2 DEF IsPointer, Null
<1>4. Len(currentBuffer) = 1 /\ currentBuffer \in Seq(Buffer)
  BY PointerTarget DEF TypeOK, SparesSuffice
<1>5. bufferVec' \in Seq(Buffer) /\ bufferVec' # <<>>
  <2>1. bufferVec \in Seq(Buffer) /\ Len(bufferVec) \in Nat
    BY LenProperties DEF TypeOK
  <2>2. /\ bufferVec \o currentBuffer \in Seq(Buffer)
        /\ Len(bufferVec \o currentBuffer) = Len(bufferVec) + Len(currentBuffer)
    BY <1>4, <2>1, ConcatProperties
  <2>3. Len(bufferVec \o currentBuffer) # 0
    BY <1>4, <2>1, <2>2
  <2> QED
    BY <2>2, <2>3, EmptySeq
<1>6. bpc' \in BackendStates /\ (bpc' = bpc \/ (bpc = "waiting" /\ bpc' = "lock"))
  BY DEF Notified, TypeOK, BackendStates
<1>7. TypeOK'
  <2>1. begins' \in Seq(Nat)
    BY <1>2, LenProperties, AppendProperties DEF TypeOK, Buffer
  <2> QED
    BY <1>2, <1>3, <1>5, <1>6, <2>1, EmptyBuffer DEF TypeOK
<1>8. SparesEmpty' /\ BatchIsLocal'
  BY <1>6 DEF SparesEmpty, BatchIsLocal
<1>9. SparesSuffice'
  BY <1>3, <1>5, <1>6 DEF SparesSuffice
<1> QED
  BY <1>7, <1>8, <1>9

\* The exchange under the mutex gives away both spares at most, and takes two
\* buffers at least when it does.
LEMMA SwapBuffersInv ==
  ASSUME Inv, SwapBuffers
  PROVE  Inv'
<1> USE DEF Inv, SwapBuffers, front, back, stopping, history
<1>1. Len(currentBuffer) = 1 /\ currentBuffer \in Seq(Buffer)
  BY PointerTarget DEF TypeOK, SparesSuffice
<1>2. /\ buffersToWrite' \in Seq(Buffer)
      /\ Len(buffersToWrite') = Len(bufferVec) + 1
  <2>1. bufferVec \in Seq(Buffer)
    BY DEF TypeOK
  <2>2. /\ bufferVec \o currentBuffer \in Seq(Buffer)
        /\ Len(bufferVec \o currentBuffer) = Len(bufferVec) + Len(currentBuffer)
    BY <1>1, <2>1, ConcatProperties
  <2> QED
    BY <1>1, <2>2
<1>3. Len(bufferVec) \in Nat /\ (nextBuffer = Null => Len(bufferVec) # 0)
  BY EmptySeq, LenProperties DEF SparesSuffice, TypeOK
<1>4. TypeOK'
  <2>1. begins' \in Seq(Nat)
    BY LenProperties, AppendProperties DEF TypeOK, Buffer
  <2> QED
    BY <1>2, <1>3, <2>1, EmptyBuffer, EmptySeq DEF TypeOK, BackendStates
<1>5. SparesEmpty'
  BY DEF SparesEmpty
<1>6. SparesSuffice'
  BY <1>2, <1>3 DEF SparesSuffice
<1>7. BatchIsLocal'
  BY <1>2, <1>3 DEF BatchIsLocal, SparesSuffice
<1> QED
  BY <1>4, <1>5, <1>6, <1>7

\* What is not written yet: the rest of the batch, the full buffers, and the
\* current one, which is always there.
LEMMA LineInOrder ==
  ASSUME Inv
  PROVE  /\ InFlight \in Seq(Buffer) /\ Len(InFlight) = toWrite
         /\ bufferVec \in Seq(Buffer)
         /\ currentBuffer \in Seq(Buffer) /\ Len(currentBuffer) = 1
         /\ Line \in Seq(Buffer) /\ Len(Line) = toWrite + Len(bufferVec) + 1
         /\ Len(Line) \in Nat \ {0}
<1> DEFINE n == Len(buffersToWrite)
<1>1. buffersToWrite \in Seq(Buffer) /\ n \in Nat /\ toWrite \in 0..n
      /\ bufferVec \in Seq(Buffer) /\ Len(bufferVec) \in Nat
  BY LenProperties DEF Inv, TypeOK
<1>2. currentBuffer \in Seq(Buffer) /\ Len(currentBuffer) = 1
  BY PointerTarget DEF Inv, TypeOK, SparesSuffice
<1>3. InFlight \in Seq(Buffer) /\ Len(InFlight) = toWrite
  BY <1>1 DEF InFlight
<1> HIDE DEF n
<1>4. /\ InFlight \o bufferVec \in Seq(Buffer)
      /\ Len(InFlight \o bufferVec) = toWrite + Len(bufferVec)
  BY <1>1, <1>3
<1> DEFINE most == InFlight \o bufferVec
<1> HIDE DEF most
<1>5. /\ most \o currentBuffer \in Seq(Buffer)
      /\ Len(most \o currentBuffer) = toWrite + Len(bufferVec) + 1
  <2>1. most \in Seq(Buffer) /\ Len(most) = toWrite + Len(bufferVec)
    BY <1>4 DEF most
  <2>2. /\ most \o currentBuffer \in Seq(Buffer)
        /\ Len(most \o currentBuffer) = Len(most) + Len(currentBuffer)
    BY <1>2, <2>1, ConcatProperties
  <2> QED
    BY <1>2, <2>1, <2>2
<1> QED
  BY <1>1, <1>2, <1>3, <1>5 DEF Line, most

\* Writing a buffer to the file moves no buffer.
LEMMA WriteBufferInv ==
  ASSUME Inv, ExactlyOnceInOrder, WriteBuffer
  PROVE  Inv'
<1> USE DEF Inv, WriteBuffer, front, back, stopping, history
<1> DEFINE i == Len(buffersToWrite) - toWrite + 1
<1>1. i \in 1..Len(buffersToWrite) /\ toWrite - 1 \in 0..Len(buffersToWrite)
  BY LenProperties DEF TypeOK
<1>2. buffersToWrite[i] \in Buffer
  BY <1>1, ElementOfSeq DEF TypeOK
<1>3. written' \in Buffer
  BY <1>2, ConcatProperties DEF TypeOK, Buffer
<1>4. TypeOK'
  <2>1. Len(begins) # 0 /\ begins \in Seq(Nat)
    BY LineInOrder DEF ExactlyOnceInOrder, TypeOK
  <2>2. begins' \in Seq(Nat)
    BY <2>1
  <2> QED
    BY <1>1, <1>3, <2>2 DEF TypeOK
<1>5. SparesEmpty' /\ SparesSuffice' /\ BatchIsLocal'
  BY DEF SparesEmpty, SparesSuffice, BatchIsLocal
<1> QED
  BY <1>4, <1>5

\* When the batch is written, enough buffers are left to restore the spares.
LEMMA AllWrittenInv ==
  ASSUME Inv, AllWritten
  PROVE  Inv'
<1> USE DEF Inv, AllWritten, front, back, stopping, history
<1>1. TypeOK'
  BY DEF TypeOK, BackendStates
<1>2. SparesEmpty' /\ BatchIsLocal'
  BY DEF SparesEmpty, BatchIsLocal
<1>3. Len(buffersToWrite) \in Nat
  BY LenProperties DEF TypeOK
<1>4. SparesSuffice'
  BY <1>3 DEF SparesSuffice, BatchIsLocal, Kept
<1> QED
  BY <1>1, <1>2, <1>4

\* Both spares are there and empty after the batch was given back.
LEMMA RecycleInv ==
  ASSUME Inv, Recycle
  PROVE  Inv'
<1> USE DEF Inv, Recycle, front, back, stopping, history
<1>1. /\ newBuffer1' = IF newBuffer1 = Null THEN <<<<>>>> ELSE newBuffer1
      /\ newBuffer2' = IF newBuffer2 = Null THEN <<<<>>>> ELSE newBuffer2
  BY DEF Reused
<1>2. TypeOK'
  <2>1. IsPointer(newBuffer1') /\ IsPointer(newBuffer2')
    BY <1>1, EmptyBuffer DEF TypeOK
  <2>2. /\ buffersToWrite' = <<>> /\ toWrite' = 0 /\ bpc' = "test"
        /\ buffersToWrite' \in Seq(Buffer) /\ toWrite' \in 0..Len(buffersToWrite')
    BY EmptySeq
  <2>3. UNCHANGED <<front, stopping, history>>
    OBVIOUS
  <2>4. TypeOK
    OBVIOUS
  <2> HIDE DEF Inv, Recycle
  <2> QED
    BY <2>1, <2>2, <2>3, <2>4 DEF TypeOK, BackendStates
<1>3. SparesEmpty' /\ BatchIsLocal'
  BY <1>1 DEF SparesEmpty, BatchIsLocal
<1>4. newBuffer1' # Null /\ newBuffer2' # Null
  BY <1>1 DEF Null
<1>5. SparesSuffice'
  BY <1>4 DEF SparesSuffice
<1> QED
  BY <1>2, <1>3, <1>5

\* Every step of the logging threads, the backend and stop() preserves the
\* invariant.
LEMMA NextInv == Inv /\ ExactlyOnceInOrder /\ [Next]_vars => Inv'
<1> SUFFICES ASSUME Inv, ExactlyOnceInOrder, [Next]_vars PROVE Inv'
  OBVIOUS
<1>1. ASSUME TestRunning \/ Lock \/ TestWork \/ Block \/ WaitTimeout \/ Exit
      PROVE  Inv'
  <2> USE <1>1 DEF TestRunning, Lock, TestWork, Block, WaitTimeout, Exit,
      Inv, front, back, stopping, history
  <2>1. TypeOK'
    BY DEF TypeOK, BackendStates
  <2>2. SparesEmpty' /\ BatchIsLocal'
    BY DEF SparesEmpty, BatchIsLocal
  <2>3. SparesSuffice'
    BY DEF SparesSuffice
  <2> QED
    BY <2>1, <2>2, <2>3
<1>2. ASSUME StopStoresRunning \/ StopNotifies \/ StopJoins PROVE Inv'
  <2> USE <1>2 DEF StopStoresRunning, StopNotifies, StopJoins, Inv, front,
      back, stopping, history
  <2>1. Len(accepted) \in Nat
    BY LenProperties DEF TypeOK, Buffer
  <2>2. bpc' \in BackendStates /\ (bpc' = bpc \/ (bpc = "waiting" /\ bpc' = "lock"))
    BY DEF Notified, TypeOK, BackendStates
  <2>3. TypeOK'
    BY <2>1, <2>2 DEF TypeOK
  <2>4. SparesEmpty' /\ BatchIsLocal' /\ SparesSuffice'
    BY <2>2 DEF SparesEmpty, BatchIsLocal, SparesSuffice
  <2> QED
    BY <2>3, <2>4
<1>3. CASE UNCHANGED vars
  BY <1>3 DEF vars, Inv, TypeOK, SparesEmpty, SparesSuffice, BatchIsLocal
<1> QED
  BY <1>1, <1>2, <1>3, AppendToCurrentInv, AppendToNextInv, SwapBuffersInv,
     WriteBufferInv, AllWrittenInv, RecycleInv
  DEF Next, BackendStep

\* Sequences one after the other.
LEMMA ConcatThree ==
  ASSUME NEW S, NEW s \in Seq(S), NEW t \in Seq(S), NEW u \in Seq(S), NEW v \in Seq(S)
  PROVE  (s \o (t \o u)) \o v = ((s \o t) \o u) \o v
OBVIOUS

LEMMA TailOfConcat ==
  ASSUME NEW S, NEW s \in Seq(S), s # <<>>, NEW t \in Seq(S)
  PROVE  /\ Tail(s) \o t = Tail(s \o t)
         /\ (s \o t)[1] = s[1]
         /\ s \o t \in Seq(S) /\ s \o t # <<>>
OBVIOUS

\* A message number in use stays the number of its message when accepted grows.
LEMMA HoldsStill ==
  ASSUME NEW s \in Buffer, NEW first \in Nat \ {0}, Holds(s, first),
         first + Len(s) <= Len(accepted) + 1,
         accepted \in Buffer, NEW b \in Buffer, accepted' = accepted \o b
  PROVE  \A k \in 1..Len(s) : s[k] = accepted'[(first + k) - 1]
<1> SUFFICES ASSUME NEW k \in 1..Len(s) PROVE s[k] = accepted'[(first + k) - 1]
  OBVIOUS
<1>1. Len(s) \in Nat /\ Len(accepted) \in Nat
  BY LenProperties DEF Buffer
<1>2. (first + k) - 1 \in 1..Len(accepted)
  BY <1>1
<1>3. (accepted \o b)[(first + k) - 1] = accepted[(first + k) - 1]
  BY <1>2, ConcatProperties DEF Buffer
<1> QED
  BY <1>3 DEF Holds

\* A buffer put at the end of the line holds what is appended with it.
LEMMA AddedToLine ==
  ASSUME Inv, Inv', ExactlyOnceInOrder, NEW b \in Buffer,
         Line' = Append(Line, b), begins' = Append(begins, Len(accepted) + 1),
         accepted' = accepted \o b, written' = written
  PROVE  ExactlyOnceInOrder'
<1> DEFINE n == Len(Line)
           len == Len(accepted)
<1>1. /\ n \in Nat \ {0} /\ len \in Nat /\ Len(b) \in Nat
      /\ Line \in Seq(Buffer) /\ begins \in Seq(Nat)
      /\ accepted \in Buffer /\ written \in Buffer
  BY LineInOrder, LenProperties DEF Inv, TypeOK, Buffer
<1>2. Len(begins) = n
  BY DEF ExactlyOnceInOrder
<1>3. /\ Len(Line') = n + 1 /\ Line'[n + 1] = b
      /\ \A i \in 1..n : Line'[i] = Line[i]
  BY <1>1, AppendProperties
<1>4. /\ Len(begins') = n + 1 /\ begins'[n + 1] = len + 1
      /\ \A i \in 1..n : begins'[i] = begins[i]
  BY <1>1, <1>2, AppendProperties
<1> DEFINE len2 == Len(accepted')
<1>5. len2 = len + Len(b)
  BY <1>1, ConcatProperties DEF Buffer
<1>6. ASSUME NEW i \in 1..n
      PROVE  /\ begins[i] \in 1..(len + 1)
             /\ begins[i] + Len(Line[i]) = EndOf(i) /\ EndOf(i) \in 1..(len + 1)
             /\ EndOf(i) = IF i < n THEN begins[i + 1] ELSE len + 1
             /\ Line[i] \in Buffer /\ Holds(Line[i], begins[i])
  <2>1. i + 1 \in 1..n \/ ~(i < n)
    BY <1>1
  <2> QED
    BY <1>1, <1>2, <2>1, ElementOfSeq DEF ExactlyOnceInOrder, EndOf
<1> HIDE DEF n, len, len2
<1>7. Len(written)' + 1 = begins'[1] /\ Holds(written, 1)'
  <2>1. Len(written) + 1 = begins[1] /\ Holds(written, 1) /\ 1 \in 1..n
    BY <1>1 DEF ExactlyOnceInOrder
  <2>2. Len(written) \in Nat /\ 1 + Len(written) <= Len(accepted) + 1
    BY <1>1, <1>6, <2>1, LenProperties DEF Buffer, len
  <2>3. \A k \in 1..Len(written) : written[k] = accepted'[(1 + k) - 1]
    <3>1. 1 \in Nat \ {0} /\ written \in Buffer /\ accepted \in Buffer
      BY <1>1
    <3> QED
      BY <2>1, <2>2, <3>1, HoldsStill
  <2> QED
    BY <1>4, <2>1, <2>3 DEF Holds
<1>8. ASSUME NEW i \in 1..(n + 1)
      PROVE  /\ begins'[i] \in 1..(len2 + 1)
             /\ begins'[i] + Len(Line'[i])
                  = IF i < n + 1 THEN begins'[i + 1] ELSE len2 + 1
             /\ \A k \in 1..Len(Line'[i]) :
                  Line'[i][k] = accepted'[(begins'[i] + k) - 1]
  <2>1. CASE i \in 1..n
    <3>1. begins'[i] = begins[i] /\ Line'[i] = Line[i]
      BY <1>3, <1>4, <2>1
    <3>2. begins[i] \in 1..(len2 + 1)
      BY <1>1, <1>5, <1>6, <2>1
    <3>3. EndOf(i) = begins'[i + 1] /\ i < n + 1
      BY <1>1, <1>4, <1>6, <2>1
    <3>4. \A k \in 1..Len(Line[i]) : Line[i][k] = accepted'[(begins[i] + k) - 1]
      <4>1. begins[i] \in Nat \ {0} /\ begins[i] + Len(Line[i]) <= Len(accepted) + 1
        BY <1>1, <1>6, <2>1 DEF len
      <4> QED
        BY <1>1, <1>6, <2>1, <4>1, HoldsStill
    <3> QED
      BY <1>6, <2>1, <3>1, <3>2, <3>3, <3>4
  <2>2. CASE i = n + 1
    <3>1. begins'[i] = len + 1 /\ Line'[i] = b
      BY <1>3, <1>4, <2>2
    <3>2. begins'[i] \in 1..(len2 + 1)
      <4>1. len + 1 \in 1..(len2 + 1)
        BY <1>1, <1>5
      <4> QED
        BY <3>1, <4>1
    <3>3. begins'[i] + Len(Line'[i]) = len2 + 1 /\ ~(i < n + 1)
      <4>1. (len + 1) + Len(b) = len2 + 1 /\ ~(n + 1 < n + 1)
        BY <1>1, <1>5
      <4> QED
        BY <2>2, <3>1, <4>1
    <3>4. ASSUME NEW k \in 1..Len(b) PROVE b[k] = accepted'[(len + 1 + k) - 1]
      <4>1. (len + 1 + k) - 1 \in (len + 1)..(len + Len(b))
            /\ ((len + 1 + k) - 1) - len = k
        BY <1>1
      <4>2. (accepted \o b)[(len + 1 + k) - 1] = b[((len + 1 + k) - 1) - len]
        BY <1>1, <4>1, ConcatProperties DEF Buffer, len
      <4> QED
        BY <4>1, <4>2
    <3> QED
      BY <3>1, <3>2, <3>3, <3>4
  <2>3. i \in 1..n \/ i = n + 1
    BY <1>1
  <2> QED
    BY <2>1, <2>2, <2>3
<1> QED
  BY <1>3, <1>4, <1>7, <1>8 DEF ExactlyOnceInOrder, EndOf, Holds, len2

\* The message appended to the current buffer follows on what is in it.
LEMMA AppendToCurrentOrder ==
  ASSUME Inv, Inv', ExactlyOnceInOrder, NEW m \in Messages, AppendToCurrent(m)
  PROVE  ExactlyOnceInOrder'
<1> DEFINE n == Len(Line)
           len == Len(accepted)
           most == InFlight \o bufferVec
           b == currentBuffer[1]
<1>1. /\ n \in Nat \ {0} /\ len \in Nat /\ begins \in Seq(Nat)
      /\ accepted \in Buffer /\ written \in Buffer /\ Line \in Seq(Buffer)
  BY LineInOrder, LenProperties DEF Inv, TypeOK, Buffer
<1>2. b \in Buffer /\ Len(b) \in Nat /\ Append(b, m) \in Buffer /\ currentBuffer = <<b>>
  <2>1. currentBuffer \in Seq(Buffer) /\ Len(currentBuffer) = 1
    BY LineInOrder
  <2>2. b \in Buffer
    BY <2>1, ElementOfSeq
  <2>3. currentBuffer = <<b>>
    BY <2>1
  <2> QED
    BY <2>2, <2>3, LenProperties, AppendProperties DEF Buffer
<1>3. most \in Seq(Buffer) /\ Len(most) = n - 1
  <2>1. /\ InFlight \in Seq(Buffer) /\ Len(InFlight) = toWrite
        /\ bufferVec \in Seq(Buffer) /\ n = toWrite + Len(bufferVec) + 1
    BY LineInOrder
  <2>2. toWrite \in Nat /\ Len(bufferVec) \in Nat
    BY <2>1, LenProperties
  <2>3. most \in Seq(Buffer) /\ Len(most) = Len(InFlight) + Len(bufferVec)
    BY <2>1, ConcatProperties
  <2> HIDE DEF n, most
  <2> QED
    BY <2>1, <2>2, <2>3
<1>4. Line = most \o <<b>> /\ Line' = most \o <<Append(b, m)>>
  BY <1>2 DEF Line, InFlight, AppendToCurrent, back
<1>5. accepted' = accepted \o <<m>> /\ <<m>> \in Buffer /\ Len(accepted') = len + 1
  BY <1>1 DEF AppendToCurrent, Buffer
<1>6. begins' = begins /\ written' = written /\ Len(begins) = n
  BY DEF AppendToCurrent, ExactlyOnceInOrder
<1>7. ASSUME NEW i \in 1..n
      PROVE  /\ begins[i] \in 1..(len + 1)
             /\ begins[i] + Len(Line[i]) = EndOf(i) /\ EndOf(i) \in 1..(len + 1)
             /\ EndOf(i) = IF i < n THEN begins[i + 1] ELSE len + 1
             /\ Line[i] \in Buffer /\ Holds(Line[i], begins[i])
  <2>1. i + 1 \in 1..n \/ ~(i < n)
    BY <1>1
  <2> QED
    BY <1>1, <1>6, <2>1, ElementOfSeq DEF ExactlyOnceInOrder, EndOf
<1> HIDE DEF n, len, most, b
<1>8. /\ Len(Line') = n /\ Line'[n] = Append(b, m) /\ Line[n] = b
      /\ \A i \in 1..(n - 1) : Line'[i] = Line[i]
  BY <1>1, <1>2, <1>3, <1>4
<1>9. Len(written)' + 1 = begins'[1] /\ Holds(written, 1)'
  <2>1. Len(written) + 1 = begins[1] /\ Holds(written, 1) /\ 1 \in 1..n
    BY <1>1 DEF ExactlyOnceInOrder
  <2>2. Len(written) \in Nat /\ 1 + Len(written) <= Len(accepted) + 1
    BY <1>1, <1>7, <2>1, LenProperties DEF Buffer, len
  <2>3. \A k \in 1..Len(written) : written[k] = accepted'[(1 + k) - 1]
    <3>1. 1 \in Nat \ {0} /\ written \in Buffer /\ accepted \in Buffer
      BY <1>1
    <3> QED
      BY <1>5, <2>1, <2>2, <3>1, HoldsStill
  <2> QED
    BY <1>6, <2>1, <2>3 DEF Holds
<1>10. ASSUME NEW i \in 1..n
       PROVE  /\ begins[i] \in 1..(len + 2)
              /\ begins[i] + Len(Line'[i])
                   = IF i < n THEN begins[i + 1] ELSE len + 2
              /\ \A k \in 1..Len(Line'[i]) :
                   Line'[i][k] = accepted'[(begins[i] + k) - 1]
  <2>1. begins[i] \in 1..(len + 2) /\ begins[i] \in Nat \ {0}
    BY <1>1, <1>7
  <2>2. \A k \in 1..Len(Line[i]) : Line[i][k] = accepted'[(begins[i] + k) - 1]
    <3>1. begins[i] + Len(Line[i]) <= Len(accepted) + 1
      BY <1>1, <1>7 DEF len
    <3> QED
      BY <1>1, <1>5, <1>7, <2>1, <3>1, HoldsStill
  <2>3. CASE i \in 1..(n - 1)
    <3>1. Line'[i] = Line[i] /\ i < n
      BY <1>1, <1>8, <2>3
    <3>2. begins[i] + Len(Line[i]) = begins[i + 1]
      BY <1>7, <3>1
    <3> QED
      BY <2>1, <2>2, <3>1, <3>2
  <2>4. CASE i = n
    <3>1. Len(Append(b, m)) = Len(b) + 1 /\ Append(b, m)[Len(b) + 1] = m
          /\ \A k \in 1..Len(b) : Append(b, m)[k] = b[k]
      BY <1>2, AppendProperties DEF Buffer
    <3>2. Line[i] = b /\ Line'[i] = Append(b, m) /\ begins[i] + Len(b) = len + 1
      BY <1>1, <1>7, <1>8, <2>4
    <3>3. begins[i] \in Int /\ Len(b) \in Int /\ len \in Int
      BY <1>1, <1>2, <2>1
    <3>4. accepted'[(begins[i] + (Len(b) + 1)) - 1] = m
      <4>1. (begins[i] + (Len(b) + 1)) - 1 = len + 1
        BY <3>2, <3>3
      <4>2. (accepted \o <<m>>)[len + 1] = m
        BY <1>1 DEF len, Buffer
      <4> QED
        BY <1>5, <4>1, <4>2
    <3>5. ASSUME NEW k \in 1..Len(Append(b, m))
          PROVE  Append(b, m)[k] = accepted'[(begins[i] + k) - 1]
      <4>1. k \in 1..Len(b) \/ k = Len(b) + 1
        BY <1>2, <3>1
      <4> QED
        BY <2>2, <3>1, <3>2, <3>4, <4>1
    <3>6. begins[i] + Len(Append(b, m)) = len + 2
      <4>1. begins[i] + (Len(b) + 1) = len + 2
        BY <3>2, <3>3
      <4> QED
        BY <3>1, <4>1
    <3>7. ~(i < n)
      BY <1>1, <2>4
    <3> QED
      BY <2>1, <3>2, <3>5, <3>6, <3>7
  <2>5. i \in 1..(n - 1) \/ i = n
    BY <1>1
  <2> QED
    BY <2>3, <2>4, <2>5
<1>11. Len(accepted') + 1 = len + 2
  BY <1>1, <1>5
<1> QED
  BY <1>6, <1>8, <1>9, <1>10, <1>11 DEF ExactlyOnceInOrder, EndOf, Holds

\* The buffer written is the one in line, and goes on where the file ends.
LEMMA WriteBufferOrder ==
  ASSUME Inv, Inv', ExactlyOnceInOrder, WriteBuffer
  PROVE  ExactlyOnceInOrder'
<1> DEFINE n == Len(Line)
           end == Len(accepted) + 1
           b == buffersToWrite[Len(buffersToWrite) - toWrite + 1]
<1>1. /\ n \in Nat \ {0} /\ Len(accepted) \in Nat /\ begins \in Seq(Nat)
      /\ written \in Buffer /\ Line \in Seq(Buffer)
  BY LineInOrder, LenProperties DEF Inv, TypeOK, Buffer
<1>2. Line[1] = b /\ n - 1 \in Nat \ {0} /\ Len(Line') = n - 1
      /\ \A i \in 1..(n - 1) : Line'[i] = Line[i + 1]
  <2>1. /\ buffersToWrite \in Seq(Buffer) /\ Len(buffersToWrite) \in Nat
        /\ toWrite \in 1..Len(buffersToWrite)
        /\ toWrite' = toWrite - 1
        /\ UNCHANGED <<buffersToWrite, bufferVec, currentBuffer>>
    BY LenProperties DEF Inv, TypeOK, WriteBuffer, front
  <2>2. InFlight[1] = b /\ Len(InFlight) = toWrite
    BY <2>1 DEF InFlight
  <2>3. InFlight' \in Seq(Buffer) /\ Len(InFlight') = toWrite - 1
        /\ \A i \in 1..(toWrite - 1) : InFlight'[i] = InFlight[i + 1]
    BY <2>1 DEF InFlight
  <2>4. InFlight' = Tail(InFlight) /\ InFlight \in Seq(Buffer) /\ InFlight # <<>>
    <3>1. InFlight \in Seq(Buffer)
      BY LineInOrder
    <3>2. Tail(InFlight) \in Seq(Buffer) /\ Len(Tail(InFlight)) = toWrite - 1
          /\ \A i \in 1..(toWrite - 1) : Tail(InFlight)[i] = InFlight[i + 1]
      BY <2>1, <2>2, <3>1
    <3> QED
      BY <2>1, <2>2, <2>3, <3>1, <3>2, SeqEqual
  <2>5. bufferVec \in Seq(Buffer) /\ currentBuffer \in Seq(Buffer)
        /\ n = toWrite + Len(bufferVec) + 1 /\ Len(bufferVec) \in Nat
    BY LineInOrder, LenProperties
  <2>6. Line' = Tail(Line) /\ Line[1] = InFlight[1]
    <3>1. Line' = (Tail(InFlight) \o bufferVec) \o currentBuffer
      BY <2>1, <2>4 DEF Line
    <3>2. Line = (InFlight \o bufferVec) \o currentBuffer
      BY DEF Line
    <3>3. /\ Tail(InFlight) \o bufferVec = Tail(InFlight \o bufferVec)
          /\ (InFlight \o bufferVec)[1] = InFlight[1]
          /\ InFlight \o bufferVec \in Seq(Buffer) /\ InFlight \o bufferVec # <<>>
      BY <2>4, <2>5, TailOfConcat
    <3>4. /\ Tail(InFlight \o bufferVec) \o currentBuffer = Tail(Line)
          /\ Line[1] = (InFlight \o bufferVec)[1]
      BY <2>5, <3>2, <3>3, TailOfConcat
    <3> QED
      BY <3>1, <3>3, <3>4
  <2> HIDE DEF n, b
  <2>7. Len(Line') = n - 1 /\ \A i \in 1..(n - 1) : Line'[i] = Line[i + 1]
    BY <1>1, <2>6 DEF n
  <2> QED
    BY <2>1, <2>2, <2>5, <2>6, <2>7
<1>3. /\ Len(begins) = n /\ Len(begins') = n - 1
      /\ \A i \in 1..(n - 1) : begins'[i] = begins[i + 1]
  <2>1. Len(begins) = n /\ begins' = Tail(begins)
    BY DEF ExactlyOnceInOrder, WriteBuffer
  <2> QED
    BY <1>1, <2>1
<1>4. accepted' = accepted /\ written' = written \o b
  BY DEF WriteBuffer
<1>5. ASSUME NEW i \in 1..n
      PROVE  /\ begins[i] \in 1..end
             /\ begins[i] + Len(Line[i]) = IF i < n THEN begins[i + 1] ELSE end
             /\ Line[i] \in Buffer /\ Holds(Line[i], begins[i])
  BY <1>1, <1>3, ElementOfSeq DEF ExactlyOnceInOrder, EndOf
<1> HIDE DEF n, end, b
<1>6. Len(written') + 1 = begins'[1] /\ Holds(written, 1)'
  <2>1. Len(written) + 1 = begins[1] /\ Holds(written, 1) /\ 1 \in 1..n /\ 1 < n
        /\ 1 \in 1..(n - 1)
    BY <1>1, <1>2 DEF ExactlyOnceInOrder
  <2>2. /\ b \in Buffer /\ Holds(b, begins[1]) /\ begins[1] + Len(b) = begins[2]
        /\ begins'[1] = begins[2]
    BY <1>2, <1>3, <1>5, <2>1
  <2>3. /\ Len(written) \in Nat /\ Len(b) \in Nat
        /\ Len(written') = Len(written) + Len(b)
        /\ \A k \in 1..Len(written) : written'[k] = written[k]
        /\ \A k \in (Len(written) + 1)..(Len(written) + Len(b)) :
             written'[k] = b[k - Len(written)]
    BY <1>1, <1>4, <2>2, LenProperties, ConcatProperties DEF Buffer
  <2>4. ASSUME NEW k \in 1..Len(written') PROVE written'[k] = accepted[(1 + k) - 1]
    <3>1. CASE k \in 1..Len(written)
      BY <2>1, <2>3, <3>1 DEF Holds
    <3>2. CASE k \in (Len(written) + 1)..(Len(written) + Len(b))
      <4>1. k - Len(written) \in 1..Len(b)
            /\ (begins[1] + (k - Len(written))) - 1 = (1 + k) - 1
        BY <2>1, <2>3, <3>2
      <4>2. b[k - Len(written)] = accepted[(begins[1] + (k - Len(written))) - 1]
        BY <2>2, <4>1 DEF Holds
      <4> QED
        BY <2>3, <3>2, <4>1, <4>2
    <3>3. k \in 1..Len(written) \/ k \in (Len(written) + 1)..(Len(written) + Len(b))
      BY <2>3
    <3> QED
      BY <3>1, <3>2, <3>3
  <2>5. Len(written') + 1 = begins'[1]
    BY <2>1, <2>2, <2>3
  <2> QED
    BY <1>4, <2>4, <2>5 DEF Holds
<1>7. ASSUME NEW i \in 1..(n - 1)
      PROVE  /\ begins'[i] \in 1..end
             /\ begins'[i] + Len(Line'[i])
                  = IF i < n - 1 THEN begins'[i + 1] ELSE end
             /\ Holds(Line'[i], begins'[i])
  <2>1. i + 1 \in 1..n /\ (i < n - 1 <=> i + 1 < n)
        /\ (i < n - 1 => i + 1 \in 1..(n - 1))
    BY <1>1
  <2>2. begins'[i] = begins[i + 1] /\ Line'[i] = Line[i + 1]
    BY <1>2, <1>3
  <2>3. /\ begins[i + 1] \in 1..end
        /\ begins[i + 1] + Len(Line[i + 1])
             = IF i + 1 < n THEN begins[(i + 1) + 1] ELSE end
        /\ Holds(Line[i + 1], begins[i + 1])
    BY <1>5, <2>1
  <2>4. i < n - 1 => begins'[i + 1] = begins[(i + 1) + 1]
    BY <1>3, <2>1
  <2> QED
    BY <2>1, <2>2, <2>3, <2>4
<1> QED
  BY <1>2, <1>3, <1>4, <1>6, <1>7 DEF ExactlyOnceInOrder, EndOf, Holds, end

\* A step that moves no message and no buffer that holds one.
LEMMA LineUnchanged ==
  ASSUME ExactlyOnceInOrder, UNCHANGED <<Line, history>>
  PROVE  ExactlyOnceInOrder'
BY DEF ExactlyOnceInOrder, Holds, EndOf, history

\* A new buffer follows on the full ones.
LEMMA AppendToNextOrder ==
  ASSUME Inv, Inv', ExactlyOnceInOrder, NEW m \in Messages, AppendToNext(m)
  PROVE  ExactlyOnceInOrder'
<1> USE DEF AppendToNext, back, stopping
<1>1. SpareOrNew[1] = <<>>
  BY DEF Inv, SpareOrNew, SparesEmpty, Null
<1>2. currentBuffer' = <<<<m>>>>
  BY <1>1
<1>3. InFlight' = InFlight
  BY DEF InFlight
<1>4. /\ InFlight \in Seq(Buffer) /\ bufferVec \in Seq(Buffer)
      /\ currentBuffer \in Seq(Buffer)
  BY LineInOrder
<1>5. <<m>> \in Buffer /\ <<<<m>>>> \in Seq(Buffer)
  BY DEF Buffer
<1>6. Line' = Line \o <<<<m>>>>
  <2>1. Line' = (InFlight \o (bufferVec \o currentBuffer)) \o <<<<m>>>>
    BY <1>2, <1>3 DEF Line
  <2>2. (InFlight \o (bufferVec \o currentBuffer)) \o <<<<m>>>>
          = ((InFlight \o bufferVec) \o currentBuffer) \o <<<<m>>>>
    BY <1>4, <1>5, ConcatThree
  <2> QED
    BY <2>1, <2>2 DEF Line
<1>7. Line' = Append(Line, <<m>>)
  BY <1>5, <1>6, LineInOrder, AppendIsConcat
<1>8. accepted \in Seq(Messages) /\ accepted' = accepted \o <<m>>
      /\ Len(accepted') = Len(accepted) + 1
  BY DEF Inv, TypeOK, Buffer
<1> QED
  BY <1>5, <1>7, <1>8, AddedToLine

\* At the exchange the batch takes the place of the full buffers and the
\* current one, and an empty buffer becomes the current one.
LEMMA SwapBuffersOrder ==
  ASSUME Inv, Inv', ExactlyOnceInOrder, SwapBuffers
  PROVE  ExactlyOnceInOrder'
<1> USE DEF SwapBuffers, stopping
<1>1. currentBuffer' = <<<<>>>>
  BY DEF Inv, SparesEmpty, SparesSuffice
<1>2. /\ bufferVec \in Seq(Buffer) /\ currentBuffer \in Seq(Buffer)
      /\ Len(InFlight) = 0 /\ InFlight \in Seq(Buffer)
  BY LineInOrder DEF Inv, BatchIsLocal
<1>3. InFlight = <<>>
  BY <1>2, EmptySeq
<1>4. Line = bufferVec \o currentBuffer
  BY <1>2, <1>3 DEF Line
<1>5. buffersToWrite' = Line /\ Line \in Seq(Buffer) /\ toWrite' = Len(Line)
  BY <1>4, LineInOrder
<1>6. InFlight' = Line
  <2>1. SubSeq(Line, Len(Line) - Len(Line) + 1, Len(Line)) = Line
    BY <1>5
  <2> QED
    BY <1>5, <2>1 DEF InFlight
<1>7. <<>> \in Buffer /\ <<<<>>>> \in Seq(Buffer)
  BY DEF Buffer
<1>8. Line' = Append(Line, <<>>)
  <2>1. Line' = (InFlight' \o <<>>) \o <<<<>>>>
    BY <1>1 DEF Line
  <2>2. Line \o <<>> = Line
    BY <1>5
  <2>3. Line' = Line \o <<<<>>>>
    BY <1>6, <2>1, <2>2
  <2> QED
    BY <1>5, <1>7, <2>3, AppendIsConcat
<1>9. accepted' = accepted \o <<>>
  BY DEF Inv, TypeOK, Buffer
<1> QED
  BY <1>7, <1>8, <1>9, AddedToLine

\* Nothing is in flight before the batch is recycled or after.
LEMMA RecycleOrder ==
  ASSUME Inv, Inv', ExactlyOnceInOrder, Recycle
  PROVE  ExactlyOnceInOrder'
<1>1. Len(InFlight) = 0 /\ InFlight \in Seq(Buffer)
  BY LineInOrder DEF Inv, BatchIsLocal, Recycle
<1>2. InFlight = <<>>
  BY <1>1, EmptySeq
<1>3. InFlight' = <<>>
  BY DEF InFlight, Recycle
<1>4. UNCHANGED <<Line, history>>
  BY <1>2, <1>3 DEF Line, Recycle, front, history
<1> QED
  BY <1>4, LineUnchanged

\* The invariant and the order of the messages are inductive together.
LEMMA OrderNext ==
  ASSUME Inv, ExactlyOnceInOrder, [Next]_vars
  PROVE  Inv' /\ ExactlyOnceInOrder'
<1>1. Inv'
  BY NextInv
<1>2. CASE \/ TestRunning \/ Lock \/ TestWork \/ Block \/ WaitTimeout
           \/ AllWritten \/ Exit
           \/ StopStoresRunning \/ StopNotifies \/ StopJoins
           \/ UNCHANGED vars
  <2>1. UNCHANGED <<front, buffersToWrite, toWrite, history>>
    BY <1>2 DEF TestRunning, Lock, TestWork, Block, WaitTimeout, AllWritten, Exit,
      StopStoresRunning, StopNotifies, StopJoins, vars, front, back, history
  <2>2. UNCHANGED <<Line, history>>
    BY <2>1 DEF Line, InFlight, front
  <2> QED
    BY <1>1, <2>2, LineUnchanged
<1> QED
  BY <1>1, <1>2, AppendToCurrentOrder, AppendToNextOrder, SwapBuffersOrder,
     WriteBufferOrder, RecycleOrder
  DEF Next, BackendStep

LEMMA InitOrder == Init => ExactlyOnceInOrder
<1> SUFFICES ASSUME Init PROVE ExactlyOnceInOrder
  OBVIOUS
<1>1. InFlight = <<>> /\ Line = <<<<>>>>
  <2>1. InFlight = <<>>
    BY DEF Init, InFlight
  <2>2. Line = (<<>> \o <<>>) \o <<<<>>>>
    BY <2>1 DEF Init, Line
  <2>3. (<<>> \o <<>>) \o <<<<>>>> = <<<<>>>>
    OBVIOUS
  <2> QED
    BY <2>1, <2>2, <2>3
<1> QED
  BY <1>1 DEF Init, ExactlyOnceInOrder, Holds, EndOf

\* The messages appended are, once and in the order of the appends, in the
\* file and in the buffers not written yet, for any number of messages and any
\* size of the buffers: append, the exchange, the writing and the recycling of
\* threadFunc lose, repeat and reorder none.
THEOREM EveryMessageOnceInOrder == Spec => []ExactlyOnceInOrder
<1>1. Init => Inv /\ ExactlyOnceInOrder
  BY InitInv, InitOrder
<1>2. Inv /\ ExactlyOnceInOrder /\ [Next]_vars => (Inv /\ ExactlyOnceInOrder)'
  BY OrderNext
<1> QED
  BY <1>1, <1>2, PTL DEF Spec

\* The buffers of the double-buffering scheme suffice in every reachable
\* state: no null buffer is written to and no buffer is taken of an empty
\* vector, however far the loggers run ahead of the backend.
THEOREM SparesAlwaysSuffice == Spec => []SparesSuffice
<1>1. Init => Inv /\ ExactlyOnceInOrder
  BY InitInv, InitOrder
<1>2. Inv /\ ExactlyOnceInOrder /\ [Next]_vars => (Inv /\ ExactlyOnceInOrder)'
  BY OrderNext
<1>3. Inv => SparesSuffice
  BY DEF Inv
<1> QED
  BY <1>1, <1>2, <1>3, PTL DEF Spec

\* Type correctness and emptiness of the spares, likewise.
THEOREM InvHolds == Spec => []Inv
<1>1. Init => Inv /\ ExactlyOnceInOrder
  BY InitInv, InitOrder
<1>2. Inv /\ ExactlyOnceInOrder /\ [Next]_vars => (Inv /\ ExactlyOnceInOrder)'
  BY OrderNext
<1> QED
  BY <1>1, <1>2, PTL DEF Spec
==============================================================================
