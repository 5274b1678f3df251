-------------------------- MODULE EventLoop_proofs --------------------------
(***************************************************************************)
(* Proofs about EventLoop for any set of callers and of tasks.             *)
(***************************************************************************)
EXTENDS EventLoop, SequenceTheorems, TLAPS

\* What an element of a longer sequence is.
LEMMA ElementsOfAppend ==
  ASSUME NEW S, NEW s \in Seq(S), NEW k \in S
  PROVE  /\ Elements(Append(s, k)) = Elements(s) \cup {k}
         /\ Append(s, k) \in Seq(S)
<1>1. Elements(s) \cup {k} \subseteq Elements(Append(s, k))
  BY SMT DEF Elements
<1>2. Elements(Append(s, k)) \subseteq Elements(s) \cup {k}
  BY SMT DEF Elements
<1> QED
  BY <1>1, <1>2, AppendProperties

\* An empty sequence has no elements.
LEMMA ElementsOfEmpty == Elements(<<>>) = {}
BY SMT DEF Elements

\* The initial state satisfies the inductive invariant.
LEMMA InitInv == Init => Inv
<1> SUFFICES ASSUME Init PROVE Inv
  OBVIOUS
<1>1. TypeOK
  <2>1. <<>> \in Seq(Tasks)
    BY EmptySeq
  <2> QED
    BY <2>1 DEF Init, TypeOK, LoopStates
<1>2. NoLostWakeup
  BY ElementsOfEmpty DEF Init, NoLostWakeup
<1>3. CallingIsAccurate
  BY DEF Init, CallingIsAccurate
<1>4. BatchIsLocal /\ NoSleepAfterQuit
  BY DEF Init, BatchIsLocal, NoSleepAfterQuit
<1> QED
  BY <1>1, <1>2, <1>3, <1>4 DEF Inv

\* Each step of the loop or of a caller preserves the type invariant.
LEMMA NextTypeOK == Inv /\ [Next]_vars => TypeOK'
<1> SUFFICES ASSUME Inv, [Next]_vars PROVE TypeOK'
  OBVIOUS
<1> USE DEF Inv, TypeOK, LoopStates, loopVars, history
<1>1. CASE Enter
  BY <1>1 DEF Enter, QuitOnEntry
<1>2. CASE CheckQuit
  BY <1>2 DEF CheckQuit
<1>3. CASE PollReturns
  BY <1>3 DEF PollReturns, Ready, Channels
<1>4. CASE HandleWakeup
  BY <1>4 DEF HandleWakeup
<1>5. CASE HandleIo
  BY <1>5 DEF HandleIo
<1>6. CASE HandlerReturns
  BY <1>6 DEF HandlerReturns
<1>7. CASE MarkCalling
  BY <1>7 DEF MarkCalling
<1>8. CASE SwapFunctors
  <2>1. functors' = pendingFunctors /\ pendingFunctors' = functors
    BY <1>8, SMT DEF SwapFunctors, Swapped
  <2> QED
    BY <1>8, <2>1 DEF SwapFunctors
<1>9. CASE StartFunctor
  <2>1. Head(functors) \in Tasks /\ Tail(functors) \in Seq(Tasks)
    BY <1>9, HeadTailProperties DEF StartFunctor
  <2> QED
    BY <1>9, <2>1, AppendProperties DEF StartFunctor
<1>10. CASE FunctorReturns
  BY <1>10 DEF FunctorReturns
<1>11. CASE ClearCalling
  BY <1>11 DEF ClearCalling
<1>12. CASE PollTimeout
  BY <1>12 DEF PollTimeout
<1>13. ASSUME NEW k \in Tasks, QueuedByLoop(k) PROVE TypeOK'
  BY <1>13, ElementsOfAppend DEF QueuedByLoop, LoopThreadWakes
<1>14. ASSUME NEW k \in Tasks, RunByLoop(k) PROVE TypeOK'
  BY <1>14, ElementsOfAppend DEF RunByLoop
<1>15. CASE QuitByLoop
  BY <1>15 DEF QuitByLoop
<1>16. ASSUME NEW t \in Callers, NEW k \in Tasks, QueuedByCaller(t, k)
       PROVE TypeOK'
  BY <1>16, ElementsOfAppend DEF QueuedByCaller, Enqueue, QueueMustWake
<1>17. ASSUME NEW t \in Callers, QuitByCaller(t) PROVE TypeOK'
  BY <1>17 DEF QuitByCaller, QuitMustWake
<1>18. ASSUME NEW t \in Callers, Wakeup(t) PROVE TypeOK'
  BY <1>18 DEF Wakeup
<1>19. CASE IoArrives
  BY <1>19 DEF IoArrives
<1>20. CASE UNCHANGED vars
  BY <1>20 DEF vars
<1> QED
  BY <1>1, <1>2, <1>3, <1>4, <1>5, <1>6, <1>7, <1>8, <1>9, <1>10, <1>11,
     <1>12, <1>13, <1>14, <1>15, <1>16, <1>17, <1>18, <1>19, <1>20
  DEF Next, LoopStep

\* callingPendingFunctors_ stays accurate, and the batch local, in each step.
LEMMA NextCalling == Inv /\ [Next]_vars => (CallingIsAccurate /\ BatchIsLocal)'
<1> SUFFICES ASSUME Inv, [Next]_vars
             PROVE  CallingIsAccurate' /\ BatchIsLocal'
  OBVIOUS
<1> USE DEF Inv, CallingIsAccurate, BatchIsLocal, loopVars
<1>1. CASE Enter
  BY <1>1 DEF Enter
<1>2. CASE CheckQuit
  BY <1>2 DEF CheckQuit
<1>3. CASE PollReturns \/ PollTimeout
  BY <1>3 DEF PollReturns, PollTimeout
<1>4. CASE HandleWakeup
  BY <1>4 DEF HandleWakeup
<1>5. CASE HandleIo \/ HandlerReturns
  BY <1>5 DEF HandleIo, HandlerReturns
<1>6. CASE MarkCalling
  BY <1>6 DEF MarkCalling
<1>7. CASE SwapFunctors
  BY <1>7 DEF SwapFunctors
<1>8. CASE StartFunctor
  BY <1>8 DEF StartFunctor
<1>9. CASE FunctorReturns
  BY <1>9 DEF FunctorReturns
<1>10. CASE ClearCalling
  BY <1>10 DEF ClearCalling
<1>11. ASSUME NEW k \in Tasks, QueuedByLoop(k) \/ RunByLoop(k)
       PROVE  CallingIsAccurate' /\ BatchIsLocal'
  BY <1>11 DEF QueuedByLoop, RunByLoop
<1>12. CASE QuitByLoop
  BY <1>12 DEF QuitByLoop
<1>13. ASSUME NEW t \in Callers,
              (\E k \in Tasks : QueuedByCaller(t, k)) \/ QuitByCaller(t) \/ Wakeup(t)
       PROVE  CallingIsAccurate' /\ BatchIsLocal'
  BY <1>13 DEF QueuedByCaller, QuitByCaller, Wakeup
<1>14. CASE IoArrives \/ UNCHANGED vars
  BY <1>14 DEF IoArrives, vars
<1> QED
  BY <1>1, <1>2, <1>3, <1>4, <1>5, <1>6, <1>7, <1>8, <1>9, <1>10, <1>11,
     <1>12, <1>13, <1>14
  DEF Next, LoopStep

\* No step loses the wakeup owed to a queued functor or to quit().
LEMMA NextWakeup == Inv /\ [Next]_vars => (NoLostWakeup /\ NoSleepAfterQuit)'
<1> SUFFICES ASSUME Inv, [Next]_vars
             PROVE  NoLostWakeup' /\ NoSleepAfterQuit'
  OBVIOUS
<1> USE DEF Inv, NoLostWakeup, NoSleepAfterQuit, WakeupComing, BeforeNextPoll,
    loopVars, history, Elements
<1>1. CASE Enter
  BY <1>1 DEF Enter
<1>2. CASE CheckQuit
  BY <1>2 DEF CheckQuit
<1>3. CASE PollReturns \/ PollTimeout
  BY <1>3 DEF PollReturns, PollTimeout
<1>4. CASE HandleWakeup
  BY <1>4 DEF HandleWakeup
<1>5. CASE HandleIo \/ HandlerReturns
  BY <1>5 DEF HandleIo, HandlerReturns
<1>6. CASE MarkCalling
  BY <1>6 DEF MarkCalling
<1>7. CASE SwapFunctors
  \* the batch was empty, so nothing is pending after the swap
  <2>1. pendingFunctors' = <<>> /\ lpc' = "run"
    BY <1>7, SMT DEF SwapFunctors, Swapped, BatchIsLocal
  <2>2. Elements(pendingFunctors') = {}
    BY <2>1, ElementsOfEmpty
  <2> QED
    BY <2>1, <2>2
<1>8. CASE StartFunctor
  BY <1>8 DEF StartFunctor
<1>9. CASE FunctorReturns
  BY <1>9 DEF FunctorReturns
<1>10. CASE ClearCalling
  BY <1>10 DEF ClearCalling
<1>11. ASSUME NEW k \in Tasks, QueuedByLoop(k)
       PROVE  NoLostWakeup' /\ NoSleepAfterQuit'
  <2>1. pendingFunctors \in Seq(Tasks)
    BY DEF TypeOK
  <2>2. Elements(pendingFunctors') = Elements(pendingFunctors) \cup {k}
    BY <1>11, <2>1, ElementsOfAppend DEF QueuedByLoop
  <2>3. CASE lpc = "created"
    BY <1>11, <2>2, <2>3 DEF QueuedByLoop, LoopThreadWakes
  <2>4. CASE lpc = "functor"
    BY <1>11, <2>4 DEF QueuedByLoop, LoopThreadWakes, CallingIsAccurate
  <2>5. CASE lpc \in {"handler", "done"}
    BY <1>11, <2>5 DEF QueuedByLoop
  <2> QED
    BY <1>11, <2>3, <2>4, <2>5 DEF QueuedByLoop, InUserCode
<1>12. ASSUME NEW k \in Tasks, RunByLoop(k)
       PROVE  NoLostWakeup' /\ NoSleepAfterQuit'
  BY <1>12 DEF RunByLoop
<1>13. CASE QuitByLoop
  BY <1>13 DEF QuitByLoop, InUserCode
<1>14. ASSUME NEW t \in Callers, NEW k \in Tasks, QueuedByCaller(t, k)
       PROVE  NoLostWakeup' /\ NoSleepAfterQuit'
  <2>1. WakeupComing'
    BY <1>14 DEF QueuedByCaller, QueueMustWake
  <2> QED
    BY <2>1
<1>15. ASSUME NEW t \in Callers, QuitByCaller(t)
       PROVE  NoLostWakeup' /\ NoSleepAfterQuit'
  <2>1. WakeupComing'
    BY <1>15 DEF QuitByCaller, QuitMustWake
  <2> QED
    BY <2>1
<1>16. ASSUME NEW t \in Callers, Wakeup(t)
       PROVE  NoLostWakeup' /\ NoSleepAfterQuit'
  BY <1>16 DEF Wakeup
<1>17. CASE IoArrives \/ UNCHANGED vars
  BY <1>17 DEF IoArrives, vars
<1> QED
  BY <1>1, <1>2, <1>3, <1>4, <1>5, <1>6, <1>7, <1>8, <1>9, <1>10, <1>11,
     <1>12, <1>13, <1>14, <1>15, <1>16, <1>17
  DEF Next, LoopStep

\* Type correctness, the accuracy of callingPendingFunctors_ and both wakeup
\* properties hold in every reachable state.
THEOREM InvHolds == Spec => []Inv
<1>1. Init => Inv
  BY InitInv
<1>2. Inv /\ [Next]_vars => Inv'
  BY NextTypeOK, NextCalling, NextWakeup DEF Inv
<1> QED
  BY <1>1, <1>2, PTL DEF Spec

\* queueInLoop never leaves a functor behind a sleeping loop, whatever the
\* number of threads and of functors.
THEOREM NeverLosesAWakeup == Spec => []NoLostWakeup
<1>1. Inv => NoLostWakeup
  BY DEF Inv
<1> QED
  BY <1>1, InvHolds, PTL

\* quit() from another thread always reaches a loop asleep in epoll_wait.
THEOREM NeverSleepsAfterQuit == Spec => []NoSleepAfterQuit
<1>1. Inv => NoSleepAfterQuit
  BY DEF Inv
<1> QED
  BY <1>1, InvHolds, PTL

------------------------------------------------------------------------------
(* The refinement of TaskQueue. *)

\* Appending to the second of two concatenated sequences.
LEMMA ConcatAppend ==
  ASSUME NEW S, NEW f \in Seq(S), NEW p \in Seq(S), NEW k \in S
  PROVE  f \o Append(p, k) = Append(f \o p, k)
<1>1. <<k>> \in Seq(S)
  OBVIOUS
<1>2. f \o Append(p, k) = f \o (p \o <<k>>)
  BY AppendIsConcat
<1>3. f \o (p \o <<k>>) = (f \o p) \o <<k>>
  BY <1>1, ConcatAssociative
<1>4. (f \o p) \o <<k>> = Append(f \o p, k)
  BY ConcatProperties, AppendIsConcat
<1> QED
  BY <1>2, <1>3, <1>4

\* Head and tail of a concatenation that starts with a nonempty sequence.
LEMMA ConcatHeadTail ==
  ASSUME NEW S, NEW f \in Seq(S), NEW p \in Seq(S), f # <<>>
  PROVE  /\ f \o p # <<>>
         /\ Head(f \o p) = Head(f)
         /\ Tail(f \o p) = Tail(f) \o p
<1>1. /\ f \o p \in Seq(S)
      /\ Len(f \o p) = Len(f) + Len(p)
      /\ \A i \in 1 .. Len(f) + Len(p) :
           (f \o p)[i] = IF i <= Len(f) THEN f[i] ELSE p[i - Len(f)]
  BY ConcatProperties
<1>2. Len(f) \in Nat /\ Len(f) # 0 /\ Len(p) \in Nat
  BY EmptySeq, LenProperties
<1>3. f \o p # <<>>
  BY <1>1, <1>2, EmptySeq
<1>4. /\ Head(f) = f[1]
      /\ Tail(f) \in Seq(S)
      /\ Len(Tail(f)) = Len(f) - 1
      /\ \A i \in 1 .. Len(Tail(f)) : Tail(f)[i] = f[i + 1]
  BY HeadTailProperties
<1>5. /\ Head(f \o p) = (f \o p)[1]
      /\ Tail(f \o p) \in Seq(S)
      /\ Len(Tail(f \o p)) = Len(f \o p) - 1
      /\ \A i \in 1 .. Len(Tail(f \o p)) : Tail(f \o p)[i] = (f \o p)[i + 1]
  BY <1>1, <1>3, HeadTailProperties
<1>6. Head(f \o p) = Head(f)
  BY <1>1, <1>2, <1>4, <1>5
<1>7. /\ Tail(f) \o p \in Seq(S)
      /\ Len(Tail(f) \o p) = Len(f) - 1 + Len(p)
      /\ \A i \in 1 .. Len(f) - 1 + Len(p) :
           (Tail(f) \o p)[i] =
             IF i <= Len(f) - 1 THEN Tail(f)[i] ELSE p[i - (Len(f) - 1)]
  BY <1>4, ConcatProperties
<1>8. ASSUME NEW i \in 1 .. Len(f) - 1 + Len(p)
      PROVE  Tail(f \o p)[i] = (Tail(f) \o p)[i]
  BY <1>1, <1>2, <1>4, <1>5, <1>7
<1>9. Tail(f \o p) = Tail(f) \o p
  BY <1>1, <1>2, <1>5, <1>7, <1>8, SeqEqual
<1> QED
  BY <1>3, <1>6, <1>9

\* The initial state is a task queue with nothing in it.
LEMMA InitRefines == Init => Abstract!Init
<1>1. <<>> \o <<>> = <<>>
  OBVIOUS
<1> QED
  BY <1>1 DEF Init, Abstract!Init

\* Every step is a submission, the start of the oldest task, or a stutter.
LEMMA NextRefines == Inv /\ [Next]_vars => [Abstract!Next]_(Abstract!vars)
<1> SUFFICES ASSUME Inv, [Next]_vars
             PROVE  Abstract!Next \/ UNCHANGED Abstract!vars
  OBVIOUS
<1> DEFINE same == UNCHANGED <<functors, pendingFunctors, ran, submitted>>
<1>a. functors \in Seq(Tasks) /\ pendingFunctors \in Seq(Tasks)
  BY DEF Inv, TypeOK
<1>1. CASE same
  BY <1>1 DEF Abstract!vars
<1>2. CASE SwapFunctors
  <2>1. functors = <<>>
    BY <1>2 DEF SwapFunctors, Inv, BatchIsLocal
  <2>2. functors' = pendingFunctors /\ pendingFunctors' = functors
    BY <1>2, SMT DEF SwapFunctors, Swapped
  <2>3. functors' \o pendingFunctors' = functors \o pendingFunctors
    BY <1>a, <2>1, <2>2, ConcatEmptySeq
  <2> QED
    BY <1>2, <2>3 DEF SwapFunctors, history, Abstract!vars
<1>3. CASE StartFunctor
  <2>1. /\ functors \o pendingFunctors # <<>>
        /\ Head(functors \o pendingFunctors) = Head(functors)
        /\ Tail(functors \o pendingFunctors) = Tail(functors) \o pendingFunctors
    BY <1>a, <1>3, ConcatHeadTail DEF StartFunctor
  <2>2. Abstract!RunNext
    BY <1>3, <2>1 DEF StartFunctor, Abstract!RunNext
  <2> QED
    BY <2>2 DEF Abstract!Next
<1>4. ASSUME NEW k \in Tasks,
             QueuedByLoop(k) \/ \E t \in Callers : QueuedByCaller(t, k)
      PROVE  Abstract!Next
  <2>1. functors' = functors /\ pendingFunctors' = Append(pendingFunctors, k)
    BY <1>4 DEF QueuedByLoop, QueuedByCaller, Enqueue, loopVars
  <2>2. functors' \o pendingFunctors' = Append(functors \o pendingFunctors, k)
    BY <1>a, <2>1, ConcatAppend
  <2>3. Abstract!Submit(k)
    BY <1>4, <2>2 DEF QueuedByLoop, QueuedByCaller, Abstract!Submit
  <2> QED
    BY <2>3 DEF Abstract!Next
<1>5. ASSUME NEW k \in Tasks, RunByLoop(k)
      PROVE  Abstract!Next
  <2>1. Abstract!RunNow(k)
    BY <1>5 DEF RunByLoop, loopVars, Abstract!RunNow
  <2> QED
    BY <2>1 DEF Abstract!Next
<1>6. CASE Enter \/ CheckQuit \/ PollReturns \/ PollTimeout \/ HandleWakeup
  <2>1. same
    BY <1>6 DEF Enter, CheckQuit, PollReturns, PollTimeout, HandleWakeup, history
  <2> QED
    BY <2>1, <1>1
<1>7. CASE HandleIo \/ HandlerReturns \/ MarkCalling \/ FunctorReturns \/ ClearCalling
  <2>1. same
    BY <1>7 DEF HandleIo, HandlerReturns, MarkCalling, FunctorReturns,
      ClearCalling, history
  <2> QED
    BY <2>1, <1>1
<1>8. CASE QuitByLoop \/ IoArrives \/ UNCHANGED vars
  <2>1. same
    BY <1>8 DEF QuitByLoop, IoArrives, vars, history, loopVars
  <2> QED
    BY <2>1, <1>1
<1>9. ASSUME NEW t \in Callers, QuitByCaller(t) \/ Wakeup(t)
      PROVE  UNCHANGED Abstract!vars
  <2>1. same
    BY <1>9 DEF QuitByCaller, Wakeup, history, loopVars
  <2> QED
    BY <2>1 DEF Abstract!vars
<1> QED
  BY <1>1, <1>2, <1>3, <1>4, <1>5, <1>6, <1>7, <1>8, <1>9 DEF Next, LoopStep

\* EventLoop implements TaskQueue: with any number of threads, functors run
\* in the order they were queued, each once, whatever the swap and the
\* callbacks interleave with.
THEOREM EventLoopIsATaskQueue == Spec => ImplementsTaskQueue
<1>1. Init => Abstract!Init
  BY InitRefines
<1>2. Inv /\ [Next]_vars => [Abstract!Next]_(Abstract!vars)
  BY NextRefines
<1> QED
  BY <1>1, <1>2, InvHolds, PTL DEF Spec, Abstract!Spec, ImplementsTaskQueue
=============================================================================
