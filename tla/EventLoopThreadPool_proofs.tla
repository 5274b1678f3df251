---------------------- MODULE EventLoopThreadPool_proofs ----------------------
(***************************************************************************)
(* What is proved of the pool of loop threads, for any number of threads,  *)
(* whether or not the owner waits for the loops before it destroys them.   *)
(*                                                                         *)
(* Inv is inductive: loop_ is set exactly while the thread is between      *)
(* PublishLoop and ClearLoop, and a thread is past its loop only if        *)
(* somebody asked it to quit.  A thread found without a loop by            *)
(* ~EventLoopThread has therefore been stopped by a callback of its own,   *)
(* which is the exception GoneAfterThread makes.                           *)
(***************************************************************************)
EXTENDS EventLoopThreadPool, TLAPS

------------------------------------------------------------------------------
(* One lemma per conjunct of the invariant *)

\* The pool before its threads.
LEMMA InitInv ==
  ASSUME Init
  PROVE  Inv /\ GoneAfterThread
<1> USE PoolAssumption DEF Init, Workers, BaseLoop
<1>1. TypeOK
  BY DEF TypeOK, OwnerStates, ThreadStates
<1>2. PublishedIsAlive /\ HandedOutAreBuilt
  BY DEF PublishedIsAlive, HandedOutAreBuilt, Published
<1>3. RoundRobin
  <2>1. 0 \in 0..MaxPicks /\ \A w \in Workers : ~(w <= 0) /\ picks[w] = 0
    OBVIOUS
  <2> QED
    BY <2>1 DEF RoundRobin
<1>4. QuitsWhenAsked /\ GoneAfterThread /\ CrashesOnSelfQuit
  BY DEF QuitsWhenAsked, GoneAfterThread, CrashesOnSelfQuit, Crashed
<1> QED
  BY <1>1, <1>2, <1>3, <1>4 DEF Inv

\* The types.
LEMMA TypesStay ==
  ASSUME Inv, Next \/ UNCHANGED vars
  PROVE  TypeOK'
<1> USE PoolAssumption DEF Inv, TypeOK, OwnerStates, ThreadStates, Workers, BaseLoop, loops, picking
<1>1. ASSUME SpawnThread
      PROVE  TypeOK'
  BY <1>1 DEF SpawnThread
<1>2. ASSUME SemWaitReturns \/ SpuriousWakeup \/ PoolStarted
      PROVE  TypeOK'
  BY <1>2 DEF SemWaitReturns, SpuriousWakeup, PoolStarted
<1>3. ASSUME StartLoopTests
      PROVE  TypeOK'
  BY <1>3 DEF StartLoopTests, MustWait
<1>4. ASSUME GetNextLoop
      PROVE  TypeOK'
  BY <1>4 DEF GetNextLoop, WrapNext
<1>5. ASSUME BeginDestroy
      PROVE  TypeOK'
  BY <1>5 DEF BeginDestroy
<1>6. ASSUME DtorTestsLoop
      PROVE  TypeOK'
  <2>1. cur \in Workers /\ cur + 1 \in 1..(N + 1)
    BY <1>6 DEF DtorTestsLoop
  <2>2. /\ opc' \in {"dtor", "reread"}
        /\ cur' = cur \/ cur' = cur + 1
        /\ opc' = "reread" => cur' = cur
        /\ gone' = gone \/ gone' = gone \cup {cur}
        /\ UNCHANGED <<loops, picking>>
    BY <1>6 DEF DtorTestsLoop
  <2> QED
    BY <2>1, <2>2
<1>7. ASSUME DtorStoresQuit \/ DtorWakesLoop
      PROVE  TypeOK'
  <2>1. \E b \in BOOLEAN :
          \/ quit' = [quit EXCEPT ![cur] = b] /\ wakeupFd' = wakeupFd
          \/ wakeupFd' = [wakeupFd EXCEPT ![cur] = b] /\ quit' = quit
    <3>1. (tpc[cur] \in Alive) \in BOOLEAN
      OBVIOUS
    <3>2. \/ quit' = [quit EXCEPT ![cur] = (tpc[cur] \in Alive)] /\ wakeupFd' = wakeupFd
          \/ wakeupFd' = [wakeupFd EXCEPT ![cur] = (tpc[cur] \in Alive)] /\ quit' = quit
      BY <1>7 DEF DtorStoresQuit, DtorWakesLoop, QuitWakes
    <3> QED
      BY <3>1, <3>2, Zenon
  <2>2. UNCHANGED <<cur, tpc, loopPtr, mutexHeld, selfQuit, gone, picking>>
    BY <1>7 DEF DtorStoresQuit, DtorWakesLoop
  <2>3. opc' \in {"wakeup", "join"} /\ cur \in Workers
    BY <1>7 DEF DtorStoresQuit, DtorWakesLoop
  <2> QED
    BY <2>1, <2>2, <2>3
<1>8. ASSUME DtorJoins
      PROVE  TypeOK'
  BY <1>8 DEF DtorJoins, Joinable
<1>9. ASSUME PoolDestroyed
      PROVE  TypeOK'
  BY <1>9 DEF PoolDestroyed
<1>10. ASSUME NEW w \in Workers,
             ThreadPosts(w) \/ CheckQuit(w) \/ OtherRound(w)
      PROVE  TypeOK'
  BY <1>10 DEF ThreadPosts, CheckQuit, OtherRound
<1>11. ASSUME NEW w \in Workers, ConstructLoop(w)
      PROVE  TypeOK'
  BY <1>11 DEF ConstructLoop, MayCallQuit
<1>12. ASSUME NEW w \in Workers, RoundEnds(w)
      PROVE  TypeOK'
  BY <1>12 DEF RoundEnds, MayCallQuit
<1>13. ASSUME NEW w \in Workers, PublishLoop(w)
      PROVE  TypeOK'
  BY <1>13 DEF PublishLoop
<1>14. ASSUME NEW w \in Workers, EnterLoop(w)
      PROVE  TypeOK'
  BY <1>14 DEF EnterLoop
<1>15. ASSUME NEW w \in Workers,
             WakesUp(w) \/ DestroyLoop(w)
      PROVE  TypeOK'
  BY <1>15 DEF WakesUp, DestroyLoop
<1>16. ASSUME NEW w \in Workers,
             ClearLoop(w) \/ UnlockMutex(w)
      PROVE  TypeOK'
  BY <1>16 DEF ClearLoop, LoopPtrAfterLoop, UnlockMutex
<1>17. ASSUME UNCHANGED vars
      PROVE  TypeOK'
  BY <1>17 DEF vars
<1>18. ASSUME DtorReadsLoop
      PROVE  TypeOK'
  BY <1>18 DEF DtorReadsLoop
<1> QED
  BY <1>1, <1>2, <1>3, <1>4, <1>5, <1>6, <1>7, <1>8, <1>9, <1>10, <1>11, <1>12, <1>13, <1>14, <1>15, <1>16, <1>17, <1>18
  DEF Next, OwnerStep, ThreadStep, vars

\* The published pointer: set by PublishLoop, cleared by ClearLoop.
LEMMA PublishedStays ==
  ASSUME Inv, Next \/ UNCHANGED vars
  PROVE  PublishedIsAlive'
<1> USE PoolAssumption DEF Inv, TypeOK, PublishedIsAlive, HandedOutAreBuilt, Published, loops, picking
<1>1. ASSUME NEW w \in Workers, PublishLoop(w)
      PROVE  PublishedIsAlive'
  BY <1>1 DEF PublishLoop
<1>2. ASSUME NEW w \in Workers, ClearLoop(w)
      PROVE  PublishedIsAlive'
  BY <1>2 DEF ClearLoop, LoopPtrAfterLoop
<1>3. ASSUME NEW w \in Workers,
             \/ EnterLoop(w) \/ CheckQuit(w) \/ WakesUp(w) \/ OtherRound(w)
             \/ RoundEnds(w)
      PROVE  PublishedIsAlive'
  BY <1>3
  DEF EnterLoop, CheckQuit, WakesUp, OtherRound, RoundEnds, MayCallQuit
<1>4. ASSUME SpawnThread
      PROVE  PublishedIsAlive'
  BY <1>4 DEF SpawnThread
<1>5. ASSUME NEW w \in Workers,
             ThreadPosts(w) \/ ConstructLoop(w)
      PROVE  PublishedIsAlive'
  BY <1>5 DEF ThreadPosts, ConstructLoop, MayCallQuit
<1>6. ASSUME NEW w \in Workers,
             UnlockMutex(w) \/ DestroyLoop(w)
      PROVE  PublishedIsAlive'
  BY <1>6 DEF UnlockMutex, DestroyLoop
<1>7. ASSUME UNCHANGED <<tpc, loopPtr>>
      PROVE  PublishedIsAlive'
  BY <1>7
<1> QED
  BY <1>1, <1>2, <1>3, <1>4, <1>5, <1>6, <1>7
  DEF Next, OwnerStep, ThreadStep, vars, SemWaitReturns, StartLoopTests,
      MustWait, SpuriousWakeup, PoolStarted, GetNextLoop, WrapNext,
      BeginDestroy, DtorTestsLoop, DtorReadsLoop, DtorStoresQuit, DtorWakesLoop, QuitWakes,
      DtorJoins, Joinable, PoolDestroyed

\* The order in which the threads are started, and what startLoop waited for.
LEMMA BuiltStays ==
  ASSUME Inv, Next \/ UNCHANGED vars
  PROVE  HandedOutAreBuilt'
<1> USE PoolAssumption DEF Inv, TypeOK, HandedOutAreBuilt, PublishedIsAlive, Published, Built, OwnerStates, Workers, loops, picking
<1>1. ASSUME SpawnThread
      PROVE  HandedOutAreBuilt'
  BY <1>1 DEF SpawnThread
<1>2. ASSUME SemWaitReturns \/ SpuriousWakeup
      PROVE  HandedOutAreBuilt'
  BY <1>2 DEF SemWaitReturns, SpuriousWakeup
<1>3. ASSUME StartLoopTests
      PROVE  HandedOutAreBuilt'
  BY <1>3 DEF StartLoopTests, MustWait
<1>4. ASSUME PoolStarted
      PROVE  HandedOutAreBuilt'
  BY <1>4 DEF PoolStarted
<1>5. ASSUME BeginDestroy \/ DtorTestsLoop \/ DtorReadsLoop \/ DtorStoresQuit
      PROVE  HandedOutAreBuilt'
  BY <1>5 DEF BeginDestroy, DtorTestsLoop, DtorReadsLoop, DtorStoresQuit
<1>6. ASSUME DtorWakesLoop \/ DtorJoins \/ PoolDestroyed
      PROVE  HandedOutAreBuilt'
  BY <1>6 DEF DtorWakesLoop, QuitWakes, DtorJoins, Joinable, PoolDestroyed
<1>7. ASSUME NEW w \in Workers, PublishLoop(w)
      PROVE  HandedOutAreBuilt'
  BY <1>7 DEF PublishLoop
<1>8. ASSUME NEW w \in Workers,
             ThreadPosts(w) \/ ConstructLoop(w)
      PROVE  HandedOutAreBuilt'
  BY <1>8 DEF ThreadPosts, ConstructLoop, MayCallQuit
<1>9. ASSUME NEW w \in Workers,
             EnterLoop(w) \/ CheckQuit(w) \/ WakesUp(w) \/ OtherRound(w)
      PROVE  HandedOutAreBuilt'
  BY <1>9 DEF EnterLoop, CheckQuit, WakesUp, OtherRound
<1>10. ASSUME NEW w \in Workers,
             \/ RoundEnds(w) \/ ClearLoop(w) \/ UnlockMutex(w)
             \/ DestroyLoop(w)
      PROVE  HandedOutAreBuilt'
  BY <1>10
  DEF RoundEnds, MayCallQuit, ClearLoop, LoopPtrAfterLoop, UnlockMutex,
      DestroyLoop
<1>11. ASSUME UNCHANGED <<opc, cur, tpc>>
      PROVE  HandedOutAreBuilt'
  BY <1>11
<1> QED
  BY <1>1, <1>2, <1>3, <1>4, <1>5, <1>6, <1>7, <1>8, <1>9, <1>10, <1>11
  DEF Next, OwnerStep, ThreadStep, vars, GetNextLoop, WrapNext

\* Who asked a loop to quit.
LEMMA AskedStays ==
  ASSUME Inv, Next \/ UNCHANGED vars
  PROVE  QuitsWhenAsked'
<1> USE PoolAssumption DEF Inv, TypeOK, QuitsWhenAsked, Asked, Workers, loops, picking
<1>1. ASSUME SpawnThread
      PROVE  QuitsWhenAsked'
  BY <1>1 DEF SpawnThread
<1>2. ASSUME SemWaitReturns \/ SpuriousWakeup
      PROVE  QuitsWhenAsked'
  BY <1>2 DEF SemWaitReturns, SpuriousWakeup
<1>3. ASSUME StartLoopTests
      PROVE  QuitsWhenAsked'
  BY <1>3 DEF StartLoopTests, MustWait
<1>4. ASSUME PoolStarted
      PROVE  QuitsWhenAsked'
  BY <1>4 DEF PoolStarted
<1>5. ASSUME BeginDestroy
      PROVE  QuitsWhenAsked'
  BY <1>5 DEF BeginDestroy
<1>6. ASSUME DtorTestsLoop
      PROVE  QuitsWhenAsked'
  <2>1. /\ UNCHANGED <<tpc, quit, selfQuit>>
        /\ opc = "dtor" /\ opc' \in {"dtor", "reread"}
        /\ gone' = gone \/ (gone' = gone \cup {cur} /\ cur' = cur + 1)
        /\ cur' = cur \/ cur' = cur + 1
    BY <1>6 DEF DtorTestsLoop
  <2>2. \A w \in Workers : Asked(w) => Asked(w)'
    BY <2>1
  <2>3. \A w \in gone' : w < cur'
    <3>1. cur \in Nat /\ \A w \in gone : w \in Nat /\ w < cur
      OBVIOUS
    <3>2. \A w \in gone' : w \in gone \/ (w = cur /\ cur' = cur + 1)
      BY <2>1
    <3>3. \A w \in gone : w < cur + 1
      BY <3>1
    <3>4. cur < cur + 1
      BY <3>1
    <3> QED
      BY <2>1, <3>1, <3>2, <3>3, <3>4, Zenon
  <2> QED
    BY <2>1, <2>2, <2>3
<1>7. ASSUME DtorStoresQuit
      PROVE  QuitsWhenAsked'
  BY <1>7 DEF DtorStoresQuit
<1>8. ASSUME DtorWakesLoop
      PROVE  QuitsWhenAsked'
  BY <1>8 DEF DtorWakesLoop, QuitWakes
<1>9. ASSUME DtorJoins
      PROVE  QuitsWhenAsked'
  BY <1>9 DEF DtorJoins, Joinable
<1>10. ASSUME PoolDestroyed
      PROVE  QuitsWhenAsked'
  BY <1>10 DEF PoolDestroyed
<1>11. ASSUME NEW w \in Workers, PublishLoop(w)
      PROVE  QuitsWhenAsked'
  BY <1>11 DEF PublishLoop
<1>12. ASSUME NEW w \in Workers,
             ThreadPosts(w) \/ EnterLoop(w) \/ CheckQuit(w)
      PROVE  QuitsWhenAsked'
  BY <1>12 DEF ThreadPosts, EnterLoop, CheckQuit
<1>13. ASSUME NEW w \in Workers,
             ConstructLoop(w) \/ RoundEnds(w)
      PROVE  QuitsWhenAsked'
  BY <1>13 DEF ConstructLoop, MayCallQuit, RoundEnds
<1>14. ASSUME NEW w \in Workers,
             WakesUp(w) \/ OtherRound(w)
      PROVE  QuitsWhenAsked'
  BY <1>14 DEF WakesUp, OtherRound
<1>15. ASSUME NEW w \in Workers,
             ClearLoop(w) \/ UnlockMutex(w) \/ DestroyLoop(w)
      PROVE  QuitsWhenAsked'
  BY <1>15 DEF ClearLoop, LoopPtrAfterLoop, UnlockMutex, DestroyLoop
<1>16. ASSUME UNCHANGED <<opc, cur, tpc, quit, selfQuit, gone>>
      PROVE  QuitsWhenAsked'
  BY <1>16
<1>17. ASSUME DtorReadsLoop
      PROVE  QuitsWhenAsked'
  BY <1>17 DEF DtorReadsLoop
<1> QED
  BY <1>1, <1>2, <1>3, <1>4, <1>5, <1>6, <1>7, <1>8, <1>9, <1>10, <1>11, <1>12, <1>13, <1>14, <1>15, <1>16, <1>17
  DEF Next, OwnerStep, ThreadStep, vars, GetNextLoop, WrapNext

\* A loop that is no longer published while the destructor is at it, before it
\* has stored quit_, was quit by its own callback.
LEMMA LeftByItself ==
  ASSUME Inv, opc \in {"dtor", "reread"}, cur \in Workers, ~loopPtr[cur]
  PROVE  cur \in selfQuit
<1>1. tpc[cur] \in {"cleared", "dying", "ended"}
  BY DEF Inv, TypeOK, PublishedIsAlive, HandedOutAreBuilt, Published, Built
<1>2. cur \notin gone
  BY DEF Inv, TypeOK, QuitsWhenAsked
<1> QED
  BY <1>1, <1>2 DEF Inv, QuitsWhenAsked, Asked

\* The null pointer the destructor may dereference.
LEMMA CrashesStay ==
  ASSUME Inv, Next \/ UNCHANGED vars
  PROVE  CrashesOnSelfQuit'
<1> USE DEF CrashesOnSelfQuit, Crashed
<1>1. ASSUME DtorReadsLoop
      PROVE  CrashesOnSelfQuit'
  <2>1. opc = "reread" /\ cur \in Workers
    BY <1>1 DEF DtorReadsLoop, Inv, TypeOK
  <2>2. ~loopPtr[cur] => cur \in selfQuit
    BY <2>1, LeftByItself
  <2> QED
    BY <1>1, <2>2 DEF DtorReadsLoop, loops
<1>2. ASSUME ~DtorReadsLoop
      PROVE  /\ opc' = "crashed" => opc = "crashed"
             /\ opc = "crashed" => UNCHANGED <<cur, selfQuit>>
  BY <1>2
  DEF Next, OwnerStep, ThreadStep, vars, loops, SpawnThread, SemWaitReturns,
      StartLoopTests, SpuriousWakeup, PoolStarted, GetNextLoop, BeginDestroy,
      DtorTestsLoop, DtorStoresQuit, DtorWakesLoop, DtorJoins, PoolDestroyed,
      ThreadPosts, ConstructLoop, PublishLoop, EnterLoop, CheckQuit, WakesUp,
      OtherRound, RoundEnds, ClearLoop, UnlockMutex, DestroyLoop
<1>3. ASSUME ~DtorReadsLoop
      PROVE  CrashesOnSelfQuit'
  BY <1>2, <1>3 DEF Inv
<1> QED
  BY <1>1, <1>3

\* getNextLoop: in a round, the loops up to next_ have been picked once more.
LEMMA RoundRobinStays ==
  ASSUME Inv, Next \/ UNCHANGED vars
  PROVE  RoundRobin'
<1> USE PoolAssumption DEF Inv, TypeOK, Workers, BaseLoop
<1>1. ASSUME GetNextLoop
      PROVE  RoundRobin'
  <2>1. CASE N = 0
    <3>1. PICK k \in 0..MaxPicks : TRUE
      BY DEF RoundRobin
    <3>2. \A w \in Workers : FALSE
      BY <2>1
    <3> QED
      BY <3>1, <3>2 DEF RoundRobin
  <2>2. CASE N # 0
    <3>1. PICK k \in 0..MaxPicks :
            \A w \in Workers : picks[w] = IF w <= next THEN k + 1 ELSE k
      BY DEF RoundRobin
    <3>2. /\ next + 1 \in Workers
          /\ picks[next + 1] < MaxPicks
          /\ picks' = [picks EXCEPT ![next + 1] = @ + 1]
          /\ next' = WrapNext(next + 1)
      BY <1>1, <2>2 DEF GetNextLoop
    <3>3. picks[next + 1] = k
      BY <3>1, <3>2
    <3>4. \A w \in Workers : picks'[w] = IF w <= next + 1 THEN k + 1 ELSE k
      BY <3>1, <3>2, <3>3
    <3>5. CASE next + 1 < N
      <4>1. next' = next + 1
        BY <3>2, <3>5 DEF WrapNext
      <4> QED
        BY <3>4, <4>1 DEF RoundRobin
    <3>6. CASE next + 1 >= N
      <4>1. next' = 0 /\ k + 1 \in 0..MaxPicks
        BY <3>2, <3>3, <3>6 DEF WrapNext
      <4>2. \A w \in Workers : w <= next + 1 /\ ~(w <= 0)
        BY <3>2, <3>6
      <4>3. \A w \in Workers : picks'[w] = IF w <= next' THEN (k + 1) + 1 ELSE k + 1
        BY <3>4, <4>1, <4>2
      <4> QED
        BY <4>1, <4>3 DEF RoundRobin
    <3>7. next + 1 < N \/ next + 1 >= N
      OBVIOUS
    <3> QED
      BY <3>5, <3>6, <3>7
  <2> QED
    BY <2>1, <2>2
<1>2. ASSUME UNCHANGED picking
      PROVE  RoundRobin'
  BY <1>2 DEF RoundRobin, picking
<1>3. GetNextLoop \/ UNCHANGED picking
  BY DEF Next, OwnerStep, ThreadStep, vars, picking, SpawnThread,
         SemWaitReturns, StartLoopTests, SpuriousWakeup, PoolStarted,
         BeginDestroy, DtorTestsLoop, DtorReadsLoop, DtorStoresQuit, DtorWakesLoop, DtorJoins,
         PoolDestroyed, ThreadPosts, ConstructLoop, PublishLoop, EnterLoop,
         CheckQuit, WakesUp, OtherRound, RoundEnds, ClearLoop, UnlockMutex,
         DestroyLoop
<1> QED
  BY <1>1, <1>2, <1>3

\* ~EventLoopThread: joined threads have ended, detached ones quit on their
\* own.
LEMMA GoneStays ==
  ASSUME Inv, GoneAfterThread, Next \/ UNCHANGED vars
  PROVE  GoneAfterThread'
<1> USE DEF GoneAfterThread
<1>1. ASSUME DtorTestsLoop
      PROVE  GoneAfterThread'
  <2>1. UNCHANGED <<tpc, selfQuit>> /\ opc = "dtor" /\ cur \in Workers
    BY <1>1 DEF DtorTestsLoop, loops
  <2>2. ASSUME ~loopPtr[cur]
        PROVE  cur \in selfQuit
    BY <2>1, <2>2, LeftByItself
  <2> QED
    BY <1>1, <2>1, <2>2 DEF DtorTestsLoop
<1>2. ASSUME DtorJoins
      PROVE  GoneAfterThread'
  BY <1>2 DEF DtorJoins, Joinable, loops
<1>3. ASSUME UNCHANGED gone,
             \A w \in gone : tpc[w] = "ended" => tpc'[w] = "ended",
             selfQuit \subseteq selfQuit'
      PROVE  GoneAfterThread'
  BY <1>3
<1>4. ASSUME ~DtorTestsLoop, ~DtorJoins
      PROVE  /\ UNCHANGED gone
             /\ \A w \in gone : tpc[w] = "ended" => tpc'[w] = "ended"
             /\ selfQuit \subseteq selfQuit'
  <2>1. UNCHANGED gone
    BY <1>4
    DEF Next, OwnerStep, ThreadStep, vars, SpawnThread, SemWaitReturns,
        StartLoopTests, SpuriousWakeup, PoolStarted, GetNextLoop, BeginDestroy,
        DtorReadsLoop, DtorStoresQuit, DtorWakesLoop, PoolDestroyed, ThreadPosts,
        ConstructLoop, PublishLoop, EnterLoop, CheckQuit, WakesUp, OtherRound,
        RoundEnds, ClearLoop, UnlockMutex, DestroyLoop
  <2>2. selfQuit \subseteq selfQuit'
    BY <1>4
    DEF Next, OwnerStep, ThreadStep, vars, loops, SpawnThread, SemWaitReturns,
        StartLoopTests, SpuriousWakeup, PoolStarted, GetNextLoop, BeginDestroy,
        DtorReadsLoop, DtorStoresQuit, DtorWakesLoop, PoolDestroyed, ThreadPosts,
        ConstructLoop, PublishLoop, EnterLoop, CheckQuit, WakesUp, OtherRound,
        RoundEnds, ClearLoop, UnlockMutex, DestroyLoop, MayCallQuit
  <2>3. ASSUME NEW w \in gone, tpc[w] = "ended"
        PROVE  tpc'[w] = "ended"
    <3>1. w \in Workers /\ tpc \in [Workers -> ThreadStates]
      BY DEF Inv, TypeOK
    <3>2. SpawnThread => tpc'[w] = "ended"
      BY <2>3, <3>1 DEF SpawnThread, Inv, QuitsWhenAsked
    <3> QED
      BY <1>4, <2>3, <3>1, <3>2
      DEF Next, OwnerStep, ThreadStep, vars, loops, SemWaitReturns,
          StartLoopTests, SpuriousWakeup, PoolStarted, GetNextLoop,
          BeginDestroy, DtorReadsLoop, DtorStoresQuit, DtorWakesLoop, PoolDestroyed,
          ThreadPosts, ConstructLoop, PublishLoop, EnterLoop, CheckQuit,
          WakesUp, OtherRound, RoundEnds, ClearLoop, UnlockMutex, DestroyLoop
  <2> QED
    BY <2>1, <2>2, <2>3
<1> QED
  BY <1>1, <1>2, <1>3, <1>4

------------------------------------------------------------------------------
(* The theorems *)

\* loop_ is published after construction and cleared before destruction, the
\* loops handed out are built, and they are handed out in turn (threadFunc,
\* startLoop, getNextLoop); ~EventLoopThread dereferences a null loop_ only if
\* that loop was quit by one of its own callbacks.
THEOREM PoolInvHolds == Spec => []Inv
<1>1. ASSUME Inv, [Next]_vars
      PROVE  Inv'
  BY <1>1, TypesStay, PublishedStays, BuiltStays, AskedStays, CrashesStay, RoundRobinStays
  DEF Inv
<1> QED
  BY <1>1, InitInv, PTL DEF Spec

\* An EventLoopThread is gone only after its thread has ended, unless that
\* thread stopped its own loop (~EventLoopThread).
THEOREM ThreadsEndFirst == Spec => []GoneAfterThread
<1>1. ASSUME Inv, GoneAfterThread, [Next]_vars
      PROVE  GoneAfterThread'
  BY <1>1, GoneStays
<1> QED
  BY <1>1, InitInv, PoolInvHolds, PTL DEF Spec

==============================================================================
