------------------------- MODULE EventLoopThreadPool -------------------------
(***************************************************************************)
(* EventLoopThreadPool starts N EventLoopThreads, hands their loops out in *)
(* turn and destroys them.  Each loop is a local variable of threadFunc,   *)
(* published to its owner through loop_; the owner waits for it in         *)
(* startLoop, and ~EventLoopThread quits the loop and joins the thread.    *)
(*                                                                         *)
(* The loop itself is cut down to what its start and end depend on: quit_, *)
(* the eventfd and the test at the top of loop().  EventLoop.tla has the   *)
(* rest.                                                                   *)
(***************************************************************************)
EXTENDS Integers, FiniteSets

CONSTANTS
  N,             \* numThreads_
  MaxPicks,      \* bound on the calls of getNextLoop
  WaitsForLoop   \* the owner destroys the pool only once every loop has entered loop()

ASSUME PoolAssumption ==
  /\ N \in Nat
  /\ MaxPicks \in Nat
  /\ WaitsForLoop \in BOOLEAN

Workers == 1..N
BaseLoop == 0

VARIABLES
  opc,        \* where the owner is
  cur,        \* the EventLoopThread the owner is starting or destroying
  tpc,        \* where each thread is in threadFunc
  loopPtr,    \* loop_ # nullptr
  mutexHeld,  \* the thread holds mutex_ (the owner's critical section is one step)
  quit,       \* quit_ of each loop
  wakeupFd,   \* the eventfd of each loop is readable
  selfQuit,   \* history: threads one of whose callbacks has called quit()
  gone,       \* EventLoopThread objects destroyed
  next,       \* next_, counted from 0
  picks       \* history: how often each loop was handed out

loops == <<tpc, loopPtr, mutexHeld, quit, wakeupFd, selfQuit>>
picking == <<next, picks>>
vars == <<opc, cur, tpc, loopPtr, mutexHeld, quit, wakeupFd, selfQuit, gone, next, picks>>

OwnerStates == {"start", "semwait", "lock", "condwait", "running",
                "dtor", "reread", "quit", "wakeup", "join", "done", "crashed"}
ThreadStates == {"none", "spawned", "init", "publish", "enter", "check", "sleep",
                 "round", "left", "cleared", "dying", "ended"}

\* The states in which the local variable loop of threadFunc exists.
Alive == {"publish", "enter", "check", "sleep", "round", "left", "cleared", "dying"}
InLoop == {"check", "sleep", "round"}

TypeOK ==
  /\ opc \in OwnerStates
  /\ cur \in 1..(N + 1)
  /\ opc \in {"semwait", "lock", "condwait", "reread", "quit", "wakeup", "join",
             "crashed"} => cur \in Workers
  /\ tpc \in [Workers -> ThreadStates]
  /\ loopPtr \in [Workers -> BOOLEAN]
  /\ mutexHeld \in [Workers -> BOOLEAN]
  /\ quit \in [Workers -> BOOLEAN]
  /\ wakeupFd \in [Workers -> BOOLEAN]
  /\ selfQuit \subseteq Workers
  /\ gone \subseteq Workers
  /\ next \in 0..(IF N = 0 THEN 0 ELSE N - 1)
  /\ picks \in [Workers \cup {BaseLoop} -> Nat]

Init ==
  /\ opc = "start"
  /\ cur = 1
  /\ tpc = [w \in Workers |-> "none"]
  /\ loopPtr = [w \in Workers |-> FALSE]
  /\ mutexHeld = [w \in Workers |-> FALSE]
  /\ quit = [w \in Workers |-> FALSE]
  /\ wakeupFd = [w \in Workers |-> FALSE]
  /\ selfQuit = {}
  /\ gone = {}
  /\ next = 0
  /\ picks = [l \in Workers \cup {BaseLoop} |-> 0]

------------------------------------------------------------------------------
(* The owner starts the pool: EventLoopThreadPool::start, startLoop and    *)
(* Thread::start.                                                          *)

SpawnThread ==
  /\ opc = "start"
  /\ cur \in Workers
  /\ tpc' = [tpc EXCEPT ![cur] = "spawned"]
  /\ opc' = "semwait"
  /\ UNCHANGED <<cur, loopPtr, mutexHeld, quit, wakeupFd, selfQuit, gone, picking>>

\* sem_wait returns once the new thread has set its tid and posted.
SemWaitReturns ==
  /\ opc = "semwait"
  /\ tpc[cur] # "spawned"
  /\ opc' = "lock"
  /\ UNCHANGED <<cur, loops, gone, picking>>

\* Mutant: cond_.wait without its predicate.
MustWait_NoPredicate(w) == TRUE

\* The predicate of cond_.wait in startLoop, under mutex_.
MustWait(w) == ~loopPtr[w]

StartLoopTests ==
  /\ opc = "lock"
  /\ ~mutexHeld[cur]
  /\ IF MustWait(cur)
     THEN opc' = "condwait" /\ UNCHANGED cur
     ELSE opc' = "start" /\ cur' = cur + 1
  /\ UNCHANGED <<loops, gone, picking>>

SpuriousWakeup ==
  /\ opc = "condwait"
  /\ opc' = "lock"
  /\ UNCHANGED <<cur, loops, gone, picking>>

PoolStarted ==
  /\ opc = "start"
  /\ cur = N + 1
  /\ opc' = "running"
  /\ UNCHANGED <<cur, loops, gone, picking>>

\* Mutant: wraps one element too early.
WrapNext_SkipsLast(n) == IF n >= N - 1 THEN 0 ELSE n

\* if (next_ >= loops_.size()) next_ = 0
WrapNext(n) == IF n >= N THEN 0 ELSE n

GetNextLoop ==
  /\ opc = "running"
  /\ \E l \in Workers \cup {BaseLoop} :
       /\ IF N = 0 THEN l = BaseLoop ELSE l = next + 1
       /\ picks[l] < MaxPicks
       /\ picks' = [picks EXCEPT ![l] = @ + 1]
  /\ next' = IF N = 0 THEN next ELSE WrapNext(next + 1)
  /\ UNCHANGED <<opc, cur, loops, gone>>

------------------------------------------------------------------------------
(* A thread: Thread::start's lambda and EventLoopThread::threadFunc.       *)

ThreadPosts(w) ==
  /\ tpc[w] = "spawned"
  /\ tpc' = [tpc EXCEPT ![w] = "init"]
  /\ UNCHANGED <<opc, cur, loopPtr, mutexHeld, quit, wakeupFd, selfQuit, gone, picking>>

\* User code running on the loop's own thread, which may call its quit().
MayCallQuit(w) ==
  \/ UNCHANGED <<quit, selfQuit>>
  \/ quit' = [quit EXCEPT ![w] = TRUE] /\ selfQuit' = selfQuit \cup {w}

\* EventLoop loop; then callback_(&loop), which may ask it to quit.
ConstructLoop(w) ==
  /\ tpc[w] = "init"
  /\ tpc' = [tpc EXCEPT ![w] = "publish"]
  /\ MayCallQuit(w)
  /\ UNCHANGED <<opc, cur, loopPtr, mutexHeld, wakeupFd, gone, picking>>

\* Under mutex_: loop_ = &loop, and notify_one lets a waiting owner go on.
PublishLoop(w) ==
  /\ tpc[w] = "publish"
  /\ tpc' = [tpc EXCEPT ![w] = "enter"]
  /\ loopPtr' = [loopPtr EXCEPT ![w] = TRUE]
  /\ opc' = IF opc = "condwait" /\ cur = w THEN "lock" ELSE opc
  /\ UNCHANGED <<cur, mutexHeld, quit, wakeupFd, selfQuit, gone, picking>>

\* loop() starts by storing false in quit_.
EnterLoop(w) ==
  /\ tpc[w] = "enter"
  /\ tpc' = [tpc EXCEPT ![w] = "check"]
  /\ quit' = [quit EXCEPT ![w] = FALSE]
  /\ UNCHANGED <<opc, cur, loopPtr, mutexHeld, wakeupFd, selfQuit, gone, picking>>

CheckQuit(w) ==
  /\ tpc[w] = "check"
  /\ tpc' = [tpc EXCEPT ![w] = IF quit[w] THEN "left" ELSE "sleep"]
  /\ UNCHANGED <<opc, cur, loopPtr, mutexHeld, quit, wakeupFd, selfQuit, gone, picking>>

\* epoll_wait returns for the eventfd, which handleRead empties.
WakesUp(w) ==
  /\ tpc[w] = "sleep"
  /\ wakeupFd[w]
  /\ wakeupFd' = [wakeupFd EXCEPT ![w] = FALSE]
  /\ tpc' = [tpc EXCEPT ![w] = "round"]
  /\ UNCHANGED <<opc, cur, loopPtr, mutexHeld, quit, selfQuit, gone, picking>>

\* epoll_wait returns for another descriptor or after kPollTimeMs.
OtherRound(w) ==
  /\ tpc[w] = "sleep"
  /\ tpc' = [tpc EXCEPT ![w] = "round"]
  /\ UNCHANGED <<opc, cur, loopPtr, mutexHeld, quit, wakeupFd, selfQuit, gone, picking>>

\* The callbacks and functors of one round; one of them may call quit().
RoundEnds(w) ==
  /\ tpc[w] = "round"
  /\ tpc' = [tpc EXCEPT ![w] = "check"]
  /\ MayCallQuit(w)
  /\ UNCHANGED <<opc, cur, loopPtr, mutexHeld, wakeupFd, gone, picking>>

\* Mutant: loop_ keeps pointing at the local variable.
LoopPtrAfterLoop_Stale == TRUE

\* loop_ = nullptr after loop() has returned.
LoopPtrAfterLoop == FALSE

ClearLoop(w) ==
  /\ tpc[w] = "left"
  /\ tpc' = [tpc EXCEPT ![w] = "cleared"]
  /\ mutexHeld' = [mutexHeld EXCEPT ![w] = TRUE]
  /\ loopPtr' = [loopPtr EXCEPT ![w] = LoopPtrAfterLoop]
  /\ UNCHANGED <<opc, cur, quit, wakeupFd, selfQuit, gone, picking>>

\* The end of threadFunc unlocks mutex_ and then destroys the loop.
UnlockMutex(w) ==
  /\ tpc[w] = "cleared"
  /\ tpc' = [tpc EXCEPT ![w] = "dying"]
  /\ mutexHeld' = [mutexHeld EXCEPT ![w] = FALSE]
  /\ UNCHANGED <<opc, cur, loopPtr, quit, wakeupFd, selfQuit, gone, picking>>

DestroyLoop(w) ==
  /\ tpc[w] = "dying"
  /\ tpc' = [tpc EXCEPT ![w] = "ended"]
  /\ wakeupFd' = [wakeupFd EXCEPT ![w] = FALSE]
  /\ UNCHANGED <<opc, cur, loopPtr, mutexHeld, quit, selfQuit, gone, picking>>

------------------------------------------------------------------------------
(* The owner destroys the pool: ~EventLoopThread for each, in order.       *)

BeginDestroy ==
  /\ opc = "running"
  /\ WaitsForLoop => \A w \in Workers : tpc[w] \notin {"publish", "enter"}
  /\ opc' = "dtor"
  /\ cur' = 1
  /\ UNCHANGED <<loops, gone, picking>>

\* if (loop_ != nullptr), read without mutex_.  With loop_ null the thread is
\* not joined: ~Thread detaches it.
DtorTestsLoop ==
  /\ opc = "dtor"
  /\ cur \in Workers
  /\ IF loopPtr[cur]
     THEN opc' = "reread" /\ UNCHANGED <<cur, gone>>
     ELSE gone' = gone \cup {cur} /\ cur' = cur + 1 /\ UNCHANGED opc
  /\ UNCHANGED <<loops, picking>>

\* loop_->quit() reads loop_ a second time.  The thread may have nulled it since,
\* which ends the program, unless the compiler kept the pointer that was tested.
DtorReadsLoop ==
  /\ opc = "reread"
  /\ opc' \in IF loopPtr[cur] THEN {"quit"} ELSE {"quit", "crashed"}
  /\ UNCHANGED <<cur, loops, gone, picking>>

\* quit() stores quit_, into whatever is left of the loop: the stack of a thread
\* that has not been joined stays mapped.
DtorStoresQuit ==
  /\ opc = "quit"
  /\ opc' = "wakeup"
  /\ quit' = [quit EXCEPT ![cur] = (tpc[cur] \in Alive)]
  /\ UNCHANGED <<cur, tpc, loopPtr, mutexHeld, wakeupFd, selfQuit, gone, picking>>

\* Mutant: EventLoop::quit without its wakeup().
QuitWakes_Not(w) == FALSE

\* EventLoop::quit ends with wakeup() when another thread calls it.
QuitWakes(w) == tpc[w] \in Alive

\* quit() goes on to write to the loop's eventfd.
DtorWakesLoop ==
  /\ opc = "wakeup"
  /\ opc' = "join"
  /\ wakeupFd' = [wakeupFd EXCEPT ![cur] = QuitWakes(cur)]
  /\ UNCHANGED <<cur, tpc, loopPtr, mutexHeld, quit, selfQuit, gone, picking>>

\* Mutant: the destructor does not join.
Joinable_Always(w) == TRUE

\* thread_->join() returns when the thread has ended.
Joinable(w) == tpc[w] = "ended"

DtorJoins ==
  /\ opc = "join"
  /\ Joinable(cur)
  /\ opc' = "dtor"
  /\ gone' = gone \cup {cur}
  /\ cur' = cur + 1
  /\ UNCHANGED <<loops, picking>>

PoolDestroyed ==
  /\ opc = "dtor"
  /\ cur = N + 1
  /\ opc' = "done"
  /\ UNCHANGED <<cur, loops, gone, picking>>

------------------------------------------------------------------------------
OwnerStep ==
  \/ SpawnThread \/ SemWaitReturns \/ StartLoopTests \/ PoolStarted
  \/ DtorTestsLoop \/ DtorReadsLoop \/ DtorStoresQuit \/ DtorWakesLoop
  \/ DtorJoins
  \/ PoolDestroyed

Crashed == opc = "crashed"

\* A crash ends every thread.
ThreadStep(w) ==
  /\ ~Crashed
  /\ \/ ThreadPosts(w) \/ ConstructLoop(w) \/ PublishLoop(w) \/ EnterLoop(w)
     \/ CheckQuit(w) \/ WakesUp(w) \/ RoundEnds(w) \/ ClearLoop(w)
     \/ UnlockMutex(w) \/ DestroyLoop(w)

Next ==
  \/ OwnerStep
  \/ SpuriousWakeup
  \/ GetNextLoop
  \/ BeginDestroy
  \/ \E w \in Workers : ThreadStep(w) \/ (~Crashed /\ OtherRound(w))

Spec == Init /\ [][Next]_vars

\* Threads and the owner inside start() and the destructor keep running.  The
\* owner need not ask for loops or destroy the pool, and nothing but the
\* eventfd need end an epoll_wait.
FairSpec ==
  /\ Spec
  /\ WF_vars(OwnerStep)
  /\ \A w \in Workers : WF_vars(ThreadStep(w))

------------------------------------------------------------------------------
(* Properties *)

Published == {"enter", "check", "sleep", "round", "left"}
Built == Published \cup {"cleared", "dying", "ended"}

\* loop_ never points at a loop that is not built yet or already destroyed
\* (threadFunc publishes after construction and clears before destruction).
PublishedIsAlive == \A w \in Workers : loopPtr[w] <=> tpc[w] \in Published

\* startLoop returns only after the loop was built and its init callback has
\* run, so getNextLoop never hands out a loop that does not exist yet.
\* Threads are started one after the other.
HandedOutAreBuilt ==
  \A w \in Workers :
    CASE opc = "start" ->
           IF w < cur THEN tpc[w] \in Built ELSE tpc[w] = "none"
      [] opc \in {"semwait", "lock", "condwait"} ->
           /\ w < cur => tpc[w] \in Built
           /\ w > cur => tpc[w] = "none"
           /\ w = cur => tpc[w] # "none"
      [] OTHER -> tpc[w] \in Built

\* getNextLoop goes round: no loop is ahead of another by more than one.
RoundRobin ==
  \E k \in 0..MaxPicks :
    \A w \in Workers : picks[w] = IF w <= next THEN k + 1 ELSE k

\* Somebody has called quit() on a loop: one of its own callbacks or the
\* destructor.
Asked(w) ==
  \/ w \in selfQuit
  \/ w = cur /\ opc \in {"wakeup", "join"}
  \/ w \in gone

\* No loop quits by itself, and only its owner destroys an EventLoopThread.
QuitsWhenAsked ==
  /\ \A w \in Workers :
       quit[w] \/ tpc[w] \in {"left", "cleared", "dying", "ended"} => Asked(w)
  /\ \A w \in gone :
       opc \in {"dtor", "reread", "quit", "wakeup", "join", "done", "crashed"}
         /\ w < cur

\* ~EventLoopThread only dereferences a null loop_ when a callback had quit that
\* loop: one that runs until its owner quits it is there for both reads.
CrashesOnSelfQuit == Crashed => cur \in selfQuit

\* Types, what the owner may rely on when it uses loop_, the round robin, and
\* when the destructor may crash.
Inv ==
  /\ TypeOK
  /\ PublishedIsAlive
  /\ HandedOutAreBuilt
  /\ RoundRobin
  /\ QuitsWhenAsked
  /\ CrashesOnSelfQuit

\* Unless its loop ended on its own and the thread was detached, an
\* EventLoopThread is gone only after its thread has ended: threadFunc does
\* not lock a mutex_ that is destroyed.
GoneAfterThread == \A w \in gone : tpc[w] = "ended" \/ w \in selfQuit

\* Starting the pool ends, unless a callback makes its loop quit: no startLoop
\* waits for a publication it missed.
StartReturns == (opc = "semwait") ~> (opc = "running" \/ selfQuit # {})

\* Destroying the pool ends: every loop obeys its quit() and is joined.  The only
\* other end is the crash on a loop that has quit by itself (CrashesOnSelfQuit).
DestroyReturns == (opc = "dtor") ~> (opc = "done" \/ Crashed)
==============================================================================
