------------------------------ MODULE EventLoop ------------------------------
(***************************************************************************)
(* EventLoop (net/EventLoop.cc): one thread owns the loop, blocks in       *)
(* epoll_wait, runs the callbacks of the channels that became ready and    *)
(* then the functors that were queued for it.  Any thread may queue a      *)
(* functor or ask the loop to quit; an eventfd makes epoll_wait return.    *)
(*                                                                         *)
(* The steps of the loop thread are the reads and writes another thread    *)
(* can come between: the test of quit_, epoll_wait, each callback, the     *)
(* store to callingPendingFunctors_, the swap under the mutex, each        *)
(* functor.  A call from another thread is two steps, the write (to        *)
(* pendingFunctors_ or quit_) and the write to the eventfd.  What the      *)
(* loop thread itself does inside a callback or a functor is one step per  *)
(* call: no other thread writes what it reads there.                       *)
(***************************************************************************)
EXTENDS Naturals, Sequences, FiniteSets

CONSTANTS Callers,      \* the threads other than the loop's own
          Tasks         \* the functors that may be handed to the loop

VARIABLES
  lpc,                     \* where the loop thread is in loop()
  quit,                    \* quit_
  callingPendingFunctors,  \* callingPendingFunctors_
  pendingFunctors,         \* pendingFunctors_
  functors,                \* what is left of doPendingFunctors' local vector
  wakeupFd,                \* the eventfd's counter is not zero
  ioReady,                 \* some other registered fd is ready
  activeChannels,          \* activeChannels_ not handled yet in this round
  waking,                  \* callers between their write and wakeup()
  ran,                     \* history: the tasks started, in order
  submitted,               \* history: the tasks handed over
  early                    \* history: queued by the loop thread before loop()

loopVars == <<lpc, quit, callingPendingFunctors, functors, activeChannels>>
history == <<ran, submitted, early>>
vars == <<lpc, quit, callingPendingFunctors, pendingFunctors, functors,
          wakeupFd, ioReady, activeChannels, waking, ran, submitted, early>>

LoopStates == {"created", "check", "poll", "dispatch", "handler",
               "swap", "run", "functor", "done"}

Channels == {"wakeup", "io"}

\* Where user code runs on the loop thread: in a callback or a functor, and
\* before and after loop().
InUserCode == lpc \in {"created", "handler", "functor", "done"}

TypeOK ==
  /\ lpc \in LoopStates
  /\ quit \in BOOLEAN
  /\ callingPendingFunctors \in BOOLEAN
  /\ pendingFunctors \in Seq(Tasks)
  /\ functors \in Seq(Tasks)
  /\ wakeupFd \in BOOLEAN
  /\ ioReady \in BOOLEAN
  /\ activeChannels \subseteq Channels
  /\ waking \subseteq Callers
  /\ ran \in Seq(Tasks)
  /\ submitted \subseteq Tasks
  /\ early \subseteq Tasks

Init ==
  /\ lpc = "created"
  /\ quit = FALSE
  /\ callingPendingFunctors = FALSE
  /\ pendingFunctors = <<>>
  /\ functors = <<>>
  /\ wakeupFd = FALSE
  /\ ioReady = FALSE
  /\ activeChannels = {}
  /\ waking = {}
  /\ ran = <<>>
  /\ submitted = {}
  /\ early = {}

------------------------------------------------------------------------------
(* loop() *)

\* The value loop() leaves in quit_ when it starts, whatever it was before.
QuitOnEntry == FALSE

Enter ==
  /\ lpc = "created"
  /\ lpc' = "check"
  /\ quit' = QuitOnEntry
  /\ UNCHANGED <<callingPendingFunctors, pendingFunctors, functors, wakeupFd,
                 ioReady, activeChannels, waking, history>>

CheckQuit ==
  /\ lpc = "check"
  /\ lpc' = IF quit THEN "done" ELSE "poll"
  /\ activeChannels' = {}
  /\ UNCHANGED <<quit, callingPendingFunctors, pendingFunctors, functors,
                 wakeupFd, ioReady, waking, history>>

\* The channels epoll_wait may report; both fds are level-triggered.
Ready == (IF wakeupFd THEN {"wakeup"} ELSE {}) \cup
         (IF ioReady THEN {"io"} ELSE {})

PollReturns ==
  /\ lpc = "poll"
  /\ activeChannels' \in SUBSET Ready \ {{}}
  /\ lpc' = "dispatch"
  /\ UNCHANGED <<quit, callingPendingFunctors, pendingFunctors, functors,
                 wakeupFd, ioReady, waking, history>>

\* The ten seconds kPollTimeMs ran out, or a signal interrupted the wait.
PollTimeout ==
  /\ lpc = "poll"
  /\ lpc' = "dispatch"
  /\ UNCHANGED <<quit, callingPendingFunctors, pendingFunctors, functors,
                 wakeupFd, ioReady, activeChannels, waking, history>>

\* EventLoop::handleRead, the callback of the wakeup channel.
HandleWakeup ==
  /\ lpc = "dispatch"
  /\ "wakeup" \in activeChannels
  /\ activeChannels' = activeChannels \ {"wakeup"}
  /\ wakeupFd' = FALSE
  /\ UNCHANGED <<lpc, quit, callingPendingFunctors, pendingFunctors, functors,
                 ioReady, waking, history>>

\* Any other channel's callback starts; it consumes what made it ready.
HandleIo ==
  /\ lpc = "dispatch"
  /\ "io" \in activeChannels
  /\ activeChannels' = activeChannels \ {"io"}
  /\ ioReady' = FALSE
  /\ lpc' = "handler"
  /\ UNCHANGED <<quit, callingPendingFunctors, pendingFunctors, functors,
                 wakeupFd, waking, history>>

HandlerReturns ==
  /\ lpc = "handler"
  /\ lpc' = "dispatch"
  /\ UNCHANGED <<quit, callingPendingFunctors, pendingFunctors, functors,
                 wakeupFd, ioReady, activeChannels, waking, history>>

------------------------------------------------------------------------------
(* doPendingFunctors() *)

MarkCalling ==
  /\ lpc = "dispatch"
  /\ activeChannels = {}
  /\ callingPendingFunctors' = TRUE
  /\ lpc' = "swap"
  /\ UNCHANGED <<quit, pendingFunctors, functors, wakeupFd, ioReady,
                 activeChannels, waking, history>>

\* Mutant: copies the vector instead of swapping it.
Swapped_Copies(f, p) == <<p, p>>

\* functors.swap(pendingFunctors_): the new values of the two vectors.
Swapped(f, p) == <<p, f>>

SwapFunctors ==
  /\ lpc = "swap"
  /\ functors' = Swapped(functors, pendingFunctors)[1]
  /\ pendingFunctors' = Swapped(functors, pendingFunctors)[2]
  /\ lpc' = "run"
  /\ UNCHANGED <<quit, callingPendingFunctors, wakeupFd, ioReady,
                 activeChannels, waking, history>>

StartFunctor ==
  /\ lpc = "run"
  /\ functors # <<>>
  /\ ran' = Append(ran, Head(functors))
  /\ functors' = Tail(functors)
  /\ lpc' = "functor"
  /\ UNCHANGED <<quit, callingPendingFunctors, pendingFunctors, wakeupFd,
                 ioReady, activeChannels, waking, submitted, early>>

FunctorReturns ==
  /\ lpc = "functor"
  /\ lpc' = "run"
  /\ UNCHANGED <<quit, callingPendingFunctors, pendingFunctors, functors,
                 wakeupFd, ioReady, activeChannels, waking, history>>

ClearCalling ==
  /\ lpc = "run"
  /\ functors = <<>>
  /\ callingPendingFunctors' = FALSE
  /\ lpc' = "check"
  /\ UNCHANGED <<quit, pendingFunctors, functors, wakeupFd, ioReady,
                 activeChannels, waking, history>>

------------------------------------------------------------------------------
(* Calls made by the loop thread itself, from a callback or a functor. *)

\* Mutant: only the test !isInLoopThread() is left.
LoopThreadWakes_Never(calling) == FALSE

\* queueInLoop's test !isInLoopThread() || callingPendingFunctors_ when the
\* caller is the loop thread.
LoopThreadWakes(calling) == calling

QueuedByLoop(k) ==
  /\ InUserCode
  /\ k \notin submitted
  /\ submitted' = submitted \cup {k}
  /\ pendingFunctors' = Append(pendingFunctors, k)
  /\ wakeupFd' = (wakeupFd \/ LoopThreadWakes(callingPendingFunctors))
  /\ early' = IF lpc = "created" THEN early \cup {k} ELSE early
  /\ UNCHANGED <<loopVars, ioReady, waking, ran>>

\* runInLoop on the loop thread calls cb at once.
RunByLoop(k) ==
  /\ InUserCode
  /\ k \notin submitted
  /\ submitted' = submitted \cup {k}
  /\ ran' = Append(ran, k)
  /\ UNCHANGED <<loopVars, pendingFunctors, wakeupFd, ioReady, waking, early>>

QuitByLoop ==
  /\ InUserCode
  /\ quit' = TRUE
  /\ UNCHANGED <<lpc, callingPendingFunctors, pendingFunctors, functors,
                 wakeupFd, ioReady, activeChannels, waking, history>>

------------------------------------------------------------------------------
(* Calls made by the other threads, and the outside world. *)

\* Mutant: pushes at the wrong end.
Enqueue_Front(s, k) == <<k>> \o s

\* pendingFunctors_.emplace_back(cb), under the mutex.
Enqueue(s, k) == Append(s, k)

\* Mutant: the two halves of queueInLoop's test joined by && instead of ||.
QueueMustWake_OnlyIfCalling(t) == IF callingPendingFunctors THEN {t} ELSE {}

\* queueInLoop's test when the caller is another thread: always wakeup().
QueueMustWake(t) == {t}

\* runInLoop and queueInLoop do the same here: push under the mutex.
QueuedByCaller(t, k) ==
  /\ t \notin waking
  /\ k \notin submitted
  /\ submitted' = submitted \cup {k}
  /\ pendingFunctors' = Enqueue(pendingFunctors, k)
  /\ waking' = waking \cup QueueMustWake(t)
  /\ UNCHANGED <<loopVars, wakeupFd, ioReady, ran, early>>

\* Mutant: quit() only stores quit_.
QuitMustWake_Never(t) == {}

\* quit(): a caller that is not the loop thread goes on to wakeup().
QuitMustWake(t) == {t}

QuitByCaller(t) ==
  /\ t \notin waking
  /\ quit' = TRUE
  /\ waking' = waking \cup QuitMustWake(t)
  /\ UNCHANGED <<lpc, callingPendingFunctors, pendingFunctors, functors,
                 wakeupFd, ioReady, activeChannels, history>>

\* wakeup(): the write adds one to the counter, so the fd is readable.
Wakeup(t) ==
  /\ t \in waking
  /\ waking' = waking \ {t}
  /\ wakeupFd' = TRUE
  /\ UNCHANGED <<loopVars, pendingFunctors, ioReady, history>>

IoArrives ==
  /\ ~ioReady
  /\ ioReady' = TRUE
  /\ UNCHANGED <<loopVars, pendingFunctors, wakeupFd, waking, history>>

------------------------------------------------------------------------------
LoopStep ==
  \/ Enter \/ CheckQuit \/ PollReturns \/ HandleWakeup \/ HandleIo
  \/ HandlerReturns \/ MarkCalling \/ SwapFunctors \/ StartFunctor
  \/ FunctorReturns \/ ClearCalling

Next ==
  \/ LoopStep
  \/ PollTimeout
  \/ \E k \in Tasks : QueuedByLoop(k) \/ RunByLoop(k)
  \/ QuitByLoop
  \/ \E t \in Callers :
       \/ \E k \in Tasks : QueuedByCaller(t, k)
       \/ QuitByCaller(t)
       \/ Wakeup(t)
  \/ IoArrives

Spec == Init /\ [][Next]_vars

\* The loop thread keeps running and its callbacks return; a caller that has
\* pushed goes on to the eventfd write.  Nothing makes the poll time out, a
\* caller call, or a descriptor become ready.
Fairness ==
  /\ WF_vars(LoopStep)
  /\ \A t \in Callers : WF_vars(Wakeup(t))

FairSpec == Spec /\ Fairness

------------------------------------------------------------------------------
(* Properties *)

Elements(s) == {s[i] : i \in 1..Len(s)}

\* The loop thread is at a point from which it reaches epoll_wait without
\* passing the swap of pendingFunctors_.
BeforeNextPoll == lpc \in {"created", "check", "poll", "run", "functor"}

\* Something will make the next epoll_wait return.
WakeupComing == wakeupFd \/ waking # {}

\* A functor that was queued while the loop thread had already taken its
\* batch, or was asleep, always has a wakeup written or on its way, so the
\* loop does not sleep on work (queueInLoop and wakeup).  The functors the
\* loop thread itself queued before loop() are the exception.
NoLostWakeup ==
  BeforeNextPoll /\ ~(Elements(pendingFunctors) \subseteq early) => WakeupComing

\* The loop thread never sleeps in epoll_wait with quit_ set and no wakeup
\* written or on its way: quit() from another thread ends the wait.
NoSleepAfterQuit == lpc = "poll" /\ quit => WakeupComing

\* callingPendingFunctors_ is set exactly while doPendingFunctors takes and
\* runs its batch, which is what queueInLoop on the loop thread relies on.
CallingIsAccurate == callingPendingFunctors <=> lpc \in {"swap", "run", "functor"}

\* The local batch is empty outside the run loop of doPendingFunctors, so the
\* swap leaves pendingFunctors_ empty.
BatchIsLocal == functors # <<>> => lpc \in {"run", "functor"}

\* The inductive invariant behind the two properties above.
Inv ==
  /\ TypeOK
  /\ CallingIsAccurate
  /\ BatchIsLocal
  /\ NoLostWakeup
  /\ NoSleepAfterQuit

\* Tasks queued and not yet started, oldest first: what is left of the batch
\* being run, then what was queued since.
Abstract == INSTANCE TaskQueue WITH queue <- functors \o pendingFunctors

\* The two-vector swap scheme implements one first-in first-out queue: no
\* functor is lost, run twice or overtaken by a later one.
ImplementsTaskQueue == Abstract!Spec

\* A queued functor is eventually run, or the loop ends (doPendingFunctors
\* after wakeup), without the help of the poll timeout.
QueuedIsRun ==
  \A k \in Tasks :
    (k \in Elements(pendingFunctors) /\ k \notin early)
      ~> (k \in Elements(ran) \/ lpc = "done")

\* Once loop() runs, a call of quit() by any thread ends it, without the help
\* of the poll timeout.
QuitEndsLoop == (quit /\ lpc # "created") ~> (lpc = "done")
==============================================================================
