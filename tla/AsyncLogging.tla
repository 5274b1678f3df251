---------------------------- MODULE AsyncLogging ----------------------------
(***************************************************************************)
(* AsyncLogging (log/AsyncLogging.cc): logging threads append messages to  *)
(* a front buffer under a mutex; one backend thread exchanges the filled   *)
(* buffers for empty ones under the same mutex and writes them to a file   *)
(* with the mutex released.  stop() clears running_, notifies and joins.   *)
(*                                                                         *)
(* A buffer is the sequence of the messages in it and holds Capacity of    *)
(* them.  A std::unique_ptr to a buffer is a sequence of at most one       *)
(* buffer, <<>> being nullptr.  append() holds the mutex throughout, so it *)
(* is one step; the backend's critical section is several, because stop()  *)
(* clears running_ without the mutex.                                      *)
(***************************************************************************)
EXTENDS Naturals, Sequences

CONSTANTS Messages,     \* the log lines; each is appended at most once
          Capacity      \* how many of them fill a buffer

ASSUME LogAssumption == Capacity \in Nat \ {0}

VARIABLES
  currentBuffer,    \* currentBuffer_
  nextBuffer,       \* nextBuffer_
  bufferVec,        \* bufferVec_, full buffers waiting for the backend
  running,          \* running_
  bpc,              \* where the backend thread is in threadFunc
  newBuffer1,       \* the backend's spare buffers
  newBuffer2,
  buffersToWrite,   \* the buffers the backend took
  toWrite,          \* how many of them are not written yet
  spc,              \* where the thread that calls stop() is
  accepted,         \* history: the messages appended, in order
  written,          \* history: the messages in the file, in order
  begins            \* history: the number of the message each of the buffers
                    \* that are not written yet begins with, oldest first

front == <<currentBuffer, nextBuffer, bufferVec>>
back == <<newBuffer1, newBuffer2, buffersToWrite, toWrite>>
stopping == <<running, spc>>
history == <<accepted, written, begins>>
vars == <<currentBuffer, nextBuffer, bufferVec, running, bpc, newBuffer1,
          newBuffer2, buffersToWrite, toWrite, spc, accepted, written, begins>>

Buffer == Seq(Messages)
Null == <<>>
IsPointer(p) == p \in Seq(Buffer) /\ Len(p) <= 1

BackendStates == {"test", "lock", "locked", "blocking", "waiting", "swap",
                  "write", "recycle", "exit", "ended"}

\* The backend holds mutex_.
MutexHeld == bpc \in {"locked", "blocking", "swap"}

TypeOK ==
  /\ IsPointer(currentBuffer)
  /\ IsPointer(nextBuffer)
  /\ bufferVec \in Seq(Buffer)
  /\ running \in BOOLEAN
  /\ bpc \in BackendStates
  /\ IsPointer(newBuffer1)
  /\ IsPointer(newBuffer2)
  /\ buffersToWrite \in Seq(Buffer)
  /\ toWrite \in 0..Len(buffersToWrite)
  /\ spc \in {"up", "notify", "join", "stopped"}
  /\ accepted \in Buffer
  /\ written \in Buffer
  /\ begins \in Seq(Nat)

\* The constructor starts the backend after both buffers are allocated.
Init ==
  /\ currentBuffer = <<<<>>>>
  /\ nextBuffer = <<<<>>>>
  /\ bufferVec = <<>>
  /\ running = TRUE
  /\ bpc = "test"
  /\ newBuffer1 = <<<<>>>>
  /\ newBuffer2 = <<<<>>>>
  /\ buffersToWrite = <<>>
  /\ toWrite = 0
  /\ spc = "up"
  /\ accepted = <<>>
  /\ written = <<>>
  /\ begins = <<1>>

------------------------------------------------------------------------------
(* append(), called by any logging thread, also while stop() runs. *)

\* cond_.notify_one(): a backend blocked in wait_for goes on to relock.
Notified(state) == IF state = "waiting" THEN "lock" ELSE state

\* The buffer append goes on with when the current one is full.
SpareOrNew == IF nextBuffer # Null THEN nextBuffer ELSE <<<<>>>>

Fresh(m) == \A i \in 1..Len(accepted) : accepted[i] # m

\* currentBuffer_->avail() > len
HasRoom == Len(currentBuffer[1]) < Capacity

AppendToCurrent(m) ==
  /\ ~MutexHeld
  /\ Fresh(m)
  /\ HasRoom
  /\ currentBuffer' = <<Append(currentBuffer[1], m)>>
  /\ accepted' = Append(accepted, m)
  /\ UNCHANGED <<nextBuffer, bufferVec, bpc, back, stopping, written, begins>>

AppendToNext(m) ==
  /\ ~MutexHeld
  /\ Fresh(m)
  /\ ~HasRoom
  /\ bufferVec' = bufferVec \o currentBuffer
  /\ currentBuffer' = <<Append(SpareOrNew[1], m)>>
  /\ nextBuffer' = Null
  /\ bpc' = Notified(bpc)
  /\ accepted' = Append(accepted, m)
  /\ begins' = Append(begins, Len(accepted'))
  /\ UNCHANGED <<back, stopping, written>>

------------------------------------------------------------------------------
(* threadFunc() *)

TestRunning ==
  /\ bpc = "test"
  /\ bpc' = IF running THEN "lock" ELSE "exit"
  /\ UNCHANGED <<front, back, stopping, history>>

Lock ==
  /\ bpc = "lock"
  /\ bpc' = "locked"
  /\ UNCHANGED <<front, back, stopping, history>>

\* Mutant: waits for a full buffer, as the notification alone would suggest.
NothingToWrite_IgnoresCurrent == running /\ bufferVec = <<>>

\* Mutant: the test of running_ is left to the outer loop.
NothingToWrite_IgnoresStop == bufferVec = <<>> /\ currentBuffer[1] = <<>>

\* The condition of the inner while.
NothingToWrite == running /\ bufferVec = <<>> /\ currentBuffer[1] = <<>>

TestWork ==
  /\ bpc = "locked"
  /\ bpc' = IF NothingToWrite THEN "blocking" ELSE "swap"
  /\ UNCHANGED <<front, back, stopping, history>>

\* wait_for releases the mutex and blocks.
Block ==
  /\ bpc = "blocking"
  /\ bpc' = "waiting"
  /\ UNCHANGED <<front, back, stopping, history>>

\* flushInterval_ seconds have passed.
WaitTimeout ==
  /\ bpc = "waiting"
  /\ bpc' = "lock"
  /\ UNCHANGED <<front, back, stopping, history>>

SwapBuffers ==
  /\ bpc = "swap"
  /\ buffersToWrite' = bufferVec \o currentBuffer
  /\ toWrite' = Len(buffersToWrite')
  /\ bufferVec' = <<>>
  /\ currentBuffer' = newBuffer1
  /\ newBuffer1' = Null
  /\ IF nextBuffer = Null
     THEN nextBuffer' = newBuffer2 /\ newBuffer2' = Null
     ELSE UNCHANGED <<nextBuffer, newBuffer2>>
  /\ bpc' = "write"
  /\ begins' = Append(begins, Len(accepted) + 1)
  /\ UNCHANGED <<stopping, accepted, written>>

\* output.append of one buffer, with the mutex released.
WriteBuffer ==
  /\ bpc = "write"
  /\ toWrite > 0
  /\ written' = written \o buffersToWrite[Len(buffersToWrite) - toWrite + 1]
  /\ toWrite' = toWrite - 1
  /\ begins' = Tail(begins)
  /\ UNCHANGED <<front, newBuffer1, newBuffer2, buffersToWrite, bpc, stopping, accepted>>

AllWritten ==
  /\ bpc = "write"
  /\ toWrite = 0
  /\ bpc' = "recycle"
  /\ UNCHANGED <<front, back, stopping, history>>

\* Mutant: keeps one buffer too few for the two spares.
Kept_One(n) == IF n > 1 THEN 1 ELSE n

\* if (buffersToWrite.size() > 2) buffersToWrite.resize(2)
Kept(n) == IF n > 2 THEN 2 ELSE n

\* Mutant: the reset() of the reused buffer is forgotten.
Reused_Dirty(b) == <<b>>

\* reset() of a buffer that becomes a spare again.
Reused(b) == <<<<>>>>

\* Where the second spare is popped from: behind the first, if that was taken.
LastFor2 == Kept(Len(buffersToWrite)) - (IF newBuffer1 = Null THEN 1 ELSE 0)

Recycle ==
  /\ bpc = "recycle"
  /\ newBuffer1' = IF newBuffer1 = Null
                   THEN Reused(buffersToWrite[Kept(Len(buffersToWrite))])
                   ELSE newBuffer1
  /\ newBuffer2' = IF newBuffer2 = Null
                   THEN Reused(buffersToWrite[LastFor2])
                   ELSE newBuffer2
  /\ buffersToWrite' = <<>>
  /\ toWrite' = 0
  /\ bpc' = "test"
  /\ UNCHANGED <<front, stopping, history>>

Exit ==
  /\ bpc = "exit"
  /\ bpc' = "ended"
  /\ UNCHANGED <<front, back, stopping, history>>

------------------------------------------------------------------------------
(* stop(), called once: by the program or by the destructor. *)

StopStoresRunning ==
  /\ spc = "up"
  /\ running' = FALSE
  /\ spc' = "notify"
  /\ UNCHANGED <<front, back, bpc, history>>

StopNotifies ==
  /\ spc = "notify"
  /\ bpc' = Notified(bpc)
  /\ spc' = "join"
  /\ UNCHANGED <<front, back, running, history>>

StopJoins ==
  /\ spc = "join"
  /\ bpc = "ended"
  /\ spc' = "stopped"
  /\ UNCHANGED <<front, back, bpc, running, history>>

------------------------------------------------------------------------------
BackendStep ==
  \/ TestRunning \/ Lock \/ TestWork \/ Block \/ WaitTimeout \/ SwapBuffers
  \/ WriteBuffer \/ AllWritten \/ Recycle \/ Exit

Next ==
  \/ BackendStep
  \/ \E m \in Messages : AppendToCurrent(m) \/ AppendToNext(m)
  \/ StopStoresRunning \/ StopNotifies \/ StopJoins

Spec == Init /\ [][Next]_vars

\* The backend keeps running, wait_for included: it returns after
\* flushInterval_ seconds at the latest.  A stop() that was called goes on;
\* nobody has to log or to call it.
FairSpec ==
  /\ Spec
  /\ WF_vars(BackendStep)
  /\ WF_vars(StopNotifies \/ StopJoins)

------------------------------------------------------------------------------
(* Properties *)

\* The buffers taken by the backend and not written yet, and all that are not
\* written yet, oldest first.
InFlight == SubSeq(buffersToWrite, Len(buffersToWrite) - toWrite + 1, Len(buffersToWrite))
Line == InFlight \o bufferVec \o currentBuffer

\* The messages of s are those accepted from number "first" on.
Holds(s, first) ==
  \A k \in 1..Len(s) : s[k] = accepted[(first + k) - 1]

\* The number of the message behind the last one of the i-th buffer in line.
EndOf(i) == IF i < Len(begins) THEN begins[i + 1] ELSE Len(accepted) + 1

\* Every message appended is, once and in the order of the appends, in the
\* file, in a buffer the backend holds, in bufferVec_ or in currentBuffer_:
\* each of them holds the messages that follow on those of the one before, the
\* last ends with the message appended last, and no exchange of buffers loses,
\* repeats or reorders one.
ExactlyOnceInOrder ==
  /\ Len(begins) = Len(Line)
  /\ Len(written) + 1 = begins[1] /\ Holds(written, 1)
  /\ \A i \in 1..Len(Line) :
       /\ begins[i] \in 1..(Len(accepted) + 1)
       /\ begins[i] + Len(Line[i]) = EndOf(i)
       /\ Holds(Line[i], begins[i])

\* A spare is empty when it is handed out again.
SparesEmpty ==
  \A p \in {nextBuffer, newBuffer1, newBuffer2} : p \in {Null, <<<<>>>>}

\* The buffers go round without running out: append always finds a current
\* buffer, the backend always has one to hand back at the exchange, and
\* buffersToWrite.back() is never taken of an empty vector.
SparesSuffice ==
  /\ currentBuffer # Null
  /\ bpc \notin {"write", "recycle"} => newBuffer1 # Null /\ newBuffer2 # Null
  /\ nextBuffer = Null => bufferVec # <<>>
  /\ bpc = "recycle" =>
       Kept(Len(buffersToWrite)) >=
         (IF newBuffer1 = Null THEN 1 ELSE 0) + (IF newBuffer2 = Null THEN 1 ELSE 0)

\* What else the exchange relies on, for the proof of SparesSuffice.
BatchIsLocal ==
  /\ bpc \in {"write", "recycle"} =>
       /\ newBuffer1 = Null
       /\ Len(buffersToWrite) >= 1
       /\ newBuffer2 = Null => Len(buffersToWrite) >= 2
  /\ bpc \notin {"write"} => toWrite = 0

Inv == TypeOK /\ SparesEmpty /\ SparesSuffice /\ BatchIsLocal

Elements(s) == {s[i] : i \in 1..Len(s)}

\* A message appended while the logger runs reaches the file even if it does
\* not fill a buffer and nothing is logged after it, unless stop() comes.
EventuallyWritten ==
  \A m \in Messages :
    (m \in Elements(accepted)) ~> (m \in Elements(written) \/ ~running)

\* stop() returns: clearing running_ without the mutex may lose the
\* notification, but not the end of the backend.
StopReturns == (spc = "notify") ~> (spc = "stopped")
==============================================================================
