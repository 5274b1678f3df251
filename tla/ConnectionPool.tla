---------------------------- MODULE ConnectionPool ----------------------------
(***************************************************************************)
(* ConnectionPool (mysql/ConnectionPool.cc): clients take MySQL            *)
(* connections from a queue and give them back through the deleter of the  *)
(* shared_ptr; a producer thread adds connections when the queue is empty, *)
(* a recycler thread deletes those that stayed idle too long.  One mutex   *)
(* and one condition variable serve all of them.                           *)
(*                                                                         *)
(* A critical section is one step, except where a thread keeps the mutex   *)
(* while it sleeps (the producer) or deletes connections one by one (the   *)
(* recycler).                                                              *)
(***************************************************************************)
EXTENDS Integers, Sequences, FiniteSets

CONSTANTS
  Clients,     \* threads that call getConnection()
  Conns,       \* the MysqlConn objects there may be
  MinConn,     \* minConnCount_
  MaxConn,     \* maxConnCount_
  MaxIdle,     \* maxIdleTime_
  MaxClock     \* bound on the clock

ASSUME PoolAssumption ==
  /\ MinConn \in Nat
  /\ MaxConn \in Nat
  /\ MaxIdle \in Nat
  /\ MaxClock \in Nat

VARIABLES
  queue,       \* connectionQueue_
  count,       \* currentConnCount_
  live,        \* the connections that exist
  stamp,       \* m_alivetime of each connection
  clock,       \* the time
  held,        \* the connection each client has, none as {}
  cpc,         \* where each client is in getConnection()
  ppc,         \* where the producer is
  rpc          \* where the recycler is

vars == <<queue, count, live, stamp, clock, held, cpc, ppc, rpc>>

TypeOK ==
  /\ queue \in Seq(Conns)
  /\ count \in Int
  /\ live \subseteq Conns
  /\ IsFiniteSet(live)
  /\ stamp \in [Conns -> Nat]
  /\ clock \in Nat
  /\ held \in [Clients -> SUBSET Conns]
  /\ cpc \in [Clients -> {"idle", "enter", "waiting", "timedout"}]
  /\ ppc \in {"lock", "waiting", "sleep"}
  /\ rpc \in {"asleep", "scan"}

Elements(s) == {s[i] : i \in 1..Len(s)}

\* Nobody keeps the mutex from one step to the next.
MutexFree == ppc # "sleep" /\ rpc # "scan"

\* How much the constructor adds to currentConnCount_ per connection: once in
\* addConnection and once in its own loop.
CountedPerStart == 2

\* The constructor has filled the queue; both threads are started.
Init ==
  /\ queue \in [1..MinConn -> Conns]
  /\ \A i, j \in 1..MinConn : queue[i] = queue[j] => i = j
  /\ live = Elements(queue)
  /\ count = CountedPerStart * MinConn
  /\ stamp = [c \in Conns |-> 0]
  /\ clock = 0
  /\ held = [t \in Clients |-> {}]
  /\ cpc = [t \in Clients |-> "idle"]
  /\ ppc = "lock"
  /\ rpc = "asleep"

\* cond_.notify_all()
ClientsNotified(pc) ==
  [t \in Clients |-> IF pc[t] = "waiting" THEN "enter" ELSE pc[t]]
ProducerNotified == IF ppc = "waiting" THEN "lock" ELSE ppc

------------------------------------------------------------------------------
(* getConnection() and the deleter *)

GetStart(t) ==
  /\ cpc[t] = "idle"
  /\ held[t] = {}
  /\ cpc' = [cpc EXCEPT ![t] = "enter"]
  /\ UNCHANGED <<queue, count, live, stamp, clock, held, ppc, rpc>>

\* Mutant: the connection handed out stays in the queue.
QueueAfterTake_NoPop(q) == q

\* connectionQueue_.pop()
QueueAfterTake(q) == Tail(q)

\* Mutant: nobody is told that the queue has run empty.
TakeNotifies_Never(q) == FALSE

\* if (connectionQueue_.empty()) cond_.notify_all()
TakeNotifies(q) == q = <<>>

Take(t) ==
  /\ cpc[t] \in {"enter", "timedout"}
  /\ MutexFree
  /\ queue # <<>>
  /\ held' = [held EXCEPT ![t] = {Head(queue)}]
  /\ queue' = QueueAfterTake(queue)
  /\ LET here == [cpc EXCEPT ![t] = "idle"] IN
       IF TakeNotifies(queue')
       THEN cpc' = ClientsNotified(here) /\ ppc' = ProducerNotified
       ELSE cpc' = here /\ UNCHANGED ppc
  /\ UNCHANGED <<count, live, stamp, clock, rpc>>

\* wait_for releases the mutex; a notification starts its two seconds anew.
Wait(t) ==
  /\ cpc[t] = "enter"
  /\ MutexFree
  /\ queue = <<>>
  /\ cpc' = [cpc EXCEPT ![t] = "waiting"]
  /\ UNCHANGED <<queue, count, live, stamp, clock, held, ppc, rpc>>

WaitTimeout(t) ==
  /\ cpc[t] = "waiting"
  /\ cpc' = [cpc EXCEPT ![t] = "timedout"]
  /\ UNCHANGED <<queue, count, live, stamp, clock, held, ppc, rpc>>

ReturnNull(t) ==
  /\ cpc[t] = "timedout"
  /\ MutexFree
  /\ queue = <<>>
  /\ cpc' = [cpc EXCEPT ![t] = "idle"]
  /\ UNCHANGED <<queue, count, live, stamp, clock, held, ppc, rpc>>

\* Mutant: the deleter forgets refreshAliveTime.
StampOnReturn_Old(c) == stamp[c]

\* refreshAliveTime() when a connection comes back.
StampOnReturn(c) == clock

\* The deleter: the last shared_ptr to the connection is gone.  It notifies
\* nobody.
GiveBack(t) ==
  /\ MutexFree
  /\ \E c \in held[t] :
       /\ queue' = Append(queue, c)
       /\ stamp' = [stamp EXCEPT ![c] = StampOnReturn(c)]
  /\ held' = [held EXCEPT ![t] = {}]
  /\ UNCHANGED <<count, live, clock, cpc, ppc, rpc>>

------------------------------------------------------------------------------
(* produceConnection() *)

ProducerWaits ==
  /\ ppc = "lock"
  /\ MutexFree
  /\ queue # <<>>
  /\ ppc' = "waiting"
  /\ UNCHANGED <<queue, count, live, stamp, clock, held, cpc, rpc>>

\* currentConnCount_ < maxConnCount_
MayGrow == count < MaxConn

\* addConnection(), then cond_.notify_all().
Produce ==
  /\ ppc = "lock"
  /\ MutexFree
  /\ queue = <<>>
  /\ MayGrow
  /\ \E c \in Conns \ live :
       /\ live' = live \cup {c}
       /\ queue' = Append(queue, c)
       /\ stamp' = [stamp EXCEPT ![c] = clock]
  /\ count' = count + 1
  /\ cpc' = ClientsNotified(cpc)
  /\ UNCHANGED <<clock, held, ppc, rpc>>

\* The pool is full: sleeps for a while, with the mutex locked.
ProducerSleeps ==
  /\ ppc = "lock"
  /\ MutexFree
  /\ queue = <<>>
  /\ ~MayGrow
  /\ ppc' = "sleep"
  /\ UNCHANGED <<queue, count, live, stamp, clock, held, cpc, rpc>>

ProducerWakes ==
  /\ ppc = "sleep"
  /\ ppc' = "lock"
  /\ UNCHANGED <<queue, count, live, stamp, clock, held, cpc, rpc>>

------------------------------------------------------------------------------
(* recycleConnection() *)

RecyclerLocks ==
  /\ rpc = "asleep"
  /\ MutexFree
  /\ rpc' = "scan"
  /\ UNCHANGED <<queue, count, live, stamp, clock, held, cpc, ppc>>

\* Mutant: also deletes when only the minimum is left.
MayShrink_OneMore == Len(queue) >= MinConn /\ queue # <<>>

\* connectionQueue_.size() > minConnCount_
MayShrink == Len(queue) > MinConn

FrontIsOld == clock - stamp[Head(queue)] >= MaxIdle

RecycleFront ==
  /\ rpc = "scan"
  /\ MayShrink
  /\ FrontIsOld
  /\ queue' = Tail(queue)
  /\ live' = live \ {Head(queue)}
  /\ count' = count - 1
  /\ UNCHANGED <<stamp, clock, held, cpc, ppc, rpc>>

RecyclerSleeps ==
  /\ rpc = "scan"
  /\ ~(MayShrink /\ FrontIsOld)
  /\ rpc' = "asleep"
  /\ UNCHANGED <<queue, count, live, stamp, clock, held, cpc, ppc>>

Tick ==
  /\ clock < MaxClock
  /\ clock' = clock + 1
  /\ UNCHANGED <<queue, count, live, stamp, held, cpc, ppc, rpc>>

------------------------------------------------------------------------------
ProducerStep == ProducerWaits \/ Produce \/ ProducerSleeps \/ ProducerWakes
RecyclerStep == RecycleFront \/ RecyclerSleeps
ClientStep(t) == Take(t) \/ Wait(t) \/ WaitTimeout(t) \/ ReturnNull(t)

Next ==
  \/ ProducerStep
  \/ RecyclerLocks
  \/ RecyclerStep
  \/ \E t \in Clients : GetStart(t) \/ ClientStep(t) \/ GiveBack(t)
  \/ Tick

Spec == Init /\ [][Next]_vars

\* Every thread that wants the mutex gets it in the end, and a wait_for that
\* is not notified times out.  Nobody has to ask for a connection or to give
\* one back.
FairSpec ==
  /\ Spec
  /\ SF_vars(ProducerStep)
  /\ WF_vars(RecyclerStep)
  /\ \A t \in Clients : SF_vars(ClientStep(t))

------------------------------------------------------------------------------
(* Properties *)

\* No connection is in the queue twice.
Distinct(q) == \A i, j \in 1..Len(q) : q[i] = q[j] => i = j

InUse == {c \in Conns : \E t \in Clients : c \in held[t]}

\* Every connection is idle in the queue, once, or with one client: two
\* clients never share one, and none is lost (getConnection, the deleter,
\* the recycler).
OneOwner ==
  /\ Distinct(queue)
  /\ \A t \in Clients :
       /\ \A c, d \in held[t] : c = d
       /\ held[t] \cap Elements(queue) = {}
       /\ \A u \in Clients \ {t} : held[t] \cap held[u] = {}
  /\ live = Elements(queue) \cup InUse

\* The queue is ordered by idle time, which is what lets the recycler stop at
\* the first connection that is young enough.
OldestFirst ==
  \A i, j \in 1..Len(queue) : i < j => stamp[queue[i]] <= stamp[queue[j]]

\* No connection came back in the future.
StampsArePast == \A c \in Conns : stamp[c] <= clock

\* A client that is inside getConnection() holds nothing.
AsksWithEmptyHands == \A t \in Clients : cpc[t] # "idle" => held[t] = {}

\* currentConnCount_ counts the connections of the constructor twice.
CountIsLivePlusMin == count = Cardinality(live) + MinConn

\* What holds between the pool's state and the connections: the queue by age,
\* the counter and who may hold one (all of ConnectionPool.cc).
Inv ==
  /\ TypeOK
  /\ OldestFirst
  /\ StampsArePast
  /\ AsksWithEmptyHands
  /\ CountIsLivePlusMin

\* The pool never grows beyond maxConnCount_ connections (or the ones it
\* started with) and the recycler never takes it below minConnCount_, however
\* the threads interleave.
WithinBounds ==
  /\ Cardinality(live) <= MaxConn \/ Cardinality(live) <= MinConn
  /\ Cardinality(live) >= MinConn

\* An empty queue that may still grow is refilled, unless the pool is filled
\* up meanwhile: the producer never sleeps through the notification.
EmptyIsRefilled ==
  (queue = <<>> /\ count < MaxConn) ~> (queue # <<>> \/ count >= MaxConn)

\* ConnectionPool.cc says the producer sleeps when the maximal number of
\* connections is reached.
SleepsOnlyWhenFull == ppc = "sleep" => Cardinality(live) >= MaxConn
==============================================================================
