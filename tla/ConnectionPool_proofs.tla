------------------------ MODULE ConnectionPool_proofs ------------------------
(***************************************************************************)
(* What is proved of ConnectionPool, for any number of clients and         *)
(* connections and any configuration.                                      *)
(*                                                                         *)
(* Inv and OneOwner are inductive only together: the order of the queue    *)
(* survives a connection that comes back because the connection is not in  *)
(* the queue, and a client may take another only because it has none.      *)
(* WithinBounds then follows step by step, from the counter and from the   *)
(* queue holding no connection twice.                                      *)
(***************************************************************************)
EXTENDS ConnectionPool, FiniteSetTheorems, SequenceTheorems, TLAPS

------------------------------------------------------------------------------
(* Queues of connections *)

\* What is left of a queue when its front is taken.
LEMMA FrontTaken ==
  ASSUME NEW S, NEW q \in Seq(S), q # <<>>
  PROVE  /\ Tail(q) \in Seq(S)
         /\ Len(Tail(q)) = Len(q) - 1
         /\ Len(q) \in Nat \ {0}
         /\ Head(q) = q[1]
         /\ Head(q) \in S
         /\ \A i \in 1..Len(Tail(q)) : Tail(q)[i] = q[i + 1]
         /\ Elements(q) = Elements(Tail(q)) \cup {Head(q)}
<1>1. /\ Tail(q) \in Seq(S)
      /\ Len(Tail(q)) = Len(q) - 1
      /\ Len(q) \in Nat \ {0}
      /\ Head(q) = q[1]
      /\ Head(q) \in S
      /\ \A i \in 1..Len(Tail(q)) : Tail(q)[i] = q[i + 1]
  OBVIOUS
<1>2. ASSUME NEW c \in Elements(q)
      PROVE  c \in Elements(Tail(q)) \cup {Head(q)}
  <2>1. PICK i \in 1..Len(q) : q[i] = c
    BY DEF Elements
  <2>2. CASE i = 1
    BY <1>1, <2>1, <2>2
  <2>3. CASE i # 1
    <3>1. i - 1 \in 1..Len(Tail(q)) /\ (i - 1) + 1 = i
      BY <1>1, <2>1, <2>3
    <3>2. Tail(q)[i - 1] = c
      BY <1>1, <2>1, <3>1
    <3> QED
      BY <3>1, <3>2 DEF Elements
  <2> QED
    BY <2>2, <2>3
<1>3. ASSUME NEW c \in Elements(Tail(q)) \cup {Head(q)}
      PROVE  c \in Elements(q)
  <2>1. CASE c = Head(q)
    BY <1>1, <2>1 DEF Elements
  <2>2. CASE c \in Elements(Tail(q))
    <3>1. PICK i \in 1..Len(Tail(q)) : Tail(q)[i] = c
      BY <2>2 DEF Elements
    <3>2. i + 1 \in 1..Len(q) /\ q[i + 1] = c
      BY <1>1, <3>1
    <3> QED
      BY <3>2 DEF Elements
  <2> QED
    BY <1>3, <2>1, <2>2
<1> QED
  BY <1>1, <1>2, <1>3

\* What a queue holds when a connection has joined it.
LEMMA Joined ==
  ASSUME NEW S, NEW q \in Seq(S), NEW c \in S
  PROVE  /\ Append(q, c) \in Seq(S)
         /\ Len(q) \in Nat
         /\ Len(Append(q, c)) = Len(q) + 1
         /\ \A i \in 1..Len(q) : Append(q, c)[i] = q[i]
         /\ Append(q, c)[Len(q) + 1] = c
         /\ Elements(Append(q, c)) = Elements(q) \cup {c}
<1>1. /\ Append(q, c) \in Seq(S)
      /\ Len(q) \in Nat
      /\ Len(Append(q, c)) = Len(q) + 1
      /\ \A i \in 1..Len(q) : Append(q, c)[i] = q[i]
      /\ Append(q, c)[Len(q) + 1] = c
  OBVIOUS
<1>2. ASSUME NEW d \in Elements(Append(q, c))
      PROVE  d \in Elements(q) \cup {c}
  <2>1. PICK i \in 1..Len(q) + 1 : Append(q, c)[i] = d
    BY <1>1 DEF Elements
  <2>2. i = Len(q) + 1 \/ i \in 1..Len(q)
    BY <1>1, <2>1
  <2> QED
    BY <1>1, <2>1, <2>2 DEF Elements
<1>3. ASSUME NEW d \in Elements(q) \cup {c}
      PROVE  d \in Elements(Append(q, c))
  <2>1. CASE d = c
    <3>1. Len(q) + 1 \in 1..Len(Append(q, c))
      BY <1>1
    <3> QED
      BY <1>1, <2>1, <3>1 DEF Elements
  <2>2. CASE d \in Elements(q)
    <3>1. PICK i \in 1..Len(q) : q[i] = d
      BY <2>2 DEF Elements
    <3>2. i \in 1..Len(Append(q, c)) /\ Append(q, c)[i] = d
      BY <1>1, <3>1
    <3> QED
      BY <3>2 DEF Elements
  <2> QED
    BY <1>3, <2>1, <2>2
<1> QED
  BY <1>1, <1>2, <1>3

\* A queue without repetitions has none without its front either.
LEMMA DistinctTail ==
  ASSUME NEW S, NEW q \in Seq(S), q # <<>>, Distinct(q)
  PROVE  Distinct(Tail(q)) /\ Head(q) \notin Elements(Tail(q))
<1>1. /\ Len(Tail(q)) = Len(q) - 1
      /\ Len(q) \in Nat \ {0}
      /\ Head(q) = q[1]
      /\ \A i \in 1..Len(Tail(q)) : Tail(q)[i] = q[i + 1]
  BY FrontTaken
<1>2. \A i \in 1..Len(Tail(q)) : i + 1 \in 1..Len(q) /\ i + 1 # 1
  BY <1>1
<1>3. ASSUME NEW i \in 1..Len(Tail(q)), NEW j \in 1..Len(Tail(q)),
             Tail(q)[i] = Tail(q)[j]
      PROVE  i = j
  <2>1. i + 1 = j + 1
    BY <1>1, <1>2, <1>3 DEF Distinct
  <2> QED
    BY <2>1
<1>4. Head(q) \notin Elements(Tail(q))
  <2>1. \A i \in 1..Len(Tail(q)) : Tail(q)[i] # q[1]
    <3>1. 1 \in 1..Len(q)
      BY <1>1
    <3> QED
      BY <1>1, <1>2, <3>1 DEF Distinct
  <2> QED
    BY <1>1, <2>1 DEF Elements
<1> QED
  BY <1>3, <1>4 DEF Distinct

\* A connection that was not in the queue joins it without a repetition.
LEMMA DistinctJoined ==
  ASSUME NEW S, NEW q \in Seq(S), NEW c \in S, Distinct(q),
         c \notin Elements(q)
  PROVE  Distinct(Append(q, c))
<1>1. /\ Len(q) \in Nat
      /\ Len(Append(q, c)) = Len(q) + 1
      /\ \A i \in 1..Len(q) : Append(q, c)[i] = q[i]
      /\ Append(q, c)[Len(q) + 1] = c
  BY Joined
<1>2. \A i \in 1..Len(q) : q[i] # c
  BY DEF Elements
<1>3. \A i \in 1..Len(q) + 1 : i \in 1..Len(q) \/ i = Len(q) + 1
  BY <1>1
<1> QED
  BY <1>1, <1>2, <1>3 DEF Distinct

\* A queue without repetitions holds as many connections as it is long.
LEMMA DistinctCount ==
  ASSUME NEW S, NEW q \in Seq(S), Distinct(q)
  PROVE  IsFiniteSet(Elements(q)) /\ Cardinality(Elements(q)) = Len(q)
<1>1. Len(q) \in Nat /\ q \in [1..Len(q) -> S]
  BY LenProperties
<1>2. IsFiniteSet(1..Len(q)) /\ Cardinality(1..Len(q)) = Len(q)
  BY <1>1, FS_Interval
<1>3. q \in Bijection(1..Len(q), Elements(q))
  <2>1. q \in [1..Len(q) -> Elements(q)]
    BY <1>1 DEF Elements
  <2>2. \A c \in Elements(q) : \E i \in 1..Len(q) : q[i] = c
    BY DEF Elements
  <2>3. IsInjective(q)
    BY <1>1 DEF Distinct, IsInjective
  <2> QED
    BY <2>1, <2>2, <2>3 DEF Bijection, Injection, Surjection
<1>4. ExistsBijection(1..Len(q), Elements(q))
  BY <1>3 DEF ExistsBijection
<1> QED
  BY <1>2, <1>4, FS_Bijection

------------------------------------------------------------------------------
(* The inductive invariant *)

IInv == Inv /\ OneOwner

\* The pool as the constructor leaves it.
LEMMA InitIInv ==
  ASSUME Init
  PROVE  IInv
<1> USE PoolAssumption
<1>1. queue \in Seq(Conns) /\ Len(queue) = MinConn
  BY DEF Init
<1>2. Distinct(queue)
  BY <1>1 DEF Init, Distinct
<1>3. IsFiniteSet(live) /\ Cardinality(live) = MinConn
  BY <1>1, <1>2, DistinctCount DEF Init
<1>4. live \subseteq Conns
  BY <1>1 DEF Init, Elements
<1>5. TypeOK
  BY <1>1, <1>3, <1>4 DEF Init, TypeOK, CountedPerStart
<1>6. CountIsLivePlusMin
  BY <1>3 DEF Init, CountIsLivePlusMin, CountedPerStart
<1>7. OldestFirst
  BY <1>1, <1>4 DEF Init, OldestFirst
<1>8. StampsArePast /\ AsksWithEmptyHands
  BY DEF Init, StampsArePast, AsksWithEmptyHands
<1>9. OneOwner
  <2>1. InUse = {}
    BY DEF Init, InUse
  <2> QED
    BY <1>2, <2>1 DEF Init, OneOwner
<1> QED
  BY <1>5, <1>6, <1>7, <1>8, <1>9 DEF IInv, Inv

\* A step that moves no connection and only lets time pass or somebody wait.
LEMMA NothingMoves ==
  ASSUME IInv,
         UNCHANGED <<queue, count, live, stamp, held>>,
         clock' \in Nat, clock' >= clock,
         cpc' \in [Clients -> {"idle", "enter", "waiting", "timedout"}],
         \A t \in Clients : cpc'[t] = "idle" \/ held[t] = {},
         ppc' \in {"lock", "waiting", "sleep"},
         rpc' \in {"asleep", "scan"}
  PROVE  IInv'
<1>1. TypeOK'
  BY DEF IInv, Inv, TypeOK
<1>2. OldestFirst' /\ CountIsLivePlusMin' /\ AsksWithEmptyHands'
  BY DEF IInv, Inv, OldestFirst, CountIsLivePlusMin, AsksWithEmptyHands
<1>3. StampsArePast'
  <2>1. \A c \in Conns : stamp[c] \in Nat /\ clock \in Nat /\ stamp[c] <= clock
    BY DEF IInv, Inv, TypeOK, StampsArePast
  <2> QED
    BY <2>1 DEF StampsArePast
<1>4. OneOwner'
  BY DEF IInv, OneOwner, Distinct, Elements, InUse
<1> QED
  BY <1>1, <1>2, <1>3, <1>4 DEF IInv, Inv

\* The ages of a queue that has lost its front.
LEMMA TailOldestFirst ==
  ASSUME TypeOK, OldestFirst, queue # <<>>, queue' = Tail(queue), stamp' = stamp
  PROVE  OldestFirst'
<1>1. /\ Len(Tail(queue)) = Len(queue) - 1
      /\ Len(queue) \in Nat \ {0}
      /\ \A i \in 1..Len(Tail(queue)) : Tail(queue)[i] = queue[i + 1]
  BY FrontTaken DEF TypeOK
<1>2. ASSUME NEW i \in 1..Len(Tail(queue)), NEW j \in 1..Len(Tail(queue)), i < j
      PROVE  stamp[Tail(queue)[i]] <= stamp[Tail(queue)[j]]
  <2>1. /\ i + 1 \in 1..Len(queue)
        /\ j + 1 \in 1..Len(queue)
        /\ i + 1 < j + 1
    BY <1>1, <1>2
  <2> QED
    BY <1>1, <2>1 DEF OldestFirst
<1> QED
  BY <1>2 DEF OldestFirst

\* The ages of a queue that a connection has joined, stamped with the time.
LEMMA AppendOldestFirst ==
  ASSUME TypeOK, OldestFirst, StampsArePast, NEW c \in Conns,
         c \notin Elements(queue), queue' = Append(queue, c),
         stamp' = [stamp EXCEPT ![c] = clock], clock' = clock
  PROVE  OldestFirst' /\ StampsArePast'
<1>1. /\ Len(queue) \in Nat
      /\ Len(queue') = Len(queue) + 1
      /\ \A i \in 1..Len(queue) : queue'[i] = queue[i]
      /\ queue'[Len(queue) + 1] = c
  BY Joined DEF TypeOK
<1>2. /\ stamp'[c] = clock
      /\ \A d \in Conns : d # c => stamp'[d] = stamp[d]
      /\ \A d \in Conns : stamp[d] \in Nat /\ stamp[d] <= clock
      /\ clock \in Nat
  BY DEF TypeOK, StampsArePast
<1>3. \A i \in 1..Len(queue) : queue[i] \in Conns /\ queue[i] # c
  BY DEF TypeOK, Elements
<1>4. ASSUME NEW i \in 1..Len(queue'), NEW j \in 1..Len(queue'), i < j
      PROVE  stamp'[queue'[i]] <= stamp'[queue'[j]]
  <2>1. i \in 1..Len(queue)
    BY <1>1, <1>4
  <2>2. CASE j \in 1..Len(queue)
    <3>1. stamp[queue[i]] <= stamp[queue[j]]
      BY <1>4, <2>1, <2>2 DEF OldestFirst
    <3> QED
      BY <1>1, <1>2, <1>3, <2>1, <2>2, <3>1
  <2>3. CASE j = Len(queue) + 1
    BY <1>1, <1>2, <1>3, <2>1, <2>3
  <2> QED
    BY <1>1, <2>2, <2>3
<1> QED
  BY <1>2, <1>4 DEF OldestFirst, StampsArePast, TypeOK

------------------------------------------------------------------------------
(* Every step *)

\* getConnection() hands out the front of the queue.
LEMMA TakeKeepsIInv ==
  ASSUME IInv, NEW t \in Clients, Take(t)
  PROVE  IInv'
<1> DEFINE c == Head(queue)
<1>1. /\ queue \in Seq(Conns)
      /\ queue # <<>>
      /\ queue' = Tail(queue)
      /\ held' = [held EXCEPT ![t] = {c}]
      /\ held \in [Clients -> SUBSET Conns]
      /\ UNCHANGED <<count, live, stamp, clock, rpc>>
  BY DEF IInv, Inv, TypeOK, Take, QueueAfterTake
<1>2. /\ Tail(queue) \in Seq(Conns)
      /\ c \in Conns
      /\ Elements(queue) = Elements(queue') \cup {c}
  BY <1>1, FrontTaken
<1>3. Distinct(queue') /\ c \notin Elements(queue')
  BY <1>1, DistinctTail DEF IInv, OneOwner
<1>4. /\ cpc' \in [Clients -> {"idle", "enter", "waiting", "timedout"}]
      /\ cpc'[t] = "idle"
      /\ \A u \in Clients \ {t} : cpc'[u] # "idle" => cpc[u] # "idle"
      /\ ppc' \in {"lock", "waiting", "sleep"}
  BY DEF IInv, Inv, TypeOK, Take, ClientsNotified, ProducerNotified
<1>5. held[t] = {}
  BY DEF IInv, Inv, AsksWithEmptyHands, Take
<1>6. TypeOK'
  BY <1>1, <1>2, <1>4 DEF IInv, Inv, TypeOK
<1>7. OldestFirst'
  BY <1>1, TailOldestFirst DEF IInv, Inv
<1>8. StampsArePast' /\ CountIsLivePlusMin'
  BY <1>1 DEF IInv, Inv, StampsArePast, CountIsLivePlusMin
<1>9. AsksWithEmptyHands'
  <2>1. \A u \in Clients \ {t} : held'[u] = held[u]
    BY <1>1
  <2> QED
    BY <1>4, <2>1 DEF IInv, Inv, AsksWithEmptyHands
<1>10. OneOwner'
  <2>1. /\ held'[t] = {c}
        /\ \A u \in Clients \ {t} : held'[u] = held[u]
    BY <1>1
  <2>2. \A u \in Clients \ {t} : c \notin held[u]
    BY <1>2 DEF IInv, OneOwner
  <2>3. ASSUME NEW u \in Clients
        PROVE  /\ \A d, e \in held'[u] : d = e
               /\ held'[u] \cap Elements(queue') = {}
               /\ \A v \in Clients \ {u} : held'[u] \cap held'[v] = {}
    <3>1. CASE u = t
      BY <1>3, <2>1, <2>2, <3>1
    <3>2. CASE u # t
      BY <1>2, <2>1, <2>2, <3>2 DEF IInv, OneOwner
    <3> QED
      BY <3>1, <3>2
  <2>4. InUse' = InUse \cup {c}
    BY <1>1, <1>2, <1>5, <2>1 DEF InUse
  <2>5. live' = Elements(queue') \cup InUse'
    BY <1>1, <1>2, <2>4 DEF IInv, OneOwner
  <2> QED
    BY <1>3, <2>3, <2>5 DEF OneOwner
<1> QED
  BY <1>6, <1>7, <1>8, <1>9, <1>10 DEF IInv, Inv

\* The deleter puts the connection back, stamped.
LEMMA GiveBackKeepsIInv ==
  ASSUME IInv, NEW t \in Clients, GiveBack(t)
  PROVE  IInv'
<1>1. PICK c \in held[t] : /\ queue' = Append(queue, c)
                           /\ stamp' = [stamp EXCEPT ![c] = clock]
  BY DEF GiveBack, StampOnReturn
<1>2. /\ queue \in Seq(Conns)
      /\ held' = [held EXCEPT ![t] = {}]
      /\ held \in [Clients -> SUBSET Conns]
      /\ stamp \in [Conns -> Nat]
      /\ clock \in Nat
      /\ UNCHANGED <<count, live, clock, cpc, ppc, rpc>>
  BY DEF IInv, Inv, TypeOK, GiveBack
<1>3. /\ c \in Conns
      /\ held[t] = {c}
      /\ c \notin Elements(queue)
      /\ Distinct(queue)
  BY <1>1, <1>2 DEF IInv, OneOwner
<1>4. /\ queue' \in Seq(Conns)
      /\ Elements(queue') = Elements(queue) \cup {c}
  BY <1>1, <1>2, <1>3, Joined
<1>5. Distinct(queue')
  BY <1>1, <1>2, <1>3, DistinctJoined
<1>6. TypeOK'
  BY <1>1, <1>2, <1>3, <1>4 DEF IInv, Inv, TypeOK
<1>7. OldestFirst' /\ StampsArePast'
  BY <1>1, <1>2, <1>3, AppendOldestFirst DEF IInv, Inv
<1>8. CountIsLivePlusMin' /\ AsksWithEmptyHands'
  BY <1>2 DEF IInv, Inv, CountIsLivePlusMin, AsksWithEmptyHands
<1>9. OneOwner'
  <2>1. /\ held'[t] = {}
        /\ \A u \in Clients \ {t} : held'[u] = held[u]
    BY <1>2
  <2>2. \A u \in Clients \ {t} : c \notin held[u]
    BY <1>3 DEF IInv, OneOwner
  <2>3. ASSUME NEW u \in Clients
        PROVE  /\ \A d, e \in held'[u] : d = e
               /\ held'[u] \cap Elements(queue') = {}
               /\ \A v \in Clients \ {u} : held'[u] \cap held'[v] = {}
    <3>1. CASE u = t
      BY <2>1, <3>1
    <3>2. CASE u # t
      BY <1>4, <2>1, <2>2, <3>2 DEF IInv, OneOwner
    <3> QED
      BY <3>1, <3>2
  <2>4. InUse = InUse' \cup {c}
    BY <1>2, <1>3, <2>1 DEF InUse
  <2>5. live' = Elements(queue') \cup InUse'
    BY <1>2, <1>4, <2>4 DEF IInv, OneOwner
  <2> QED
    BY <1>5, <2>3, <2>5 DEF OneOwner
<1> QED
  BY <1>6, <1>7, <1>8, <1>9 DEF IInv, Inv

\* The producer adds a connection that did not exist.
LEMMA ProduceKeepsIInv ==
  ASSUME IInv, Produce
  PROVE  IInv'
<1>1. PICK c \in Conns \ live : /\ live' = live \cup {c}
                                /\ queue' = Append(queue, c)
                                /\ stamp' = [stamp EXCEPT ![c] = clock]
  BY DEF Produce
<1>2. /\ queue \in Seq(Conns)
      /\ count' = count + 1
      /\ count \in Int
      /\ IsFiniteSet(live)
      /\ UNCHANGED <<clock, held, ppc, rpc>>
  BY DEF IInv, Inv, TypeOK, Produce
<1>3. c \notin Elements(queue) /\ Distinct(queue)
  BY <1>1 DEF IInv, OneOwner
<1>4. /\ queue' \in Seq(Conns)
      /\ Elements(queue') = Elements(queue) \cup {c}
  BY <1>1, <1>2, Joined
<1>5. Distinct(queue')
  BY <1>1, <1>2, <1>3, DistinctJoined
<1>6. IsFiniteSet(live') /\ Cardinality(live') = Cardinality(live) + 1
  BY <1>1, <1>2, FS_AddElement
<1>7. /\ cpc' \in [Clients -> {"idle", "enter", "waiting", "timedout"}]
      /\ \A t \in Clients : cpc'[t] # "idle" => cpc[t] # "idle"
  BY DEF IInv, Inv, TypeOK, Produce, ClientsNotified
<1>8. TypeOK'
  BY <1>1, <1>2, <1>4, <1>6, <1>7 DEF IInv, Inv, TypeOK
<1>9. OldestFirst' /\ StampsArePast'
  BY <1>1, <1>2, <1>3, AppendOldestFirst DEF IInv, Inv
<1>10. CountIsLivePlusMin'
  <2>1. Cardinality(live) \in Nat /\ MinConn \in Nat
    BY <1>2, FS_CardinalityType, PoolAssumption
  <2> QED
    BY <1>2, <1>6, <2>1 DEF IInv, Inv, CountIsLivePlusMin
<1>11. AsksWithEmptyHands'
  BY <1>2, <1>7 DEF IInv, Inv, AsksWithEmptyHands
<1>12. OneOwner'
  <2>1. \A t \in Clients : c \notin held[t]
    BY <1>1 DEF IInv, OneOwner, InUse
  <2>2. live' = Elements(queue') \cup InUse'
    BY <1>1, <1>2, <1>4 DEF IInv, OneOwner, InUse
  <2> QED
    BY <1>2, <1>4, <1>5, <2>1, <2>2 DEF IInv, OneOwner
<1> QED
  BY <1>8, <1>9, <1>10, <1>11, <1>12 DEF IInv, Inv

\* The recycler deletes the connection at the front of the queue.
LEMMA RecycleKeepsIInv ==
  ASSUME IInv, RecycleFront
  PROVE  IInv'
<1> DEFINE c == Head(queue)
<1>1. /\ queue \in Seq(Conns)
      /\ queue' = Tail(queue)
      /\ live' = live \ {c}
      /\ count' = count - 1
      /\ count \in Int
      /\ IsFiniteSet(live)
      /\ UNCHANGED <<stamp, clock, held, cpc, ppc, rpc>>
  BY DEF IInv, Inv, TypeOK, RecycleFront
<1>2. queue # <<>>
  <2>1. Len(queue) > MinConn /\ MinConn \in Nat
    BY PoolAssumption DEF RecycleFront, MayShrink
  <2>2. Len(<<>>) = 0
    OBVIOUS
  <2> QED
    BY <2>1, <2>2
<1>3. /\ Tail(queue) \in Seq(Conns)
      /\ Elements(queue) = Elements(queue') \cup {c}
  BY <1>1, <1>2, FrontTaken
<1>4. Distinct(queue') /\ c \notin Elements(queue')
  BY <1>1, <1>2, DistinctTail DEF IInv, OneOwner
<1>5. c \in live
  BY <1>3 DEF IInv, OneOwner
<1>6. IsFiniteSet(live') /\ Cardinality(live') = Cardinality(live) - 1
  BY <1>1, <1>5, FS_RemoveElement
<1>7. TypeOK'
  BY <1>1, <1>3, <1>6 DEF IInv, Inv, TypeOK
<1>8. OldestFirst'
  BY <1>1, <1>2, TailOldestFirst DEF IInv, Inv
<1>9. StampsArePast' /\ AsksWithEmptyHands'
  BY <1>1 DEF IInv, Inv, StampsArePast, AsksWithEmptyHands
<1>10. CountIsLivePlusMin'
  <2>1. Cardinality(live) \in Nat /\ MinConn \in Nat
    BY <1>1, FS_CardinalityType, PoolAssumption
  <2> QED
    BY <1>1, <1>6, <2>1 DEF IInv, Inv, CountIsLivePlusMin
<1>11. OneOwner'
  <2>1. \A t \in Clients : c \notin held[t]
    BY <1>3 DEF IInv, OneOwner
  <2>2. live' = Elements(queue') \cup InUse'
    BY <1>1, <1>3, <1>4, <2>1 DEF IInv, OneOwner, InUse
  <2> QED
    BY <1>1, <1>3, <1>4, <2>2 DEF IInv, OneOwner
<1> QED
  BY <1>7, <1>8, <1>9, <1>10, <1>11 DEF IInv, Inv

\* Every other step moves nothing.
LEMMA NextKeepsIInv ==
  ASSUME IInv, [Next]_vars
  PROVE  IInv'
<1> USE DEF IInv, Inv, TypeOK, AsksWithEmptyHands
<1>1. ASSUME NEW t \in Clients, GetStart(t) PROVE IInv'
  <2>1. \A u \in Clients : cpc'[u] = "idle" \/ held[u] = {}
    BY <1>1 DEF GetStart
  <2> QED
    BY <1>1, <2>1, NothingMoves DEF GetStart
<1>2. ASSUME NEW t \in Clients, Wait(t) \/ WaitTimeout(t) \/ ReturnNull(t)
      PROVE  IInv'
  <2>1. \A u \in Clients : cpc'[u] = "idle" \/ held[u] = {}
    BY <1>2 DEF Wait, WaitTimeout, ReturnNull
  <2> QED
    BY <1>2, <2>1, NothingMoves DEF Wait, WaitTimeout, ReturnNull
<1>3. ASSUME ProducerWaits \/ ProducerSleeps \/ ProducerWakes PROVE IInv'
  BY <1>3, NothingMoves DEF ProducerWaits, ProducerSleeps, ProducerWakes
<1>4. ASSUME RecyclerLocks \/ RecyclerSleeps PROVE IInv'
  BY <1>4, NothingMoves DEF RecyclerLocks, RecyclerSleeps
<1>5. ASSUME Tick PROVE IInv'
  BY <1>5, NothingMoves DEF Tick
<1>6. ASSUME UNCHANGED vars PROVE IInv'
  BY <1>6, NothingMoves DEF vars
<1> QED
  BY <1>1, <1>2, <1>3, <1>4, <1>5, <1>6, TakeKeepsIInv, GiveBackKeepsIInv,
     ProduceKeepsIInv, RecycleKeepsIInv
  DEF Next, ProducerStep, RecyclerStep, ClientStep

LEMMA IInvHolds == Spec => []IInv
  BY InitIInv, NextKeepsIInv, PTL DEF Spec

\* The queue stays ordered by age and the counter off by minConnCount_
\* (produceConnection, recycleConnection, getConnection and its deleter).
THEOREM PoolInvHolds == Spec => []Inv
<1>1. IInv => Inv
  BY DEF IInv
<1> QED
  BY <1>1, IInvHolds, PTL

\* No connection is ever shared by two clients, queued twice or lost
\* (getConnection and its deleter).
THEOREM ConnectionsHaveOneOwner == Spec => []OneOwner
<1>1. IInv => OneOwner
  BY DEF IInv
<1> QED
  BY <1>1, IInvHolds, PTL

------------------------------------------------------------------------------
(* The bounds *)

\* At the start there are exactly minConnCount_ connections.
LEMMA InitWithinBounds ==
  ASSUME Init
  PROVE  WithinBounds
<1>1. CountIsLivePlusMin /\ IsFiniteSet(live) /\ count = CountedPerStart * MinConn
  BY InitIInv DEF IInv, Inv, TypeOK, Init
<1>2. Cardinality(live) \in Nat /\ MinConn \in Nat
  BY <1>1, FS_CardinalityType, PoolAssumption
<1>3. Cardinality(live) = MinConn
  BY <1>1, <1>2 DEF CountIsLivePlusMin, CountedPerStart
<1> QED
  BY <1>2, <1>3 DEF WithinBounds

\* Growing: the counter, which is too high, stops the producer in time.
LEMMA ProduceKeepsBounds ==
  ASSUME IInv, WithinBounds, Produce
  PROVE  WithinBounds'
<1>1. PICK c \in Conns \ live : live' = live \cup {c}
  BY DEF Produce
<1>2. IsFiniteSet(live) /\ count < MaxConn /\ count = Cardinality(live) + MinConn
  BY DEF IInv, Inv, TypeOK, CountIsLivePlusMin, Produce, MayGrow
<1>3. Cardinality(live') = Cardinality(live) + 1
  BY <1>1, <1>2, FS_AddElement
<1>4. Cardinality(live) \in Nat /\ MinConn \in Nat /\ MaxConn \in Nat
  BY <1>2, FS_CardinalityType, PoolAssumption
<1>5. Cardinality(live) >= MinConn
  BY DEF WithinBounds
<1> QED
  BY <1>2, <1>3, <1>4, <1>5 DEF WithinBounds

\* Shrinking: more than minConnCount_ connections are idle, so at least as
\* many are left, whatever the clients hold.
LEMMA RecycleKeepsBounds ==
  ASSUME IInv, WithinBounds, RecycleFront
  PROVE  WithinBounds'
<1>1. /\ queue \in Seq(Conns)
      /\ Distinct(queue)
      /\ IsFiniteSet(live)
      /\ Elements(queue) \subseteq live
      /\ Len(queue) > MinConn
      /\ live' = live \ {Head(queue)}
  BY DEF IInv, Inv, TypeOK, OneOwner, RecycleFront, MayShrink
<1>2. Cardinality(Elements(queue)) = Len(queue)
  BY <1>1, DistinctCount
<1>3. Cardinality(live) >= Len(queue)
  <2>1. Cardinality(Elements(queue)) <= Cardinality(live)
    BY <1>1, FS_Subset
  <2>2. Cardinality(live) \in Nat /\ Len(queue) \in Nat
    BY <1>1, FS_CardinalityType, LenProperties
  <2> QED
    BY <1>2, <2>1, <2>2
<1>4. Cardinality(live') <= Cardinality(live) /\ Cardinality(live') >= Cardinality(live) - 1
  <2>1. Cardinality(live') = IF Head(queue) \in live THEN Cardinality(live) - 1
                                                     ELSE Cardinality(live)
    BY <1>1, FS_RemoveElement
  <2>2. Cardinality(live) \in Nat
    BY <1>1, FS_CardinalityType
  <2> QED
    BY <2>1, <2>2
<1>5. /\ Cardinality(live) \in Nat
      /\ Cardinality(live') \in Nat
      /\ Len(queue) \in Nat
      /\ MinConn \in Nat
      /\ MaxConn \in Nat
  <2>1. IsFiniteSet(live')
    BY <1>1, FS_RemoveElement
  <2> QED
    BY <1>1, <2>1, FS_CardinalityType, LenProperties, PoolAssumption
<1> QED
  BY <1>1, <1>3, <1>4, <1>5 DEF WithinBounds

\* The pool keeps between minConnCount_ connections and the maximum, although
\* its counter is wrong and whatever the clients do (produceConnection,
\* recycleConnection).
THEOREM PoolStaysWithinBounds == Spec => []WithinBounds
<1>1. ASSUME IInv, WithinBounds, [Next]_vars
      PROVE  WithinBounds'
  <2>1. CASE Produce
    BY <1>1, <2>1, ProduceKeepsBounds
  <2>2. CASE RecycleFront
    BY <1>1, <2>2, RecycleKeepsBounds
  <2>3. CASE ~Produce /\ ~RecycleFront
    <3>1. live' = live
      BY <1>1, <2>3
      DEF Next, vars, ProducerStep, RecyclerStep, ClientStep, GetStart, Take,
          Wait, WaitTimeout, ReturnNull, GiveBack, ProducerWaits,
          ProducerSleeps, ProducerWakes, RecyclerLocks, RecyclerSleeps, Tick
    <3> QED
      BY <1>1, <3>1 DEF WithinBounds
  <2> QED
    BY <2>1, <2>2, <2>3
<1> QED
  BY <1>1, InitWithinBounds, IInvHolds, PTL DEF Spec

==============================================================================
