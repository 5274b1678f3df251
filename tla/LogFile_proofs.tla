---------------------------- MODULE LogFile_proofs ----------------------------
(***************************************************************************)
(* Proofs about LogFile.tla: however long the data, however fwrite cuts    *)
(* it, however the clock runs on and whatever local time makes of it, no   *)
(* byte is lost, repeated or put before an older one of its file, a file   *)
(* stays too large only within its second, and a new day is noticed before *)
(* checkEveryN_ appends.                                                   *)
(***************************************************************************)
EXTENDS LogFile, TLAPS

(***************************************************************************)
(* Sequences of consecutive bytes.                                         *)
(***************************************************************************)

LEMMA SeqEqual ==
  ASSUME NEW S, NEW s \in Seq(S), NEW t \in Seq(S), Len(s) = Len(t),
         \A k \in 1..Len(s) : s[k] = t[k]
  PROVE  s = t
  OBVIOUS

\* The bytes that follow on Bytes(a, b) make it longer.
LEMMA BytesJoin ==
  ASSUME NEW a \in Nat, NEW b \in Nat, NEW n \in Nat, a <= b + 1
  PROVE  Bytes(a, b) \o Bytes(b + 1, b + n) = Bytes(a, b + n)
<1> DEFINE s == Bytes(a, b)
           t == Bytes(b + 1, b + n)
           u == Bytes(a, b + n)
<1>1. s \in Seq(Int) /\ Len(s) = (b - a) + 1
  BY DEF Bytes
<1>2. t \in Seq(Int) /\ Len(t) = n
  BY DEF Bytes
<1>3. u \in Seq(Int) /\ Len(u) = ((b + n) - a) + 1
  BY DEF Bytes
<1>4. s \o t \in Seq(Int) /\ Len(s \o t) = Len(u)
  <2> HIDE DEF s, t, u
  <2>1. s \o t \in Seq(Int) /\ Len(s \o t) = Len(s) + Len(t)
    BY <1>1, <1>2
  <2>2. QED
    BY <1>1, <1>2, <1>3, <2>1
<1>5. ASSUME NEW k \in 1..Len(u) PROVE (s \o t)[k] = u[k]
  <2>1. CASE k <= Len(s)
    BY <1>1, <1>2, <1>3, <2>1 DEF Bytes
  <2>2. CASE k > Len(s)
    <3>1. (s \o t)[k] = t[k - Len(s)] /\ k - Len(s) \in 1..n
      <4> HIDE DEF s, t, u
      <4>1. k \in Int /\ k - Len(s) \in 1..Len(t) /\ k \in 1..(Len(s) + Len(t))
        BY <1>1, <1>2, <1>3, <2>2
      <4>2. QED
        BY <1>1, <1>2, <2>2, <4>1
    <3>2. QED
      BY <1>1, <1>3, <3>1 DEF Bytes
  <2>3. k \in Int /\ Len(s) \in Int
    BY <1>1, <1>3
  <2>4. k <= Len(s) \/ k > Len(s)
    BY <2>3
  <2>5. QED
    BY <2>1, <2>2, <2>4
<1>6. u \in Seq(Int)
  BY <1>3
<1> HIDE DEF s, t, u
<1>7. s \o t = u
  BY <1>3, <1>4, <1>5, <1>6, SeqEqual
<1>8. QED
  BY <1>7 DEF s, t, u

LEMMA BytesAreNumbers ==
  ASSUME NEW a \in Nat, a > 0, NEW b \in Int
  PROVE  Bytes(a, b) \in Seq(Nat)
<1>1. CASE b + 1 >= a
  BY <1>1 DEF Bytes
<1>2. CASE b + 1 < a
  BY <1>2 DEF Bytes
<1>3. QED
  BY <1>1, <1>2

LEMMA ConcatAssoc ==
  ASSUME NEW s \in Seq(Nat), NEW t \in Seq(Nat), NEW u \in Seq(Nat)
  PROVE  (s \o t) \o u = s \o (t \o u)
  OBVIOUS

(***************************************************************************)
(* The beginning of a day.                                                 *)
(***************************************************************************)

LEMMA PeriodOfNat ==
  ASSUME NEW t \in Nat PROVE PeriodOf(t) \in Nat
<1>1. kRollPerSeconds \in Nat /\ kRollPerSeconds > 0
  BY LogFileAssumption
<1>2. t \div kRollPerSeconds \in Nat
  BY <1>1
<1>3. QED
  BY <1>1, <1>2 DEF PeriodOf

\* A later time is not in an earlier day.
LEMMA PeriodOfMonotone ==
  ASSUME NEW t \in Nat, NEW u \in Nat, t <= u
  PROVE  PeriodOf(t) <= PeriodOf(u)
<1> DEFINE k == kRollPerSeconds
<1>1. k \in Nat /\ k > 0
  BY LogFileAssumption
<1> DEFINE q == t \div k
           r == u \div k
<1>2. q \in Nat /\ r \in Nat
  BY <1>1
<1>3. k * q <= t /\ u < k * (r + 1)
  BY <1>1
<1> HIDE DEF k, q, r
<1>4. q <= r
  <2> SUFFICES ASSUME q > r PROVE FALSE
    BY <1>2
  <2>1. r + 1 <= q
    BY <1>2
  <2>2. PICK d \in Nat : q = (r + 1) + d
    BY <1>2, <2>1
  <2>3. k * q = k * (r + 1) + k * d
    BY <1>1, <1>2, <2>2
  <2>4. k * d >= 0
    BY <1>1
  <2>5. k * (r + 1) \in Nat /\ k * d \in Nat /\ k * q \in Nat
    BY <1>1, <1>2
  <2>6. QED
    BY <1>3, <2>3, <2>4, <2>5
<1>5. PICK d \in Nat : r = q + d
  BY <1>2, <1>4
<1>6. r * k = q * k + d * k
  BY <1>1, <1>2, <1>5
<1>7. r * k \in Nat /\ q * k \in Nat /\ d * k \in Nat
  BY <1>1, <1>2
<1>8. q * k <= r * k
  BY <1>6, <1>7
<1>9. QED
  BY <1>8 DEF PeriodOf, q, r, k

(***************************************************************************)
(* The inductive invariant.                                                *)
(***************************************************************************)

\* What NothingLost says of the files and stdio between two steps of append():
\* d are the bytes of the files, b those in stdio, and n have been given to
\* fwrite.
In(d, m) == {d[m][k] : k \in 1..Len(d[m])}

Kept(d, b, n) ==
  /\ Len(b) <= n
  /\ b = Bytes((n - Len(b)) + 1, n)
  /\ UNION {In(d, m) : m \in Names} = 1..(n - Len(b))
  /\ \A m, l \in Names : m # l => In(d, m) \cap In(d, l) = {}
  /\ \A m \in Names : \A i, j \in 1..Len(d[m]) : i < j => d[m][i] < d[m][j]

LEMMA NothingLostIsKept ==
  /\ NothingLost <=> Kept(disk, stdio, Taken) /\ (pc = "idle" => stdio = <<>> /\ remain = 0)
  /\ NothingLost' <=> Kept(disk', stdio', Taken') /\ (pc' = "idle" => stdio' = <<>> /\ remain' = 0)
<1>1. \A m \in Names : Held(m) = In(disk, m) /\ Held(m)' = In(disk', m)
  BY DEF Held, In
<1>2. /\ UNION {Held(m) : m \in Names} = UNION {In(disk, m) : m \in Names}
      /\ UNION {Held(m)' : m \in Names} = UNION {In(disk', m) : m \in Names}
  BY <1>1
<1>3. /\ (\A m, l \in Names : m # l => Held(m) \cap Held(l) = {})
           <=> (\A m, l \in Names : m # l => In(disk, m) \cap In(disk, l) = {})
      /\ (\A m, l \in Names : m # l => Held(m)' \cap Held(l)' = {})
           <=> (\A m, l \in Names : m # l => In(disk', m) \cap In(disk', l) = {})
  BY <1>1, Zenon
<1>4. QED
  BY <1>2, <1>3 DEF NothingLost, Kept, Out

LEMMA NoBytes ==
  ASSUME NEW n \in Nat PROVE Bytes(n + 1, n) = <<>>
  BY DEF Bytes

LEMMA BytesOf ==
  ASSUME NEW a \in Nat, NEW b \in Nat, a <= b + 1
  PROVE  /\ Bytes(a, b) \in Seq(Int) /\ Len(Bytes(a, b)) = (b - a) + 1
         /\ \A k \in 1..((b - a) + 1) : Bytes(a, b)[k] = (a + k) - 1
  BY DEF Bytes

\* The bytes of two sequences put together.
LEMMA ConcatElements ==
  ASSUME NEW s \in Seq(Nat), NEW t \in Seq(Nat)
  PROVE  /\ s \o t \in Seq(Nat) /\ Len(s \o t) = Len(s) + Len(t)
         /\ \A k \in 1..Len(s) : (s \o t)[k] = s[k]
         /\ \A k \in 1..Len(t) : (s \o t)[Len(s) + k] = t[k]
         /\ {(s \o t)[k] : k \in 1..Len(s \o t)}
              = {s[k] : k \in 1..Len(s)} \cup {t[k] : k \in 1..Len(t)}
<1> DEFINE u == s \o t
<1>1. u \in Seq(Nat) /\ Len(u) = Len(s) + Len(t) /\ Len(s) \in Nat /\ Len(t) \in Nat
  OBVIOUS
<1>2. \A k \in 1..Len(s) : u[k] = s[k]
  OBVIOUS
<1>3. \A k \in 1..Len(t) : u[Len(s) + k] = t[k]
  OBVIOUS
<1> HIDE DEF u
<1>4. ASSUME NEW k \in 1..Len(u)
      PROVE  u[k] \in {s[i] : i \in 1..Len(s)} \cup {t[i] : i \in 1..Len(t)}
  <2>1. CASE k <= Len(s)
    <3>1. k \in 1..Len(s)
      BY <1>1, <2>1
    <3>2. QED
      BY <1>2, <3>1
  <2>2. CASE k > Len(s)
    <3>1. k - Len(s) \in 1..Len(t) /\ k = Len(s) + (k - Len(s))
      BY <1>1, <2>2
    <3>2. u[k] = t[k - Len(s)]
      BY <1>3, <3>1
    <3>3. QED
      BY <3>1, <3>2
  <2>3. QED
    BY <1>1, <2>1, <2>2
<1>5. ASSUME NEW k \in 1..Len(s) PROVE s[k] \in {u[i] : i \in 1..Len(u)}
  <2>1. k \in 1..Len(u) /\ u[k] = s[k]
    BY <1>1, <1>2
  <2>2. QED
    BY <2>1
<1>6. ASSUME NEW k \in 1..Len(t) PROVE t[k] \in {u[i] : i \in 1..Len(u)}
  <2>1. Len(s) + k \in 1..Len(u) /\ u[Len(s) + k] = t[k]
    BY <1>1, <1>3
  <2>2. QED
    BY <2>1
<1>7. {u[k] : k \in 1..Len(u)} = {s[k] : k \in 1..Len(s)} \cup {t[k] : k \in 1..Len(t)}
  BY <1>4, <1>5, <1>6
<1>8. QED
  BY <1>1, <1>2, <1>3, <1>7 DEF u

\* Flushing puts the bytes of stdio behind those of the file, which are older.
LEMMA FlushKept ==
  ASSUME NEW d \in [Names -> Seq(Nat)], NEW b \in Seq(Nat), NEW n \in Nat,
         NEW f \in Names, Kept(d, b, n)
  PROVE  /\ [d EXCEPT ![f] = @ \o b] \in [Names -> Seq(Nat)]
         /\ Kept([d EXCEPT ![f] = @ \o b], <<>>, n)
<1> DEFINE e == [d EXCEPT ![f] = @ \o b]
           o == n - Len(b)
<1>1. /\ Len(b) \in Nat /\ Len(b) <= n /\ o \in Nat
      /\ b = Bytes(o + 1, n)
      /\ UNION {In(d, m) : m \in Names} = 1..o
      /\ \A m, l \in Names : m # l => In(d, m) \cap In(d, l) = {}
      /\ \A m \in Names : \A i, j \in 1..Len(d[m]) : i < j => d[m][i] < d[m][j]
  BY DEF Kept
<1>2. d[f] \in Seq(Nat) /\ e[f] = d[f] \o b /\ (\A m \in Names : m # f => e[m] = d[m])
  OBVIOUS
<1>3. e \in [Names -> Seq(Nat)]
  OBVIOUS
<1>4. \A k \in 1..Len(b) : b[k] = o + k
  <2>1. o + 1 \in Nat /\ o + 1 <= n + 1 /\ (n - (o + 1)) + 1 = Len(b)
    BY <1>1
  <2>2. \A k \in 1..Len(b) : b[k] = ((o + 1) + k) - 1
    <3> HIDE DEF o
    <3>1. \A k \in 1..((n - (o + 1)) + 1) : Bytes(o + 1, n)[k] = ((o + 1) + k) - 1
      BY <2>1, BytesOf
    <3>2. QED
      BY <1>1, <2>1, <3>1
  <2> HIDE DEF o
  <2>3. QED
    BY <1>1, <2>2
<1>5. {b[k] : k \in 1..Len(b)} = (o + 1)..n
  <2>1. \A k \in 1..Len(b) : b[k] \in (o + 1)..n
    BY <1>1, <1>4
  <2>2. ASSUME NEW x \in (o + 1)..n PROVE x \in {b[k] : k \in 1..Len(b)}
    <3>1. x - o \in 1..Len(b) /\ o + (x - o) = x
      BY <1>1
    <3>2. QED
      BY <1>4, <3>1
  <2>3. QED
    BY <2>1, <2>2
<1>6. /\ Len(e[f]) = Len(d[f]) + Len(b)
      /\ \A k \in 1..Len(d[f]) : e[f][k] = d[f][k]
      /\ \A k \in 1..Len(b) : e[f][Len(d[f]) + k] = b[k]
      /\ In(e, f) = In(d, f) \cup {b[k] : k \in 1..Len(b)}
  <2>1. /\ Len(d[f] \o b) = Len(d[f]) + Len(b)
        /\ \A k \in 1..Len(d[f]) : (d[f] \o b)[k] = d[f][k]
        /\ \A k \in 1..Len(b) : (d[f] \o b)[Len(d[f]) + k] = b[k]
        /\ {(d[f] \o b)[k] : k \in 1..Len(d[f] \o b)}
             = {d[f][k] : k \in 1..Len(d[f])} \cup {b[k] : k \in 1..Len(b)}
    BY <1>2, ConcatElements
  <2>2. QED
    BY <1>2, <2>1 DEF In
<1>7. \A m \in Names : m # f => In(e, m) = In(d, m)
  BY <1>2 DEF In
<1> HIDE DEF e, o
<1>8. \A m \in Names : In(d, m) \subseteq 1..o
  BY <1>1
<1>9. UNION {In(e, m) : m \in Names} = 1..n
  <2>1. UNION {In(e, m) : m \in Names} = (1..o) \cup ((o + 1)..n)
    <3> DEFINE A == 1..o
               B == (o + 1)..n
    <3>1. UNION {In(d, m) : m \in Names} = A /\ In(e, f) = In(d, f) \cup B
      BY <1>1, <1>5, <1>6
    <3> HIDE DEF A, B
    <3>2. ASSUME NEW x \in UNION {In(e, m) : m \in Names} PROVE x \in A \cup B
      BY <1>7, <3>1, <3>2
    <3>3. ASSUME NEW x \in A \cup B PROVE x \in UNION {In(e, m) : m \in Names}
      <4>1. CASE x \in B
        BY <3>1, <4>1
      <4>2. CASE x \in A
        <5>1. PICK m \in Names : x \in In(d, m)
          BY <3>1, <4>2
        <5>2. x \in In(e, m)
          BY <1>7, <3>1, <5>1
        <5>3. QED
          BY <5>2
      <4>3. QED
        BY <3>3, <4>1, <4>2
    <3>4. QED
      BY <3>2, <3>3 DEF A, B
  <2>2. o <= n
    BY <1>1 DEF o
  <2>3. QED
    BY <1>1, <2>1, <2>2
<1>10. \A m \in Names : In(d, m) \cap ((o + 1)..n) = {}
  BY <1>1, <1>8
<1>11. \A m, l \in Names : m # l => In(e, m) \cap In(e, l) = {}
  BY <1>1, <1>5, <1>6, <1>7, <1>10
<1>12. \A i, j \in 1..Len(e[f]) : i < j => e[f][i] < e[f][j]
  <2> SUFFICES ASSUME NEW i \in 1..Len(e[f]), NEW j \in 1..Len(e[f]), i < j
               PROVE  e[f][i] < e[f][j]
    OBVIOUS
  <2>1. Len(d[f]) \in Nat /\ i \in Int /\ j \in Int
    BY <1>2
  <2>2. CASE j <= Len(d[f])
    <3>1. i \in 1..Len(d[f]) /\ j \in 1..Len(d[f])
      BY <2>1, <2>2
    <3>2. QED
      BY <1>1, <1>6, <3>1
  <2>3. CASE i > Len(d[f])
    <3>1. /\ i - Len(d[f]) \in 1..Len(b) /\ Len(d[f]) + (i - Len(d[f])) = i
          /\ j - Len(d[f]) \in 1..Len(b) /\ Len(d[f]) + (j - Len(d[f])) = j
      BY <1>1, <1>6, <2>1, <2>3
    <3>2. e[f][i] = o + (i - Len(d[f])) /\ e[f][j] = o + (j - Len(d[f]))
      BY <1>4, <1>6, <3>1
    <3>3. QED
      BY <1>1, <2>1, <3>2
  <2>4. CASE i <= Len(d[f]) /\ j > Len(d[f])
    <3>1. i \in 1..Len(d[f]) /\ j - Len(d[f]) \in 1..Len(b)
          /\ Len(d[f]) + (j - Len(d[f])) = j
      BY <1>1, <1>6, <2>1, <2>4
    <3>2. e[f][i] \in 1..o
      BY <1>6, <1>8, <3>1 DEF In
    <3>3. e[f][j] = o + (j - Len(d[f]))
      BY <1>4, <1>6, <3>1
    <3>4. QED
      BY <1>1, <2>1, <2>4, <3>2, <3>3
  <2>5. QED
    BY <2>1, <2>2, <2>3, <2>4
<1>13. \A m \in Names : \A i, j \in 1..Len(e[m]) : i < j => e[m][i] < e[m][j]
  BY <1>1, <1>2, <1>12 DEF e
<1>14. <<>> = Bytes((n - Len(<<>>)) + 1, n) /\ Len(<<>>) <= n /\ n - Len(<<>>) = n
  <2>1. Len(<<>>) = 0 /\ n - 0 = n
    OBVIOUS
  <2>2. <<>> = Bytes(n + 1, n)
    BY NoBytes
  <2>3. QED
    BY <2>1, <2>2
<1>15. Kept(e, <<>>, n)
  BY <1>9, <1>11, <1>13, <1>14 DEF Kept
<1>16. QED
  BY <1>3, <1>15 DEF e

\* What the parts of Inv say of the files survives a flush of the buffer.
LEMMA FlushKeeps ==
  ASSUME Inv, disk' = Flushed, stdio' = <<>>, UNCHANGED <<appended, remain>>
  PROVE  /\ disk' \in [Names -> Seq(Nat)]
         /\ Kept(disk', stdio', Taken')
<1>1. /\ disk \in [Names -> Seq(Nat)] /\ stdio \in Seq(Nat) /\ name \in Names
      /\ Kept(disk, stdio, Taken)
  BY NothingLostIsKept DEF Inv, TypeOK
<1>2. Taken \in Nat /\ Taken' = Taken
  BY DEF Inv, TypeOK, InStep, Taken
<1>3. QED
  BY <1>1, <1>2, FlushKept DEF Flushed

LEMMA InitInv == Init => Inv
<1> SUFFICES ASSUME Init PROVE Inv
  OBVIOUS
<1> USE DEF Init
<1>1. MaxClock \in Nat /\ MaxClock >= 1 /\ LocalTime[1] \in Names
  BY LogFileAssumption
<1>2. TypeOK
  BY <1>1, PeriodOfNat DEF TypeOK
<1>3. NothingLost
  <2>1. Bytes(1, 0) = <<>>
    BY DEF Bytes
  <2>2. Taken = 0 /\ Out = 0 /\ Len(stdio) = 0 /\ stdio = <<>>
    <3>1. appended = 0 /\ remain = 0 /\ stdio = <<>> /\ Len(<<>>) = 0
      OBVIOUS
    <3> HIDE DEF Init
    <3>2. Taken = 0
      BY <3>1 DEF Taken
    <3>3. Len(stdio) = 0
      BY <3>1
    <3>4. Out = 0 - 0
      BY <3>2, <3>3, Zenon DEF Out
    <3>5. QED
      BY <3>1, <3>2, <3>3, <3>4
  <2>3. \A n \in Names : disk[n] = <<>> /\ Len(disk[n]) = 0
    OBVIOUS
  <2>4. \A n \in Names : Held(n) = {}
    BY <2>3 DEF Held
  <2>5. UNION {Held(n) : n \in Names} = 1..Out
    BY <2>2, <2>4
  <2>6. remain = 0
    OBVIOUS
  <2> HIDE DEF Init
  <2>7. QED
    BY <2>1, <2>2, <2>3, <2>4, <2>5, <2>6 DEF NothingLost
<1>5. InStep
  BY <1>1 DEF InStep
<1>6. SizeIsChecked /\ DayIsChecked
  BY DEF SizeIsChecked, DayIsChecked
<1>7. QED
  BY <1>2, <1>3, <1>5, <1>6 DEF Inv

(***************************************************************************)
(* Each step keeps it.                                                     *)
(***************************************************************************)

\* What NothingLost speaks of is left alone.
LEMMA NothingMoves ==
  ASSUME NothingLost, UNCHANGED <<disk, stdio>>, Taken' = Taken,
         pc' = "idle" => pc = "idle" /\ remain' = remain
  PROVE  NothingLost'
<1>1. Kept(disk, stdio, Taken) /\ (pc = "idle" => stdio = <<>> /\ remain = 0)
  BY NothingLostIsKept
<1>2. Kept(disk', stdio', Taken') /\ (pc' = "idle" => stdio' = <<>> /\ remain' = 0)
  BY <1>1
<1>3. QED
  BY <1>2, NothingLostIsKept

LEMMA ClockInv ==
  ASSUME Inv, Tick PROVE Inv'
<1> USE DEF Inv, Tick, counters, history
<1>1. TypeOK'
  BY LogFileAssumption DEF TypeOK
<1>2. NothingLost'
  BY NothingMoves DEF Taken
<1>3. InStep'
  <2>1. lastRoll' <= clock' /\ calledAt' <= clock'
    BY LogFileAssumption DEF TypeOK, InStep
  <2>2. PeriodOf(lastRoll)' = PeriodOf(lastRoll)
    BY DEF PeriodOf
  <2>3. QED
    BY <2>1, <2>2 DEF InStep
<1>4. SizeIsChecked' /\ DayIsChecked'
  BY DEF SizeIsChecked, DayIsChecked, PeriodOf
<1>5. QED
  BY <1>1, <1>2, <1>3, <1>4

LEMMA StdioInv ==
  ASSUME Inv, StdioWritesOut PROVE Inv'
<1> USE DEF Inv, StdioWritesOut, counters, history
<1>1. disk' = Flushed /\ stdio' = <<>> /\ UNCHANGED <<appended, remain, pc>>
  OBVIOUS
<1>2. disk' \in [Names -> Seq(Nat)] /\ Kept(disk', stdio', Taken')
  BY <1>1, FlushKeeps
<1>3. TypeOK'
  BY <1>2 DEF TypeOK
<1>4. NothingLost'
  BY <1>1, <1>2, NothingLostIsKept
<1>5. InStep'
  BY DEF InStep, PeriodOf
<1>6. SizeIsChecked' /\ DayIsChecked'
  BY DEF SizeIsChecked, DayIsChecked, PeriodOf
<1>7. QED
  BY <1>3, <1>4, <1>5, <1>6

LEMMA AppendStartInv ==
  ASSUME Inv, AppendStart PROVE Inv'
<1> USE DEF Inv, AppendStart, counters
<1>1. PICK len \in Lens : remain' = len /\ appended' = appended + len
  OBVIOUS
<1>2. len \in Nat /\ len > 0
  BY LogFileAssumption
<1>3. remain = 0
  BY DEF InStep
<1>4. Taken' = Taken
  BY <1>1, <1>2, <1>3 DEF Taken, TypeOK
<1>5. TypeOK'
  <2>1. remain' \in Nat /\ appended' \in Nat /\ calledAt' \in Nat
    BY <1>1, <1>2 DEF TypeOK
  <2>2. UNCHANGED <<clock, disk, name, stdio, written, counters, checkedAt, late>>
        /\ pc' = "write"
    OBVIOUS
  <2>3. TypeOK
    OBVIOUS
  <2> HIDE DEF Inv, AppendStart
  <2>4. QED
    BY <2>1, <2>2, <2>3 DEF TypeOK
<1>6. NothingLost'
  BY <1>4, NothingMoves
<1>7. InStep'
  <2>1. UNCHANGED <<name, lastRoll, startOfPeriod, clock>> /\ pc' = "write" /\ calledAt' = clock
    OBVIOUS
  <2>2. remain' <= appended' /\ (remain' = 0 <=> pc' # "write")
    <3>1. appended \in Nat
      BY DEF TypeOK
    <3> HIDE DEF Inv, AppendStart
    <3>2. QED
      BY <1>1, <1>2, <2>1, <3>1
  <2>4. /\ name = LocalTime[lastRoll] /\ startOfPeriod = PeriodOf(lastRoll)
        /\ lastRoll <= clock /\ lastRoll \in 1..MaxClock
    BY DEF InStep
  <2>5. calledAt' <= clock'
    BY <2>1 DEF TypeOK
  <2>6. PeriodOf(lastRoll)' = PeriodOf(lastRoll)
    BY <2>1 DEF PeriodOf
  <2>7. QED
    BY <2>1, <2>2, <2>4, <2>5, <2>6 DEF InStep
<1>8. SizeIsChecked' /\ DayIsChecked'
  BY DEF SizeIsChecked, DayIsChecked
<1>9. QED
  BY <1>5, <1>6, <1>7, <1>8

\* What fwrite takes goes on where the bytes before it ended.
LEMMA WriteInv ==
  ASSUME Inv, Write PROVE Inv'
<1> USE DEF Inv, Write, counters, history
<1>1. PICK n \in 1..remain :
        /\ stdio' = stdio \o Bytes(Taken + 1, Taken + n)
        /\ remain' = remain - n
        /\ written' = written + n
  BY DEF StillToWrite
<1>2. /\ remain \in Nat /\ appended \in Nat /\ written \in Nat
      /\ stdio \in Seq(Nat) /\ n \in Nat /\ n <= remain
      /\ remain <= appended
  BY DEF TypeOK, InStep
<1>3. Taken \in Nat /\ Taken' = Taken + n /\ remain' \in Nat /\ remain' <= appended
  BY <1>1, <1>2 DEF Taken
<1>4. /\ Len(stdio) \in Nat /\ Len(stdio) <= Taken
      /\ stdio = Bytes((Taken - Len(stdio)) + 1, Taken)
      /\ Kept(disk, stdio, Taken)
  <2>1. Kept(disk, stdio, Taken)
    BY NothingLostIsKept
  <2> HIDE DEF Inv, Write
  <2>2. QED
    BY <1>2, <2>1 DEF Kept
<1>5. /\ Bytes(Taken + 1, Taken + n) \in Seq(Nat)
      /\ Len(Bytes(Taken + 1, Taken + n)) = n
  <2>1. Taken + 1 \in Nat /\ Taken + 1 > 0 /\ Taken + n \in Nat
        /\ Taken + 1 <= (Taken + n) + 1 /\ ((Taken + n) - (Taken + 1)) + 1 = n
    BY <1>2, <1>3
  <2> HIDE DEF Inv, Write
  <2>2. Bytes(Taken + 1, Taken + n) \in Seq(Nat)
    BY <2>1, BytesAreNumbers
  <2>3. Len(Bytes(Taken + 1, Taken + n)) = ((Taken + n) - (Taken + 1)) + 1
    BY <2>1, BytesOf
  <2>4. QED
    BY <2>1, <2>2, <2>3
<1>6. TypeOK'
  <2>1. stdio' \in Seq(Nat) /\ written' \in Nat
    BY <1>1, <1>2, <1>5
  <2>2. pc' \in {"size", "write"}
    OBVIOUS
  <2>3. QED
    BY <1>3, <2>1, <2>2 DEF TypeOK
<1>7. NothingLost'
  <2> DEFINE o == Taken - Len(stdio)
  <2>1. o \in Nat /\ o <= Taken
    BY <1>3, <1>4
  <2>2. Len(stdio') = Len(stdio) + n
    <3> HIDE DEF Inv, Write
    <3>1. stdio' = stdio \o Bytes(Taken + 1, Taken + n)
      BY <1>1
    <3>2. QED
      BY <1>2, <1>5, <3>1, ConcatElements
  <2>3. Len(stdio') <= Taken' /\ Taken' - Len(stdio') = o
    <3> HIDE DEF Inv, Write
    <3>1. QED
      BY <1>2, <1>3, <1>4, <2>2
  <2>4. Bytes(o + 1, Taken) \o Bytes(Taken + 1, Taken + n) = Bytes(o + 1, Taken + n)
    <3> HIDE DEF Inv, Write, o
    <3>1. o + 1 \in Nat /\ o + 1 <= Taken + 1
      BY <1>3, <2>1
    <3>2. QED
      BY <1>2, <1>3, <3>1, BytesJoin
  <2>5. stdio' = Bytes(o + 1, Taken')
    BY <1>1, <1>3, <1>4, <2>4
  <2>6. disk' = disk /\ pc' # "idle"
    OBVIOUS
  <2> HIDE DEF Inv, Write
  <2>7. Kept(disk', stdio', Taken')
    BY <1>4, <2>3, <2>5, <2>6 DEF Kept
  <2>8. QED
    BY <2>6, <2>7, NothingLostIsKept
<1>11. InStep'
  <2>1. remain' = 0 <=> pc' # "write"
    OBVIOUS
  <2>3. QED
    BY <1>3, <2>1 DEF InStep, PeriodOf
<1>12. SizeIsChecked' /\ DayIsChecked'
  BY DEF SizeIsChecked, DayIsChecked
<1>13. QED
  BY <1>6, <1>7, <1>11, <1>12

LEMMA SizeCheckInv ==
  ASSUME Inv, SizeCheck PROVE Inv'
<1> USE DEF Inv, SizeCheck, history
<1>1. TypeOK'
  BY DEF TypeOK, IsFull
<1>2. pc' \in {"roll", "check", "flush"}
  OBVIOUS
<1>3. NothingLost'
  BY <1>2, NothingMoves DEF Taken
<1>4. InStep'
  BY <1>2 DEF InStep, PeriodOf
<1>5. SizeIsChecked'
  BY LogFileAssumption DEF SizeIsChecked, IsFull, TypeOK
<1>6. DayIsChecked'
  <2>1. pc' = "flush" => count' = count + 1 /\ count + 1 < checkEveryN
    BY LogFileAssumption DEF TypeOK
  <2>2. late = 0 \/ (late <= count /\ count < checkEveryN)
    BY DEF DayIsChecked
  <2>3. late \in Nat /\ count \in Nat /\ late' = late
    BY DEF TypeOK
  <2>4. pc' = "flush" => late' < count' /\ count' < checkEveryN
    BY <2>1, <2>2, <2>3
  <2>5. QED
    BY <1>2, <2>4 DEF DayIsChecked
<1>7. QED
  BY <1>1, <1>3, <1>4, <1>5, <1>6

\* If no new day is seen, this append() was called on the day of the file.
LEMMA PeriodCheckInv ==
  ASSUME Inv, PeriodCheck PROVE Inv'
<1> USE DEF Inv, PeriodCheck, CountAfterCheck, history
<1>1. pc' \in {"roll", "flush"} /\ count' = 0 /\ UNCHANGED <<appended, remain>>
  OBVIOUS
<1>2. TypeOK' /\ NothingLost'
  <2>1. CASE disk' = Flushed /\ stdio' = <<>>
    <3>1. disk' \in [Names -> Seq(Nat)] /\ Kept(disk', stdio', Taken')
      BY <1>1, <2>1, FlushKeeps
    <3>2. lastFlush' \in Nat
      BY DEF TypeOK
    <3>3. TypeOK'
      BY <1>1, <2>1, <3>1, <3>2 DEF TypeOK
    <3>4. QED
      BY <1>1, <3>1, <3>3, NothingLostIsKept
  <2>2. CASE UNCHANGED <<disk, stdio, lastFlush>>
    <3>1. TypeOK'
      BY <2>2 DEF TypeOK
    <3>2. NothingLost'
      BY <1>1, <2>2, NothingMoves DEF Taken
    <3>3. QED
      BY <3>1, <3>2
  <2>3. QED
    BY <2>1, <2>2
<1>3. InStep'
  BY DEF InStep, PeriodOf
<1>4. SizeIsChecked'
  <2>1. written <= rollSize /\ written' = written
    BY DEF SizeIsChecked
  <2>2. ~(written > rollSize)
    BY <2>1, LogFileAssumption DEF TypeOK
  <2>3. QED
    BY <2>1, <2>2 DEF SizeIsChecked
<1>5. DayIsChecked'
  <2>1. CASE pc' = "flush"
    <3>1. PeriodOf(clock) = startOfPeriod
      BY <2>1 DEF IsNewDay
    <3>2. calledAt \in Nat /\ clock \in Nat /\ calledAt <= clock
      BY DEF TypeOK, InStep
    <3>3. PeriodOf(calledAt) <= startOfPeriod
      BY <3>1, <3>2, PeriodOfMonotone
    <3>4. QED
      BY <2>1, <3>3 DEF DayIsChecked, PeriodOf
  <2>2. CASE pc' = "roll"
    BY <2>2 DEF DayIsChecked
  <2>3. QED
    BY <2>1, <2>2
<1>6. QED
  BY <1>2, <1>3, <1>4, <1>5

\* The file that is opened may be an older one, the current one among them:
\* what it holds is older than what follows.
LEMMA RollFileInv ==
  ASSUME Inv, RollFile PROVE Inv'
<1> USE DEF Inv, RollFile, MayRoll, Opened, history
<1>1. /\ remain = 0 /\ remain <= appended /\ clock \in Nat /\ clock \in 1..MaxClock
      /\ Taken' = Taken
  BY DEF InStep, TypeOK, Taken
<1>2. disk' = Flushed /\ stdio' = <<>> /\ UNCHANGED <<appended, remain>> /\ pc' = "flush"
  OBVIOUS
<1>3. disk' \in [Names -> Seq(Nat)] /\ Kept(disk', stdio', Taken')
  BY <1>2, FlushKeeps
<1>4. TypeOK'
  <2>1. PeriodOf(clock) \in Nat /\ LocalTime[clock] \in Names
    BY <1>1, PeriodOfNat, LogFileAssumption
  <2>2. /\ clock' \in 1..MaxClock /\ count' \in Nat /\ remain' \in Nat /\ appended' \in Nat
        /\ calledAt' \in Nat /\ checkedAt' \in Nat /\ late' \in Nat
    BY DEF TypeOK
  <2>3. /\ startOfPeriod' \in Nat /\ lastRoll' \in Nat /\ lastFlush' \in Nat
        /\ name' \in Names /\ written' \in Nat
    BY <1>1, <2>1
  <2>4. stdio' \in Seq(Nat)
    BY <1>2
  <2> HIDE DEF RollFile, Inv, MayRoll
  <2>5. QED
    BY <1>2, <1>3, <2>2, <2>3, <2>4 DEF TypeOK
<1>5. NothingLost'
  BY <1>2, <1>3, NothingLostIsKept
<1>6. InStep'
  <2>1. startOfPeriod' = PeriodOf(lastRoll')
    BY DEF PeriodOf
  <2>2. lastRoll' \in 1..MaxClock /\ lastRoll' <= clock' /\ calledAt' <= clock'
    BY <1>1 DEF InStep
  <2>3. QED
    BY <1>1, <2>1, <2>2 DEF InStep
<1>7. SizeIsChecked'
  BY LogFileAssumption DEF SizeIsChecked
<1>8. DayIsChecked'
  <2>1. calledAt \in Nat /\ clock \in Nat /\ calledAt <= clock
    BY DEF TypeOK, InStep
  <2>2. PeriodOf(calledAt) <= PeriodOf(clock)
    BY <2>1, PeriodOfMonotone
  <2>3. QED
    BY <2>2 DEF DayIsChecked, PeriodOf
<1>9. QED
  BY <1>4, <1>5, <1>6, <1>7, <1>8

\* A roll is only declined in the second the file was opened in.
LEMMA RollTooSoonInv ==
  ASSUME Inv, RollTooSoon PROVE Inv'
<1> USE DEF Inv, RollTooSoon, MayRoll, counters
<1>1. clock = lastRoll
  BY DEF TypeOK, InStep
<1>2. TypeOK'
  BY DEF TypeOK
<1>3. NothingLost'
  BY NothingMoves DEF Taken
<1>4. InStep'
  BY DEF InStep, PeriodOf
<1>5. SizeIsChecked'
  BY <1>1 DEF SizeIsChecked
<1>6. DayIsChecked'
  <2>1. calledAt \in Nat /\ clock \in Nat /\ calledAt <= clock
    BY DEF TypeOK, InStep
  <2>2. PeriodOf(calledAt) <= startOfPeriod
    BY <1>1, <2>1, PeriodOfMonotone DEF InStep
  <2>3. QED
    BY <2>2 DEF DayIsChecked, PeriodOf
<1>7. QED
  BY <1>2, <1>3, <1>4, <1>5, <1>6

LEMMA ReturnInv ==
  ASSUME Inv, Return PROVE Inv'
<1> USE DEF Inv, Return, counters
<1>1. disk' = Flushed /\ stdio' = <<>> /\ UNCHANGED <<appended, remain>>
  OBVIOUS
<1>2. late \in Nat /\ late' \in Nat
  BY DEF TypeOK
<1>3. disk' \in [Names -> Seq(Nat)] /\ Kept(disk', stdio', Taken')
  BY <1>1, FlushKeeps
<1>4. TypeOK'
  BY <1>1, <1>2, <1>3 DEF TypeOK
<1>5. NothingLost'
  <2>1. remain' = 0
    BY DEF InStep
  <2>2. QED
    BY <1>1, <1>3, <2>1, NothingLostIsKept
<1>6. InStep'
  BY DEF InStep, PeriodOf
<1>7. SizeIsChecked'
  BY DEF SizeIsChecked
<1>8. DayIsChecked'
  <2>1. CASE PeriodOf(calledAt) > startOfPeriod
    <3>1. late < count /\ count < checkEveryN
      <4>1. PeriodOf(calledAt) \in Nat /\ startOfPeriod \in Nat
        BY PeriodOfNat DEF TypeOK
      <4>2. ~(PeriodOf(calledAt) <= startOfPeriod)
        BY <2>1, <4>1
      <4>3. QED
        BY <4>2 DEF DayIsChecked
    <3>2. late' <= count' /\ count' < checkEveryN
      BY <1>2, <2>1, <3>1 DEF TypeOK
    <3>3. QED
      BY <3>2 DEF DayIsChecked
  <2>2. CASE ~(PeriodOf(calledAt) > startOfPeriod)
    BY <2>2 DEF DayIsChecked
  <2>3. QED
    BY <2>1, <2>2
<1>9. QED
  BY <1>4, <1>5, <1>6, <1>7, <1>8

LEMMA StutterInv ==
  ASSUME Inv, UNCHANGED vars PROVE Inv'
<1> USE DEF vars, counters, history
<1>1. TypeOK'
  BY DEF Inv, TypeOK
<1>2. NothingLost'
  BY NothingMoves DEF Inv, Taken
<1>3. InStep' /\ SizeIsChecked' /\ DayIsChecked'
  BY DEF Inv, InStep, SizeIsChecked, DayIsChecked, PeriodOf
<1>4. QED
  BY <1>1, <1>2, <1>3 DEF Inv

(***************************************************************************)
(* The theorems.                                                           *)
(***************************************************************************)

\* No byte given to append() is lost or repeated, and every file tells its bytes
\* in the order they were given, whatever local time makes of the names: a roll
\* that opens an older file goes on where that ended (Inv: FileUtil::append,
\* rollFile, getLogFileName).
THEOREM FilesInvHolds == Spec => []Inv
<1>1. Init => Inv
  BY InitInv
<1>2. Inv /\ [Next]_vars => Inv'
  <2> SUFFICES ASSUME Inv, [Next]_vars PROVE Inv'
    OBVIOUS
  <2>1. CASE AppendStep
    BY <2>1, AppendStartInv, WriteInv, SizeCheckInv, PeriodCheckInv, RollFileInv,
       RollTooSoonInv, ReturnInv DEF AppendStep
  <2>2. CASE StdioWritesOut \/ Tick
    BY <2>2, StdioInv, ClockInv
  <2>3. CASE UNCHANGED vars
    BY <2>3, StutterInv
  <2>4. QED
    BY <2>1, <2>2, <2>3 DEF Next
<1>3. QED
  BY <1>1, <1>2, PTL DEF Spec

\* A file stays larger than rollSize_ only while its second lasts (append,
\* rollFile).
THEOREM LargeFilesAreRolled == Spec => []LargeOnlyInItsSecond
<1>1. Inv => LargeOnlyInItsSecond
  BY DEF Inv, InStep, SizeIsChecked, LargeOnlyInItsSecond
<1>2. QED
  BY <1>1, FilesInvHolds, PTL

\* A new day is noticed before checkEveryN_ appends have gone to the file of
\* the day before (append's period check).
THEOREM NewDayIsNoticed == Spec => []SoonANewDay
<1>1. Inv => SoonANewDay
  BY LogFileAssumption DEF Inv, TypeOK, DayIsChecked, SoonANewDay
<1>2. QED
  BY <1>1, FilesInvHolds, PTL
===============================================================================
