---------------------------- MODULE HttpServer_proofs ----------------------------
(***************************************************************************)
(* Proofs about HttpServer, for any requests a client may send, any number *)
(* of them and any files, and about the Buffer that onMessage parses.      *)
(*                                                                         *)
(* Three parts: the loop over the body of a form undoes the client's       *)
(* encoding; an invariant of the parser says how far it is in which        *)
(* request, whatever the pieces; and Buffer gives back the bytes put in.   *)
(***************************************************************************)
EXTENDS HttpServer, Buffer, SequenceTheorems, WellFoundedInduction, TLAPS

------------------------------------------------------------------------------
(* Induction *)

\* Induction over the naturals, for a set.
LEMMA InductionOverNat ==
  ASSUME NEW Holds, 0 \in Holds, \A n \in Nat : n \in Holds => n + 1 \in Holds
  PROVE  \A n \in Nat : n \in Holds
<1> DEFINE S == Nat \ Holds
<1> SUFFICES ASSUME S # {} PROVE FALSE
  OBVIOUS
<1>1. PICK m \in S : \A k \in S : ~(<<k, m>> \in OpToRel(<, Nat))
  <2>1. S \subseteq Nat
    OBVIOUS
  <2> HIDE DEF S
  <2> QED
    BY <2>1, WFMin, NatLessThanWellFounded, Zenon
<1>2. \A k \in S : ~(k < m)
  BY <1>1 DEF OpToRel
<1>3. m \in Nat /\ m \notin Holds /\ m # 0
  OBVIOUS
<1> HIDE DEF S
<1>6. m - 1 \in Nat /\ m - 1 < m /\ (m - 1) + 1 = m
  BY <1>3
<1>4. m - 1 \in Holds
  BY <1>2, <1>6 DEF S
<1>5. (m - 1) + 1 \in Holds
  BY <1>4, <1>6
<1> QED
  BY <1>3, <1>5, <1>6, Zenon

------------------------------------------------------------------------------
(* FlattenSeq *)

\* f is the function FlattenSeq(ss) is computed with.
IsFlatten(f, ss) ==
  f = [i \in 1..Len(ss) |-> IF i = 1 THEN ss[i] ELSE f[i - 1] \o ss[i]]

LEMMA FlattenExists ==
  ASSUME NEW S, NEW ss \in Seq(S)
  PROVE  \E f : IsFlatten(f, ss)
<1> DEFINE Holds == {n \in Nat : \A tt \in Seq(S) : Len(tt) = n => \E f : IsFlatten(f, tt)}
<1>1. 0 \in Holds
  <2> SUFFICES ASSUME NEW tt \in Seq(S), Len(tt) = 0 PROVE \E f : IsFlatten(f, tt)
    OBVIOUS
  <2> DEFINE f == [i \in 1..0 |-> 0]
  <2>1. IsFlatten(f, tt)
    BY DEF IsFlatten
  <2> QED
    BY <2>1
<1>2. ASSUME NEW n \in Nat, n \in Holds PROVE n + 1 \in Holds
  <2> SUFFICES ASSUME NEW tt \in Seq(S), Len(tt) = n + 1 PROVE \E f : IsFlatten(f, tt)
    OBVIOUS
  <2> DEFINE front == SubSeq(tt, 1, n)
  <2>1. front \in Seq(S) /\ Len(front) = n /\ \A i \in 1..n : front[i] = tt[i]
    BY <1>2
  <2>2. PICK g : IsFlatten(g, front)
    BY <1>2, <2>1
  <2> HIDE DEF front
  <2> DEFINE f == [i \in 1..(n + 1) |->
                     IF i <= n THEN g[i] ELSE IF i = 1 THEN tt[i] ELSE g[n] \o tt[i]]
  <2>3. \A i \in 1..n : g[i] = IF i = 1 THEN tt[i] ELSE g[i - 1] \o tt[i]
    BY <2>1, <2>2 DEF IsFlatten
  <2>4. ASSUME NEW i \in 1..(n + 1)
        PROVE  f[i] = IF i = 1 THEN tt[i] ELSE f[i - 1] \o tt[i]
    <3>1. CASE i <= n
      <4>1. i \in 1..n /\ (i # 1 => i - 1 \in 1..(n + 1) /\ i - 1 <= n)
        BY <3>1
      <4>2. f[i] = g[i] /\ (i # 1 => f[i - 1] = g[i - 1])
        BY <3>1, <4>1
      <4> HIDE DEF f
      <4> QED
        BY <2>3, <4>1, <4>2
    <3>2. CASE i = n + 1
      <4>1. ~(i <= n) /\ (i # 1 => i - 1 = n /\ n \in 1..(n + 1) /\ n <= n)
        BY <3>2
      <4>2. f[i] = IF i = 1 THEN tt[i] ELSE g[n] \o tt[i]
        BY <4>1
      <4>3. i # 1 => f[i - 1] = g[n]
        BY <4>1
      <4> HIDE DEF f
      <4> QED
        BY <4>2, <4>3
    <3> QED
      BY <3>1, <3>2
  <2>5. IsFlatten(f, tt)
    <3>1. f = [i \in 1..(n + 1) |-> f[i]]
      OBVIOUS
    <3> HIDE DEF f
    <3> QED
      BY <2>4, <3>1 DEF IsFlatten
  <2> QED
    BY <2>5
<1>3. Len(ss) \in Holds
  <2> HIDE DEF Holds
  <2> QED
    BY <1>1, <1>2, InductionOverNat
<1> QED
  BY <1>3

\* Such a function depends on the elements only.
LEMMA FlattenUnique ==
  ASSUME NEW ss, NEW tt, Len(ss) \in Nat, Len(tt) \in Nat, NEW f, NEW g,
         IsFlatten(f, ss), IsFlatten(g, tt), NEW m \in Nat,
         m <= Len(ss), m <= Len(tt), \A i \in 1..m : ss[i] = tt[i]
  PROVE  \A i \in 1..m : f[i] = g[i]
<1> DEFINE Holds == {n \in Nat : n \in 1..m => f[n] = g[n]}
<1>1. 0 \in Holds
  OBVIOUS
<1>2. ASSUME NEW n \in Nat, n \in Holds PROVE n + 1 \in Holds
  <2> SUFFICES ASSUME n + 1 \in 1..m PROVE f[n + 1] = g[n + 1]
    OBVIOUS
  <2>1. n + 1 \in 1..Len(ss) /\ n + 1 \in 1..Len(tt) /\ (n + 1) - 1 = n
        /\ (n + 1 # 1 => n \in 1..m)
    OBVIOUS
  <2>2. f[n + 1] = IF n + 1 = 1 THEN ss[n + 1] ELSE f[n] \o ss[n + 1]
    BY <2>1 DEF IsFlatten
  <2>3. g[n + 1] = IF n + 1 = 1 THEN tt[n + 1] ELSE g[n] \o tt[n + 1]
    BY <2>1 DEF IsFlatten
  <2> QED
    BY <1>2, <2>1, <2>2, <2>3
<1>3. \A n \in Nat : n \in Holds
  <2> HIDE DEF Holds
  <2> QED
    BY <1>1, <1>2, InductionOverNat
<1> QED
  BY <1>3

LEMMA FlattenEmpty == FlattenSeq(<<>>) = <<>>
  BY DEF FlattenSeq

LEMMA FlattenIs ==
  ASSUME NEW S, NEW ss \in Seq(S), Len(ss) # 0
  PROVE  \E f : IsFlatten(f, ss) /\ FlattenSeq(ss) = f[Len(ss)]
<1> DEFINE f == CHOOSE f : IsFlatten(f, ss)
<1>1. IsFlatten(f, ss)
  BY FlattenExists
<1>2. FlattenSeq(ss) = f[Len(ss)]
  BY DEF FlattenSeq, IsFlatten
<1> QED
  BY <1>1, <1>2

\* One more sequence goes behind the others.
LEMMA FlattenAppend ==
  ASSUME NEW S, NEW ss \in Seq(Seq(S)), NEW x \in Seq(S)
  PROVE  FlattenSeq(Append(ss, x)) = FlattenSeq(ss) \o x
<1> DEFINE tt == Append(ss, x)
           n == Len(ss)
<1>1. /\ tt \in Seq(Seq(S)) /\ n \in Nat /\ Len(tt) = n + 1 /\ tt[n + 1] = x
      /\ \A i \in 1..n : tt[i] = ss[i]
  BY AppendProperties
<1> HIDE DEF tt
<1>2. PICK g : IsFlatten(g, tt) /\ FlattenSeq(tt) = g[n + 1]
  BY <1>1, FlattenIs
<1>3. n + 1 \in 1..(n + 1) /\ (n + 1) - 1 = n
  BY <1>1
<1>4. g[n + 1] = IF n + 1 = 1 THEN x ELSE g[n] \o x
  BY <1>1, <1>2, <1>3 DEF IsFlatten
<1>5. CASE n = 0
  <2>1. ss = <<>>
    BY <1>5
  <2>2. <<>> \o x = x
    OBVIOUS
  <2> QED
    BY <1>2, <1>4, <1>5, <2>1, <2>2, FlattenEmpty DEF tt
<1>6. CASE n # 0
  <2>1. PICK f : IsFlatten(f, ss) /\ FlattenSeq(ss) = f[n]
    BY <1>6, FlattenIs
  <2>2. n \in 1..n /\ n <= Len(ss) /\ n <= Len(tt)
    BY <1>1, <1>6
  <2>3. f[n] = g[n]
    <3>1. \A i \in 1..n : ss[i] = tt[i]
      BY <1>1
    <3>2. /\ n \in Nat /\ n <= Len(ss) /\ n <= Len(tt)
          /\ IsFlatten(f, ss) /\ IsFlatten(g, tt)
      BY <1>1, <1>2, <2>1, <2>2
    <3>3. Len(ss) \in Nat /\ Len(tt) \in Nat
      BY <1>1
    <3> HIDE DEF n
    <3>4. \A i \in 1..n : f[i] = g[i]
      BY <3>1, <3>2, <3>3, FlattenUnique
    <3> QED
      BY <2>2, <3>4
  <2> QED
    BY <1>1, <1>2, <1>4, <1>6, <2>1, <2>3 DEF tt
<1> QED
  BY <1>5, <1>6

\* And nothing but what is in them comes out.
LEMMA FlattenType ==
  ASSUME NEW S, NEW ss \in Seq(Seq(S))
  PROVE  FlattenSeq(ss) \in Seq(S)
<1> DEFINE Holds == {n \in Nat : \A tt \in Seq(Seq(S)) : Len(tt) = n => FlattenSeq(tt) \in Seq(S)}
<1>1. 0 \in Holds
  <2> SUFFICES ASSUME NEW tt \in Seq(Seq(S)), Len(tt) = 0 PROVE FlattenSeq(tt) \in Seq(S)
    OBVIOUS
  <2>1. tt = <<>>
    OBVIOUS
  <2>2. FlattenSeq(tt) = <<>>
    BY <2>1, FlattenEmpty
  <2> QED
    BY <2>2, EmptySeq
<1>2. ASSUME NEW n \in Nat, n \in Holds PROVE n + 1 \in Holds
  <2> SUFFICES ASSUME NEW tt \in Seq(Seq(S)), Len(tt) = n + 1 PROVE FlattenSeq(tt) \in Seq(S)
    OBVIOUS
  <2>1. PICK front \in Seq(Seq(S)), x \in Seq(S) : tt = Append(front, x)
    <3>1. tt # <<>>
      BY <1>2
    <3> QED
      BY <3>1, SequenceEmptyOrAppend
  <2>2. Len(front) = n
    BY <1>2, <2>1
  <2> QED
    BY <1>2, <2>1, <2>2, FlattenAppend, ConcatProperties
<1>3. Len(ss) \in Holds
  <2> HIDE DEF Holds
  <2> QED
    BY <1>1, <1>2, InductionOverNat
<1> QED
  BY <1>3

------------------------------------------------------------------------------
(* The loop over the bytes of a form *)

\* f[n] is where the loop over s is after n turns.
IsLoop(f, s) ==
  /\ f[0] = FormStart
  /\ \A n \in Nat : f[n + 1] = FormTurn(s, f[n])

\* Its first n turns.
LoopUpTo(h, s, n) ==
  /\ h[0] = FormStart
  /\ \A k \in 0..(n - 1) : h[k + 1] = FormTurn(s, h[k])

LEMMA LoopUpToExists ==
  ASSUME NEW s
  PROVE  \A n \in Nat : \E h : LoopUpTo(h, s, n)
<1> DEFINE Holds == {n \in Nat : \E h : LoopUpTo(h, s, n)}
<1>1. 0 \in Holds
  <2> DEFINE h == [k \in {0} |-> FormStart]
  <2>1. LoopUpTo(h, s, 0)
    BY DEF LoopUpTo
  <2> QED
    BY <2>1
<1>2. ASSUME NEW n \in Nat, n \in Holds PROVE n + 1 \in Holds
  <2>1. PICK g : LoopUpTo(g, s, n)
    BY <1>2
  <2> DEFINE h == [k \in 0..(n + 1) |-> IF k = n + 1 THEN FormTurn(s, g[n]) ELSE g[k]]
  <2>2. h[0] = FormStart
    BY <2>1 DEF LoopUpTo
  <2>3. ASSUME NEW k \in 0..((n + 1) - 1) PROVE h[k + 1] = FormTurn(s, h[k])
    <3>1. k \in 0..(n + 1) /\ k + 1 \in 0..(n + 1) /\ k # n + 1
      OBVIOUS
    <3>2. h[k] = g[k]
      BY <3>1
    <3>3. CASE k = n
      <4>1. h[k + 1] = FormTurn(s, g[n])
        BY <3>1, <3>3
      <4> HIDE DEF h
      <4> QED
        BY <3>2, <3>3, <4>1
    <3>4. CASE k # n
      <4>1. k \in 0..(n - 1) /\ k + 1 # n + 1
        BY <3>1, <3>4
      <4>2. h[k + 1] = g[k + 1]
        BY <3>1, <4>1
      <4> HIDE DEF h
      <4> QED
        BY <2>1, <3>2, <4>1, <4>2 DEF LoopUpTo
    <3> QED
      BY <3>3, <3>4
  <2>4. LoopUpTo(h, s, n + 1)
    <3> HIDE DEF h
    <3> QED
      BY <2>2, <2>3 DEF LoopUpTo
  <2> QED
    BY <2>4
<1> HIDE DEF Holds
<1>3. \A n \in Nat : n \in Holds
  BY <1>1, <1>2, InductionOverNat
<1> QED
  BY <1>3 DEF Holds

LEMMA LoopUpToUnique ==
  ASSUME NEW s, NEW n \in Nat, NEW g, NEW h, LoopUpTo(g, s, n), LoopUpTo(h, s, n)
  PROVE  g[n] = h[n]
<1> DEFINE Holds == {k \in Nat : k <= n => g[k] = h[k]}
<1>1. 0 \in Holds
  BY DEF LoopUpTo
<1>2. ASSUME NEW k \in Nat, k \in Holds PROVE k + 1 \in Holds
  <2> SUFFICES ASSUME k + 1 <= n PROVE g[k + 1] = h[k + 1]
    OBVIOUS
  <2>1. k \in 0..(n - 1) /\ k <= n
    OBVIOUS
  <2>2. g[k] = h[k]
    BY <1>2, <2>1
  <2> QED
    BY <2>1, <2>2 DEF LoopUpTo
<1>3. n \in Holds
  <2> HIDE DEF Holds
  <2> QED
    BY <1>1, <1>2, InductionOverNat
<1> QED
  BY <1>3

\* postDataOf(s) is what its loop has read after Len(s) + 1 turns.
LEMMA LoopOf ==
  ASSUME NEW s
  PROVE  \E f : IsLoop(f, s) /\ postDataOf(s) = f[Len(s) + 1].data
<1> DEFINE H(n) == CHOOSE h : LoopUpTo(h, s, n)
           f == [n \in Nat |-> H(n)[n]]
           IsAfter(g) == g = [n \in Nat |-> IF n = 0 THEN FormStart ELSE FormTurn(s, g[n - 1])]
           after == CHOOSE g : IsAfter(g)
<1>1. \A n \in Nat : LoopUpTo(H(n), s, n)
  BY LoopUpToExists
<1>2. ASSUME NEW n \in Nat
      PROVE  f[n] = IF n = 0 THEN FormStart ELSE FormTurn(s, f[n - 1])
  <2>1. CASE n = 0
    <3>1. LoopUpTo(H(0), s, 0)
      BY <1>1
    <3> HIDE DEF H
    <3> QED
      BY <2>1, <3>1 DEF LoopUpTo
  <2>2. CASE n # 0
    <3>1. n - 1 \in Nat /\ (n - 1) + 1 = n /\ n - 1 \in 0..(n - 1)
      BY <2>2
    <3>2. LoopUpTo(H(n), s, n) /\ LoopUpTo(H(n - 1), s, n - 1)
      BY <1>1, <3>1
    <3> HIDE DEF H
    <3>3. LoopUpTo(H(n), s, n - 1)
      BY <3>1, <3>2 DEF LoopUpTo
    <3>4. H(n)[n - 1] = H(n - 1)[n - 1]
      BY <3>1, <3>2, <3>3, LoopUpToUnique
    <3>5. H(n)[n] = FormTurn(s, H(n)[n - 1])
      BY <3>1, <3>2 DEF LoopUpTo
    <3> QED
      BY <2>2, <3>1, <3>4, <3>5
  <2> QED
    BY <2>1, <2>2
<1>3. IsAfter(f)
  <2>1. f = [n \in Nat |-> f[n]]
    OBVIOUS
  <2> HIDE DEF f
  <2> QED
    BY <1>2, <2>1
<1>4. IsAfter(after)
  <2> HIDE DEF f, IsAfter
  <2> QED
    BY <1>3
<1>5. postDataOf(s) = after[Len(s) + 1].data
  BY DEF postDataOf
<1>6. IsLoop(after, s)
  <2> HIDE DEF after
  <2>1. after[0] = FormStart
    BY <1>4
  <2>2. ASSUME NEW n \in Nat PROVE after[n + 1] = FormTurn(s, after[n])
    <3>1. n + 1 \in Nat /\ n + 1 # 0 /\ (n + 1) - 1 = n
      OBVIOUS
    <3> QED
      BY <1>4, <3>1
  <2> QED
    BY <2>1, <2>2 DEF IsLoop
<1> QED
  BY <1>5, <1>6

------------------------------------------------------------------------------
(* What the loop makes of an encoded form *)

\* The elements of t stand in s behind the first i.
StandsAt(s, i, t) ==
  /\ i + Len(t) <= Len(s)
  /\ \A j \in 1..Len(t) : s[i + j] = t[j]

LEMMA StandsAtConcat ==
  ASSUME NEW S, NEW t \in Seq(S), NEW u \in Seq(S), NEW s \in Seq(S), NEW i \in Nat
  PROVE  StandsAt(s, i, t \o u) <=> StandsAt(s, i, t) /\ StandsAt(s, i + Len(t), u)
<1>1. /\ Len(t) \in Nat /\ Len(u) \in Nat /\ Len(s) \in Nat
      /\ Len(t \o u) = Len(t) + Len(u)
      /\ \A j \in 1..Len(t) : (t \o u)[j] = t[j]
      /\ \A j \in 1..Len(u) : (t \o u)[Len(t) + j] = u[j]
  OBVIOUS
<1>2. ASSUME StandsAt(s, i, t \o u) PROVE StandsAt(s, i, t) /\ StandsAt(s, i + Len(t), u)
  <2>1. i + Len(t) <= Len(s) /\ (i + Len(t)) + Len(u) <= Len(s)
    BY <1>1, <1>2 DEF StandsAt
  <2>2. \A j \in 1..Len(t) : s[i + j] = t[j]
    <3> TAKE j \in 1..Len(t)
    <3>1. j \in 1..Len(t \o u)
      BY <1>1
    <3> QED
      BY <1>1, <1>2, <3>1 DEF StandsAt
  <2>3. \A j \in 1..Len(u) : s[(i + Len(t)) + j] = u[j]
    <3> TAKE j \in 1..Len(u)
    <3>1. Len(t) + j \in 1..Len(t \o u) /\ i + (Len(t) + j) = (i + Len(t)) + j
      BY <1>1
    <3>2. s[i + (Len(t) + j)] = (t \o u)[Len(t) + j]
      BY <1>2, <3>1 DEF StandsAt
    <3> QED
      BY <1>1, <3>1, <3>2
  <2> QED
    BY <2>1, <2>2, <2>3 DEF StandsAt
<1>3. ASSUME StandsAt(s, i, t), StandsAt(s, i + Len(t), u) PROVE StandsAt(s, i, t \o u)
  <2>1. i + Len(t \o u) <= Len(s)
    BY <1>1, <1>3 DEF StandsAt
  <2>2. ASSUME NEW j \in 1..Len(t \o u) PROVE s[i + j] = (t \o u)[j]
    <3>1. CASE j \in 1..Len(t)
      BY <1>1, <1>3, <3>1 DEF StandsAt
    <3>2. CASE j \notin 1..Len(t)
      <4>1. j - Len(t) \in 1..Len(u) /\ Len(t) + (j - Len(t)) = j
            /\ (i + Len(t)) + (j - Len(t)) = i + j
        BY <1>1, <3>2
      <4>2. s[(i + Len(t)) + (j - Len(t))] = u[j - Len(t)]
        BY <1>3, <4>1 DEF StandsAt
      <4>3. (t \o u)[Len(t) + (j - Len(t))] = u[j - Len(t)]
        BY <1>1, <4>1
      <4> QED
        BY <4>1, <4>2, <4>3
    <3> QED
      BY <3>1, <3>2
  <2> QED
    BY <2>1, <2>2 DEF StandsAt
<1> QED
  BY <1>2, <1>3

\* The variables of the loop.
Loop(i, flag, key, value, data) ==
  [i |-> i, flag |-> flag, key |-> key, value |-> value, data |-> data]

\* A byte comes back from the one or three that encode it.
LEMMA EncodedByte ==
  ASSUME NEW b \in Byte
  PROVE  /\ Encoded(b) \in Seq(Byte) /\ Len(Encoded(b)) \in Nat \ {0}
         /\ \A s \in Seq(Byte), i \in Nat :
              StandsAt(s, i, Encoded(b)) =>
                /\ s[i + 1] \notin {Amp, Equals}
                /\ CharAt(s, i) = b /\ BytesAt(s, i) = Len(Encoded(b))
                /\ i < Len(s)
<1> USE DEF Byte, Amp, Equals, Plus, Percent, Space
<1>1. CASE b \in (48..57) \cup (65..90) \cup (97..122)
  <2>1. Encoded(b) = <<b>>
    BY <1>1 DEF Encoded
  <2>2. ASSUME NEW s \in Seq(Byte), NEW i \in Nat, StandsAt(s, i, <<b>>)
        PROVE  s[i + 1] = b /\ i < Len(s)
    BY <2>2 DEF StandsAt
  <2>3. b # 37 /\ b # 38 /\ b # 43 /\ b # 61
    BY <1>1
  <2> QED
    BY <2>1, <2>2, <2>3 DEF CharAt, BytesAt
<1>2. CASE b = Space
  <2>1. Encoded(b) = <<Plus>>
    BY <1>2 DEF Encoded
  <2>2. ASSUME NEW s \in Seq(Byte), NEW i \in Nat, StandsAt(s, i, <<Plus>>)
        PROVE  s[i + 1] = Plus /\ i < Len(s)
    BY <2>2 DEF StandsAt
  <2>3. ASSUME NEW s, NEW i, s[i + 1] = Plus
        PROVE  CharAt(s, i) = Space /\ BytesAt(s, i) = 1
    BY <2>3 DEF CharAt, BytesAt
  <2>4. Encoded(b) \in Seq(Byte) /\ Len(Encoded(b)) = 1
    BY <2>1
  <2>5. ASSUME NEW s \in Seq(Byte), NEW i \in Nat, StandsAt(s, i, Encoded(b))
        PROVE  /\ s[i + 1] \notin {Amp, Equals} /\ i < Len(s)
               /\ CharAt(s, i) = b /\ BytesAt(s, i) = 1
    <3>1. s[i + 1] = Plus /\ i < Len(s)
      BY <2>1, <2>2, <2>5
    <3>2. CharAt(s, i) = Space /\ BytesAt(s, i) = 1
      BY <2>3, <3>1
    <3> QED
      BY <1>2, <3>1, <3>2
  <2> QED
    BY <2>4, <2>5
<1>3. CASE b \notin (48..57) \cup (65..90) \cup (97..122) /\ b # Space
  <2> DEFINE hi == b \div 16
             lo == b % 16
  <2>1. Encoded(b) = <<Percent, HexDigit(hi), HexDigit(lo)>>
    BY <1>3 DEF Encoded
  <2>2. hi \in 0..15 /\ lo \in 0..15 /\ (hi * 16) + lo = b
    OBVIOUS
  <2> HIDE DEF hi, lo
  <2>3. \A n \in 0..15 : HexDigit(n) \in Byte /\ ConverHex(HexDigit(n)) = n
    BY DEF HexDigit, ConverHex
  <2>4. Char(b) = b
    BY DEF Char
  <2>5. ASSUME NEW s \in Seq(Byte), NEW i \in Nat, StandsAt(s, i, Encoded(b))
        PROVE  /\ s[i + 1] = Percent /\ i < Len(s)
               /\ s[i + 2] = HexDigit(hi) /\ s[i + 3] = HexDigit(lo)
    BY <2>1, <2>5 DEF StandsAt
  <2>6. ASSUME NEW s \in Seq(Byte), NEW i \in Nat, StandsAt(s, i, Encoded(b))
        PROVE  CharAt(s, i) = b /\ BytesAt(s, i) = 3
    <3>1. /\ ConverHex(s[i + 2]) = hi /\ ConverHex(s[i + 3]) = lo
          /\ s[i + 1] = Percent
      BY <2>2, <2>3, <2>5, <2>6
    <3>2. CharAt(s, i) = Char(ConverHex(s[i + 2]) * 16 + ConverHex(s[i + 3]))
      BY <3>1 DEF CharAt
    <3>3. BytesAt(s, i) = 3
      BY <3>1 DEF BytesAt
    <3> QED
      BY <2>2, <2>4, <3>1, <3>2, <3>3
  <2>7. Encoded(b) \in Seq(Byte) /\ Len(Encoded(b)) = 3
    BY <2>1, <2>2, <2>3
  <2> QED
    BY <2>5, <2>6, <2>7
<1> QED
  BY <1>1, <1>2, <1>3

\* The turn that reads it.
LEMMA ByteTurn ==
  ASSUME NEW b \in Byte, NEW s \in Seq(Byte), NEW i \in Nat, NEW flag \in {1, -1},
         NEW key, NEW value, NEW data, StandsAt(s, i, Encoded(b))
  PROVE  FormTurn(s, Loop(i, flag, key, value, data)) =
           Loop(i + Len(Encoded(b)), flag,
                IF flag = 1 THEN Append(key, b) ELSE key,
                IF flag = -1 THEN Append(value, b) ELSE value, data)
<1> DEFINE p == Loop(i, flag, key, value, data)
<1>1. /\ s[i + 1] # Amp /\ s[i + 1] # Equals
      /\ CharAt(s, i) = b /\ BytesAt(s, i) = Len(Encoded(b)) /\ i < Len(s)
      /\ Len(s) \in Nat
  BY EncodedByte
<1>2. p.i = i /\ p.flag = flag /\ p.key = key /\ p.value = value /\ p.data = data
  BY DEF Loop
<1>3. ~(i > Len(s)) /\ i # Len(s)
  BY <1>1
<1>4. FormTurn(s, p) =
        [p EXCEPT !.i = i + Len(Encoded(b)),
                  !.key = IF flag = 1 THEN Append(key, b) ELSE key,
                  !.value = IF flag = -1 THEN Append(value, b) ELSE value]
  <2> HIDE DEF p
  <2> QED
    BY <1>1, <1>2, <1>3 DEF FormTurn
<1> QED
  BY <1>4 DEF Loop

\* A text is encoded byte by byte.
LEMMA EncodedTextEmpty == EncodedText(<<>>) = <<>>
<1>1. [i \in 1..Len(<<>>) |-> Encoded(<<>>[i])] = <<>>
  OBVIOUS
<1> QED
  BY <1>1, FlattenEmpty DEF EncodedText

LEMMA EncodedTextAppend ==
  ASSUME NEW t \in Seq(Byte), NEW b \in Byte
  PROVE  EncodedText(Append(t, b)) = EncodedText(t) \o Encoded(b)
<1> DEFINE of(u) == [i \in 1..Len(u) |-> Encoded(u[i])]
           tb == Append(t, b)
<1>1. \A c \in Byte : Encoded(c) \in Seq(Byte)
  BY EncodedByte
<1>2. /\ tb \in Seq(Byte) /\ Len(t) \in Nat /\ Len(tb) = Len(t) + 1 /\ tb[Len(t) + 1] = b
      /\ \A i \in 1..Len(t) : tb[i] = t[i]
  BY AppendProperties
<1> HIDE DEF tb
<1>3. /\ of(t) \in Seq(Seq(Byte)) /\ Len(of(t)) = Len(t)
      /\ \A i \in 1..Len(t) : of(t)[i] = Encoded(t[i])
  BY <1>1
<1>4. /\ of(tb) \in Seq(Seq(Byte)) /\ Len(of(tb)) = Len(t) + 1
      /\ \A i \in 1..(Len(t) + 1) : of(tb)[i] = Encoded(tb[i])
  BY <1>1, <1>2
<1> HIDE DEF of
<1> DEFINE both == Append(of(t), Encoded(b))
<1>5. /\ both \in Seq(Seq(Byte)) /\ Len(both) = Len(t) + 1
      /\ both[Len(t) + 1] = Encoded(b)
      /\ \A i \in 1..Len(t) : both[i] = Encoded(t[i])
  BY <1>1, <1>3, AppendProperties
<1> HIDE DEF both
<1>6. \A i \in 1..(Len(t) + 1) : of(tb)[i] = both[i]
  <2> TAKE i \in 1..(Len(t) + 1)
  <2>1. i \in 1..Len(t) \/ i = Len(t) + 1
    BY <1>2
  <2> QED
    BY <1>2, <1>4, <1>5, <2>1
<1>7. of(tb) = both
  BY <1>4, <1>5, <1>6, SeqEqual
<1>8. FlattenSeq(both) = FlattenSeq(of(t)) \o Encoded(b)
  BY <1>1, <1>3, FlattenAppend DEF both
<1> QED
  BY <1>7, <1>8 DEF EncodedText, of, tb

LEMMA EncodedTextType ==
  ASSUME NEW t \in Seq(Byte)
  PROVE  EncodedText(t) \in Seq(Byte)
<1> DEFINE of == [i \in 1..Len(t) |-> Encoded(t[i])]
<1>1. \A c \in Byte : Encoded(c) \in Seq(Byte)
  BY EncodedByte
<1>2. of \in Seq(Seq(Byte))
  BY <1>1
<1> QED
  BY <1>2, FlattenType DEF EncodedText

\* As many turns as a text has bytes read it, and add it to the key or the
\* value.
LEMMA TextTurns ==
  ASSUME NEW s \in Seq(Byte), NEW f, IsLoop(f, s),
         NEW n \in Nat, NEW i \in Nat, NEW flag \in {1, -1},
         NEW key \in Seq(Byte), NEW value \in Seq(Byte), NEW data,
         f[n] = Loop(i, flag, key, value, data),
         NEW t \in Seq(Byte), StandsAt(s, i, EncodedText(t))
  PROVE  /\ flag = 1 =>
              f[n + Len(t)] = Loop(i + Len(EncodedText(t)), flag, key \o t, value, data)
         /\ flag = -1 =>
              f[n + Len(t)] = Loop(i + Len(EncodedText(t)), flag, key, value \o t, data)
         /\ Len(t) <= Len(EncodedText(t))
<1> DEFINE Read(u) ==
             StandsAt(s, i, EncodedText(u)) =>
               /\ f[n + Len(u)] =
                    Loop(i + Len(EncodedText(u)), flag,
                         IF flag = 1 THEN key \o u ELSE key,
                         IF flag = -1 THEN value \o u ELSE value, data)
               /\ Len(u) <= Len(EncodedText(u))
           Holds == {m \in Nat : \A u \in Seq(Byte) : Len(u) = m => Read(u)}
<1>1. 0 \in Holds
  <2> SUFFICES ASSUME NEW u \in Seq(Byte), Len(u) = 0 PROVE Read(u)
    OBVIOUS
  <2>1. u = <<>> /\ EncodedText(u) = <<>> /\ Len(EncodedText(u)) = 0
    BY EncodedTextEmpty
  <2>2. key \o <<>> = key /\ value \o <<>> = value
    BY ConcatEmptySeq
  <2>3. n + 0 = n /\ i + 0 = i
    OBVIOUS
  <2> QED
    BY <2>1, <2>2, <2>3
<1>2. ASSUME NEW m \in Nat, m \in Holds PROVE m + 1 \in Holds
  <2> SUFFICES ASSUME NEW u \in Seq(Byte), Len(u) = m + 1, StandsAt(s, i, EncodedText(u))
               PROVE  Read(u)
    OBVIOUS
  <2>1. PICK v \in Seq(Byte), b \in Byte : u = Append(v, b)
    <3>1. u # <<>>
      OBVIOUS
    <3> QED
      BY <3>1, SequenceEmptyOrAppend
  <2>2. Len(v) = m /\ Read(v)
    <3>1. Len(v) = m
      BY <2>1
    <3> QED
      BY <1>2, <3>1
  <2>3. EncodedText(u) = EncodedText(v) \o Encoded(b)
    BY <2>1, EncodedTextAppend
  <2>4. /\ EncodedText(v) \in Seq(Byte) /\ Encoded(b) \in Seq(Byte)
        /\ Len(EncodedText(v)) \in Nat /\ Len(Encoded(b)) \in Nat \ {0}
        /\ Len(EncodedText(u)) = Len(EncodedText(v)) + Len(Encoded(b))
    BY <2>3, EncodedTextType, EncodedByte, ConcatProperties
  <2> DEFINE j == i + Len(EncodedText(v))
             k == IF flag = 1 THEN key \o v ELSE key
             w == IF flag = -1 THEN value \o v ELSE value
  <2>5. StandsAt(s, i, EncodedText(v)) /\ StandsAt(s, j, Encoded(b))
    BY <2>3, <2>4, StandsAtConcat
  <2>6. f[n + m] = Loop(j, flag, k, w, data) /\ m <= Len(EncodedText(v))
    BY <2>2, <2>5
  <2>7. j \in Nat
    BY <2>4
  <2> HIDE DEF j, k, w
  <2>8. FormTurn(s, f[n + m]) =
          Loop(j + Len(Encoded(b)), flag,
               IF flag = 1 THEN Append(k, b) ELSE k,
               IF flag = -1 THEN Append(w, b) ELSE w, data)
    BY <2>5, <2>6, <2>7, ByteTurn
  <2>9. f[(n + m) + 1] = FormTurn(s, f[n + m])
    BY DEF IsLoop
  <2>10. key \o u = Append(key \o v, b) /\ value \o u = Append(value \o v, b)
    BY <2>1, SMTT(30)
  <2>11. /\ (IF flag = 1 THEN Append(k, b) ELSE k) = IF flag = 1 THEN key \o u ELSE key
         /\ (IF flag = -1 THEN Append(w, b) ELSE w) = IF flag = -1 THEN value \o u ELSE value
    BY <2>10 DEF k, w
  <2>12. /\ j + Len(Encoded(b)) = i + Len(EncodedText(u))
         /\ (n + m) + 1 = n + Len(u)
         /\ Len(u) <= Len(EncodedText(u))
    BY <2>4, <2>6 DEF j
  <2> QED
    BY <2>8, <2>9, <2>11, <2>12
<1>3. Len(t) \in Holds
  <2>1. Len(t) \in Nat
    OBVIOUS
  <2> HIDE DEF Holds
  <2> QED
    BY <1>1, <1>2, <2>1, InductionOverNat
<1>4. Read(t)
  BY <1>3
<1>5. 1 # -1
  OBVIOUS
<1> QED
  BY <1>4, <1>5

\* The i-th pair of a form, encoded.
EncodedPair(i, pair) ==
  (IF i = 1 THEN <<>> ELSE <<Amp>>)
  \o EncodedText(pair[1]) \o <<Equals>> \o EncodedText(pair[2])

LEMMA EncodedPairType ==
  ASSUME NEW i, NEW pair \in Seq(Byte) \X Seq(Byte)
  PROVE  EncodedPair(i, pair) \in Seq(Byte)
<1> DEFINE sep == IF i = 1 THEN <<>> ELSE <<Amp>>
<1>1. pair[1] \in Seq(Byte) /\ pair[2] \in Seq(Byte)
  OBVIOUS
<1>2. EncodedText(pair[1]) \in Seq(Byte) /\ EncodedText(pair[2]) \in Seq(Byte)
  BY <1>1, EncodedTextType
<1>3. sep \in Seq(Byte) /\ <<Equals>> \in Seq(Byte)
  <2>1. Amp \in Byte /\ Equals \in Byte
    BY DEF Amp, Equals, Byte
  <2>2. <<>> \in Seq(Byte) /\ <<Amp>> \in Seq(Byte) /\ <<Equals>> \in Seq(Byte)
    BY <2>1
  <2> QED
    BY <2>2
<1> HIDE DEF sep
<1>4. sep \o EncodedText(pair[1]) \in Seq(Byte)
  BY <1>2, <1>3
<1>5. (sep \o EncodedText(pair[1])) \o <<Equals>> \in Seq(Byte)
  BY <1>3, <1>4, ConcatProperties
<1>6. ((sep \o EncodedText(pair[1])) \o <<Equals>>) \o EncodedText(pair[2]) \in Seq(Byte)
  BY <1>2, <1>5, ConcatProperties
<1> QED
  BY <1>6 DEF EncodedPair, sep

\* A form is encoded pair by pair.
LEMMA EncodedFormEmpty == EncodedForm(<<>>) = <<>>
<1>1. [i \in 1..Len(<<>>) |-> EncodedPair(i, <<>>[i])] = <<>>
  OBVIOUS
<1> QED
  BY <1>1, FlattenEmpty DEF EncodedForm, EncodedPair

LEMMA EncodedFormAppend ==
  ASSUME NEW form \in Form, NEW pair \in Seq(Byte) \X Seq(Byte)
  PROVE  EncodedForm(Append(form, pair)) =
           EncodedForm(form) \o EncodedPair(Len(form) + 1, pair)
<1> DEFINE Pairs == Seq(Byte) \X Seq(Byte)
           of(u) == [i \in 1..Len(u) |-> EncodedPair(i, u[i])]
           fp == Append(form, pair)
           last == EncodedPair(Len(form) + 1, pair)
<1>1. \A i, p : p \in Pairs => EncodedPair(i, p) \in Seq(Byte)
  BY EncodedPairType
<1>2. /\ form \in Seq(Pairs) /\ fp \in Seq(Pairs)
      /\ Len(form) \in Nat /\ Len(fp) = Len(form) + 1 /\ fp[Len(form) + 1] = pair
      /\ \A i \in 1..Len(form) : fp[i] = form[i]
  BY AppendProperties DEF Form
<1>0. last \in Seq(Byte)
  BY <1>1
<1> HIDE DEF fp, last, Pairs
<1>3. /\ of(form) \in Seq(Seq(Byte)) /\ Len(of(form)) = Len(form)
      /\ \A i \in 1..Len(form) : of(form)[i] = EncodedPair(i, form[i])
  BY <1>1, <1>2
<1>4. /\ of(fp) \in Seq(Seq(Byte)) /\ Len(of(fp)) = Len(form) + 1
      /\ \A i \in 1..(Len(form) + 1) : of(fp)[i] = EncodedPair(i, fp[i])
  BY <1>1, <1>2
<1> HIDE DEF of
<1> DEFINE both == Append(of(form), last)
<1>5. /\ both \in Seq(Seq(Byte)) /\ Len(both) = Len(form) + 1
      /\ both[Len(form) + 1] = last
      /\ \A i \in 1..Len(form) : both[i] = EncodedPair(i, form[i])
  BY <1>0, <1>3, AppendProperties
<1> HIDE DEF both
<1>6. \A i \in 1..(Len(form) + 1) : of(fp)[i] = both[i]
  <2> TAKE i \in 1..(Len(form) + 1)
  <2>1. i \in 1..Len(form) \/ i = Len(form) + 1
    BY <1>2
  <2> QED
    BY <1>2, <1>4, <1>5, <2>1 DEF last
<1>7. of(fp) = both
  BY <1>4, <1>5, <1>6, SeqEqual
<1>8. FlattenSeq(both) = FlattenSeq(of(form)) \o last
  BY <1>0, <1>3, FlattenAppend DEF both
<1>9. \A u : EncodedForm(u) = FlattenSeq(of(u))
  BY DEF EncodedForm, EncodedPair, of
<1> QED
  BY <1>7, <1>8, <1>9 DEF fp, last

LEMMA EncodedFormType ==
  ASSUME NEW form \in Form
  PROVE  EncodedForm(form) \in Seq(Byte)
<1> DEFINE of == [i \in 1..Len(form) |-> EncodedPair(i, form[i])]
<1>1. \A i \in 1..Len(form) : EncodedPair(i, form[i]) \in Seq(Byte)
  BY EncodedPairType DEF Form
<1>2. of \in Seq(Seq(Byte))
  <2>1. Len(form) \in Nat
    BY DEF Form
  <2> QED
    BY <1>1, <2>1
<1>3. EncodedForm(form) = FlattenSeq(of)
  BY DEF EncodedForm, EncodedPair
<1> QED
  BY <1>2, <1>3, FlattenType

LEMMA MinusMinusOne == -(-1) = 1
<1>1. \A m \in Int : -(-m) = m
  OBVIOUS
<1> DEFINE one == 1
<1>2. one \in Int
  OBVIOUS
<1> HIDE DEF one
<1>3. -(-one) = one
  BY <1>1, <1>2
<1> QED
  BY <1>3, Zenon DEF one

\* A separator turns the flag, and '&' stores the pair before it.
LEMMA SeparatorTurn ==
  ASSUME NEW s \in Seq(Byte), NEW i \in Nat, i < Len(s), NEW flag,
         NEW key, NEW value, NEW data
  PROVE  /\ s[i + 1] = Equals =>
              FormTurn(s, Loop(i, flag, key, value, data)) = Loop(i + 1, -flag, key, value, data)
         /\ s[i + 1] = Amp =>
              FormTurn(s, Loop(i, flag, key, value, data)) =
                Loop(i + 1, -flag, <<>>, <<>>, Put(data, key, value))
<1> DEFINE p == Loop(i, flag, key, value, data)
<1>1. p.i = i /\ p.flag = flag /\ p.key = key /\ p.value = value /\ p.data = data
  BY DEF Loop
<1>2. Len(s) \in Nat /\ ~(i > Len(s)) /\ i # Len(s)
  OBVIOUS
<1>3. ASSUME s[i + 1] = Equals PROVE FormTurn(s, p) = [p EXCEPT !.i = i + 1, !.flag = -flag]
  <2>1. s[i + 1] # Amp
    BY <1>3 DEF Equals, Amp
  <2> HIDE DEF p
  <2> QED
    BY <1>1, <1>2, <1>3, <2>1 DEF FormTurn
<1>4. ASSUME s[i + 1] = Amp
      PROVE  FormTurn(s, p) = [i |-> i + 1, flag |-> -flag, key |-> <<>>, value |-> <<>>,
                               data |-> Put(data, key, value)]
  <2> HIDE DEF p
  <2>1. FormTurn(s, p) = [i |-> p.i + 1, flag |-> -p.flag, key |-> <<>>, value |-> <<>>,
                          data |-> Put(p.data, p.key, p.value)]
    <3>1. /\ ~(p.i > Len(s)) /\ p.i # Len(s) /\ p.i < Len(s) /\ s[p.i + 1] = Amp
          /\ s[p.i + 1] # Equals
      BY <1>1, <1>2, <1>4 DEF Amp, Equals
    <3> HIDE DEF Amp
    <3> QED
      BY <3>1 DEF FormTurn
  <2> QED
    BY <1>1, <2>1
<1> QED
  BY <1>3, <1>4 DEF Loop

\* The end of the bytes stores the last pair; after it nothing happens.
LEMMA EndTurn ==
  ASSUME NEW s \in Seq(Byte), NEW flag, NEW key, NEW value, NEW data
  PROVE  /\ FormTurn(s, Loop(Len(s), flag, key, value, data)) =
              Loop(Len(s) + 1, flag, key, value, Put(data, key, value))
         /\ FormTurn(s, Loop(Len(s) + 1, flag, key, value, data)) =
              Loop(Len(s) + 1, flag, key, value, data)
<1>0. Len(s) \in Nat /\ ~(Len(s) > Len(s)) /\ Len(s) + 1 > Len(s)
  OBVIOUS
<1>1. ASSUME NEW i
      PROVE  LET p == Loop(i, flag, key, value, data) IN
             p.i = i /\ p.flag = flag /\ p.key = key /\ p.value = value /\ p.data = data
  BY DEF Loop
<1> DEFINE p == Loop(Len(s), flag, key, value, data)
           q == Loop(Len(s) + 1, flag, key, value, data)
<1>2. FormTurn(s, p) = [p EXCEPT !.i = Len(s) + 1, !.data = Put(data, key, value)]
  <2>1. p.i = Len(s) /\ p.key = key /\ p.value = value /\ p.data = data
    BY <1>1
  <2> HIDE DEF p
  <2> QED
    BY <1>0, <2>1 DEF FormTurn
<1>3. FormTurn(s, q) = q
  <2>1. q.i = Len(s) + 1
    BY <1>1
  <2> HIDE DEF q
  <2> QED
    BY <1>0, <2>1 DEF FormTurn
<1> QED
  BY <1>2, <1>3 DEF Loop

\* j is the place behind t, when t stands behind the first i.
Behind(j, i, t) == j = i + Len(t)

\* A key is read, and a value.
LEMMA KeyTurns ==
  ASSUME NEW s \in Seq(Byte), NEW f, IsLoop(f, s), NEW n \in Nat, NEW i \in Nat, n <= i,
         NEW key \in Seq(Byte), NEW value \in Seq(Byte), NEW data,
         f[n] = Loop(i, 1, key, value, data),
         NEW t \in Seq(Byte), StandsAt(s, i, EncodedText(t)),
         NEW j, Behind(j, i, EncodedText(t))
  PROVE  j \in Nat /\ \E m \in Nat : m <= j /\ f[m] = Loop(j, 1, key \o t, value, data)
<1>1. Len(t) \in Nat /\ Len(EncodedText(t)) \in Nat
  BY EncodedTextType
<1>2. ASSUME NEW flag \in {1, -1}, flag = 1
      PROVE  /\ f[n + Len(t)] = Loop(i + Len(EncodedText(t)), flag, key \o t, value, data)
             /\ Len(t) <= Len(EncodedText(t))
  <2>1. f[n] = Loop(i, flag, key, value, data)
    BY <1>2
  <2> QED
    BY <1>2, <2>1, TextTurns
<1>3. /\ f[n + Len(t)] = Loop(i + Len(EncodedText(t)), 1, key \o t, value, data)
      /\ Len(t) <= Len(EncodedText(t))
  BY <1>2
<1>4. j = i + Len(EncodedText(t)) /\ n + Len(t) \in Nat /\ n + Len(t) <= j /\ j \in Nat
  BY <1>1, <1>3 DEF Behind
<1> QED
  BY <1>3, <1>4

LEMMA ValueTurns ==
  ASSUME NEW s \in Seq(Byte), NEW f, IsLoop(f, s), NEW n \in Nat, NEW i \in Nat, n <= i,
         NEW key \in Seq(Byte), NEW value \in Seq(Byte), NEW data,
         f[n] = Loop(i, -1, key, value, data),
         NEW t \in Seq(Byte), StandsAt(s, i, EncodedText(t)),
         NEW j, Behind(j, i, EncodedText(t))
  PROVE  j \in Nat /\ \E m \in Nat : m <= j /\ f[m] = Loop(j, -1, key, value \o t, data)
<1>1. Len(t) \in Nat /\ Len(EncodedText(t)) \in Nat
  BY EncodedTextType
<1>2. ASSUME NEW flag \in {1, -1}, flag = -1
      PROVE  /\ f[n + Len(t)] = Loop(i + Len(EncodedText(t)), flag, key, value \o t, data)
             /\ Len(t) <= Len(EncodedText(t))
  <2>1. f[n] = Loop(i, flag, key, value, data)
    BY <1>2
  <2> QED
    BY <1>2, <2>1, TextTurns
<1>3. /\ f[n + Len(t)] = Loop(i + Len(EncodedText(t)), -1, key, value \o t, data)
      /\ Len(t) <= Len(EncodedText(t))
  BY <1>2
<1>4. j = i + Len(EncodedText(t)) /\ n + Len(t) \in Nat /\ n + Len(t) <= j /\ j \in Nat
  BY <1>1, <1>3 DEF Behind
<1> QED
  BY <1>3, <1>4

\* k stands behind the first i, '=' behind the first j, and v from behind the
\* first l to behind the first end.
PairStands(s, i, k, j, l, v, end) ==
  /\ StandsAt(s, i, EncodedText(k)) /\ Behind(j, i, EncodedText(k))
  /\ StandsAt(s, j, <<Equals>>) /\ Behind(l, j, <<Equals>>)
  /\ StandsAt(s, l, EncodedText(v)) /\ Behind(end, l, EncodedText(v))

\* A key, '=' and a value are read as such.
LEMMA PairTurns ==
  ASSUME NEW s \in Seq(Byte), NEW f, IsLoop(f, s), NEW n \in Nat, NEW i \in Nat, n <= i,
         NEW k \in Seq(Byte), NEW v \in Seq(Byte), NEW data,
         NEW none \in Seq(Byte),
         f[n] = Loop(i, 1, none, none, data),
         NEW j, NEW l, NEW end, PairStands(s, i, k, j, l, v, end)
  PROVE  \E m \in Nat : m <= end /\ f[m] = Loop(end, -1, none \o k, none \o v, data)
<1>1. j \in Nat /\ \E m \in Nat : m <= j /\ f[m] = Loop(j, 1, none \o k, none, data)
  BY KeyTurns DEF PairStands
<1> DEFINE key == none \o k
<1>2. PICK m \in Nat : m <= j /\ f[m] = Loop(j, 1, key, none, data)
  BY <1>1
<1>9. key \in Seq(Byte)
  OBVIOUS
<1> HIDE DEF key
<1>3. s[j + 1] = Equals /\ j < Len(s) /\ j \in Nat
  BY <1>1 DEF StandsAt, PairStands
<1>4. FormTurn(s, Loop(j, 1, key, none, data)) = Loop(j + 1, -1, key, none, data)
  BY <1>3, SeparatorTurn
<1> DEFINE m2 == m + 1
<1>5. l = j + 1 /\ l \in Nat /\ m2 \in Nat /\ m2 <= l
  BY <1>2, <1>3 DEF Behind, PairStands
<1>6. f[m2] = Loop(l, -1, key, none, data)
  BY <1>2, <1>4, <1>5 DEF IsLoop
<1>7. m2 \in Nat /\ m2 <= l /\ l \in Nat
  BY <1>5
<1> HIDE DEF m2
<1>8. \E h \in Nat : h <= end /\ f[h] = Loop(end, -1, key, none \o v, data)
  BY <1>6, <1>7, <1>9, ValueTurns DEF PairStands
<1> QED
  BY <1>8 DEF key

\* What a form means after one more pair.
LEMMA MeaningAppend ==
  ASSUME NEW form \in Form, NEW pair \in Seq(Byte) \X Seq(Byte)
  PROVE  Meaning(Append(form, pair)) = Put(Meaning(form), pair[1], pair[2])
<1> DEFINE fp == Append(form, pair)
           n == Len(form)
           LastFor(u, i) == \A k \in (i + 1)..Len(u) : u[k][1] # u[i][1]
<1>1. /\ n \in Nat /\ Len(fp) = n + 1 /\ fp[n + 1] = pair
      /\ \A i \in 1..n : fp[i] = form[i]
  BY AppendProperties DEF Form
<1> HIDE DEF fp
<1>2. LastFor(fp, n + 1)
  BY <1>1
<1>3. \A i \in 1..n : LastFor(fp, i) <=> LastFor(form, i) /\ form[i][1] # pair[1]
  <2> TAKE i \in 1..n
  <2>1. ASSUME LastFor(fp, i) PROVE LastFor(form, i) /\ form[i][1] # pair[1]
    <3>1. \A k \in (i + 1)..n : k \in (i + 1)..Len(fp) /\ k \in 1..n
      BY <1>1
    <3>2. n + 1 \in (i + 1)..Len(fp)
      BY <1>1
    <3> QED
      BY <1>1, <2>1, <3>1, <3>2
  <2>2. ASSUME LastFor(form, i), form[i][1] # pair[1] PROVE LastFor(fp, i)
    <3> TAKE k \in (i + 1)..Len(fp)
    <3>1. (k \in (i + 1)..n /\ k \in 1..n) \/ k = n + 1
      BY <1>1
    <3> QED
      BY <1>1, <2>2, <3>1
  <2> QED
    BY <2>1, <2>2
<1>4. \A u, x : x \in Meaning(u) <=>
        \E i \in 1..Len(u) : LastFor(u, i) /\ x = <<u[i][1], u[i][2]>>
  BY DEF Meaning
<1> HIDE DEF LastFor
<1>5. ASSUME NEW x \in Meaning(fp) PROVE x \in Put(Meaning(form), pair[1], pair[2])
  <2>1. PICK i \in 1..(n + 1) : LastFor(fp, i) /\ x = <<fp[i][1], fp[i][2]>>
    BY <1>1, <1>4, <1>5
  <2>2. CASE i = n + 1
    BY <1>1, <2>1, <2>2 DEF Put
  <2>3. CASE i \in 1..n
    <3>1. x \in Meaning(form) /\ x[1] # pair[1]
      BY <1>1, <1>3, <1>4, <2>1, <2>3
    <3> QED
      BY <3>1 DEF Put
  <2> QED
    BY <1>1, <2>2, <2>3
<1>6. ASSUME NEW x \in Put(Meaning(form), pair[1], pair[2]) PROVE x \in Meaning(fp)
  <2>1. CASE x = <<pair[1], pair[2]>>
    <3>1. n + 1 \in 1..Len(fp) /\ x = <<fp[n + 1][1], fp[n + 1][2]>>
      BY <1>1, <2>1
    <3> QED
      BY <1>2, <1>4, <3>1
  <2>2. CASE x \in Meaning(form) /\ x[1] # pair[1]
    <3>1. PICK i \in 1..n : LastFor(form, i) /\ x = <<form[i][1], form[i][2]>>
      BY <1>4, <2>2
    <3>2. LastFor(fp, i) /\ x = <<fp[i][1], fp[i][2]>>
      BY <1>1, <1>3, <2>2, <3>1
    <3>3. i \in 1..Len(fp)
      BY <1>1
    <3> QED
      BY <1>4, <3>2, <3>3
  <2> QED
    BY <1>6, <2>1, <2>2 DEF Put
<1> QED
  BY <1>5, <1>6 DEF fp

\* What has been read when all bytes of a form have been, but for the last pair
\* that is not stored yet.
IsRead(f, form) ==
  \E n \in Nat, k, v \in Seq(Byte) : \E data :
    /\ n <= Len(EncodedForm(form))
    /\ f[n] = Loop(Len(EncodedForm(form)), -1, k, v, data)
    /\ Put(data, k, v) = Meaning(form)

LEMMA OnePairIsRead ==
  ASSUME NEW s \in Seq(Byte), NEW f, IsLoop(f, s), NEW pair \in Seq(Byte) \X Seq(Byte),
         StandsAt(s, 0, EncodedForm(<<pair>>))
  PROVE  IsRead(f, <<pair>>)
<1> DEFINE k == pair[1]
           v == pair[2]
           none == <<>>
<1>1. /\ k \in Seq(Byte) /\ v \in Seq(Byte) /\ <<Equals>> \in Seq(Byte)
      /\ <<>> \in Seq(Byte) /\ <<>> \in Form
  BY DEF Equals, Byte, Form
<1>2. EncodedText(k) \in Seq(Byte) /\ EncodedText(v) \in Seq(Byte)
  BY <1>1, EncodedTextType
<1>3. Append(<<>>, pair) = <<pair>>
  OBVIOUS
<1>4. EncodedForm(<<pair>>) = EncodedPair(1, pair)
  <2>1. EncodedForm(Append(<<>>, pair)) = EncodedForm(<<>>) \o EncodedPair(Len(<<>>) + 1, pair)
    BY <1>1, EncodedFormAppend
  <2>2. EncodedPair(1, pair) \in Seq(Byte)
    BY EncodedPairType
  <2>3. Len(<<>>) + 1 = 1 /\ <<>> \o EncodedPair(1, pair) = EncodedPair(1, pair)
    BY <2>2
  <2> QED
    BY <1>3, <2>1, <2>3, EncodedFormEmpty
<1> DEFINE kEq == EncodedText(k) \o <<Equals>>
<1>5. EncodedPair(1, pair) = kEq \o EncodedText(v)
  <2>1. <<>> \o EncodedText(k) = EncodedText(k)
    BY <1>2
  <2> QED
    BY <2>1 DEF EncodedPair
<1>6. kEq \in Seq(Byte) /\ Len(kEq) = Len(EncodedText(k)) + 1
      /\ Len(kEq \o EncodedText(v)) = Len(EncodedText(k)) + 1 + Len(EncodedText(v))
  BY <1>1, <1>2
<1>7. StandsAt(s, 0, kEq) /\ StandsAt(s, 0 + Len(kEq), EncodedText(v))
  <2> DEFINE e == EncodedText(v)
  <2>1. StandsAt(s, 0, kEq \o e) /\ kEq \in Seq(Byte) /\ e \in Seq(Byte)
    BY <1>2, <1>4, <1>5, <1>6
  <2> HIDE DEF kEq, e
  <2>2. 0 \in Nat
    OBVIOUS
  <2>3. StandsAt(s, 0, kEq) /\ StandsAt(s, 0 + Len(kEq), e)
    BY <2>1, <2>2, StandsAtConcat
  <2> QED
    BY <2>3 DEF e
<1>8. StandsAt(s, 0, EncodedText(k)) /\ StandsAt(s, 0 + Len(EncodedText(k)), <<Equals>>)
  BY <1>1, <1>2, <1>7, StandsAtConcat
<1>9. f[0] = Loop(0, 1, none, none, {})
  BY DEF IsLoop, FormStart, Loop
<1>10. StandsAt(s, 0 + Len(EncodedText(k)) + 1, EncodedText(v))
  <2>1. 0 + Len(kEq) = 0 + Len(EncodedText(k)) + 1
    BY <1>2, <1>6
  <2> QED
    BY <1>7, <2>1
<1> DEFINE j == 0 + Len(EncodedText(k))
           l == j + 1
           end == l + Len(EncodedText(v))
<1>11. \E m \in Nat : m <= end /\ f[m] = Loop(end, -1, none \o k, none \o v, {})
  <2>1. 0 \in Nat /\ 0 <= 0
    OBVIOUS
  <2>2. PairStands(s, 0, k, j, l, v, end)
    BY <1>8, <1>10 DEF Behind, PairStands
  <2>3. none \in Seq(Byte)
    BY <1>1
  <2> HIDE DEF k, v, j, l, end, none
  <2> QED
    BY <1>1, <1>9, <2>1, <2>2, <2>3, PairTurns
<1>12. Meaning(<<pair>>) = Put({}, k, v)
  <2>1. Meaning(<<>>) = {}
    BY DEF Meaning
  <2> QED
    BY <1>1, <1>3, <2>1, MeaningAppend
<1>13. end = Len(EncodedForm(<<pair>>))
  BY <1>2, <1>4, <1>5, <1>6
<1>14. none \o k = k /\ none \o v = v
  BY <1>1
<1> HIDE DEF k, v, end, none
<1> QED
  BY <1>1, <1>11, <1>12, <1>13, <1>14 DEF IsRead

LEMMA NextPairIsRead ==
  ASSUME NEW s \in Seq(Byte), NEW f, IsLoop(f, s), NEW form \in Form, form # <<>>,
         NEW pair \in Seq(Byte) \X Seq(Byte), IsRead(f, form),
         StandsAt(s, 0, EncodedForm(Append(form, pair)))
  PROVE  IsRead(f, Append(form, pair))
<1> DEFINE k == pair[1]
           v == pair[2]
           e == EncodedForm(form)
           i == Len(e)
           amp == <<Amp>>
           eq == <<Equals>>
           ek == EncodedText(k)
           ev == EncodedText(v)
           whole2 == EncodedForm(Append(form, pair))
<1>1. /\ k \in Seq(Byte) /\ v \in Seq(Byte) /\ amp \in Seq(Byte) /\ eq \in Seq(Byte)
      /\ Len(amp) = 1 /\ Len(eq) = 1
  BY DEF Amp, Equals, Byte
<1>2. ek \in Seq(Byte) /\ ev \in Seq(Byte) /\ e \in Seq(Byte)
  BY <1>1, EncodedTextType, EncodedFormType
<1>3. whole2 = e \o (((amp \o ek) \o eq) \o ev)
  <2>1. Len(form) + 1 # 1
    BY DEF Form
  <2>2. EncodedPair(Len(form) + 1, pair) = ((amp \o ek) \o eq) \o ev
    BY <2>1 DEF EncodedPair
  <2> QED
    BY <2>2, EncodedFormAppend
<1>4a. PICK n \in Nat, k0 \in Seq(Byte), v0 \in Seq(Byte) : \E data :
         /\ n <= i
         /\ f[n] = Loop(i, -1, k0, v0, data)
         /\ Put(data, k0, v0) = Meaning(form)
  BY DEF IsRead
<1>4. PICK data :
        /\ n <= i
        /\ f[n] = Loop(i, -1, k0, v0, data)
        /\ Put(data, k0, v0) = Meaning(form)
  BY <1>4a
<1>5. amp[1] = Amp
  OBVIOUS
<1>6. Meaning(Append(form, pair)) = Put(Meaning(form), k, v)
  BY MeaningAppend
<1>7. StandsAt(s, 0, whole2)
  OBVIOUS
<1> HIDE DEF k, v, e, amp, eq, ek, ev, whole2
<1>8. /\ amp \o ek \in Seq(Byte) /\ Len(amp \o ek) = 1 + Len(ek)
      /\ (amp \o ek) \o eq \in Seq(Byte) /\ Len((amp \o ek) \o eq) = 1 + Len(ek) + 1
      /\ ((amp \o ek) \o eq) \o ev \in Seq(Byte)
      /\ Len(((amp \o ek) \o eq) \o ev) = 1 + Len(ek) + 1 + Len(ev)
      /\ Len(whole2) = i + 1 + Len(ek) + 1 + Len(ev)
      /\ i \in Nat /\ Len(ek) \in Nat /\ Len(ev) \in Nat /\ 0 + i = i
  <2>1. amp \o ek \in Seq(Byte) /\ Len(amp \o ek) = Len(amp) + Len(ek)
    BY <1>1, <1>2, ConcatProperties
  <2>2. (amp \o ek) \o eq \in Seq(Byte) /\ Len((amp \o ek) \o eq) = Len(amp \o ek) + Len(eq)
    BY <1>1, <2>1, ConcatProperties
  <2>3. /\ ((amp \o ek) \o eq) \o ev \in Seq(Byte)
        /\ Len(((amp \o ek) \o eq) \o ev) = Len((amp \o ek) \o eq) + Len(ev)
    BY <1>2, <2>2, ConcatProperties
  <2>4. Len(whole2) = Len(e) + Len(((amp \o ek) \o eq) \o ev)
    BY <1>2, <1>3, <2>3, ConcatProperties
  <2>5. Len(e) \in Nat /\ Len(ek) \in Nat /\ Len(ev) \in Nat
    BY <1>2
  <2> QED
    BY <1>1, <2>1, <2>2, <2>3, <2>4, <2>5
<1>9. /\ StandsAt(s, i, amp)
      /\ StandsAt(s, i + 1, ek)
      /\ StandsAt(s, i + 1 + Len(ek), eq)
      /\ StandsAt(s, i + 1 + Len(ek) + 1, ev)
  <2>1. StandsAt(s, 0 + i, ((amp \o ek) \o eq) \o ev)
    BY <1>2, <1>3, <1>7, <1>8, StandsAtConcat
  <2>2. /\ StandsAt(s, i, (amp \o ek) \o eq)
        /\ StandsAt(s, i + Len((amp \o ek) \o eq), ev)
    BY <1>2, <1>8, <2>1, StandsAtConcat
  <2>3. StandsAt(s, i, amp \o ek) /\ StandsAt(s, i + Len(amp \o ek), eq)
    BY <1>1, <1>8, <2>2, StandsAtConcat
  <2>4. StandsAt(s, i, amp) /\ StandsAt(s, i + Len(amp), ek)
    BY <1>1, <1>2, <1>8, <2>3, StandsAtConcat
  <2>5. /\ i + Len((amp \o ek) \o eq) = i + 1 + Len(ek) + 1
        /\ i + Len(amp \o ek) = i + 1 + Len(ek)
    BY <1>8
  <2> QED
    BY <1>1, <2>2, <2>3, <2>4, <2>5
<1>10. s[i + 1] = Amp /\ i < Len(s)
  BY <1>1, <1>5, <1>8, <1>9 DEF StandsAt
<1>11. f[n + 1] = Loop(i + 1, 1, <<>>, <<>>, Put(data, k0, v0))
  <2>1. FormTurn(s, Loop(i, -1, k0, v0, data)) =
          Loop(i + 1, -(-1), <<>>, <<>>, Put(data, k0, v0))
    BY <1>8, <1>10, SeparatorTurn, SMTT(30)
  <2> QED
    BY <1>4, <2>1, MinusMinusOne DEF IsLoop
<1> DEFINE i2 == i + 1
           d2 == Put(data, k0, v0)
           n2 == n + 1
           none == <<>>
           j == i2 + Len(ek)
           l == j + 1
           end == l + Len(ev)
<1>12. \E m \in Nat : m <= end /\ f[m] = Loop(end, -1, none \o k, none \o v, d2)
  <2>1. n2 \in Nat /\ i2 \in Nat /\ n2 <= i2
    BY <1>4, <1>8
  <2>2. PairStands(s, i2, k, j, l, v, end)
    BY <1>1, <1>9 DEF Behind, PairStands, eq, ek, ev
  <2>3. f[n2] = Loop(i2, 1, none, none, d2)
    BY <1>11
  <2>4. none \in Seq(Byte)
    OBVIOUS
  <2> HIDE DEF i2, d2, n2, i, j, l, end, none
  <2> QED
    BY <1>1, <2>1, <2>2, <2>3, <2>4, PairTurns
<1>13. Put(d2, k, v) = Meaning(Append(form, pair))
  BY <1>4, <1>6
<1>14. end = Len(EncodedForm(Append(form, pair)))
  BY <1>8 DEF whole2
<1>15. none \o k = k /\ none \o v = v
  BY <1>1
<1> HIDE DEF i, d2, end, none
<1> QED
  BY <1>1, <1>12, <1>13, <1>14, <1>15 DEF IsRead

LEMMA AllIsRead ==
  ASSUME NEW s \in Seq(Byte), NEW f, IsLoop(f, s), NEW form \in Form, form # <<>>,
         StandsAt(s, 0, EncodedForm(form))
  PROVE  IsRead(f, form)
<1> DEFINE Reads(u) == StandsAt(s, 0, EncodedForm(u)) => IsRead(f, u)
           Holds == {m \in Nat : \A u \in Form : Len(u) = m + 1 => Reads(u)}
<1>0. Form = Seq(Seq(Byte) \X Seq(Byte))
  BY DEF Form
<1>1. 0 \in Holds
  <2> SUFFICES ASSUME NEW u \in Form, Len(u) = 1, StandsAt(s, 0, EncodedForm(u))
               PROVE  IsRead(f, u)
    OBVIOUS
  <2> DEFINE pair == u[1]
             Pairs == Seq(Byte) \X Seq(Byte)
  <2>1. pair \in Pairs
    <3>0. u \in Seq(Pairs)
      BY <1>0
    <3> HIDE DEF Pairs
    <3> QED
      BY <3>0
  <2>2. u = <<pair>>
    <3> HIDE DEF Pairs
    <3>1. u \in Seq(Pairs) /\ <<pair>> \in Seq(Pairs) /\ Len(<<pair>>) = 1 /\ <<pair>>[1] = u[1]
      BY <1>0, <2>1 DEF Pairs
    <3>2. \A i \in 1..1 : i = 1
      OBVIOUS
    <3> QED
      BY <3>1, <3>2, SeqEqual
  <2> HIDE DEF pair
  <2>3. StandsAt(s, 0, EncodedForm(<<pair>>))
    BY <2>2
  <2>4. IsRead(f, <<pair>>)
    BY <2>1, <2>3, OnePairIsRead
  <2> QED
    BY <2>2, <2>4
<1>2. ASSUME NEW m \in Nat, m \in Holds PROVE m + 1 \in Holds
  <2> SUFFICES ASSUME NEW u \in Form, Len(u) = (m + 1) + 1, StandsAt(s, 0, EncodedForm(u))
               PROVE  IsRead(f, u)
    OBVIOUS
  <2>1. PICK before \in Form, pair \in Seq(Byte) \X Seq(Byte) : u = Append(before, pair)
    <3>1. u # <<>>
      OBVIOUS
    <3> QED
      BY <1>0, <3>1, SequenceEmptyOrAppend
  <2>2. Len(before) = m + 1 /\ before # <<>>
    BY <1>0, <2>1
  <2>3. StandsAt(s, 0, EncodedForm(before))
    <3>1. EncodedForm(before) \in Seq(Byte) /\ EncodedPair(Len(before) + 1, pair) \in Seq(Byte)
      BY EncodedFormType, EncodedPairType
    <3>2. EncodedForm(u) = EncodedForm(before) \o EncodedPair(Len(before) + 1, pair)
      BY <2>1, EncodedFormAppend
    <3> QED
      BY <3>1, <3>2, StandsAtConcat
  <2>4. IsRead(f, before)
    BY <1>2, <2>2, <2>3
  <2> QED
    BY <2>1, <2>2, <2>4, NextPairIsRead
<1>3. \A m \in Nat : m \in Holds
  <2> HIDE DEF Holds
  <2> QED
    BY <1>1, <1>2, InductionOverNat
<1>4. Len(form) - 1 \in Nat /\ (Len(form) - 1) + 1 = Len(form)
  BY <1>0
<1> QED
  BY <1>3, <1>4

\* parseRequest reads from the body of a form what the client meant, whatever
\* the form and whatever bytes its keys and values consist of.
THEOREM FormIsReadAsMeant ==
  \A form \in Form : form # <<>> => postDataOf(EncodedForm(form)) = Meaning(form)
<1> SUFFICES ASSUME NEW form \in Form, form # <<>>
             PROVE  postDataOf(EncodedForm(form)) = Meaning(form)
  OBVIOUS
<1> DEFINE s == EncodedForm(form)
<1>1. s \in Seq(Byte) /\ Len(s) \in Nat
  BY EncodedFormType
<1>2. PICK f : IsLoop(f, s) /\ postDataOf(s) = f[Len(s) + 1].data
  BY LoopOf
<1>3. StandsAt(s, 0, s)
  BY <1>1 DEF StandsAt
<1>4. IsRead(f, form)
  BY <1>1, <1>2, <1>3, AllIsRead
<1>5a. PICK n \in Nat, k \in Seq(Byte), v \in Seq(Byte) : \E data :
         /\ n <= Len(s)
         /\ f[n] = Loop(Len(s), -1, k, v, data)
         /\ Put(data, k, v) = Meaning(form)
  BY <1>4 DEF IsRead
<1>5. PICK data :
        /\ n <= Len(s)
        /\ f[n] = Loop(Len(s), -1, k, v, data)
        /\ Put(data, k, v) = Meaning(form)
  BY <1>5a
<1> HIDE DEF s
<1> DEFINE end == Loop(Len(s) + 1, -1, k, v, Meaning(form))
<1>6. f[n + 1] = end /\ FormTurn(s, end) = end
  <2>1. f[n + 1] = FormTurn(s, f[n])
    BY <1>2 DEF IsLoop
  <2> QED
    BY <1>1, <1>5, <2>1, EndTurn
<1> DEFINE Holds == {m \in Nat : f[(n + 1) + m] = end}
<1> HIDE DEF end
<1>7. 0 \in Holds
  BY <1>6
<1>8. ASSUME NEW m \in Nat, m \in Holds PROVE m + 1 \in Holds
  <2>1. (n + 1) + (m + 1) = ((n + 1) + m) + 1 /\ (n + 1) + m \in Nat
    OBVIOUS
  <2>2. f[((n + 1) + m) + 1] = FormTurn(s, f[(n + 1) + m])
    BY <1>2, <2>1 DEF IsLoop
  <2> QED
    BY <1>6, <1>8, <2>1, <2>2
<1>9. \A m \in Nat : m \in Holds
  <2> HIDE DEF Holds
  <2> QED
    BY <1>7, <1>8, InductionOverNat
<1>10. Len(s) - n \in Nat /\ (n + 1) + (Len(s) - n) = Len(s) + 1
  BY <1>1, <1>5
<1>11. f[Len(s) + 1] = end
  BY <1>9, <1>10
<1>12. end.data = Meaning(form)
  BY DEF end, Loop
<1> QED
  BY <1>2, <1>11, <1>12 DEF s

------------------------------------------------------------------------------
(* A text, and what is left of it *)

LEMMA SomeRequests == MaxRequests \in Nat
  BY KindsAssumption

LEMMA IdsAre == \A n \in 0..MaxRequests : \A i \in 1..n : i \in Ids
  BY SomeRequests DEF Ids

ConnectionLine(k, i) ==
  IF k.connection # "" THEN <<T("Connection", i), T("crlf", i)>> ELSE <<>>
FormLines(k, i) ==
  IF k.form # <<>> THEN <<T("Content-Type", i), T("crlf", i)>> ELSE <<>>

Rest2(k, i) == <<T("crlf", i)>> \o BodyText(k, i)
Rest1(k, i) == FormLines(k, i) \o Rest2(k, i)
Rest0(k, i) == ConnectionLine(k, i) \o Rest1(k, i)

NoLines(s) == \A a \in 1..Len(s) : s[a].what # "line"

LEMMA NoLinesConcat ==
  ASSUME NEW s \in Seq(Token), NEW t \in Seq(Token), NoLines(s), NoLines(t)
  PROVE  NoLines(s \o t)
<1> SUFFICES ASSUME NEW a \in 1..Len(s \o t) PROVE (s \o t)[a].what # "line"
  BY DEF NoLines
<1>1. /\ Len(s) \in Nat /\ Len(t) \in Nat /\ a \in 1..(Len(s) + Len(t))
      /\ (s \o t)[a] = IF a <= Len(s) THEN s[a] ELSE t[a - Len(s)]
  BY ConcatProperties
<1>2. CASE a <= Len(s)
  BY <1>1, <1>2 DEF NoLines
<1>3. CASE ~(a <= Len(s))
  <2>1. a - Len(s) \in 1..Len(t)
    BY <1>1, <1>3
  <2> QED
    BY <1>1, <1>3, <2>1 DEF NoLines
<1> QED
  BY <1>2, <1>3

LEMMA Tokens ==
  ASSUME NEW i \in Ids
  PROVE  /\ \A what \in {"line", "crlf", "body", "Connection", "Content-Type"} :
              T(what, i) \in Token
         /\ \A what : T(what, i).what = what /\ T(what, i).of = i
  BY DEF T, Token, Fields

LEMMA BodyTextIs ==
  ASSUME NEW k \in Kinds, NEW i \in Ids
  PROVE  BodyText(k, i) \in Seq(Token) /\ NoLines(BodyText(k, i))
<1> DEFINE b == k.body
           t == BodyText(k, i)
           whats == {"body", "crlf", "Connection", "Content-Type"}
<1>1. b \in Seq(whats)
  BY KindsAssumption
<1>2. Len(b) \in Nat /\ \A j \in 1..Len(b) : b[j] \in whats
  <2> HIDE DEF b, whats
  <2> QED
    BY <1>1
<1>3. t = [j \in 1..Len(b) |-> T(b[j], i)]
  BY DEF BodyText
<1> HIDE DEF b, t
<1>4. \A j \in 1..Len(b) : T(b[j], i) \in Token /\ T(b[j], i).what # "line"
  BY <1>2, Tokens
<1>5. t \in Seq(Token) /\ Len(t) = Len(b) /\ \A j \in 1..Len(b) : t[j] = T(b[j], i)
  BY <1>2, <1>3, <1>4
<1> QED
  BY <1>4, <1>5 DEF NoLines, t

LEMMA Parts ==
  ASSUME NEW k \in Kinds, NEW i \in Ids
  PROVE  /\ ConnectionLine(k, i) \in Seq(Token) /\ NoLines(ConnectionLine(k, i))
         /\ FormLines(k, i) \in Seq(Token) /\ NoLines(FormLines(k, i))
         /\ BodyText(k, i) \in Seq(Token) /\ NoLines(BodyText(k, i))
         /\ <<T("crlf", i)>> \in Seq(Token) /\ NoLines(<<T("crlf", i)>>)
<1> DEFINE crlf == T("crlf", i)
<1>1. crlf \in Token /\ crlf.what # "line"
  BY Tokens
<1>2. ASSUME NEW t \in Token, t.what # "line"
      PROVE  /\ <<t, crlf>> \in Seq(Token) /\ NoLines(<<t, crlf>>)
             /\ <<t>> \in Seq(Token) /\ NoLines(<<t>>)
  <2> HIDE DEF crlf
  <2> QED
    BY <1>1, <1>2 DEF NoLines
<1>3. <<>> \in Seq(Token) /\ NoLines(<<>>)
  BY DEF NoLines
<1>4. \A what \in {"Connection", "Content-Type", "body"} :
         T(what, i) \in Token /\ T(what, i).what # "line"
  BY Tokens
<1>5. ConnectionLine(k, i) \in Seq(Token) /\ NoLines(ConnectionLine(k, i))
  BY <1>2, <1>3, <1>4 DEF ConnectionLine
<1>6. FormLines(k, i) \in Seq(Token) /\ NoLines(FormLines(k, i))
  BY <1>2, <1>3, <1>4 DEF FormLines
<1>7. BodyText(k, i) \in Seq(Token) /\ NoLines(BodyText(k, i))
  BY BodyTextIs
<1> QED
  BY <1>1, <1>2, <1>5, <1>6, <1>7

LEMMA Rests ==
  ASSUME NEW k \in Kinds, NEW i \in Ids
  PROVE  /\ Rest0(k, i) \in Seq(Token) /\ NoLines(Rest0(k, i))
         /\ Rest1(k, i) \in Seq(Token) /\ NoLines(Rest1(k, i))
         /\ Rest2(k, i) \in Seq(Token) /\ NoLines(Rest2(k, i))
<1>1. Rest2(k, i) \in Seq(Token) /\ NoLines(Rest2(k, i))
  BY Parts, ConcatProperties, NoLinesConcat DEF Rest2
<1>2. Rest1(k, i) \in Seq(Token) /\ NoLines(Rest1(k, i))
  BY <1>1, Parts, ConcatProperties, NoLinesConcat DEF Rest1
<1>3. Rest0(k, i) \in Seq(Token) /\ NoLines(Rest0(k, i))
  BY <1>2, Parts, ConcatProperties, NoLinesConcat DEF Rest0
<1> QED
  BY <1>1, <1>2, <1>3

\* The first line of a request, and the rest behind it.
FirstLine(i) == <<T("line", i), T("crlf", i)>>

LEMMA RequestTextIs ==
  ASSUME NEW k \in Kinds, NEW i \in Ids, ~k.inBody
  PROVE  /\ FirstLine(i) \in Seq(Token) /\ Len(FirstLine(i)) = 2
         /\ FirstLine(i)[1] = T("line", i) /\ FirstLine(i)[2] = T("crlf", i)
         /\ Text(k, i) \in Seq(Token)
         /\ Text(k, i) = FirstLine(i) \o Rest0(k, i)
<1> DEFINE c == ConnectionLine(k, i)
           f == FormLines(k, i)
           e == <<T("crlf", i)>>
           b == BodyText(k, i)
           l == FirstLine(i)
<1>1. /\ l \in Seq(Token) /\ Len(l) = 2 /\ l[1] = T("line", i) /\ l[2] = T("crlf", i)
  BY Tokens DEF FirstLine
<1>2. c \in Seq(Token) /\ f \in Seq(Token) /\ e \in Seq(Token) /\ b \in Seq(Token)
  BY Parts
<1>3. Text(k, i) = ((((l \o c) \o f) \o e) \o b)
  BY DEF Text, FirstLine, ConnectionLine, FormLines
<1>4. Rest0(k, i) = c \o (f \o (e \o b))
  BY DEF Rest0, Rest1, Rest2
<1> HIDE DEF c, f, e, b, l
<1>5. /\ l \o c \in Seq(Token) /\ (l \o c) \o f \in Seq(Token)
      /\ e \o b \in Seq(Token) /\ f \o (e \o b) \in Seq(Token)
      /\ c \o (f \o (e \o b)) \in Seq(Token)
  BY <1>1, <1>2, ConcatProperties
<1> DEFINE lc == l \o c
           lcf == lc \o f
           eb == e \o b
           feb == f \o eb
<1>6. (lcf \o e) \o b = lcf \o eb
  <2> HIDE DEF lcf
  <2> QED
    BY <1>2, <1>5, ConcatAssociative, SMTT(30) DEF lcf
<1>7. (lc \o f) \o eb = lc \o feb
  <2> HIDE DEF lc, eb
  <2>1. lc \in Seq(Token) /\ eb \in Seq(Token)
    BY <1>5 DEF lc, eb
  <2>2. f \in Seq(Token)
    BY <1>2
  <2> QED
    BY <2>1, <2>2, ConcatAssociative
<1>8. (l \o c) \o feb = l \o (c \o feb)
  <2>1. feb \in Seq(Token)
    BY <1>5
  <2>2. l \in Seq(Token) /\ c \in Seq(Token)
    BY <1>1, <1>2
  <2> HIDE DEF feb
  <2> QED
    BY <2>1, <2>2, ConcatAssociative
<1>9. l \o (c \o (f \o (e \o b))) \in Seq(Token)
  BY <1>1, <1>5, ConcatProperties
<1> QED
  BY <1>1, <1>3, <1>4, <1>6, <1>7, <1>8, <1>9 DEF l

\* Only the first token of a text is a request line.
LEMMA RequestTextBegins ==
  ASSUME NEW k \in Kinds, NEW i \in Ids, ~k.inBody
  PROVE  /\ Len(Text(k, i)) \in Nat /\ Len(Text(k, i)) >= 2
         /\ Text(k, i)[1] = T("line", i) /\ Text(k, i)[2] = T("crlf", i)
         /\ \A a \in 1..Len(Text(k, i)) : Text(k, i)[a].what = "line" => a = 1
<1> DEFINE l == FirstLine(i)
           r == Rest0(k, i)
           t == Text(k, i)
<1>1. /\ l \in Seq(Token) /\ Len(l) = 2 /\ l[1] = T("line", i) /\ l[2] = T("crlf", i)
      /\ r \in Seq(Token) /\ NoLines(r) /\ t = l \o r
  BY RequestTextIs, Rests
<1>2. T("crlf", i).what # "line"
  BY Tokens
<1> HIDE DEF l, r, t
<1>3. /\ Len(t) = 2 + Len(r) /\ Len(r) \in Nat
      /\ \A a \in 1..(2 + Len(r)) : t[a] = IF a <= 2 THEN l[a] ELSE r[a - 2]
  <2>1. /\ Len(t) = Len(l) + Len(r) /\ Len(r) \in Nat
        /\ \A a \in 1..(Len(l) + Len(r)) : t[a] = IF a <= Len(l) THEN l[a] ELSE r[a - Len(l)]
    BY <1>1, ConcatProperties, LenProperties
  <2> QED
    BY <1>1, <2>1
<1>4. 1 \in 1..(2 + Len(r)) /\ 2 \in 1..(2 + Len(r))
  BY <1>3
<1>5. t[1] = T("line", i) /\ t[2] = T("crlf", i)
  BY <1>1, <1>3, <1>4
<1>6. ASSUME NEW a \in 1..Len(t), t[a].what = "line" PROVE a = 1
  <2>1. CASE a > 2
    <3>1. a - 2 \in 1..Len(r) /\ t[a] = r[a - 2]
      BY <1>3, <2>1
    <3> QED
      BY <1>1, <1>6, <3>1 DEF NoLines
  <2>2. a = 1 \/ a = 2 \/ a > 2
    BY <1>3
  <2> QED
    BY <1>2, <1>5, <1>6, <2>1, <2>2
<1> QED
  BY <1>3, <1>5, <1>6 DEF t

\* So with a text in a body.
LEMMA InBodyTextIs ==
  ASSUME NEW k \in Kinds, NEW i \in Ids, k.inBody
  PROVE  /\ Text(k, i) \in Seq(Token) /\ Len(Text(k, i)) >= 1
         /\ Text(k, i)[1] = T("line", i)
         /\ \A a \in 1..Len(Text(k, i)) : Text(k, i)[a].what = "line" => a = 1
<1> DEFINE l == <<T("line", i)>>
           r == BodyText(k, i)
           t == Text(k, i)
<1>1. t = l \o r
  BY DEF Text
<1>2. l \in Seq(Token) /\ Len(l) = 1 /\ l[1] = T("line", i)
  BY Tokens
<1>3. r \in Seq(Token) /\ NoLines(r)
  BY BodyTextIs
<1> HIDE DEF l, r, t
<1>4. /\ t \in Seq(Token) /\ Len(t) = 1 + Len(r) /\ Len(r) \in Nat
      /\ \A a \in 1..(1 + Len(r)) : t[a] = IF a <= 1 THEN l[a] ELSE r[a - 1]
  <2>0. l \in Seq(Token) /\ r \in Seq(Token)
    BY <1>2, <1>3
  <2>1. /\ l \o r \in Seq(Token) /\ Len(l \o r) = Len(l) + Len(r)
        /\ \A a \in 1..(Len(l) + Len(r)) :
             (l \o r)[a] = IF a <= Len(l) THEN l[a] ELSE r[a - Len(l)]
    BY <2>0, ConcatProperties, Zenon
  <2>2. Len(r) \in Nat /\ Len(l) = 1
    BY <1>2, <2>0, LenProperties
  <2> QED
    BY <1>1, <2>1, <2>2
<1>5. t[1] = T("line", i)
  BY <1>2, <1>4
<1>6. ASSUME NEW a \in 1..Len(t), t[a].what = "line" PROVE a = 1
  <2>1. CASE a > 1
    <3>1. a - 1 \in 1..Len(r) /\ t[a] = r[a - 1]
      BY <1>4, <2>1
    <3> QED
      BY <1>3, <1>6, <3>1 DEF NoLines
  <2> QED
    BY <1>4, <2>1
<1> QED
  BY <1>4, <1>5, <1>6 DEF t

LEMMA TextBegins ==
  ASSUME NEW k \in Kinds, NEW i \in Ids
  PROVE  /\ Text(k, i) \in Seq(Token)
         /\ Len(Text(k, i)) \in Nat /\ Len(Text(k, i)) >= 1
         /\ Text(k, i)[1] = T("line", i)
         /\ \A a \in 1..Len(Text(k, i)) : Text(k, i)[a].what = "line" => a = 1
<1>1. CASE ~k.inBody
  <2>1. /\ Text(k, i) \in Seq(Token)
        /\ Len(Text(k, i)) \in Nat /\ Len(Text(k, i)) >= 2
        /\ Text(k, i)[1] = T("line", i)
        /\ \A a \in 1..Len(Text(k, i)) : Text(k, i)[a].what = "line" => a = 1
    BY <1>1, RequestTextIs, RequestTextBegins
  <2>2. Len(Text(k, i)) >= 1
    BY <2>1
  <2> QED
    BY <2>1, <2>2
<1>2. CASE k.inBody
  <2>1. /\ Text(k, i) \in Seq(Token) /\ Len(Text(k, i)) >= 1
        /\ Text(k, i)[1] = T("line", i)
        /\ \A a \in 1..Len(Text(k, i)) : Text(k, i)[a].what = "line" => a = 1
    BY <1>2, InBodyTextIs
  <2>2. Len(Text(k, i)) \in Nat
    BY <2>1, LenProperties
  <2> QED
    BY <2>1, <2>2
<1> QED
  BY <1>1, <1>2

------------------------------------------------------------------------------
(* Bytes taken from the front *)

\* u is s without its first n elements.
Drops(s, n, u) ==
  /\ n \in 0..Len(s)
  /\ Len(u) = Len(s) - n
  /\ \A a \in 1..Len(u) : u[a] = s[a + n]

LEMMA DropStands ==
  ASSUME NEW s, NEW u, NEW n, NEW i \in Nat, NEW t, Len(s) \in Nat, Len(t) \in Nat,
         Drops(s, n, u), StandsAt(s, i + n, t)
  PROVE  StandsAt(u, i, t)
<1>1. n \in Nat /\ Len(u) = Len(s) - n /\ (i + n) + Len(t) <= Len(s)
  BY DEF Drops, StandsAt
<1>2. i + Len(t) <= Len(u)
  BY <1>1
<1>3. ASSUME NEW j \in 1..Len(t) PROVE u[i + j] = t[j]
  <2>1. i + j \in 1..Len(u) /\ (i + j) + n = (i + n) + j
    BY <1>1, <1>2
  <2>2. u[i + j] = s[(i + j) + n]
    BY <2>1 DEF Drops
  <2>3. s[(i + n) + j] = t[j]
    BY DEF StandsAt
  <2> QED
    BY <2>1, <2>2, <2>3
<1> QED
  BY <1>2, <1>3 DEF StandsAt

LEMMA DropStandsFirst ==
  ASSUME NEW s, NEW u, NEW n, NEW t, Len(s) \in Nat, Len(t) \in Nat,
         Drops(s, n, u), StandsAt(s, n, t)
  PROVE  StandsAt(u, 0, t)
<1>1. n \in Nat /\ 0 + n = n
  BY DEF Drops
<1> QED
  BY <1>1, DropStands

\* Every request line that is left is followed by the whole of its text.
WholeTexts(s, st) ==
  \A a \in 1..Len(s) : s[a].what = "line" =>
    /\ s[a].of \in 1..Len(st)
    /\ StandsAt(s, a - 1, Text(st[s[a].of], s[a].of))

\* The request lines stand in the order they were sent in.
InOrder(s) ==
  \A a, b \in 1..Len(s) :
    s[a].what = "line" /\ s[b].what = "line" /\ a < b => s[a].of < s[b].of

\* The request lines in s are those of later requests than i.
Ahead(s, i) == \A a \in 1..Len(s) : s[a].what = "line" => i < s[a].of

LEMMA DropKeeps ==
  ASSUME NEW s \in Seq(Token), NEW u \in Seq(Token), NEW n, Drops(s, n, u),
         NEW st \in Seq(Kinds), Len(st) \in 0..MaxRequests
  PROVE  /\ WholeTexts(s, st) => WholeTexts(u, st)
         /\ InOrder(s) => InOrder(u)
         /\ \A i : Ahead(s, i) => Ahead(u, i)
<1>1. \A a \in 1..Len(u) : a + n \in 1..Len(s) /\ u[a] = s[a + n]
  BY DEF Drops
<1>2. ASSUME WholeTexts(s, st) PROVE WholeTexts(u, st)
  <2> SUFFICES ASSUME NEW a \in 1..Len(u), u[a].what = "line"
               PROVE  /\ u[a].of \in 1..Len(st)
                      /\ StandsAt(u, a - 1, Text(st[u[a].of], u[a].of))
    BY DEF WholeTexts
  <2> DEFINE i == u[a].of
             t == Text(st[i], i)
  <2>1. u[a] = s[a + n] /\ a + n \in 1..Len(s) /\ n \in Nat /\ Len(s) \in Nat /\ a - 1 \in Nat
    BY <1>1 DEF Drops
  <2>2. i \in 1..Len(st) /\ StandsAt(s, (a + n) - 1, t)
    BY <1>2, <2>1 DEF WholeTexts
  <2>3. i \in Ids
    BY <2>2, IdsAre
  <2>4. Len(t) \in Nat
    <3>1. st[i] \in Kinds
      BY <2>2
    <3> QED
      BY <2>3, <3>1, TextBegins
  <2>5. (a + n) - 1 = (a - 1) + n
    BY <2>1
  <2> HIDE DEF i, t
  <2>6. StandsAt(u, a - 1, t)
    BY <2>1, <2>2, <2>4, <2>5, DropStands
  <2> QED
    BY <2>2, <2>6 DEF i, t
<1>3. ASSUME InOrder(s) PROVE InOrder(u)
  <2> SUFFICES ASSUME NEW a \in 1..Len(u), NEW b \in 1..Len(u),
                      u[a].what = "line", u[b].what = "line", a < b
               PROVE  u[a].of < u[b].of
    BY DEF InOrder
  <2>1. a + n < b + n
    BY DEF Drops
  <2> QED
    BY <1>1, <1>3, <2>1 DEF InOrder
<1>4. \A i : Ahead(s, i) => Ahead(u, i)
  BY <1>1 DEF Ahead
<1> QED
  BY <1>2, <1>3, <1>4

\* Another request is sent behind them.
LEMMA SendKeeps ==
  ASSUME NEW s \in Seq(Token), NEW st \in Seq(Kinds), NEW k \in Kinds, Len(st) < MaxRequests,
         WholeTexts(s, st), InOrder(s)
  PROVE  LET more == s \o Text(k, Len(st) + 1) IN
         /\ WholeTexts(more, Append(st, k))
         /\ InOrder(more)
         /\ \A i \in 1..Len(st) : Ahead(s, i) => Ahead(more, i)
<1> DEFINE m == Len(st) + 1
           t == Text(k, m)
           more == s \o t
           st2 == Append(st, k)
<1>1. m \in Ids /\ Len(st) \in Nat /\ Len(st) \in 0..MaxRequests
  BY SomeRequests DEF Ids
<1>2. /\ t \in Seq(Token) /\ Len(t) \in Nat /\ Len(t) >= 1 /\ t[1] = T("line", m)
      /\ \A a \in 1..Len(t) : t[a].what = "line" => a = 1
  BY <1>1, TextBegins
<1>3. /\ st2 \in Seq(Kinds) /\ Len(st2) = m /\ st2[m] = k
      /\ \A i \in 1..Len(st) : st2[i] = st[i]
  BY AppendProperties
<1>4. T("line", m).of = m
  BY DEF T
<1>0. m = Len(st) + 1
  OBVIOUS
<1> HIDE DEF t, m, st2
<1>5. /\ Len(s) \in Nat /\ Len(more) = Len(s) + Len(t)
      /\ \A a \in 1..Len(s) : more[a] = s[a]
      /\ \A a \in 1..Len(t) : more[Len(s) + a] = t[a]
  BY <1>2
<1> HIDE DEF more
\* A request line is one of those before, or the new one.
<1>6. ASSUME NEW a \in 1..Len(more), more[a].what = "line"
      PROVE  \/ a \in 1..Len(s) /\ more[a] = s[a]
             \/ a = Len(s) + 1 /\ more[a].of = m
  <2>1. CASE a \in 1..Len(s)
    BY <1>5, <2>1
  <2>2. CASE a \notin 1..Len(s)
    <3>1. a - Len(s) \in 1..Len(t) /\ Len(s) + (a - Len(s)) = a
      BY <1>2, <1>5, <2>2
    <3>2. more[a] = t[a - Len(s)]
      BY <1>5, <3>1
    <3>3. a - Len(s) = 1
      BY <1>2, <1>6, <3>1, <3>2
    <3> QED
      BY <1>2, <1>4, <3>1, <3>2, <3>3
  <2> QED
    BY <2>1, <2>2
<1>7. \A a \in 1..Len(s) : s[a].what = "line" => s[a].of \in 1..Len(st)
  BY DEF WholeTexts
<1>8. WholeTexts(more, st2)
  <2> SUFFICES ASSUME NEW a \in 1..Len(more), more[a].what = "line"
               PROVE  /\ more[a].of \in 1..Len(st2)
                      /\ StandsAt(more, a - 1, Text(st2[more[a].of], more[a].of))
    BY DEF WholeTexts
  <2>1. CASE a \in 1..Len(s) /\ more[a] = s[a]
    <3> DEFINE i == s[a].of
               u == Text(st[i], i)
    <3>1. i \in 1..Len(st) /\ StandsAt(s, a - 1, u)
      BY <2>1 DEF WholeTexts
    <3>2. i \in Ids
      BY <1>1, <3>1, IdsAre
    <3>3. Len(u) \in Nat
      <4>1. st[i] \in Kinds
        BY <3>1
      <4> QED
        BY <3>2, <4>1, TextBegins
    <3>4. st2[i] = st[i] /\ i \in 1..Len(st2)
      BY <1>0, <1>1, <1>3, <3>1
    <3> HIDE DEF i, u
    <3>5. a - 1 \in Nat /\ (a - 1) + Len(u) <= Len(s)
      BY <2>1, <3>1 DEF StandsAt
    <3>6. \A j \in 1..Len(u) : (a - 1) + j \in 1..Len(s)
      BY <1>5, <3>3, <3>5
    <3>7. StandsAt(more, a - 1, u)
      <4>1. (a - 1) + Len(u) <= Len(more)
        BY <1>2, <1>5, <3>3, <3>5
      <4>2. \A j \in 1..Len(u) : more[(a - 1) + j] = u[j]
        BY <1>5, <3>1, <3>6 DEF StandsAt
      <4> QED
        BY <4>1, <4>2 DEF StandsAt
    <3> QED
      BY <2>1, <3>4, <3>7 DEF i, u
  <2>2. CASE a = Len(s) + 1 /\ more[a].of = m
    <3>1. a - 1 = Len(s) /\ Len(st2) \in Nat /\ m \in 1..Len(st2)
      BY <1>0, <1>1, <1>3, <1>5, <2>2
    <3>2. StandsAt(more, Len(s), t)
      BY <1>2, <1>5 DEF StandsAt
    <3> QED
      BY <1>3, <2>2, <3>1, <3>2 DEF t
  <2> QED
    BY <1>6, <2>1, <2>2
<1>9. InOrder(more)
  <2> SUFFICES ASSUME NEW a \in 1..Len(more), NEW b \in 1..Len(more),
                      more[a].what = "line", more[b].what = "line", a < b
               PROVE  more[a].of < more[b].of
    BY DEF InOrder
  <2>1. a \in 1..Len(s) /\ more[a] = s[a]
    <3>1. CASE a = Len(s) + 1
      <4>1. b > Len(s) + 1
        BY <1>5, <3>1
      <4> QED
        BY <1>5, <1>6, <4>1
    <3> QED
      BY <1>6, <3>1
  <2>2. CASE b \in 1..Len(s) /\ more[b] = s[b]
    BY <2>1, <2>2 DEF InOrder
  <2>3. CASE b = Len(s) + 1 /\ more[b].of = m
    BY <1>0, <1>1, <1>7, <2>1, <2>3
  <2> QED
    BY <1>6, <2>2, <2>3
<1>10. ASSUME NEW i \in 1..Len(st), Ahead(s, i) PROVE Ahead(more, i)
  <2> SUFFICES ASSUME NEW a \in 1..Len(more), more[a].what = "line" PROVE i < more[a].of
    BY DEF Ahead
  <2>1. CASE a \in 1..Len(s) /\ more[a] = s[a]
    BY <1>10, <2>1 DEF Ahead
  <2>2. CASE a = Len(s) + 1 /\ more[a].of = m
    BY <1>0, <1>1, <2>2
  <2> QED
    BY <1>6, <2>1, <2>2
<1> QED
  BY <1>8, <1>9, <1>10 DEF more, t, m, st2

------------------------------------------------------------------------------
(* The first line of the Buffer *)

\* A nonempty set of naturals has a least element.
LEMMA LeastOf ==
  ASSUME NEW I \in SUBSET Nat, I # {}
  PROVE  Min(I) \in I /\ \A y \in I : Min(I) <= y
<1>1. PICK m \in I : \A k \in I : ~(<<k, m>> \in OpToRel(<, Nat))
  BY WFMin, NatLessThanWellFounded, Zenon
<1>2. \A k \in I : ~(k < m)
  BY <1>1 DEF OpToRel
<1>3. \A k \in I : k \in Nat
  OBVIOUS
<1>4. \A k \in I : m <= k
  BY <1>2, <1>3
<1> QED
  BY <1>4 DEF Min

LEMMA CRLFIs ==
  ASSUME buf \in Seq(Token)
  PROVE  \/ findCRLF = 0 /\ \A a \in 1..Len(buf) : buf[a].what # "crlf"
         \/ /\ findCRLF \in 1..Len(buf) /\ buf[findCRLF].what = "crlf"
            /\ \A a \in 1..(findCRLF - 1) : buf[a].what # "crlf"
<1> DEFINE I == {a \in 1..Len(buf) : buf[a].what = "crlf"}
<1>1. findCRLF = IF I # {} THEN Min(I) ELSE 0
  BY DEF findCRLF, SelectInSeq
<1>2. I \in SUBSET Nat /\ Len(buf) \in Nat
  OBVIOUS
<1>3. CASE I = {}
  BY <1>1, <1>3
<1>4. CASE I # {}
  <2>1. findCRLF \in I /\ \A y \in I : findCRLF <= y
    <3> HIDE DEF I
    <3> QED
      BY <1>1, <1>2, <1>4, LeastOf
  <2>2. ASSUME NEW a \in 1..(findCRLF - 1) PROVE buf[a].what # "crlf"
    <3>1. a \in 1..Len(buf) /\ ~(findCRLF <= a)
      BY <1>2, <2>1
    <3> QED
      BY <2>1, <3>1
  <2> QED
    BY <2>1, <2>2
<1> QED
  BY <1>3, <1>4

\* What is left behind it is the Buffer without its first tokens.
LEMMA AfterIs ==
  ASSUME buf \in Seq(Token)
  PROVE  /\ AfterCRLF \in Seq(Token)
         /\ HasLine => Drops(buf, findCRLF, AfterCRLF)
         /\ ~HasLine => Drops(buf, Len(buf), AfterCRLF)
<1>1. Len(buf) \in Nat
  OBVIOUS
<1>2. CASE HasLine
  <2> DEFINE c == findCRLF
  <2>1. c \in 1..Len(buf)
    BY <1>2, CRLFIs DEF HasLine
  <2>2. AfterCRLF = SubSeq(buf, c + 1, Len(buf))
    BY <1>2 DEF AfterCRLF
  <2> HIDE DEF c
  <2>3. /\ AfterCRLF \in Seq(Token) /\ Len(AfterCRLF) = Len(buf) - c
        /\ \A a \in 1..Len(AfterCRLF) : AfterCRLF[a] = buf[a + c]
    BY <1>1, <2>1, <2>2
  <2> QED
    BY <1>2, <2>1, <2>3 DEF Drops, c
<1>3. CASE ~HasLine
  <2>1. AfterCRLF = <<>> /\ Len(AfterCRLF) = 0
    BY <1>3 DEF AfterCRLF
  <2> QED
    BY <1>1, <1>3, <2>1 DEF Drops
<1> QED
  BY <1>2, <1>3

LEMMA LineIs ==
  ASSUME buf \in Seq(Token), HasLine
  PROVE  /\ Line \in Seq(Token) /\ Len(Line) = findCRLF - 1
         /\ \A a \in 1..Len(Line) : Line[a] = buf[a]
         /\ findCRLF \in 1..Len(buf)
<1> DEFINE c == findCRLF
<1>1. c \in 1..Len(buf) /\ Len(buf) \in Nat
  BY CRLFIs DEF HasLine
<1>2. Line = SubSeq(buf, 1, c - 1)
  BY DEF Line
<1> HIDE DEF c
<1>3. Line \in Seq(Token) /\ Len(Line) = c - 1 /\ \A a \in 1..Len(Line) : Line[a] = buf[a]
  BY <1>1, <1>2
<1> QED
  BY <1>1, <1>3 DEF c

\* The Buffer is the beginning of s.
Begins(s) ==
  /\ s \in Seq(Token) /\ Len(buf) <= Len(s)
  /\ \A a \in 1..Len(buf) : s[a] = buf[a]

\* If s begins with an empty line, or with one token and the end of a line,
\* that is the first line of the Buffer, once it has arrived.
LEMMA LineBegins ==
  ASSUME buf \in Seq(Token), HasLine, NEW s, Begins(s)
  PROVE  /\ s[1].what = "crlf" => findCRLF = 1 /\ Len(Line) = 0
         /\ Len(s) >= 2 /\ s[1].what # "crlf" /\ s[2].what = "crlf" =>
              findCRLF = 2 /\ Len(Line) = 1 /\ Line[1] = s[1]
<1> DEFINE c == findCRLF
<1>1. /\ c \in 1..Len(buf) /\ buf[c].what = "crlf" /\ Len(buf) \in Nat
      /\ \A a \in 1..(c - 1) : buf[a].what # "crlf"
  BY CRLFIs DEF HasLine
<1>2. Len(Line) = c - 1 /\ \A a \in 1..Len(Line) : Line[a] = buf[a]
  BY LineIs
<1> HIDE DEF c
<1>3. \A a \in 1..Len(buf) : s[a] = buf[a]
  BY DEF Begins
<1>4. ASSUME s[1].what = "crlf" PROVE c = 1 /\ Len(Line) = 0
  <2>1. c # 1 => 1 \in 1..(c - 1) /\ 1 \in 1..Len(buf)
    BY <1>1
  <2> QED
    BY <1>1, <1>2, <1>3, <1>4, <2>1
<1>5. ASSUME s[1].what # "crlf", s[2].what = "crlf"
      PROVE  c = 2 /\ Len(Line) = 1 /\ Line[1] = s[1]
  <2>1. c # 1
    BY <1>1, <1>3, <1>5
  <2>2. c = 2
    <3>1. c # 2 => 2 \in 1..(c - 1) /\ 2 \in 1..Len(buf)
      BY <1>1, <2>1
    <3> QED
      BY <1>1, <1>3, <1>5, <3>1
  <2>3. 1 \in 1..Len(buf) /\ 1 \in 1..Len(Line) /\ Len(Line) = 1
    BY <1>1, <1>2, <2>2
  <2> QED
    BY <1>2, <1>3, <2>2, <2>3
<1> QED
  BY <1>4, <1>5 DEF c

------------------------------------------------------------------------------
(* How far the parser is in a request *)

\* The headers of request i of kind k that have been read when none, the first
\* or both of its optional header lines are behind the parser.
NoHeaders == [f \in Fields |-> 0]
Headers1(k, i) ==
  IF k.connection # "" THEN [NoHeaders EXCEPT !["Connection"] = i] ELSE NoHeaders
Headers2(k, i) ==
  IF k.form # <<>> THEN [Headers1(k, i) EXCEPT !["Content-Type"] = i] ELSE Headers1(k, i)

LEMMA HeadersAre ==
  ASSUME NEW k, NEW i \in Ids
  PROVE  /\ Headers2(k, i) \in [Fields -> Ids \cup {0}]
         /\ Headers2(k, i)["Connection"] = IF k.connection # "" THEN i ELSE 0
         /\ Headers2(k, i)["Content-Type"] = IF k.form # <<>> THEN i ELSE 0
<1>1. /\ NoHeaders \in [Fields -> Ids \cup {0}]
      /\ NoHeaders["Connection"] = 0 /\ NoHeaders["Content-Type"] = 0
  BY DEF NoHeaders, Fields
<1>2. /\ Headers1(k, i) \in [Fields -> Ids \cup {0}]
      /\ Headers1(k, i)["Connection"] = IF k.connection # "" THEN i ELSE 0
      /\ Headers1(k, i)["Content-Type"] = 0
  BY <1>1 DEF Headers1, Fields
<1> QED
  BY <1>2 DEF Headers2, Fields

\* Before the parser stands what it has not read yet.
InHeaders(s, k, i, headers) ==
  \/ StandsAt(s, 0, Rest0(k, i)) /\ headers = NoHeaders
  \/ StandsAt(s, 0, Rest1(k, i)) /\ headers = Headers1(k, i)
  \/ StandsAt(s, 0, Rest2(k, i)) /\ headers = Headers2(k, i)

Stage(s, st, r) ==
  LET i == r.of
      k == st[i]
  IN
  /\ r.state = "kExpectHeaders" => InHeaders(s, k, i, r.headers)
  /\ r.state = "kExpectBody" =>
       /\ r.headers = Headers2(k, i)
       /\ k.line[1] = "POST"
       /\ StandsAt(s, 0, BodyText(k, i))
  /\ r.state = "kGotAll" => r.headers = Headers2(k, i)

\* In the headers the next line is the first header line that is left or, behind
\* them, the empty line.
LEMMA NextInHeaders ==
  ASSUME NEW s \in Seq(Token), NEW k \in Kinds, NEW i \in Ids, NEW headers,
         InHeaders(s, k, i, headers)
  PROVE  \/ /\ Len(s) >= 2 /\ s[1] = T("Connection", i) /\ s[2] = T("crlf", i)
            /\ headers = NoHeaders /\ k.connection # ""
            /\ StandsAt(s, 2, Rest1(k, i))
         \/ /\ Len(s) >= 2 /\ s[1] = T("Content-Type", i) /\ s[2] = T("crlf", i)
            /\ headers = Headers1(k, i) /\ k.form # <<>>
            /\ StandsAt(s, 2, Rest2(k, i))
         \/ /\ Len(s) >= 1 /\ s[1] = T("crlf", i)
            /\ headers = Headers2(k, i)
            /\ StandsAt(s, 1, BodyText(k, i))
<1> DEFINE r0 == Rest0(k, i)
           r1 == Rest1(k, i)
           r2 == Rest2(k, i)
           two(what) == <<T(what, i), T("crlf", i)>>
<1>1. /\ r1 \in Seq(Token) /\ r2 \in Seq(Token) /\ BodyText(k, i) \in Seq(Token)
      /\ <<T("crlf", i)>> \in Seq(Token)
  BY Rests, Parts
<1>2. \A what \in {"Connection", "Content-Type"} :
        two(what) \in Seq(Token) /\ Len(two(what)) = 2
  BY Tokens
<1>3. \A what : StandsAt(s, 0, two(what)) =>
                  Len(s) >= 2 /\ s[1] = T(what, i) /\ s[2] = T("crlf", i)
  BY DEF StandsAt
<1> HIDE DEF r1, r2, two
<1>4. ASSUME NEW t \in Seq(Token), NEW what \in {"Connection", "Content-Type"},
             StandsAt(s, 0, two(what) \o t)
      PROVE  /\ Len(s) >= 2 /\ s[1] = T(what, i) /\ s[2] = T("crlf", i)
             /\ StandsAt(s, 2, t)
  <2>1. StandsAt(s, 0, two(what)) /\ StandsAt(s, 0 + Len(two(what)), t)
    BY <1>2, <1>4, StandsAtConcat
  <2>2. 0 + Len(two(what)) = 2
    BY <1>2
  <2> QED
    BY <1>3, <2>1, <2>2
<1>5. ASSUME NEW t \in Seq(Token), StandsAt(s, 0, <<>> \o t) PROVE StandsAt(s, 0, t)
  BY <1>5, ConcatEmptySeq
<1>6. CASE StandsAt(s, 0, r2) /\ headers = Headers2(k, i)
  <2> DEFINE e == <<T("crlf", i)>>
  <2>1. r2 = e \o BodyText(k, i) /\ e \in Seq(Token) /\ Len(e) = 1 /\ e[1] = T("crlf", i)
    BY <1>1 DEF Rest2, r2
  <2> HIDE DEF e
  <2>2. StandsAt(s, 0, e) /\ StandsAt(s, 0 + Len(e), BodyText(k, i))
    BY <1>1, <1>6, <2>1, StandsAtConcat
  <2>3. Len(s) >= 1 /\ s[1] = T("crlf", i)
    BY <2>1, <2>2 DEF StandsAt
  <2>4. 0 + Len(e) = 1
    BY <2>1
  <2> QED
    BY <1>6, <2>2, <2>3, <2>4
<1>7. CASE StandsAt(s, 0, r1) /\ headers = Headers1(k, i)
  <2>1. CASE k.form = <<>>
    <3>1. r1 = <<>> \o r2
      BY <2>1 DEF Rest1, FormLines, r1, r2
    <3>2. Headers1(k, i) = Headers2(k, i)
      BY <2>1 DEF Headers2
    <3> QED
      BY <1>1, <1>5, <1>6, <1>7, <3>1, <3>2
  <2>2. CASE k.form # <<>>
    <3>1. r1 = two("Content-Type") \o r2
      BY <2>2 DEF Rest1, FormLines, r1, r2, two
    <3> QED
      BY <1>1, <1>4, <1>7, <2>2, <3>1 DEF r2
  <2> QED
    BY <2>1, <2>2
<1>8. CASE StandsAt(s, 0, r0) /\ headers = NoHeaders
  <2>1. CASE k.connection = ""
    <3>1. r0 = <<>> \o r1
      BY <2>1 DEF Rest0, ConnectionLine, r1
    <3>2. NoHeaders = Headers1(k, i)
      BY <2>1 DEF Headers1
    <3> QED
      BY <1>1, <1>5, <1>7, <1>8, <3>1, <3>2
  <2>2. CASE k.connection # ""
    <3>1. r0 = two("Connection") \o r1
      BY <2>2 DEF Rest0, ConnectionLine, r1, two
    <3> QED
      BY <1>1, <1>4, <1>8, <2>2, <3>1 DEF r1
  <2> QED
    BY <2>1, <2>2
<1> QED
  BY <1>6, <1>7, <1>8 DEF InHeaders, r1, r2

------------------------------------------------------------------------------
(* The parser goes on by a line *)

\* The requests that are answered.
Supported(k) == ~k.inBody /\ k.line[1] \in {"GET", "POST"}

LEMMA MethodIs ==
  ASSUME NEW k
  PROVE  LET m == processRequestLine(k.line).method IN
         /\ StateAfterHeaders(m) \in {"kGotAll", "kExpectBody", "kExpectHeaders"}
         /\ StateAfterHeaders(m) = "kGotAll" <=> k.line[1] = "GET"
         /\ StateAfterHeaders(m) = "kExpectBody" <=> k.line[1] = "POST"
<1> DEFINE word == k.line[1]
           m == processRequestLine(k.line).method
<1>1. m = setMethod(word)
  BY DEF processRequestLine
<1>2. setMethod(word) = "kGet" <=> word = "GET"
  BY DEF setMethod
<1>3. setMethod(word) = "kPost" <=> word = "POST"
  BY DEF setMethod
<1> HIDE DEF m, word
<1>4. /\ StateAfterHeaders(m) \in {"kGotAll", "kExpectBody", "kExpectHeaders"}
      /\ StateAfterHeaders(m) = "kGotAll" <=> m = "kGet"
      /\ StateAfterHeaders(m) = "kExpectBody" <=> m = "kPost"
  BY DEF StateAfterHeaders
<1> QED
  BY <1>1, <1>2, <1>3, <1>4 DEF word, m

LEMMA HeaderStage ==
  ASSUME buf \in Seq(Token), req \in Request, req.of \in Ids, Header,
         stream[req.of] \in Kinds, NEW s, Begins(s), Stage(s, stream, req),
         NEW u \in Seq(Token), Drops(s, findCRLF, u)
  PROVE  Stage(u, stream, req')
<1> DEFINE i == req.of
           k == stream[i]
           h == Head(Line)
<1>1. /\ HasLine /\ IsHeader(Line) /\ req.state = "kExpectHeaders" /\ s \in Seq(Token)
      /\ req' = [req EXCEPT !.headers = addHeader(req.headers, Line)]
  BY DEF Header, Parsing, Begins
<1>2. InHeaders(s, k, i, req.headers)
  BY <1>1 DEF Stage
<1>3. /\ req.headers \in [Fields -> Ids \cup {0}]
      /\ req'.state = "kExpectHeaders" /\ req'.of = i
      /\ req'.headers = addHeader(req.headers, Line)
  BY <1>1 DEF Request
<1>3a. ASSUME Len(Line) = 1, Line[1] = s[1], s[1].what \in Fields
       PROVE  /\ h = s[1]
              /\ req'.headers = [req.headers EXCEPT ![h.what] = h.of]
  BY <1>3, <1>3a DEF addHeader
<1>4. i \in Ids /\ Len(s) \in Nat /\ k \in Kinds
  BY <1>1
<1>5. Len(Rest1(k, i)) \in Nat /\ Len(Rest2(k, i)) \in Nat
  BY <1>4, Rests
<1> HIDE DEF i, k
<1>6. CASE /\ Len(s) >= 2 /\ s[1] = T("Connection", i) /\ s[2] = T("crlf", i)
           /\ req.headers = NoHeaders /\ k.connection # ""
           /\ StandsAt(s, 2, Rest1(k, i))
  <2>0. s[1].what = "Connection" /\ s[1].of = i /\ s[2].what = "crlf"
    <3>1. s[1] = T("Connection", i) /\ s[2] = T("crlf", i)
      BY <1>6
    <3> QED
      BY <3>1 DEF T
  <2>1. findCRLF = 2 /\ Len(Line) = 1 /\ Line[1] = s[1]
    BY <1>1, <1>6, <2>0, LineBegins
  <2>2. /\ h.what = "Connection" /\ h.of = i
        /\ req'.headers = [req.headers EXCEPT ![h.what] = h.of]
    <3>1. "Connection" \in Fields
      BY DEF Fields
    <3> HIDE DEF h
    <3> QED
      BY <1>3a, <2>0, <2>1, <3>1
  <2>3. [NoHeaders EXCEPT !["Connection"] = i] = Headers1(k, i)
    BY <1>6 DEF Headers1
  <2>4. StandsAt(u, 0, Rest1(k, i))
    BY <1>4, <1>5, <1>6, <2>1, DropStandsFirst
  <2>5. req'.headers = Headers1(k, i)
    <3> HIDE DEF h
    <3> QED
      BY <1>3, <1>6, <2>2, <2>3
  <2> QED
    BY <1>3, <2>4, <2>5 DEF Stage, InHeaders, k
<1>7. CASE /\ Len(s) >= 2 /\ s[1] = T("Content-Type", i) /\ s[2] = T("crlf", i)
           /\ req.headers = Headers1(k, i) /\ k.form # <<>>
           /\ StandsAt(s, 2, Rest2(k, i))
  <2>1. findCRLF = 2 /\ Len(Line) = 1 /\ Line[1] = s[1]
    BY <1>1, <1>4, <1>7, LineBegins, Tokens
  <2>2. /\ h.what = "Content-Type" /\ h.of = i
        /\ req'.headers = [req.headers EXCEPT ![h.what] = h.of]
    <3>1. "Content-Type" \in Fields /\ s[1].what = "Content-Type" /\ s[1].of = i
      BY <1>4, <1>7, Tokens DEF Fields
    <3> HIDE DEF h
    <3> QED
      BY <1>3a, <2>1, <3>1
  <2>3. [Headers1(k, i) EXCEPT !["Content-Type"] = i] = Headers2(k, i)
    BY <1>7 DEF Headers2
  <2>4. StandsAt(u, 0, Rest2(k, i))
    BY <1>4, <1>5, <1>7, <2>1, DropStandsFirst
  <2>5. req'.headers = Headers2(k, i)
    <3> HIDE DEF h
    <3> QED
      BY <1>3, <1>7, <2>2, <2>3
  <2> QED
    BY <1>3, <2>4, <2>5 DEF Stage, InHeaders, k
<1>8. CASE Len(s) >= 1 /\ s[1] = T("crlf", i)
  <2>1. Len(Line) = 0
    BY <1>1, <1>4, <1>8, LineBegins, Tokens
  <2> QED
    BY <1>1, <2>1 DEF IsHeader
<1> QED
  BY <1>1, <1>2, <1>4, <1>6, <1>7, <1>8, NextInHeaders

LEMMA EndStage ==
  ASSUME buf \in Seq(Token), req \in Request, req.of \in Ids, EndOfHeaders,
         stream[req.of] \in Kinds, NEW s, Begins(s), Stage(s, stream, req), Supported(stream[req.of]),
         NEW u \in Seq(Token), Drops(s, findCRLF, u)
  PROVE  Stage(u, stream, req') /\ req'.state \in {"kExpectBody", "kGotAll"}
<1> DEFINE i == req.of
           k == stream[i]
<1>1. /\ HasLine /\ ~IsHeader(Line) /\ req.state = "kExpectHeaders" /\ s \in Seq(Token)
      /\ req' = [req EXCEPT !.state = StateAfterHeaders(Method)]
  BY DEF EndOfHeaders, Parsing, Begins
<1>2. InHeaders(s, k, i, req.headers)
  BY <1>1 DEF Stage
<1>3. /\ req'.state = StateAfterHeaders(Method) /\ req'.of = i
      /\ req'.headers = req.headers
  BY <1>1 DEF Request
<1>4. i \in Ids /\ Len(s) \in Nat /\ k \in Kinds
  BY <1>1
<1>5. /\ StateAfterHeaders(Method) = "kGotAll" <=> k.line[1] = "GET"
      /\ StateAfterHeaders(Method) = "kExpectBody" <=> k.line[1] = "POST"
  BY MethodIs DEF Method
<1>6. k.line[1] = "GET" \/ k.line[1] = "POST"
  BY DEF Supported
<1> HIDE DEF i, k
<1>7. CASE \E what \in Fields : Len(s) >= 2 /\ s[1] = T(what, i) /\ s[2] = T("crlf", i)
  <2>1. PICK what \in Fields : Len(s) >= 2 /\ s[1] = T(what, i) /\ s[2] = T("crlf", i)
    BY <1>7
  <2>2. what # "crlf"
    BY DEF Fields
  <2>3. Len(Line) = 1 /\ Line[1] = s[1]
    BY <1>1, <1>4, <2>1, <2>2, LineBegins, Tokens
  <2>4. Line[1].what \in Fields /\ 1 \in 1..Len(Line)
    BY <1>4, <2>1, <2>3, Tokens
  <2> QED
    BY <1>1, <2>4 DEF IsHeader
<1>8. CASE /\ Len(s) >= 1 /\ s[1] = T("crlf", i)
           /\ req.headers = Headers2(k, i)
           /\ StandsAt(s, 1, BodyText(k, i))
  <2>1. findCRLF = 1
    BY <1>1, <1>4, <1>8, LineBegins, Tokens
  <2>2. StandsAt(u, 0, BodyText(k, i))
    <3>1. Len(BodyText(k, i)) \in Nat
      BY <1>4, Parts
    <3> QED
      BY <1>4, <1>8, <2>1, <3>1, DropStandsFirst
  <2>3. CASE k.line[1] = "GET"
    BY <1>3, <1>5, <1>8, <2>3 DEF Stage, k
  <2>4. CASE k.line[1] = "POST"
    BY <1>3, <1>5, <1>8, <2>2, <2>4 DEF Stage, k
  <2> QED
    BY <1>6, <2>3, <2>4
<1>9. "Connection" \in Fields /\ "Content-Type" \in Fields
  BY DEF Fields
<1> DEFINE both(what) == Len(s) >= 2 /\ s[1] = T(what, i) /\ s[2] = T("crlf", i)
<1>10. \/ both("Connection") \/ both("Content-Type")
       \/ /\ Len(s) >= 1 /\ s[1] = T("crlf", i)
          /\ req.headers = Headers2(k, i)
          /\ StandsAt(s, 1, BodyText(k, i))
  BY <1>1, <1>2, <1>4, NextInHeaders
<1>11. \A what \in Fields : both(what) =>
         \E w \in Fields : Len(s) >= 2 /\ s[1] = T(w, i) /\ s[2] = T("crlf", i)
  OBVIOUS
<1> HIDE DEF both
<1> QED
  BY <1>7, <1>8, <1>9, <1>10, <1>11

\* The request line of the text that stands before the parser.
LEMMA LineOfText ==
  ASSUME buf \in Seq(Token), HasLine, NEW s, Begins(s), NEW k \in Kinds, ~k.inBody,
         NEW i \in Ids, StandsAt(s, 0, Text(k, i))
  PROVE  findCRLF = 2 /\ Len(Line) = 1 /\ Line[1] = T("line", i)
<1>1. /\ Len(Text(k, i)) \in Nat /\ Len(Text(k, i)) >= 2
      /\ Text(k, i)[1] = T("line", i) /\ Text(k, i)[2] = T("crlf", i)
  BY RequestTextBegins
<1>2. Len(s) >= 2 /\ s[1] = T("line", i) /\ s[2] = T("crlf", i)
  <2>1. Len(s) \in Nat
    BY DEF Begins
  <2>2. 1 \in 1..Len(Text(k, i)) /\ 2 \in 1..Len(Text(k, i))
    BY <1>1
  <2>3. 0 + Len(Text(k, i)) <= Len(s) /\ s[0 + 1] = T("line", i) /\ s[0 + 2] = T("crlf", i)
    BY <1>1, <2>2 DEF StandsAt
  <2> QED
    BY <1>1, <2>1, <2>3
<1> QED
  BY <1>2, LineBegins, Tokens

LEMMA GoodStage ==
  ASSUME buf \in Seq(Token), req = NewRequest, GoodRequestLine,
         NEW s, Begins(s), NEW i \in Ids, StandsAt(s, 0, Text(stream[i], i)),
         stream[i] \in Kinds, ~stream[i].inBody, NEW u \in Seq(Token), Drops(s, findCRLF, u)
  PROVE  req'.of = i /\ Stage(u, stream, req')
<1> DEFINE k == stream[i]
           l == FirstLine(i)
           r == Rest0(k, i)
<1>1. HasLine /\ req' = [req EXCEPT !.state = "kExpectHeaders", !.of = Line[1].of]
  BY DEF GoodRequestLine, Parsing
<1>2. findCRLF = 2 /\ Line[1] = T("line", i)
  BY <1>1, LineOfText
<1>3. /\ req'.state = "kExpectHeaders" /\ req'.of = i
      /\ req'.headers = [f \in Fields |-> 0]
  BY <1>1, <1>2, Tokens DEF NewRequest
<1>4. NoHeaders = [f \in Fields |-> 0]
  BY DEF NoHeaders
<1>5. /\ l \in Seq(Token) /\ r \in Seq(Token) /\ s \in Seq(Token) /\ Len(l) = 2
      /\ Text(k, i) = l \o r /\ StandsAt(s, 0, Text(k, i))
  BY RequestTextIs, Rests DEF Begins
<1> HIDE DEF l, r, k
<1>6. StandsAt(s, 0 + Len(l), r)
  BY <1>5, StandsAtConcat
<1>7. StandsAt(u, 0, r)
  <2>1. Len(s) \in Nat /\ Len(r) \in Nat
    BY <1>5
  <2> QED
    BY <1>2, <1>5, <1>6, <2>1, DropStands
<1> QED
  BY <1>3, <1>4, <1>7 DEF Stage, InHeaders, r, k

LEMMA BodyStage ==
  ASSUME req \in Request, Body, NEW s, Stage(s, stream, req), NEW u
  PROVE  Stage(u, stream, req')
<1>1. /\ req.state = "kExpectBody" /\ req'.state = "kGotAll"
      /\ req'.of = req.of /\ req'.headers = req.headers
  BY DEF Body, Parsing, Request
<1> QED
  BY <1>1 DEF Stage

\* A form is read from where it stands, and nothing else is.
LEMMA BodyDataType ==
  ASSUME stream \in Seq(Kinds), req \in Request, req.of \in 1..Len(stream),
         Body, req.postData = {}
  PROVE  req'.postData \in {Meaning(stream[req.of].form), Garbage, {}}
<1> DEFINE k == stream[req.of]
<1>1. req'.postData = IF IsForm THEN FormAtPeek ELSE {}
  BY DEF Body, Request
<1>2. k \in Kinds /\ k.form \in Form
  <2>1. k \in Kinds
    OBVIOUS
  <2> QED
    BY <2>1, KindsAssumption
<1>3. k.form # <<>> => PostData[k] = Meaning(k.form)
  BY <1>2, FormIsReadAsMeant DEF PostData
<1>4. FormAtPeek \in {PostData[k], Garbage} /\ (k.form = <<>> => FormAtPeek = Garbage)
  BY DEF FormAtPeek
<1> HIDE DEF k
<1> QED
  BY <1>1, <1>3, <1>4 DEF k

\* The body gives the form, once it is there.
LEMMA BodyData ==
  ASSUME stream \in Seq(Kinds), req \in Request, req.of \in 1..Len(stream),
         req.of \in Ids, Body, req.postData = {}, buf \in Seq(Token), Stage(buf, stream, req)
  PROVE  req'.postData = Meaning(stream[req.of].form)
<1> DEFINE i == req.of
           k == stream[i]
<1>1. /\ req.headers = Headers2(k, i) /\ req.state = "kExpectBody"
      /\ req'.postData = IF IsForm THEN FormAtPeek ELSE {}
      /\ StandsAt(buf, 0, BodyText(k, i))
  BY DEF Body, Parsing, Stage, Request
<1>2. k \in Kinds /\ k.form \in Form /\ i # 0
  <2>1. k \in Kinds /\ i # 0
    OBVIOUS
  <2> QED
    BY <2>1, KindsAssumption
<1>3. IsForm <=> k.form # <<>>
  <2>1. Headers2(k, i)["Content-Type"] = IF k.form # <<>> THEN i ELSE 0
    BY HeadersAre
  <2> QED
    BY <1>1, <1>2, <2>1 DEF IsForm
<1>4. CASE k.form = <<>>
  <2>1. Meaning(k.form) = {}
    BY <1>4 DEF Meaning
  <2> QED
    BY <1>1, <1>3, <1>4, <2>1
<1>5. CASE k.form # <<>>
  <2>1. PostData[k] = Meaning(k.form)
    BY <1>2, <1>5, FormIsReadAsMeant DEF PostData
  <2>2. k.body = <<"body">>
    BY <1>2, <1>5, KindsAssumption
  <2>3. Len(BodyText(k, i)) = 1 /\ BodyText(k, i)[1] = T("body", i)
    BY <2>2 DEF BodyText
  <2>4. Len(buf) >= 1 /\ buf[1] = T("body", i)
    BY <1>1, <2>3 DEF StandsAt
  <2>5. buf # <<>> /\ Head(buf) = T("body", i)
    BY <2>4
  <2> QED
    BY <1>1, <1>3, <1>5, <2>1, <2>5 DEF FormAtPeek
<1> QED
  BY <1>4, <1>5

LEMMA MeaningType ==
  ASSUME NEW form \in Form
  PROVE  Meaning(form) \subseteq Seq(Nat) \X Seq(Nat)
<1>1. Seq(Byte) \subseteq Seq(Nat)
  <2>1. Byte \subseteq Nat
    BY DEF Byte
  <2> QED
    BY <2>1, SeqMonotonic
<1>2. \A i \in 1..Len(form) : form[i][1] \in Seq(Byte) /\ form[i][2] \in Seq(Byte)
  BY DEF Form
<1> QED
  BY <1>1, <1>2 DEF Meaning

------------------------------------------------------------------------------
(* Answers *)

\* A client can tell where an answer of these bytes ends, and what is in it.
Framed(close, bytes) ==
  LET body == {bytes[j].value : j \in {k \in 1..Len(bytes) : bytes[k].what = "body"}}
  IN /\ bytes[1].what = "status"
     /\ \E j \in 1..Len(bytes) : bytes[j].what = ""
     /\ close \/ (body # {} /\ Said(bytes, "Content-Length") = body)
     /\ \A f \in DOMAIN Files :
          Files[f] \in body /\ f.suffix \in DOMAIN SUFFIX_TYPE =>
            Said(bytes, "Content-Type") = {SUFFIX_TYPE[f.suffix]}

\* An answer without a body.
LEMMA FramedEmpty ==
  ASSUME NEW bytes, Len(bytes) \in Nat, bytes[1].what = "status",
         \E j \in 1..Len(bytes) : bytes[j].what = "",
         \A j \in 1..Len(bytes) : bytes[j].what # "body"
  PROVE  Framed(TRUE, bytes)
  BY DEF Framed

\* An answer that closes the connection, with a body that is no file.
LEMMA FramedError ==
  ASSUME NEW bytes, Len(bytes) \in Nat, bytes[1].what = "status",
         \E j \in 1..Len(bytes) : bytes[j].what = "",
         \A j \in 1..Len(bytes) : bytes[j].what = "body" => bytes[j].value = "404"
  PROVE  Framed(TRUE, bytes)
<1>1. \A f \in DOMAIN Files : Files[f] # "404"
  BY FilesAssumption
<1> QED
  BY <1>1 DEF Framed

LEMMA UpToSix ==
  /\ \A j \in 1..6 : j = 1 \/ j = 2 \/ j = 3 \/ j = 4 \/ j = 5 \/ j = 6
  /\ {1, 2, 3, 4, 5, 6} \subseteq 1..6
  /\ \A n \in {3, 4} : \A k \in 1..n : k = 1 \/ k = 2 \/ k = 3 \/ k = 4
  OBVIOUS

\* An answer with everything.
Complete(bytes, type, body) ==
  /\ Len(bytes) = 6
  /\ bytes[1].what = "status" /\ bytes[2].what = "Connection"
  /\ bytes[3].what = "Content-Type" /\ bytes[3].value = type
  /\ bytes[4].what = "Content-Length" /\ bytes[4].value = body
  /\ bytes[5].what = "" /\ bytes[6].what = "body" /\ bytes[6].value = body
  /\ \A f \in DOMAIN Files :
       Files[f] = body /\ f.suffix \in DOMAIN SUFFIX_TYPE => SUFFIX_TYPE[f.suffix] = type

LEMMA FramedBody ==
  ASSUME NEW close, NEW bytes, NEW type, NEW body, Complete(bytes, type, body)
  PROVE  Framed(close, bytes)
<1> USE DEF Complete
<1>1. /\ \A j \in 1..Len(bytes) : j = 1 \/ j = 2 \/ j = 3 \/ j = 4 \/ j = 5 \/ j = 6
      /\ {1, 2, 3, 4, 5, 6} \subseteq 1..Len(bytes)
  BY UpToSix
<1>2. {bytes[j].value : j \in {k \in 1..Len(bytes) : bytes[k].what = "body"}} = {body}
  <2>1. bytes[6].what = "body" /\ bytes[6].value = body /\ 6 \in 1..Len(bytes)
    BY <1>1
  <2>2. \A k \in 1..Len(bytes) : bytes[k].what = "body" => k = 6
    BY <1>1
  <2>3. {k \in 1..Len(bytes) : bytes[k].what = "body"} = {6}
    BY <2>1, <2>2
  <2> QED
    BY <2>1, <2>3
<1>3. ASSUME NEW n \in {3, 4} PROVE Said(bytes, bytes[n].what) = {bytes[n].value}
  <2>1. \A k \in 1..n : k = 1 \/ k = 2 \/ k = 3 \/ k = 4
    BY UpToSix
  <2>2. \A k \in 1..n : bytes[k].what # ""
    BY <2>1
  <2>3. \A j \in 1..Len(bytes) : bytes[j].what = bytes[n].what => j = n
    <3>1. CASE n = 3
      BY <1>1, <3>1
    <3>2. CASE n = 4
      BY <1>1, <3>2
    <3> QED
      BY <3>1, <3>2
  <2>4. n \in 1..Len(bytes)
    BY <1>1
  <2> QED
    BY <2>2, <2>3, <2>4 DEF Said
<1>4. /\ Said(bytes, "Content-Type") = {type}
      /\ Said(bytes, "Content-Length") = {body}
  <2>1. /\ Said(bytes, bytes[3].what) = {bytes[3].value}
        /\ Said(bytes, bytes[4].what) = {bytes[4].value}
    BY <1>3
  <2> QED
    BY <2>1
<1>5. \E j \in 1..Len(bytes) : bytes[j].what = ""
  BY <1>1
<1> QED
  BY <1>2, <1>4, <1>5 DEF Framed

\* The pieces of the two kinds of answers with a status line, in their order.
SixOf(S, p1, p2, p3, p4, p5, p6) ==
  p1 \in S /\ p2 \in S /\ p3 \in S /\ p4 \in S /\ p5 \in S /\ p6 \in S
Six(b, S, p1, p2, p3, p4, p5, p6) ==
  /\ b \in Seq(S) /\ Len(b) = 6
  /\ b[1] = p1 /\ b[2] = p2 /\ b[3] = p3 /\ b[4] = p4 /\ b[5] = p5 /\ b[6] = p6

LEMMA AnswerWithBody ==
  ASSUME NEW S, NEW p1, NEW p2, NEW p3, NEW p4, NEW p5, NEW p6,
         SixOf(S, p1, p2, p3, p4, p5, p6)
  PROVE  Six((<<p1, p2>> \o <<p3>>) \o (<<p4>> \o <<p5, p6>>),
             S, p1, p2, p3, p4, p5, p6)
<1> SUFFICES LET b == (<<p1, p2>> \o <<p3>>) \o (<<p4>> \o <<p5, p6>>) IN
             /\ b \in Seq(S) /\ Len(b) = 6
             /\ b[1] = p1 /\ b[2] = p2 /\ b[3] = p3 /\ b[4] = p4 /\ b[5] = p5 /\ b[6] = p6
  BY DEF Six
<1> p1 \in S /\ p2 \in S /\ p3 \in S /\ p4 \in S /\ p5 \in S /\ p6 \in S
  BY DEF SixOf
<1> DEFINE front == <<p1, p2>> \o <<p3>>
           back == <<p4>> \o <<p5, p6>>
<1>1. /\ front \in Seq(S) /\ Len(front) = 3
      /\ front[1] = p1 /\ front[2] = p2 /\ front[3] = p3
  OBVIOUS
<1>2. /\ back \in Seq(S) /\ Len(back) = 3
      /\ back[1] = p4 /\ back[2] = p5 /\ back[3] = p6
  OBVIOUS
<1> HIDE DEF front, back
<1>0. /\ front \o back \in Seq(S) /\ Len(front \o back) = Len(front) + Len(back)
      /\ \A i \in 1..(Len(front) + Len(back)) :
           (front \o back)[i] = IF i <= Len(front) THEN front[i] ELSE back[i - Len(front)]
  BY <1>1, <1>2, ConcatProperties
<1>3. front \o back \in Seq(S) /\ Len(front \o back) = 6
  BY <1>0, <1>1, <1>2
<1>4. \A i \in 1..3 : (front \o back)[i] = front[i] /\ (front \o back)[3 + i] = back[i]
  <2> TAKE i \in 1..3
  <2>1. /\ i \in 1..(Len(front) + Len(back)) /\ i <= Len(front)
        /\ 3 + i \in 1..(Len(front) + Len(back)) /\ ~(3 + i <= Len(front))
        /\ (3 + i) - Len(front) = i
    BY <1>1, <1>2
  <2> QED
    BY <1>0, <2>1
<1>5. /\ 1 \in 1..3 /\ 2 \in 1..3 /\ 3 \in 1..3
      /\ 3 + 1 = 4 /\ 3 + 2 = 5 /\ 3 + 3 = 6
  OBVIOUS
<1>6. /\ (front \o back)[1] = p1 /\ (front \o back)[2] = p2 /\ (front \o back)[3] = p3
      /\ (front \o back)[4] = p4 /\ (front \o back)[5] = p5 /\ (front \o back)[6] = p6
  BY <1>1, <1>2, <1>4, <1>5
<1> QED
  BY <1>3, <1>6 DEF front, back

LEMMA AnswerWithoutType ==
  ASSUME NEW S, NEW p1 \in S, NEW p2 \in S, NEW t \in Seq(S)
  PROVE  LET b == (<<p1, p2>> \o <<>>) \o t IN
         /\ b \in Seq(S) /\ Len(b) = 2 + Len(t)
         /\ b[1] = p1 /\ b[2] = p2 /\ \A i \in 1..Len(t) : b[2 + i] = t[i]
<1>1. <<p1, p2>> \o <<>> = <<p1, p2>> /\ <<p1, p2>> \in Seq(S) /\ Len(<<p1, p2>>) = 2
  BY ConcatEmptySeq
<1> QED
  BY <1>1
\* The types of files.
LEMMA TypeOfSuffix ==
  ASSUME NEW suffix \in DOMAIN SUFFIX_TYPE
  PROVE  SUFFIX_TYPE[suffix] \in Types /\ SUFFIX_TYPE[suffix] # ""
<1> DEFINE t == CHOOSE t \in SuffixTypes : t[1] = suffix
<1>1. SUFFIX_TYPE[suffix] = t[2]
  BY DEF SUFFIX_TYPE
<1>2. t \in SuffixTypes
  <2>1. \E u \in SuffixTypes : u[1] = suffix
    BY DEF SUFFIX_TYPE
  <2> QED
    BY <2>1
<1> HIDE DEF t
<1> DEFINE V == {"text/html", "text/xml", "application/xhtml+xml", "text/plain",
                 "application/rtf", "application/pdf", "application/nsword", "image/png",
                 "image/gif", "image/jpeg", "audio/basic", "video/mpeg",
                 "video/x-msvideo", "application/x-gzip", "application/x-tar",
                 "text/css ", "text/javascript "}
<1>3. t[2] # ""
  <2>1. \E a : \E b \in V : t = <<a, b>>
    BY <1>2, Zenon DEF SuffixTypes
  <2>2. \A b \in V : b # ""
    BY Zenon
  <2> HIDE DEF V
  <2>3. t[2] \in V
    BY <2>1
  <2> QED
    BY <2>2, <2>3
<1>4. t[2] \in Types
  BY <1>2 DEF Types
<1> QED
  BY <1>1, <1>2, <1>3, <1>4

LEMMA FileType ==
  ASSUME NEW p
  PROVE  /\ getFileType(p) \in Types /\ getFileType(p) # ""
         /\ path(p).suffix \in DOMAIN SUFFIX_TYPE => getFileType(p) = SUFFIX_TYPE[path(p).suffix]
<1>1. "text/plain" \in Types /\ "text/plain" # ""
  BY DEF Types
<1> QED
  BY <1>1, TypeOfSuffix DEF getFileType
LEMMA PieceIs ==
  ASSUME NEW w, NEW v
  PROVE  Piece(w, v).what = w /\ Piece(w, v).value = v
  BY DEF Piece

\* The pieces of an answer.
LEMMA PiecesOf ==
  /\ \A code \in {"200", "400", "404"} : Piece("status", code) \in Pieces
  /\ \A value \in {"close", "Keep-Alive"} : Piece("Connection", value) \in Pieces
  /\ \A type \in Types : Piece("Content-Type", type) \in Pieces
  /\ \A body \in Bodies : Piece("Content-Length", body) \in Pieces
  /\ \A body \in Bodies : Piece("body", body) \in Pieces
  /\ Piece("", "") \in Pieces
  BY DEF Piece, Pieces

\* The page and the files.
Found(resp) ==
  /\ resp.code = "200" /\ resp.close \in BOOLEAN
  /\ resp.type \in Types /\ resp.type # "" /\ resp.body \in Bodies /\ resp.body # ""
  /\ \A f \in DOMAIN Files :
       Files[f] = resp.body /\ f.suffix \in DOMAIN SUFFIX_TYPE =>
         SUFFIX_TYPE[f.suffix] = resp.type

LEMMA FoundIsFramed ==
  ASSUME NEW resp, Found(resp)
  PROVE  Bytes(resp) \in Seq(Pieces) /\ Framed(resp.close, Bytes(resp))
<1> DEFINE p1 == Piece("status", resp.code)
           p2 == Piece("Connection", IF resp.close THEN "close" ELSE "Keep-Alive")
           p3 == Piece("Content-Type", resp.type)
           p4 == Piece("Content-Length", resp.body)
           p5 == Piece("", "")
           p6 == Piece("body", resp.body)
           b == Bytes(resp)
<1>1. b = (<<p1, p2>> \o <<p3>>) \o (<<p4>> \o <<p5, p6>>)
  BY DEF Found, Bytes, appendHeaderToBuffer, appendBodyToBuffer, LengthOf
<1>0. p1 = Piece("status", "200")
  BY DEF Found
<1>2. p1 \in Pieces /\ p2 \in Pieces /\ p3 \in Pieces /\ p4 \in Pieces /\ p5 \in Pieces
      /\ p6 \in Pieces
  BY <1>0, PiecesOf DEF Found
<1>3. /\ p1.what = "status" /\ p2.what = "Connection"
      /\ p3.what = "Content-Type" /\ p3.value = resp.type
      /\ p4.what = "Content-Length" /\ p4.value = resp.body
      /\ p5.what = "" /\ p6.what = "body" /\ p6.value = resp.body
  BY <1>0 DEF Piece
<1> HIDE DEF p1, p2, p3, p4, p5, p6, b
<1>4. /\ b \in Seq(Pieces) /\ Len(b) = 6
      /\ b[1] = p1 /\ b[2] = p2 /\ b[3] = p3 /\ b[4] = p4 /\ b[5] = p5 /\ b[6] = p6
  <2>1. SixOf(Pieces, p1, p2, p3, p4, p5, p6)
    BY <1>2 DEF SixOf
  <2>2. Six(b, Pieces, p1, p2, p3, p4, p5, p6)
    BY <1>1, <2>1, AnswerWithBody
  <2> QED
    BY <2>2 DEF Six
<1>6. \A f \in DOMAIN Files :
        Files[f] = resp.body /\ f.suffix \in DOMAIN SUFFIX_TYPE =>
          SUFFIX_TYPE[f.suffix] = resp.type
  BY DEF Found
<1>5. Framed(resp.close, b)
  <2>1. Complete(b, resp.type, resp.body)
    BY <1>3, <1>4, <1>6 DEF Complete
  <2> QED
    BY <2>1, FramedBody
<1> QED
  BY <1>4, <1>5 DEF b

\* The two answers to what is not there.
Missing(resp) ==
  /\ resp.code = "404" /\ resp.close = TRUE /\ resp.type = "" /\ resp.body \in {"", "404"}

LEMMA UpToFive ==
  /\ \A j \in 1..5 : j = 1 \/ j = 2 \/ j = 3 \/ j = 4 \/ j = 5
  /\ \A j \in 1..3 : j = 1 \/ j = 2 \/ j = 3
  /\ 1 \in 1..3 /\ 2 \in 1..3 /\ 3 \in 1..3 /\ 2 + 1 = 3 /\ 2 + 2 = 4 /\ 2 + 3 = 5
  /\ 4 \in 1..5 /\ 3 \in Nat /\ 5 \in Nat
  OBVIOUS

LEMMA MissingShort ==
  ASSUME NEW S, NEW p1 \in S, NEW p2 \in S, NEW p5 \in S
  PROVE  LET b == (<<p1, p2>> \o <<>>) \o <<p5>> IN
         b \in Seq(S) /\ Len(b) = 3 /\ b[1] = p1 /\ b[2] = p2 /\ b[3] = p5
<1> DEFINE t == <<p5>>
<1>1. t \in Seq(S) /\ Len(t) = 1 /\ t[1] = p5
  OBVIOUS
<1> HIDE DEF t
<1>2. 1 \in 1..Len(t)
  BY <1>1
<1> QED
  BY <1>1, <1>2, UpToFive, AnswerWithoutType DEF t

LEMMA MissingLong ==
  ASSUME NEW S, NEW p1 \in S, NEW p2 \in S, NEW p4 \in S, NEW p5 \in S, NEW p6 \in S
  PROVE  LET b == (<<p1, p2>> \o <<>>) \o (<<p4>> \o <<p5, p6>>) IN
         /\ b \in Seq(S) /\ Len(b) = 5
         /\ b[1] = p1 /\ b[2] = p2 /\ b[3] = p4 /\ b[4] = p5 /\ b[5] = p6
<1> DEFINE t == <<p4>> \o <<p5, p6>>
           b == (<<p1, p2>> \o <<>>) \o t
<1>1. t \in Seq(S) /\ Len(t) = 3 /\ t[1] = p4 /\ t[2] = p5 /\ t[3] = p6
  OBVIOUS
<1> HIDE DEF t
<1>2. /\ b \in Seq(S) /\ Len(b) = 2 + Len(t) /\ b[1] = p1 /\ b[2] = p2
      /\ \A i \in 1..Len(t) : b[2 + i] = t[i]
  <2>1. t \in Seq(S)
    BY <1>1
  <2> QED
    BY <2>1, AnswerWithoutType
<1> HIDE DEF b
<1>3. b[3] = p4 /\ b[4] = p5 /\ b[5] = p6 /\ Len(b) = 5
  BY <1>1, <1>2, UpToFive
<1> QED
  BY <1>2, <1>3 DEF b, t

LEMMA MissingIsFramed ==
  ASSUME NEW resp, Missing(resp)
  PROVE  Bytes(resp) \in Seq(Pieces) /\ Framed(resp.close, Bytes(resp))
<1> DEFINE p1 == Piece("status", resp.code)
           p2 == Piece("Connection", "close")
           p5 == Piece("", "")
           t == appendBodyToBuffer(resp)
           b == Bytes(resp)
<1>1. b = (<<p1, p2>> \o <<>>) \o t
  BY DEF Missing, Bytes, appendHeaderToBuffer
<1>0. p1 = Piece("status", "404") /\ resp.close = TRUE
  BY DEF Missing
<1>2. p1 \in Pieces /\ p2 \in Pieces /\ p5 \in Pieces
  BY <1>0, PiecesOf
<1>3. p1.what = "status" /\ p2.what = "Connection" /\ p5.what = ""
  BY <1>0 DEF Piece
<1>4. CASE resp.body = ""
  <2>1. t = <<p5>>
    BY <1>4 DEF appendBodyToBuffer
  <2> HIDE DEF t, b, p1, p2, p5
  <2>2. b \in Seq(Pieces) /\ Len(b) = 3 /\ b[1] = p1 /\ b[2] = p2 /\ b[3] = p5
    BY <1>1, <1>2, <2>1, MissingShort
  <2>3. \A j \in 1..Len(b) : b[j].what # "body"
    BY <1>3, <2>2, UpToFive
  <2>4. Len(b) \in Nat /\ \E j \in 1..Len(b) : b[j].what = ""
    BY <1>3, <2>2, UpToFive
  <2>5. Framed(TRUE, b)
    BY <1>3, <2>2, <2>3, <2>4, FramedEmpty
  <2> QED
    BY <1>0, <2>2, <2>5 DEF b
<1>5. CASE resp.body = "404"
  <2> DEFINE p4 == Piece("Content-Length", "404")
             p6 == Piece("body", "404")
  <2>1. t = <<p4>> \o <<p5, p6>>
    BY <1>5 DEF appendBodyToBuffer, LengthOf
  <2>2. p4 \in Pieces /\ p6 \in Pieces
    BY PiecesOf DEF Bodies
  <2>3. p4.what = "Content-Length" /\ p6.value = "404"
    BY DEF Piece
  <2> HIDE DEF t, b, p1, p2, p4, p5, p6
  <2>4. /\ b \in Seq(Pieces) /\ Len(b) = 5
        /\ b[1] = p1 /\ b[2] = p2 /\ b[3] = p4 /\ b[4] = p5 /\ b[5] = p6
    BY <1>1, <1>2, <2>1, <2>2, MissingLong
  <2>5. \A j \in 1..Len(b) : b[j].what = "body" => b[j].value = "404"
    BY <1>3, <2>3, <2>4, UpToFive
  <2>6. Len(b) \in Nat /\ \E j \in 1..Len(b) : b[j].what = ""
    BY <1>3, <2>4, UpToFive
  <2>9. Framed(TRUE, b)
    BY <1>3, <2>4, <2>5, <2>6, FramedError
  <2> QED
    BY <1>0, <2>4, <2>9 DEF b
<1> QED
  BY <1>4, <1>5 DEF Missing

\* A line without which no request is answered.
LEMMA BadIsFramed ==
  LET bytes == <<Piece("status", "400"), Piece("", "")>> IN
  bytes \in Seq(Pieces) /\ Framed(TRUE, bytes)
<1> DEFINE p1 == Piece("status", "400")
           p2 == Piece("", "")
           b == <<p1, p2>>
<1>1. p1 \in Pieces /\ p2 \in Pieces
  BY PiecesOf
<1>2. p1.what = "status" /\ p2.what = ""
  BY PieceIs
<1> HIDE DEF p1, p2
<1>3. b \in Seq(Pieces) /\ Len(b) = 2 /\ b[1] = p1 /\ b[2] = p2
  BY <1>1
<1> HIDE DEF b
<1>4. /\ \A j \in 1..Len(b) : j = 1 \/ j = 2
      /\ 2 \in 1..Len(b) /\ Len(b) \in Nat
  BY <1>3
<1>5. Framed(TRUE, b)
  BY <1>2, <1>3, <1>4, FramedEmpty
<1> QED
  BY <1>3, <1>5 DEF b, p1, p2

LEMMA NewResponseIs ==
  ASSUME NEW close \in BOOLEAN
  PROVE  LET new == NewResponse(close) IN
         /\ Missing(defaultHttpCallback(new))
         /\ Missing([new EXCEPT !.code = "404", !.close = TRUE, !.body = "404"])
         /\ \A type, body :
              /\ Ok(new, type, body).code = "200"
              /\ Ok(new, type, body).close = close
              /\ Ok(new, type, body).type = type /\ Ok(new, type, body).body = body
<1>1. Missing(defaultHttpCallback(NewResponse(close)))
  BY DEF Missing, defaultHttpCallback, NewResponse
<1>2. Missing([NewResponse(close) EXCEPT !.code = "404", !.close = TRUE, !.body = "404"])
  BY DEF Missing, NewResponse
<1>3. \A type, body :
        /\ Ok(NewResponse(close), type, body).code = "200"
        /\ Ok(NewResponse(close), type, body).close = close
        /\ Ok(NewResponse(close), type, body).type = type
        /\ Ok(NewResponse(close), type, body).body = body
  BY DEF Ok, NewResponse
<1> QED
  BY <1>1, <1>2, <1>3

LEMMA ResponsesAreFramed ==
  ASSUME NEW r, NEW resp \in Responses(r)
  PROVE  /\ resp.close \in BOOLEAN
         /\ Bytes(resp) \in Seq(Pieces)
         /\ Framed(resp.close, Bytes(resp))
<1> DEFINE close == WantsClose(r)
           new == NewResponse(close)
           p == stream[r.of].line[2].path
           none == [new EXCEPT !.code = "404", !.close = TRUE, !.body = "404"]
<1>1. close \in BOOLEAN
  BY DEF WantsClose
<1>2. resp = defaultHttpCallback(new) \/ resp \in dealHttpRequest(p, new)
  BY DEF Responses
<1> HIDE DEF close, p
<1>3. /\ Missing(defaultHttpCallback(new)) /\ Missing(none)
      /\ \A type, body :
           /\ Ok(new, type, body).code = "200"
           /\ Ok(new, type, body).close = close
           /\ Ok(new, type, body).type = type /\ Ok(new, type, body).body = body
  BY <1>1, NewResponseIs
<1>4. ASSUME Missing(resp) PROVE resp.close \in BOOLEAN
  BY <1>4 DEF Missing
<1> HIDE DEF new
<1>5. ASSUME resp = Ok(new, "text/html", "page") PROVE Found(resp)
  <2>1. \A f \in DOMAIN Files : Files[f] # "page"
    BY FilesAssumption
  <2>2. "text/html" \in Types /\ "page" \in Bodies
    BY DEF Types, Bodies
  <2>3. /\ resp.code = "200" /\ resp.close = close
        /\ resp.type = "text/html" /\ resp.body = "page"
    BY <1>3, <1>5
  <2> QED
    BY <1>1, <2>1, <2>2, <2>3 DEF Found
<1>6. ASSUME path(p) \in DOMAIN Files, resp = Ok(new, getFileType(p), Files[path(p)])
      PROVE  Found(resp)
  <2>1. \A f \in DOMAIN Files : Files[f] = Files[path(p)] => f = path(p)
    BY <1>6, FilesAssumption
  <2>2. Files[path(p)] \in Bodies /\ Files[path(p)] # ""
    BY <1>6, FilesAssumption DEF Bodies
  <2>3. /\ resp.code = "200" /\ resp.close = close
        /\ resp.type = getFileType(p) /\ resp.body = Files[path(p)]
    BY <1>3, <1>6
  <2>4. Found(resp)
    BY <1>1, <2>1, <2>2, <2>3, FileType DEF Found
  <2> QED
    BY <2>4
<1>7. ASSUME resp \in dealHttpRequest(p, new)
      PROVE  \/ resp = Ok(new, "text/html", "page")
             \/ resp = none
             \/ path(p) \in DOMAIN Files /\ resp = Ok(new, getFileType(p), Files[path(p)])
  <2>1. CASE path(p) = Index
    BY <1>7, <2>1 DEF dealHttpRequest
  <2>2. CASE path(p) # Index
    <3>1. PICK body \in addResponseBody(path(p)) :
            resp = IF body = "404"
                   THEN [new EXCEPT !.code = "404", !.close = TRUE, !.body = body]
                   ELSE Ok(new, getFileType(p), body)
      BY <1>7, <2>2 DEF dealHttpRequest
    <3>2. CASE body = "404"
      BY <3>1, <3>2
    <3>3. CASE body # "404"
      <4>1. path(p) \in DOMAIN Files /\ body = Files[path(p)]
        BY <3>1, <3>3 DEF addResponseBody
      <4> QED
        BY <3>1, <3>3, <4>1
    <3> QED
      BY <3>2, <3>3
  <2> QED
    BY <2>1, <2>2
<1> HIDE DEF none
<1>8. Missing(resp) \/ Found(resp)
  BY <1>2, <1>3, <1>5, <1>6, <1>7
<1>9. Found(resp) => resp.close \in BOOLEAN
  BY DEF Found
<1> QED
  BY <1>4, <1>8, <1>9, MissingIsFramed, FoundIsFramed

------------------------------------------------------------------------------
(* The inductive invariant *)

\* What the client has sent and the parser has not taken.
Left == buf \o wire

StreamInv ==
  /\ Len(stream) <= MaxRequests
  /\ WholeTexts(Left, stream)
  /\ InOrder(Left)

\* The text in the parser is one of the client's, behind all those dealt with
\* and before all that is left.  If it is a request and supported, what is left
\* of it stands before the parser; of a text in a body nothing more is known.
ReqInv ==
  pc # "idle" =>
    /\ req.state = "kExpectRequestLine" => req = NewRequest
    /\ req.state # "kExpectRequestLine" =>
         /\ req.of \in 1..Len(stream)
         /\ Ahead(Left, req.of)
         /\ \A d \in 1..Len(dealt) : dealt[d].of < req.of
         /\ Supported(stream[req.of]) => Stage(Left, stream, req)
         /\ \/ Supported(stream[req.of])
            \/ stream[req.of].inBody
            \/ req.state = "kExpectHeaders"
    /\ req.state # "kGotAll" => req.postData = {}

DealtInv ==
  /\ \A d \in 1..Len(dealt) :
       /\ dealt[d].of \in 1..Len(stream)
       /\ Ahead(Left, dealt[d].of)
       /\ ~stream[dealt[d].of].inBody =>
            dealt[d].headers = Headers2(stream[dealt[d].of], dealt[d].of)
  /\ \A d, e \in 1..Len(dealt) : d < e => dealt[d].of < dealt[e].of

SentInv ==
  /\ conn = "kConnected" => \A a \in 1..Len(sent) : ~sent[a].close
  /\ \A a \in 1..Len(sent) : Framed(sent[a].close, sent[a].bytes)
  /\ AnswersStopAtClose

Answerable(i) == processRequestLine(stream[i].line).ok /\ Supported(stream[i])

Answered(i) ==
  /\ \E a \in 1..Len(sent) : sent[a].to = i
  /\ \E d \in 1..Len(dealt) :
       /\ dealt[d].of = i
       /\ stream[i].line[1] = "POST" => dealt[d].postData = Meaning(stream[i].form)

\* This onMessage is going to answer request i.
Pending(i) ==
  /\ ok /\ conn = "kConnected"
  /\ \/ /\ pc = "parse" /\ req.state = "kExpectRequestLine"
        /\ StandsAt(buf, 0, Text(stream[i], i))
     \/ /\ pc = "parse" /\ req.state \in {"kExpectHeaders", "kExpectBody"} /\ req.of = i
        /\ Stage(buf, stream, req)
     \/ /\ pc = "finish" /\ req.state = "kGotAll" /\ req.of = i
        /\ stream[i].line[1] = "POST" => req.postData = Meaning(stream[i].form)

WholeInv ==
  \A i \in whole :
    /\ i \in 1..Len(stream) /\ ~stream[i].inBody
    /\ Answerable(i) => Answered(i) \/ Pending(i)

IInv == TypeOK /\ StreamInv /\ ReqInv /\ DealtInv /\ SentInv /\ WholeInv

LEMMA LeftIs ==
  ASSUME buf \in Seq(Token), wire \in Seq(Token)
  PROVE  /\ Left \in Seq(Token) /\ Len(Left) = Len(buf) + Len(wire)
         /\ \A a \in 1..Len(buf) : Left[a] = buf[a]
         /\ \A a \in 1..Len(wire) : Left[Len(buf) + a] = wire[a]
         /\ Begins(Left)
<1>1. /\ Left \in Seq(Token) /\ Len(Left) = Len(buf) + Len(wire)
      /\ \A a \in 1..Len(buf) : Left[a] = buf[a]
      /\ \A a \in 1..Len(wire) : Left[Len(buf) + a] = wire[a]
  BY DEF Left
<1>2. Len(buf) \in Nat /\ Len(wire) \in Nat
  OBVIOUS
<1> QED
  BY <1>1, <1>2 DEF Begins

\* What is taken from the front of the Buffer is taken from all that is left.
LEMMA LeftDrops ==
  ASSUME buf \in Seq(Token), wire \in Seq(Token), NEW n, NEW u \in Seq(Token),
         Drops(buf, n, u)
  PROVE  Drops(Left, n, u \o wire) /\ u \o wire \in Seq(Token)
<1> DEFINE l == u \o wire
<1>1. /\ Len(Left) = Len(buf) + Len(wire)
      /\ \A a \in 1..Len(buf) : Left[a] = buf[a]
      /\ \A a \in 1..Len(wire) : Left[Len(buf) + a] = wire[a]
  BY LeftIs
<1>2. /\ l \in Seq(Token) /\ Len(l) = Len(u) + Len(wire)
      /\ \A a \in 1..Len(u) : l[a] = u[a]
      /\ \A a \in 1..Len(wire) : l[Len(u) + a] = wire[a]
  OBVIOUS
<1>3. /\ Len(buf) \in Nat /\ Len(wire) \in Nat /\ n \in Nat /\ n <= Len(buf)
      /\ Len(u) = Len(buf) - n /\ \A a \in 1..Len(u) : u[a] = buf[a + n]
  BY DEF Drops
<1> HIDE DEF l
<1>4. ASSUME NEW a \in 1..Len(l) PROVE l[a] = Left[a + n]
  <2>1. CASE a \in 1..Len(u)
    <3>1. a + n \in 1..Len(buf)
      BY <1>3, <2>1
    <3> QED
      BY <1>1, <1>2, <1>3, <2>1, <3>1
  <2>2. CASE a \notin 1..Len(u)
    <3>1. /\ a - Len(u) \in 1..Len(wire) /\ Len(u) + (a - Len(u)) = a
          /\ Len(buf) + (a - Len(u)) = a + n
      BY <1>2, <1>3, <2>2
    <3>2. l[Len(u) + (a - Len(u))] = wire[a - Len(u)]
      BY <1>2, <3>1
    <3>3. Left[Len(buf) + (a - Len(u))] = wire[a - Len(u)]
      BY <1>1, <3>1
    <3> QED
      BY <3>1, <3>2, <3>3
  <2> QED
    BY <2>1, <2>2
<1>5. n \in 0..Len(Left) /\ Len(l) = Len(Left) - n
  BY <1>1, <1>2, <1>3
<1> QED
  BY <1>2, <1>4, <1>5 DEF Drops, l

\* What stands somewhere still does when something is added behind it.
LEMMA StandsLonger ==
  ASSUME NEW s \in Seq(Token), NEW u \in Seq(Token), NEW i \in Nat, NEW t, Len(t) \in Nat,
         StandsAt(s, i, t)
  PROVE  StandsAt(s \o u, i, t)
<1>1. /\ Len(s) \in Nat /\ Len(u) \in Nat /\ Len(s \o u) = Len(s) + Len(u)
      /\ \A a \in 1..Len(s) : (s \o u)[a] = s[a]
  OBVIOUS
<1>2. i + Len(t) <= Len(s) /\ \A j \in 1..Len(t) : s[i + j] = t[j]
  BY DEF StandsAt
<1> DEFINE l == s \o u
<1> HIDE DEF l
<1>3. i + Len(t) <= Len(l) /\ \A j \in 1..Len(t) : i + j \in 1..Len(s)
  BY <1>1, <1>2 DEF l
<1>4. \A j \in 1..Len(t) : l[i + j] = t[j]
  BY <1>1, <1>2, <1>3 DEF l
<1> QED
  BY <1>3, <1>4 DEF StandsAt, l

LEMMA StageLonger ==
  ASSUME NEW s \in Seq(Token), NEW u \in Seq(Token), NEW st, NEW r, r.of \in Ids,
         st[r.of] \in Kinds, Stage(s, st, r)
  PROVE  Stage(s \o u, st, r)
<1> DEFINE i == r.of
           k == st[i]
<1>1. /\ Len(Rest0(k, i)) \in Nat /\ Len(Rest1(k, i)) \in Nat /\ Len(Rest2(k, i)) \in Nat
      /\ Len(BodyText(k, i)) \in Nat /\ 0 \in Nat
  BY Rests, Parts
<1> HIDE DEF i, k
<1>2. ASSUME NEW t, Len(t) \in Nat, StandsAt(s, 0, t) PROVE StandsAt(s \o u, 0, t)
  BY <1>2, StandsLonger
<1> QED
  BY <1>1, <1>2 DEF Stage, InHeaders, i, k

------------------------------------------------------------------------------
(* What the steps have in common *)

LEMMA RequestIds == ASSUME TypeOK, StreamInv PROVE \A i \in 1..Len(stream) : i \in Ids
<1>1. Len(stream) \in 0..MaxRequests
  BY SomeRequests DEF TypeOK, StreamInv
<1> QED
  BY <1>1, IdsAre

LEMMA NothingTaken == ASSUME buf \in Seq(Token) PROVE Drops(buf, 0, buf)
<1>1. Len(buf) \in Nat
  OBVIOUS
<1> QED
  BY <1>1 DEF Drops

LEMMA TakeKeeps ==
  ASSUME TypeOK, StreamInv, UNCHANGED <<stream, wire>>, buf' \in Seq(Token),
         NEW n, Drops(buf, n, buf')
  PROVE  /\ StreamInv'
         /\ Left' \in Seq(Token) /\ Drops(Left, n, Left')
         /\ \A i : Ahead(Left, i) => Ahead(Left', i)
<1>1. /\ buf \in Seq(Token) /\ wire \in Seq(Token) /\ Len(stream) \in 0..MaxRequests
      /\ stream \in Seq(Kinds)
  BY SomeRequests DEF TypeOK, StreamInv
<1>2. Left' = buf' \o wire
  BY DEF Left
<1>3. Left \in Seq(Token) /\ Left' \in Seq(Token) /\ Drops(Left, n, Left')
  BY <1>1, <1>2, LeftIs, LeftDrops
<1>4. /\ WholeTexts(Left, stream) => WholeTexts(Left', stream)
      /\ InOrder(Left) => InOrder(Left')
      /\ \A i : Ahead(Left, i) => Ahead(Left', i)
  BY <1>1, <1>3, DropKeeps
<1>5. StreamInv'
  BY <1>4 DEF StreamInv
<1> QED
  BY <1>3, <1>4, <1>5

LEMMA DealtKept ==
  ASSUME DealtInv, UNCHANGED <<stream, dealt>>, \A i : Ahead(Left, i) => Ahead(Left', i)
  PROVE  DealtInv'
  BY DEF DealtInv

LEMMA SentKept ==
  ASSUME SentInv, UNCHANGED <<sent, conn>>
  PROVE  SentInv'
  BY DEF SentInv, AnswersStopAtClose

LEMMA WholeKept ==
  ASSUME WholeInv, UNCHANGED <<stream, sent, dealt, whole>>,
         \A i \in whole : Answerable(i) /\ Pending(i) => Pending(i)'
  PROVE  WholeInv'
<1>1. \A i : Answerable(i)' <=> Answerable(i)
  BY DEF Answerable
<1>2. \A i : Answered(i)' <=> Answered(i)
  BY DEF Answered
<1> QED
  BY <1>1, <1>2 DEF WholeInv

\* A token that is a request line is one of a request the client sent.
LEMMA LineOfRequest ==
  ASSUME TypeOK, StreamInv, HasLine, Len(Line) = 1, Line[1].what = "line"
  PROVE  /\ Line[1].of \in 1..Len(stream) /\ Line[1].of \in Ids
         /\ StandsAt(Left, 0, Text(stream[Line[1].of], Line[1].of))
         /\ \A i : Ahead(Left, i) => i < Line[1].of
         /\ \A n, u : Drops(Left, n, u) /\ n >= 1 => Ahead(u, Line[1].of)
<1>1. buf \in Seq(Token) /\ wire \in Seq(Token) /\ Len(stream) \in 0..MaxRequests
  BY SomeRequests DEF TypeOK, StreamInv
<1>2. /\ 1 \in 1..Len(Left) /\ Left[1] = Line[1] /\ Left \in Seq(Token)
  <2>1. 1 \in 1..Len(Line) /\ Line[1] = buf[1] /\ 1 \in 1..Len(buf) /\ Len(buf) \in Nat
    BY <1>1, LineIs
  <2>2. Len(Left) = Len(buf) + Len(wire) /\ Left[1] = buf[1] /\ Left \in Seq(Token)
    BY <1>1, <2>1, LeftIs
  <2>3. Len(wire) \in Nat
    BY <1>1
  <2> QED
    BY <2>1, <2>2, <2>3
<1>3. /\ Line[1].of \in 1..Len(stream)
      /\ StandsAt(Left, 1 - 1, Text(stream[Line[1].of], Line[1].of))
  BY <1>2 DEF StreamInv, WholeTexts
<1>4. Line[1].of \in Ids
  BY <1>1, <1>3, IdsAre
<1>5. \A i : Ahead(Left, i) => i < Line[1].of
  BY <1>2 DEF Ahead
<1>6. ASSUME NEW n, NEW u, Drops(Left, n, u), n >= 1 PROVE Ahead(u, Line[1].of)
  <2> SUFFICES ASSUME NEW a \in 1..Len(u), u[a].what = "line"
               PROVE  Line[1].of < u[a].of
    BY DEF Ahead
  <2>1. u[a] = Left[a + n] /\ a + n \in 1..Len(Left) /\ 1 < a + n
    BY <1>2, <1>6 DEF Drops
  <2> QED
    BY <1>2, <2>1 DEF StreamInv, InOrder
<1>7. 1 - 1 = 0
  OBVIOUS
<1> QED
  BY <1>3, <1>4, <1>5, <1>6, <1>7

------------------------------------------------------------------------------
(* The steps of parseRequest *)

LEMMA NoLineYetKeeps == ASSUME IInv, NoLineYet PROVE IInv'
<1> USE DEF IInv
<1>1. /\ pc = "parse" /\ req.state # "kExpectBody" /\ ~HasLine /\ pc' = "finish"
      /\ UNCHANGED <<stream, wire, buf, req, ok, conn, sent, dealt, whole>>
  BY DEF NoLineYet
<1>2. buf \in Seq(Token)
  BY DEF TypeOK
<1>3. TypeOK'
  BY <1>1 DEF TypeOK
<1>4. StreamInv' /\ Left' = Left
  BY <1>1 DEF StreamInv, Left
<1>5. ReqInv'
  BY <1>1, <1>4 DEF ReqInv
<1>6. DealtInv' /\ SentInv'
  BY <1>1, <1>4, DealtKept, SentKept
<1>7. ASSUME NEW i \in whole, Pending(i) PROVE FALSE
  <2>0. i \in Ids /\ stream[i] \in Kinds /\ ~stream[i].inBody
    BY DEF TypeOK, WholeInv
  <2>1. \A a \in 1..Len(buf) : buf[a].what # "crlf"
    BY <1>1, <1>2, CRLFIs DEF HasLine
  <2>2. CASE req.state = "kExpectRequestLine" /\ StandsAt(buf, 0, Text(stream[i], i))
    <3> DEFINE t == Text(stream[i], i)
    <3>1. Len(t) \in Nat /\ Len(t) >= 2 /\ t[2] = T("crlf", i)
      BY <2>0, RequestTextBegins
    <3> HIDE DEF t
    <3>2. 0 + Len(t) <= Len(buf) /\ \A j \in 1..Len(t) : buf[0 + j] = t[j]
      BY <2>2 DEF StandsAt, t
    <3>3. 2 \in 1..Len(buf) /\ buf[2] = T("crlf", i)
      BY <1>2, <3>1, <3>2
    <3> QED
      BY <2>0, <2>1, <3>3, Tokens
  <2>3. CASE req.state = "kExpectHeaders" /\ req.of = i /\ Stage(buf, stream, req)
    <3>1. InHeaders(buf, stream[i], i, req.headers)
      BY <2>3 DEF Stage
    <3>2. \/ Len(buf) >= 2 /\ buf[2] = T("crlf", i)
          \/ Len(buf) >= 1 /\ buf[1] = T("crlf", i)
      BY <1>2, <2>0, <3>1, NextInHeaders
    <3>3. Len(buf) \in Nat
      BY <1>2
    <3>4. (Len(buf) >= 2 => 2 \in 1..Len(buf)) /\ (Len(buf) >= 1 => 1 \in 1..Len(buf))
      BY <3>3
    <3> QED
      BY <2>0, <2>1, <3>2, <3>4, Tokens
  <2> QED
    BY <1>1, <1>7, <2>2, <2>3 DEF Pending
<1>8. WholeInv'
  BY <1>1, <1>7, WholeKept
<1> QED
  BY <1>3, <1>4, <1>5, <1>6, <1>8

LEMMA BadRequestLineKeeps == ASSUME IInv, BadRequestLine PROVE IInv'
<1> USE DEF IInv
<1>1. /\ pc = "parse" /\ req.state = "kExpectRequestLine" /\ HasLine
      /\ ~IsRequestLine(Line) /\ ok' = FALSE /\ pc' = "finish"
      /\ UNCHANGED <<stream, wire, buf, req, conn, sent, dealt, whole>>
  BY DEF BadRequestLine, Parsing
<1>2. buf \in Seq(Token)
  BY DEF TypeOK
<1>3. TypeOK'
  BY <1>1 DEF TypeOK
<1>4. StreamInv' /\ Left' = Left
  BY <1>1 DEF StreamInv, Left
<1>5. ReqInv'
  BY <1>1, <1>4 DEF ReqInv
<1>6. DealtInv' /\ SentInv'
  BY <1>1, <1>4, DealtKept, SentKept
<1>7. ASSUME NEW i \in whole, Answerable(i), Pending(i) PROVE FALSE
  <2>0. i \in Ids /\ stream[i] \in Kinds /\ ~stream[i].inBody
    BY DEF TypeOK, WholeInv
  <2>1. StandsAt(buf, 0, Text(stream[i], i))
    BY <1>1, <1>7 DEF Pending
  <2>2. Begins(buf)
    BY <1>2 DEF Begins
  <2>3. Len(Line) = 1 /\ Line[1] = T("line", i)
    BY <1>1, <1>2, <2>0, <2>1, <2>2, LineOfText
  <2>4. Line[1].what = "line" /\ Line[1].of = i
    BY <2>0, <2>3, Tokens
  <2> QED
    BY <1>1, <1>7, <2>3, <2>4 DEF IsRequestLine, Answerable
<1>8. WholeInv'
  BY <1>1, <1>7, WholeKept
<1> QED
  BY <1>3, <1>4, <1>5, <1>6, <1>8

LEMMA GoodRequestLineKeeps == ASSUME IInv, GoodRequestLine PROVE IInv'
<1> USE DEF IInv
<1>1. /\ pc = "parse" /\ req.state = "kExpectRequestLine" /\ HasLine
      /\ IsRequestLine(Line)
      /\ req' = [req EXCEPT !.state = "kExpectHeaders", !.of = Line[1].of]
      /\ buf' = AfterCRLF
      /\ UNCHANGED <<stream, wire, ok, pc, conn, sent, dealt, whole>>
  BY DEF GoodRequestLine, Parsing
<1> DEFINE i == Line[1].of
<1>2. buf \in Seq(Token) /\ wire \in Seq(Token) /\ req \in Request /\ req = NewRequest
  BY <1>1 DEF TypeOK, ReqInv
<1>3. buf' \in Seq(Token) /\ Drops(buf, findCRLF, buf')
  BY <1>1, <1>2, AfterIs
<1>4. /\ StreamInv' /\ Left' \in Seq(Token) /\ Drops(Left, findCRLF, Left')
      /\ \A j : Ahead(Left, j) => Ahead(Left', j)
  BY <1>1, <1>3, TakeKeeps
<1>5. Len(Line) = 1 /\ Line[1].what = "line" /\ findCRLF >= 1
  BY <1>1, <1>2, LineIs DEF IsRequestLine
<1>6. /\ i \in 1..Len(stream) /\ i \in Ids
      /\ StandsAt(Left, 0, Text(stream[i], i))
      /\ \A j : Ahead(Left, j) => j < i
      /\ Ahead(Left', i)
  BY <1>1, <1>4, <1>5, LineOfRequest
<1>7. Begins(Left)
  BY <1>2, LeftIs
<1>8. Supported(stream[i]) => Stage(Left', stream, req')
  <2>1. stream[i] \in Kinds
    BY <1>6 DEF TypeOK
  <2>2. CASE ~stream[i].inBody
    BY <1>2, <1>4, <1>6, <1>7, <2>1, <2>2, GoodStage
  <2> QED
    BY <2>2 DEF Supported
<1>9. /\ req' \in Request /\ req'.state = "kExpectHeaders" /\ req'.postData = {}
      /\ req'.of = i
  BY <1>1, <1>2, <1>6 DEF Request, NewRequest
<1> HIDE DEF i
<1>10. TypeOK'
  BY <1>1, <1>3, <1>9 DEF TypeOK
<1>11. ReqInv'
  <2>1. \A d \in 1..Len(dealt) : dealt[d].of < i
    BY <1>6 DEF DealtInv
  <2> QED
    BY <1>1, <1>6, <1>8, <1>9, <2>1 DEF ReqInv
<1>12. DealtInv' /\ SentInv'
  BY <1>1, <1>4, DealtKept, SentKept
<1>13. ASSUME NEW j \in whole, Answerable(j), Pending(j) PROVE Pending(j)'
  <2>0. j \in Ids /\ stream[j] \in Kinds /\ ~stream[j].inBody
    BY DEF TypeOK, WholeInv
  <2>1. StandsAt(buf, 0, Text(stream[j], j)) /\ ok /\ conn = "kConnected"
    BY <1>1, <1>13 DEF Pending
  <2>2. Begins(buf)
    BY <1>2 DEF Begins
  <2>3. req'.of = j /\ Stage(buf', stream, req')
    BY <1>2, <1>3, <2>0, <2>1, <2>2, GoodStage
  <2> QED
    BY <1>1, <1>9, <2>1, <2>3 DEF Pending
<1>14. WholeInv'
  BY <1>1, <1>13, WholeKept
<1> QED
  BY <1>4, <1>10, <1>11, <1>12, <1>14

LEMMA HeaderKeeps == ASSUME IInv, Header PROVE IInv'
<1> USE DEF IInv
<1> DEFINE i == req.of
           headers == addHeader(req.headers, Line)
<1>1. /\ pc = "parse" /\ req.state = "kExpectHeaders" /\ HasLine /\ IsHeader(Line)
      /\ req' = [req EXCEPT !.headers = headers]
      /\ buf' = AfterCRLF
      /\ UNCHANGED <<stream, wire, ok, pc, conn, sent, dealt, whole>>
  BY DEF Header, Parsing, AfterHeader
<1>2. buf \in Seq(Token) /\ wire \in Seq(Token) /\ req \in Request
  BY DEF TypeOK
<1>3. buf' \in Seq(Token) /\ Drops(buf, findCRLF, buf')
  BY <1>1, <1>2, AfterIs
<1>4. /\ StreamInv' /\ Left' \in Seq(Token) /\ Drops(Left, findCRLF, Left')
      /\ \A j : Ahead(Left, j) => Ahead(Left', j)
  BY <1>1, <1>3, TakeKeeps
<1>5. /\ i \in 1..Len(stream) /\ Ahead(Left, i)
      /\ \A d \in 1..Len(dealt) : dealt[d].of < i
      /\ Supported(stream[i]) => Stage(Left, stream, req)
      /\ req.postData = {}
  BY <1>1 DEF ReqInv
<1>6. i \in Ids /\ stream[i] \in Kinds
  BY <1>5, RequestIds DEF TypeOK
<1>7. Begins(Left) /\ Begins(buf)
  BY <1>2, LeftIs DEF Begins
<1>8. headers \in [Fields -> Ids \cup {0}]
  <2> DEFINE h == Head(Line)
  <2>1. h \in Token
    <3>1. Line \in Seq(Token)
      BY <1>1, <1>2, LineIs
    <3>2. Line # <<>>
      BY <1>1, <3>1 DEF IsHeader
    <3> QED
      BY <3>1, <3>2
  <2>2. h.of \in Ids
    BY <2>1 DEF Token
  <2>3. /\ headers = IF h.what \in Fields
                     THEN [req.headers EXCEPT ![h.what] = IF Len(Line) = 1 THEN h.of ELSE 0]
                     ELSE req.headers
        /\ req.headers \in [Fields -> Ids \cup {0}]
    BY <1>2 DEF addHeader, Request
  <2> HIDE DEF h, headers
  <2> QED
    BY <2>2, <2>3
<1> HIDE DEF headers
<1>9. /\ req' \in Request /\ req'.state = "kExpectHeaders" /\ req'.of = i
      /\ req'.postData = {}
  BY <1>1, <1>2, <1>5, <1>8 DEF Request
<1>10. TypeOK'
  BY <1>1, <1>3, <1>9 DEF TypeOK
<1>11. Supported(stream[i]) => Stage(Left', stream, req')
  BY <1>2, <1>4, <1>5, <1>6, <1>7, HeaderStage
<1>12. ReqInv'
  BY <1>1, <1>4, <1>5, <1>9, <1>11 DEF ReqInv
<1>13. DealtInv' /\ SentInv'
  BY <1>1, <1>4, DealtKept, SentKept
<1>14. ASSUME NEW j \in whole, Pending(j) PROVE Pending(j)'
  <2>1. req.of = j /\ Stage(buf, stream, req) /\ ok /\ conn = "kConnected"
    BY <1>1, <1>14 DEF Pending
  <2>2. Stage(buf', stream, req')
    BY <1>2, <1>3, <1>6, <1>7, <2>1, HeaderStage
  <2> QED
    BY <1>1, <1>9, <2>1, <2>2 DEF Pending
<1>15. WholeInv'
  BY <1>1, <1>14, WholeKept
<1> QED
  BY <1>4, <1>10, <1>12, <1>13, <1>15

LEMMA EndOfHeadersKeeps == ASSUME IInv, EndOfHeaders PROVE IInv'
<1> USE DEF IInv
<1> DEFINE i == req.of
           k == stream[i]
<1>1. /\ pc = "parse" /\ req.state = "kExpectHeaders" /\ HasLine /\ ~IsHeader(Line)
      /\ req' = [req EXCEPT !.state = StateAfterHeaders(Method)]
      /\ buf' = AfterCRLF
      /\ pc' = IF req'.state = "kGotAll" THEN "finish" ELSE "parse"
      /\ UNCHANGED <<stream, wire, ok, conn, sent, dealt, whole>>
  BY DEF EndOfHeaders, Parsing
<1>2. buf \in Seq(Token) /\ wire \in Seq(Token) /\ req \in Request
  BY DEF TypeOK
<1>3. buf' \in Seq(Token) /\ Drops(buf, findCRLF, buf')
  BY <1>1, <1>2, AfterIs
<1>4. /\ StreamInv' /\ Left' \in Seq(Token) /\ Drops(Left, findCRLF, Left')
      /\ \A j : Ahead(Left, j) => Ahead(Left', j)
  BY <1>1, <1>3, TakeKeeps
<1>5. /\ i \in 1..Len(stream) /\ Ahead(Left, i)
      /\ \A d \in 1..Len(dealt) : dealt[d].of < i
      /\ Supported(k) => Stage(Left, stream, req)
      /\ req.postData = {}
  BY <1>1 DEF ReqInv
<1>6. i \in Ids /\ k \in Kinds
  BY <1>5, RequestIds DEF TypeOK
<1>7. Begins(Left) /\ Begins(buf)
  BY <1>2, LeftIs DEF Begins
<1>8. /\ StateAfterHeaders(Method) \in {"kGotAll", "kExpectBody", "kExpectHeaders"}
      /\ StateAfterHeaders(Method) = "kGotAll" <=> k.line[1] = "GET"
      /\ StateAfterHeaders(Method) = "kExpectBody" <=> k.line[1] = "POST"
  BY MethodIs DEF Method
<1>9. /\ req' \in Request /\ req'.state = StateAfterHeaders(Method) /\ req'.of = i
      /\ req'.postData = {}
  BY <1>1, <1>2, <1>5, <1>8 DEF Request
<1>10. TypeOK'
  BY <1>1, <1>3, <1>9 DEF TypeOK
<1>11. Supported(k) => Stage(Left', stream, req')
  BY <1>2, <1>4, <1>5, <1>6, <1>7, EndStage
<1>12. Supported(k) \/ k.inBody \/ req'.state = "kExpectHeaders"
  BY <1>8, <1>9 DEF Supported
<1>13. ReqInv'
  <2>1. req'.state # "kExpectRequestLine"
    BY <1>8, <1>9
  <2> QED
    BY <1>1, <1>4, <1>5, <1>9, <1>11, <1>12, <2>1 DEF ReqInv
<1>14. DealtInv' /\ SentInv'
  BY <1>1, <1>4, DealtKept, SentKept
<1>15. ASSUME NEW j \in whole, Answerable(j), Pending(j) PROVE Pending(j)'
  <2>1. i = j /\ Stage(buf, stream, req) /\ ok /\ conn = "kConnected"
    BY <1>1, <1>15 DEF Pending
  <2>2. Supported(k)
    BY <1>15, <2>1 DEF Answerable
  <2>3. Stage(buf', stream, req') /\ req'.state \in {"kExpectBody", "kGotAll"}
    BY <1>2, <1>3, <1>6, <1>7, <2>1, <2>2, EndStage
  <2>4. req'.state = "kGotAll" => stream[j].line[1] # "POST"
    BY <1>8, <1>9, <2>1
  <2> QED
    BY <1>1, <1>9, <2>1, <2>3, <2>4 DEF Pending
<1>16. WholeInv'
  BY <1>1, <1>15, WholeKept
<1> QED
  BY <1>4, <1>10, <1>13, <1>14, <1>16

LEMMA BodyKeeps == ASSUME IInv, Body PROVE IInv'
<1> USE DEF IInv
<1> DEFINE i == req.of
           k == stream[i]
<1>1. /\ pc = "parse" /\ req.state = "kExpectBody"
      /\ req' = [req EXCEPT !.state = "kGotAll",
                            !.postData = IF IsForm THEN FormAtPeek ELSE @]
      /\ buf' = AfterCRLF
      /\ pc' = "finish"
      /\ UNCHANGED <<stream, wire, ok, conn, sent, dealt, whole>>
  BY DEF Body, Parsing
<1>2. /\ buf \in Seq(Token) /\ wire \in Seq(Token) /\ req \in Request
      /\ stream \in Seq(Kinds)
  BY DEF TypeOK
<1>3. PICK n : buf' \in Seq(Token) /\ Drops(buf, n, buf')
  BY <1>1, <1>2, AfterIs
<1>4. /\ StreamInv' /\ Left' \in Seq(Token) /\ Drops(Left, n, Left')
      /\ \A j : Ahead(Left, j) => Ahead(Left', j)
  BY <1>1, <1>3, TakeKeeps
<1>5. /\ i \in 1..Len(stream) /\ Ahead(Left, i)
      /\ \A d \in 1..Len(dealt) : dealt[d].of < i
      /\ Supported(k) \/ k.inBody
      /\ Supported(k) => Stage(Left, stream, req)
      /\ req.postData = {}
  BY <1>1 DEF ReqInv
<1>6. i \in Ids
  BY <1>5, RequestIds
<1>7. req'.postData \in {Meaning(k.form), Garbage, {}}
  BY <1>2, <1>5, BodyDataType
<1>8. req'.postData \in SUBSET (Seq(Nat) \X Seq(Nat))
  <2>1. k \in Kinds
    BY <1>2, <1>5
  <2>2. Meaning(k.form) \subseteq Seq(Nat) \X Seq(Nat)
    BY <2>1, KindsAssumption, MeaningType
  <2>3. Garbage \subseteq Seq(Nat) \X Seq(Nat)
    BY DEF Garbage
  <2> QED
    BY <1>7, <2>2, <2>3
<1>9. /\ req'.state = "kGotAll" /\ req'.of = i /\ req' \in Request
  <2> DEFINE d == IF IsForm THEN FormAtPeek ELSE req.postData
  <2>1. req' = [req EXCEPT !.state = "kGotAll", !.postData = d]
    BY <1>1
  <2> HIDE DEF d
  <2>2. req'.postData = d
    BY <1>2, <2>1 DEF Request
  <2> QED
    BY <1>2, <1>8, <2>1, <2>2 DEF Request
<1>10. TypeOK'
  BY <1>1, <1>3, <1>9 DEF TypeOK
<1>11. Supported(k) => Stage(Left', stream, req')
  BY <1>2, <1>5, BodyStage
<1>12. ReqInv'
  BY <1>1, <1>4, <1>5, <1>9, <1>11 DEF ReqInv
<1>13. DealtInv' /\ SentInv'
  BY <1>1, <1>4, DealtKept, SentKept
<1>14. ASSUME NEW j \in whole, Pending(j) PROVE Pending(j)'
  <2>1. i = j /\ Stage(buf, stream, req) /\ ok /\ conn = "kConnected"
    BY <1>1, <1>14 DEF Pending
  <2>2. req'.postData = Meaning(stream[j].form)
    BY <1>2, <1>5, <1>6, <2>1, BodyData
  <2> QED
    BY <1>1, <1>9, <2>1, <2>2 DEF Pending
<1>15. WholeInv'
  BY <1>1, <1>14, WholeKept
<1> QED
  BY <1>4, <1>10, <1>12, <1>13, <1>15

------------------------------------------------------------------------------
(* The other steps *)

LEMMA FinishPartialKeeps == ASSUME IInv, FinishPartial PROVE IInv'
<1> USE DEF IInv
<1>1. /\ pc = "finish" /\ req.state # "kGotAll" /\ pc' = "idle"
      /\ UNCHANGED <<stream, wire, buf, req, ok, conn, sent, dealt, whole>>
  BY DEF FinishPartial
<1>2. TypeOK'
  BY <1>1 DEF TypeOK
<1>3. StreamInv' /\ Left' = Left
  BY <1>1 DEF StreamInv, Left
<1>4. ReqInv'
  BY <1>1 DEF ReqInv
<1>5. DealtInv' /\ SentInv'
  BY <1>1, <1>3, DealtKept, SentKept
<1>6. \A i \in whole : ~Pending(i)
  BY <1>1 DEF Pending
<1>7. WholeInv'
  BY <1>1, <1>6, WholeKept
<1> QED
  BY <1>2, <1>3, <1>4, <1>5, <1>7

Answer == [to : Ids \cup {0}, close : BOOLEAN, bytes : Seq(Pieces)]

\* An answer is sent on an open connection, which is shut down if it says so.
LEMMA SendKeepsSent ==
  ASSUME TypeOK, SentInv, NEW a \in Answer, Framed(a.close, a.bytes),
         sent' = SentAfter(a), conn' = IF a.close THEN "kDisconnecting" ELSE conn
  PROVE  SentInv' /\ sent' \in Seq(Answer) /\ conn' \in {"kConnected", "kDisconnecting"}
<1>1. sent \in Seq(Answer) /\ conn \in {"kConnected", "kDisconnecting"}
  BY DEF TypeOK, Answer
<1>2. conn' \in {"kConnected", "kDisconnecting"}
  BY <1>1
<1>3. /\ conn = "kConnected" => \A i \in 1..Len(sent) : ~sent[i].close
      /\ \A i \in 1..Len(sent) : Framed(sent[i].close, sent[i].bytes)
      /\ \A i \in 1..Len(sent) : sent[i].close => i = Len(sent)
  BY DEF SentInv, AnswersStopAtClose
<1>4. CASE conn # "kConnected"
  <2>1. sent' = sent /\ conn' # "kConnected"
    BY <1>1, <1>4 DEF SentAfter, SendIsOpen
  <2> QED
    BY <1>1, <1>2, <1>3, <2>1 DEF SentInv, AnswersStopAtClose
<1>5. CASE conn = "kConnected"
  <2>1. sent' = Append(sent, a)
    BY <1>5 DEF SentAfter, SendIsOpen
  <2>2. /\ sent' \in Seq(Answer) /\ Len(sent') = Len(sent) + 1 /\ sent'[Len(sent) + 1] = a
        /\ \A i \in 1..Len(sent) : sent'[i] = sent[i]
    BY <1>1, <2>1, AppendProperties
  <2>3. Len(sent) \in Nat
    BY <1>1
  <2>4. \A i \in 1..(Len(sent) + 1) : i \in 1..Len(sent) \/ i = Len(sent) + 1
    BY <2>3
  <2> DEFINE more == sent'
  <2> HIDE DEF more
  <2>5. ASSUME NEW i \in 1..Len(more), more[i].close PROVE i = Len(more)
    BY <1>3, <1>5, <2>2, <2>4, <2>5 DEF more
  <2>6. ASSUME NEW i \in 1..Len(more) PROVE Framed(more[i].close, more[i].bytes)
    BY <1>3, <2>2, <2>4 DEF more
  <2>7. conn' = "kConnected" => \A i \in 1..Len(more) : ~more[i].close
    BY <1>3, <1>5, <2>2, <2>4 DEF more
  <2> QED
    BY <1>2, <2>2, <2>5, <2>6, <2>7 DEF SentInv, AnswersStopAtClose, more
<1> QED
  BY <1>4, <1>5

LEMMA FinishBadKeeps == ASSUME IInv, FinishBad PROVE IInv'
<1> USE DEF IInv
<1> DEFINE b == <<Piece("status", "400"), Piece("", "")>>
           a == [to |-> 0, close |-> TRUE, bytes |-> b]
<1>1. /\ pc = "finish" /\ ~ok /\ sent' = SentAfter(a)
      /\ conn' = "kDisconnecting" /\ pc' = "idle"
      /\ UNCHANGED <<stream, wire, buf, req, ok, dealt, whole>>
  BY DEF FinishBad
<1>2. b \in Seq(Pieces) /\ Framed(TRUE, b)
  BY BadIsFramed
<1> HIDE DEF b
<1>3. a \in Answer /\ a.close = TRUE /\ a.bytes = b
  BY <1>2 DEF Answer
<1> HIDE DEF a
<1>4. SentInv' /\ sent' \in Seq(Answer) /\ conn' \in {"kConnected", "kDisconnecting"}
  BY <1>1, <1>2, <1>3, SendKeepsSent
<1>5. TypeOK'
  BY <1>1, <1>4 DEF TypeOK, Answer
<1>6. StreamInv' /\ Left' = Left
  BY <1>1 DEF StreamInv, Left
<1>7. ReqInv'
  BY <1>1 DEF ReqInv
<1>8. DealtInv'
  BY <1>1, <1>6, DealtKept
<1>9. WholeInv'
  <2>1. \A i : Answerable(i)' <=> Answerable(i)
    BY <1>1 DEF Answerable
  <2>2. \A i \in whole : ~Pending(i)
    BY <1>1 DEF Pending
  <2>3. sent \in Seq(Answer)
    BY DEF TypeOK, Answer
  <2>4. ASSUME NEW i, Answered(i) PROVE Answered(i)'
    <3>1. PICK n \in 1..Len(sent) : sent[n].to = i
      BY <2>4 DEF Answered
    <3>2. n \in 1..Len(sent') /\ sent'[n] = sent[n]
      BY <1>1, <1>3, <2>3 DEF SentAfter
    <3> QED
      BY <1>1, <2>4, <3>1, <3>2 DEF Answered
  <2> QED
    BY <1>1, <2>1, <2>2, <2>4 DEF WholeInv
<1> QED
  BY <1>4, <1>5, <1>6, <1>7, <1>8, <1>9

LEMMA FinishDealtKeeps == ASSUME IInv, FinishDealt PROVE IInv'
<1> USE DEF IInv
<1> DEFINE i == req.of
           k == stream[i]
<1>1. /\ pc = "finish" /\ ok /\ req.state = "kGotAll" /\ dealt' = Append(dealt, req)
      /\ pc' = "idle" /\ UNCHANGED <<stream, wire, buf, req, ok, whole>>
  BY DEF FinishDealt
<1>2. PICK resp \in Responses(req) :
        /\ sent' = SentAfter([to |-> i, close |-> resp.close, bytes |-> Bytes(resp)])
        /\ conn' = IF resp.close THEN "kDisconnecting" ELSE conn
  BY DEF FinishDealt
<1> DEFINE a == [to |-> i, close |-> resp.close, bytes |-> Bytes(resp)]
<1>3. /\ resp.close \in BOOLEAN /\ Bytes(resp) \in Seq(Pieces)
      /\ Framed(resp.close, Bytes(resp))
  BY ResponsesAreFramed
<1>4. /\ i \in 1..Len(stream) /\ Ahead(Left, i)
      /\ \A d \in 1..Len(dealt) : dealt[d].of < i
      /\ Supported(k) \/ k.inBody
      /\ Supported(k) => Stage(Left, stream, req)
  BY <1>1 DEF ReqInv
<1>5. i \in Ids
  BY <1>4, RequestIds
<1> HIDE DEF i
<1>6. a \in Answer /\ a.close = resp.close /\ a.bytes = Bytes(resp) /\ a.to = i
  BY <1>3, <1>5 DEF Answer
<1> HIDE DEF a
<1>7. sent' = SentAfter(a) /\ conn' = IF a.close THEN "kDisconnecting" ELSE conn
  BY <1>2, <1>6 DEF a
<1>8. SentInv' /\ sent' \in Seq(Answer) /\ conn' \in {"kConnected", "kDisconnecting"}
  BY <1>3, <1>6, <1>7, SendKeepsSent
<1>9. dealt \in Seq(Request) /\ req \in Request /\ sent \in Seq(Answer)
  BY DEF TypeOK, Answer
<1>10. /\ dealt' \in Seq(Request) /\ Len(dealt') = Len(dealt) + 1
       /\ dealt'[Len(dealt) + 1] = req
       /\ \A d \in 1..Len(dealt) : dealt'[d] = dealt[d]
       /\ Len(dealt) \in Nat
  BY <1>1, <1>9, AppendProperties
<1>11. TypeOK'
  BY <1>1, <1>8, <1>10 DEF TypeOK, Answer
<1>12. StreamInv' /\ Left' = Left
  BY <1>1 DEF StreamInv, Left
<1>13. ReqInv'
  BY <1>1 DEF ReqInv
<1>14. DealtInv'
  <2>0. \A d \in 1..Len(dealt') : d \in 1..Len(dealt) \/ d = Len(dealt) + 1
    BY <1>10
  <2>1. ~k.inBody => req.headers = Headers2(k, i)
    BY <1>1, <1>4 DEF Stage, i
  <2>2. ASSUME NEW d \in 1..Len(dealt')
        PROVE  /\ dealt'[d].of \in 1..Len(stream)
               /\ Ahead(Left, dealt'[d].of)
               /\ ~stream[dealt'[d].of].inBody =>
                    dealt'[d].headers = Headers2(stream[dealt'[d].of], dealt'[d].of)
    <3>1. CASE d \in 1..Len(dealt)
      BY <1>10, <3>1 DEF DealtInv
    <3>2. CASE d = Len(dealt) + 1
      <4>1. dealt'[d] = req /\ req.of = i
        BY <1>10, <3>2 DEF i
      <4> QED
        BY <1>4, <2>1, <4>1
    <3> QED
      BY <2>0, <3>1, <3>2
  <2>3. ASSUME NEW d \in 1..Len(dealt'), NEW e \in 1..Len(dealt'), d < e
        PROVE  dealt'[d].of < dealt'[e].of
    <3>1. d \in 1..Len(dealt) /\ dealt'[d] = dealt[d]
      BY <1>10, <2>3
    <3>2. CASE e \in 1..Len(dealt)
      BY <1>10, <2>3, <3>1, <3>2 DEF DealtInv
    <3>3. CASE e = Len(dealt) + 1
      <4>1. dealt'[e] = req /\ req.of = i
        BY <1>10, <3>3 DEF i
      <4> QED
        BY <1>4, <3>1, <4>1
    <3> QED
      BY <2>0, <3>2, <3>3
  <2> QED
    BY <1>1, <1>12, <2>2, <2>3 DEF DealtInv
<1>15. WholeInv'
  <2>1. \A j : Answerable(j)' <=> Answerable(j)
    BY <1>1 DEF Answerable
  <2>2. ASSUME NEW j, Answered(j) PROVE Answered(j)'
    <3>1. PICK n \in 1..Len(sent) : sent[n].to = j
      BY <2>2 DEF Answered
    <3>2. n \in 1..Len(sent') /\ sent'[n] = sent[n]
      BY <1>7, <1>6, <1>9 DEF SentAfter
    <3>3. PICK d \in 1..Len(dealt) :
            /\ dealt[d].of = j
            /\ stream[j].line[1] = "POST" => dealt[d].postData = Meaning(stream[j].form)
      BY <2>2 DEF Answered
    <3>4. d \in 1..Len(dealt') /\ dealt'[d] = dealt[d]
      BY <1>10
    <3> QED
      BY <1>1, <3>1, <3>2, <3>3, <3>4 DEF Answered
  <2>3. ASSUME NEW j \in whole, Pending(j) PROVE Answered(j)'
    <3>1. /\ i = j /\ conn = "kConnected"
          /\ stream[j].line[1] = "POST" => req.postData = Meaning(stream[j].form)
      BY <1>1, <2>3 DEF Pending, i
    <3>2. sent' = Append(sent, a)
      BY <1>7, <3>1 DEF SentAfter, SendIsOpen
    <3>3. Len(sent) + 1 \in 1..Len(sent') /\ sent'[Len(sent) + 1] = a
      BY <1>6, <1>9, <3>2
    <3>4. Len(dealt) + 1 \in 1..Len(dealt') /\ req.of = j
      BY <1>10, <3>1 DEF i
    <3>5. \E n \in 1..Len(sent') : sent'[n].to = j
      BY <1>6, <3>1, <3>3
    <3>6. \E d \in 1..Len(dealt') :
            /\ dealt'[d].of = j
            /\ stream[j].line[1] = "POST" => dealt'[d].postData = Meaning(stream[j].form)
      BY <1>10, <3>1, <3>4
    <3> QED
      BY <1>1, <3>5, <3>6 DEF Answered
  <2> QED
    BY <1>1, <2>1, <2>2, <2>3 DEF WholeInv
<1> QED
  BY <1>8, <1>11, <1>12, <1>13, <1>14, <1>15

LEMMA ClientSendsKeeps == ASSUME IInv, NEW kind \in Kinds, ClientSends(kind) PROVE IInv'
<1> USE DEF IInv
<1> DEFINE m == Len(stream) + 1
           t == Text(kind, m)
<1>1. /\ Len(stream) < MaxRequests
      /\ stream' = Append(stream, kind) /\ wire' = wire \o t
      /\ UNCHANGED <<buf, req, ok, pc, conn, sent, dealt, whole>>
  BY DEF ClientSends
<1>2. buf \in Seq(Token) /\ wire \in Seq(Token) /\ stream \in Seq(Kinds)
  BY DEF TypeOK
<1>3. /\ stream' \in Seq(Kinds) /\ Len(stream') = Len(stream) + 1
      /\ \A i \in 1..Len(stream) : stream'[i] = stream[i]
      /\ Len(stream) \in Nat
  BY <1>1, <1>2, AppendProperties
<1>4. m \in Ids
  BY <1>1, <1>3, SomeRequests DEF Ids
<1>5. t \in Seq(Token)
  BY <1>4, TextBegins
<1>6. Left \in Seq(Token)
  BY <1>2, LeftIs
<1>7. /\ WholeTexts(Left \o t, stream') /\ InOrder(Left \o t)
      /\ \A i \in 1..Len(stream) : Ahead(Left, i) => Ahead(Left \o t, i)
  BY <1>1, <1>2, <1>6, SendKeeps DEF StreamInv
<1>8. Left' = Left \o t
  <2> HIDE DEF t
  <2>1. Left' = buf \o (wire \o t)
    BY <1>1 DEF Left
  <2>2. (buf \o wire) \o t = buf \o (wire \o t)
    BY <1>2, <1>5, ConcatAssociative
  <2> QED
    BY <2>1, <2>2 DEF Left
<1>9. Len(stream') <= MaxRequests
  BY <1>1, <1>3, SomeRequests
<1>10. StreamInv'
  BY <1>7, <1>8, <1>9 DEF StreamInv
<1>11. wire' \in Seq(Token)
  <2> HIDE DEF t
  <2> QED
    BY <1>1, <1>2, <1>5, ConcatProperties
<1>12. TypeOK'
  BY <1>1, <1>3, <1>11 DEF TypeOK
<1>13. \A i \in 1..Len(stream) : i \in 1..Len(stream')
  BY <1>3
<1> HIDE DEF t, m
<1>14. ReqInv'
  <2>1. CASE pc # "idle" /\ req.state # "kExpectRequestLine"
    <3> DEFINE i == req.of
    <3>1. /\ i \in 1..Len(stream) /\ Ahead(Left, i)
          /\ \A d \in 1..Len(dealt) : dealt[d].of < i
          /\ Supported(stream[i]) => Stage(Left, stream, req)
          /\ \/ Supported(stream[i]) \/ stream[i].inBody
             \/ req.state = "kExpectHeaders"
          /\ req.state # "kGotAll" => req.postData = {}
      BY <2>1 DEF ReqInv
    <3>2. i \in Ids /\ stream[i] \in Kinds
      BY <1>2, <3>1, RequestIds
    <3>3. Stage(Left, stream, req) => Stage(Left', stream, req)
      BY <1>5, <1>6, <1>8, <3>2, StageLonger
    <3>4. Stage(Left', stream, req) => Stage(Left', stream', req)
      BY <1>3, <3>1 DEF Stage
    <3>5. stream'[i] = stream[i] /\ i \in 1..Len(stream') /\ Ahead(Left', i)
      BY <1>3, <1>7, <1>8, <1>13, <3>1
    <3> QED
      BY <1>1, <2>1, <3>1, <3>3, <3>4, <3>5 DEF ReqInv
  <2>2. CASE ~(pc # "idle" /\ req.state # "kExpectRequestLine")
    BY <1>1, <2>2 DEF ReqInv
  <2> QED
    BY <2>1, <2>2
<1>15. DealtInv'
  <2>1. ASSUME NEW d \in 1..Len(dealt)
        PROVE  /\ dealt[d].of \in 1..Len(stream')
               /\ Ahead(Left', dealt[d].of)
               /\ ~stream'[dealt[d].of].inBody =>
                    dealt[d].headers = Headers2(stream'[dealt[d].of], dealt[d].of)
    <3>1. /\ dealt[d].of \in 1..Len(stream)
          /\ Ahead(Left, dealt[d].of)
          /\ ~stream[dealt[d].of].inBody =>
               dealt[d].headers = Headers2(stream[dealt[d].of], dealt[d].of)
      BY DEF DealtInv
    <3> QED
      BY <1>3, <1>7, <1>8, <1>13, <3>1
  <2> QED
    BY <1>1, <2>1 DEF DealtInv
<1>16. SentInv'
  BY <1>1, SentKept
<1>17. WholeInv'
  <2> SUFFICES ASSUME NEW i \in whole
               PROVE  /\ i \in 1..Len(stream') /\ ~stream'[i].inBody
                      /\ Answerable(i)' => Answered(i)' \/ Pending(i)'
    BY <1>1 DEF WholeInv
  <2>1. /\ i \in 1..Len(stream) /\ ~stream[i].inBody
        /\ Answerable(i) => Answered(i) \/ Pending(i)
    BY DEF WholeInv
  <2>2. stream'[i] = stream[i] /\ i \in 1..Len(stream')
    BY <1>3, <1>13, <2>1
  <2>3. Answerable(i)' <=> Answerable(i)
    BY <2>2 DEF Answerable
  <2>4. Answered(i)' <=> Answered(i)
    BY <1>1, <2>2 DEF Answered
  <2>5. req.of = i => (Stage(buf, stream, req) <=> Stage(buf, stream', req))
    BY <2>2 DEF Stage
  <2>6. Pending(i) => Pending(i)'
    BY <1>1, <2>2, <2>5 DEF Pending
  <2> QED
    BY <2>1, <2>2, <2>3, <2>4, <2>6
<1> QED
  BY <1>10, <1>12, <1>14, <1>15, <1>16, <1>17

\* What has arrived and what has not are all there is.
LEMMA CutInTwo ==
  ASSUME NEW S, NEW s \in Seq(S), NEW n \in 1..Len(s)
  PROVE  LET piece == SubSeq(s, 1, n)
             rest == SubSeq(s, n + 1, Len(s))
         IN  /\ piece \in Seq(S) /\ Len(piece) = n /\ rest \in Seq(S)
             /\ piece \o rest = s
<1> DEFINE piece == SubSeq(s, 1, n)
           rest == SubSeq(s, n + 1, Len(s))
           l == piece \o rest
<1>1. /\ piece \in Seq(S) /\ Len(piece) = n /\ \A a \in 1..n : piece[a] = s[a]
  OBVIOUS
<1>2. /\ rest \in Seq(S) /\ Len(rest) = Len(s) - n
      /\ \A a \in 1..Len(rest) : rest[a] = s[a + n]
  OBVIOUS
<1> HIDE DEF piece, rest
<1>3. /\ l \in Seq(S) /\ Len(l) = Len(piece) + Len(rest)
      /\ \A a \in 1..Len(piece) : l[a] = piece[a]
      /\ \A a \in 1..Len(rest) : l[Len(piece) + a] = rest[a]
  <2>1. piece \in Seq(S) /\ rest \in Seq(S)
    BY <1>1, <1>2
  <2> QED
    BY <2>1
<1> HIDE DEF l
<1>4. Len(l) = Len(s) /\ Len(s) \in Nat
  BY <1>1, <1>2, <1>3
<1>5. ASSUME NEW a \in 1..Len(s) PROVE l[a] = s[a]
  <2>1. CASE a <= n
    BY <1>1, <1>3, <2>1
  <2>2. CASE ~(a <= n)
    <3>1. a - n \in 1..Len(rest) /\ n + (a - n) = a /\ (a - n) + n = a
      BY <1>2, <1>4, <2>2
    <3>2. l[n + (a - n)] = rest[a - n]
      BY <1>1, <1>3, <3>1
    <3>3. rest[a - n] = s[(a - n) + n]
      BY <1>2, <3>1
    <3> QED
      BY <3>1, <3>2, <3>3
  <2> QED
    BY <2>1, <2>2
<1>6. l = s
  BY <1>3, <1>4, <1>5, SeqEqual
<1> QED
  BY <1>1, <1>2, <1>6 DEF l, piece, rest

LEMMA OnMessageKeeps == ASSUME IInv, OnMessage PROVE IInv'
<1> USE DEF IInv
<1>1. /\ pc = "idle" /\ req' = NewRequest /\ ok' = TRUE /\ pc' = "parse"
      /\ UNCHANGED <<stream, conn, sent, dealt>>
  BY DEF OnMessage, FreshRequest
<1>2. buf \in Seq(Token) /\ wire \in Seq(Token)
  BY DEF TypeOK
<1>3. PICK n \in 1..Len(wire) :
        LET piece == SubSeq(wire, 1, n) IN
        /\ buf' = buf \o piece
        /\ wire' = SubSeq(wire, n + 1, Len(wire))
        /\ whole' = IF buf = <<>> /\ conn = "kConnected"
                    THEN whole \cup WholeAtHead(piece) ELSE whole
  BY DEF OnMessage
<1> DEFINE piece == SubSeq(wire, 1, n)
           rest == SubSeq(wire, n + 1, Len(wire))
<1>4. /\ piece \in Seq(Token) /\ Len(piece) = n /\ rest \in Seq(Token)
      /\ piece \o rest = wire
  BY <1>2, CutInTwo
<1>4a. piece \in Seq(Token) /\ rest \in Seq(Token)
  BY <1>4
<1>5. buf' = buf \o piece /\ wire' = rest
  BY <1>3
<1> HIDE DEF piece, rest
<1>6. buf' \in Seq(Token) /\ wire' \in Seq(Token)
  BY <1>2, <1>4, <1>5, ConcatProperties
<1>7. Left' = Left
  <2>1. (buf \o piece) \o rest = buf \o (piece \o rest)
    BY <1>2, <1>4a, ConcatAssociative
  <2> QED
    BY <1>4, <1>5, <2>1 DEF Left
<1>8. StreamInv'
  BY <1>1, <1>7 DEF StreamInv
<1>9. req' \in Request /\ req'.state = "kExpectRequestLine" /\ req'.postData = {}
  BY <1>1 DEF NewRequest, Request
<1>10. ReqInv'
  BY <1>1, <1>9 DEF ReqInv
<1>11. DealtInv' /\ SentInv'
  BY <1>1, <1>7, DealtKept, SentKept
\* A request that arrives whole stands at the head of the Buffer.
<1>12. ASSUME NEW i \in whole'
       PROVE  i \in whole \/ (i \in 1..Len(stream) /\ ~stream[i].inBody /\ Pending(i)')
  <2>1. CASE buf = <<>> /\ conn = "kConnected" /\ i \in WholeAtHead(piece)
    <3> DEFINE t == Text(stream[i], i)
    <3>1. i \in 1..Len(stream) /\ ~stream[i].inBody /\ IsPrefix(t, piece)
      BY <2>1 DEF WholeAtHead
    <3>2. i \in Ids /\ stream[i] \in Kinds
      BY <3>1, RequestIds DEF TypeOK
    <3>3. t \in Seq(Token)
      BY <3>2, TextBegins
    <3> HIDE DEF t
    <3>4. buf' = piece
      BY <1>4, <1>5, <2>1, ConcatEmptySeq
    <3>5. Len(t) <= Len(piece) /\ SubSeq(piece, 1, Len(t)) = t
      BY <1>4, <3>1, <3>3 DEF IsPrefix
    <3>6. \A j \in 1..Len(t) : piece[j] = t[j]
      BY <1>4, <3>3, <3>5
    <3>7. StandsAt(piece, 0, t)
      BY <1>4, <3>3, <3>5, <3>6 DEF StandsAt
    <3> QED
      BY <1>1, <1>9, <2>1, <3>1, <3>4, <3>7 DEF Pending, t
  <2>2. i \in whole \/ (buf = <<>> /\ conn = "kConnected" /\ i \in WholeAtHead(piece))
    BY <1>3 DEF piece
  <2> QED
    BY <2>1, <2>2
<1>13. WholeInv'
  <2>1. \A i : (Answerable(i)' <=> Answerable(i)) /\ (Answered(i)' <=> Answered(i))
    BY <1>1 DEF Answerable, Answered
  <2>2. \A i \in whole : ~Pending(i)
    BY <1>1 DEF Pending
  <2> QED
    BY <1>1, <1>12, <2>1, <2>2 DEF WholeInv
<1>14. TypeOK'
  <2>1. whole' \subseteq Ids
    BY <1>12, RequestIds DEF TypeOK
  <2> QED
    BY <1>1, <1>6, <1>9, <2>1 DEF TypeOK
<1> QED
  BY <1>8, <1>10, <1>11, <1>13, <1>14

------------------------------------------------------------------------------
(* The theorems *)

LEMMA InitIInv == ASSUME Init PROVE IInv
<1> USE DEF Init
<1>1. NewRequest \in Request
  BY DEF NewRequest, Request
<1>2. TypeOK
  BY <1>1 DEF TypeOK
<1>3. Left = <<>>
  BY DEF Left
<1>4. StreamInv
  BY <1>3, SomeRequests DEF StreamInv, WholeTexts, InOrder
<1>5. ReqInv /\ DealtInv /\ SentInv /\ WholeInv
  BY DEF ReqInv, DealtInv, SentInv, WholeInv, AnswersStopAtClose
<1> QED
  BY <1>2, <1>4, <1>5 DEF IInv

LEMMA StutterIInv == ASSUME IInv, UNCHANGED vars PROVE IInv'
<1> USE DEF IInv, vars
<1>1. TypeOK'
  BY DEF TypeOK
<1>2. StreamInv' /\ Left' = Left
  BY DEF StreamInv, Left
<1>3. ReqInv'
  BY <1>2 DEF ReqInv
<1>4. DealtInv' /\ SentInv'
  BY <1>2, DealtKept, SentKept
<1>5. \A i : Pending(i)' <=> Pending(i)
  BY DEF Pending
<1>6. WholeInv'
  BY <1>5, WholeKept
<1> QED
  BY <1>1, <1>2, <1>3, <1>4, <1>6

LEMMA Invariant == Spec => []IInv
<1>1. ASSUME IInv, [Next]_vars PROVE IInv'
  <2>1. ASSUME NEW k \in Kinds, ClientSends(k) PROVE IInv'
    BY <1>1, <2>1, ClientSendsKeeps
  <2>2. CASE OnMessage
    BY <1>1, <2>2, OnMessageKeeps
  <2>3. CASE Parse
    BY <1>1, <2>3, NoLineYetKeeps, GoodRequestLineKeeps, BadRequestLineKeeps,
       HeaderKeeps, EndOfHeadersKeeps, BodyKeeps DEF Parse
  <2>4. CASE Finish
    BY <1>1, <2>4, FinishBadKeeps, FinishPartialKeeps, FinishDealtKeeps DEF Finish
  <2>5. CASE UNCHANGED vars
    BY <1>1, <2>5, StutterIInv
  <2> QED
    BY <1>1, <2>1, <2>2, <2>3, <2>4, <2>5 DEF Next
<1>2. Init => IInv
  BY InitIInv
<1> QED
  BY <1>1, <1>2, PTL DEF Spec

LEMMA SameHeaders ==
  ASSUME NEW g \in [Fields -> Ids \cup {0}], NEW h \in [Fields -> Ids \cup {0}],
         \A f \in Fields : g[f] = h[f]
  PROVE  g = h
  OBVIOUS

LEMMA IInvImpliesDealt == ASSUME IInv PROVE DealtAreRequests
<1>1. \A i, j \in 1..Len(dealt) : i < j => dealt[i].of < dealt[j].of
  BY DEF IInv, DealtInv
<1>2. ASSUME NEW i \in 1..Len(dealt)
      PROVE  LET k == stream[dealt[i].of] IN
             ~k.inBody => dealt[i].headers =
               [f \in Fields |->
                  IF \/ f = "Connection" /\ k.connection # ""
                     \/ f = "Content-Type" /\ k.form # <<>>
                  THEN dealt[i].of ELSE 0]
  <2> DEFINE of == dealt[i].of
             k == stream[of]
             h == [f \in Fields |->
                     IF \/ f = "Connection" /\ k.connection # ""
                        \/ f = "Content-Type" /\ k.form # <<>>
                     THEN of ELSE 0]
  <2>1. of \in 1..Len(stream) /\ (~k.inBody => dealt[i].headers = Headers2(k, of))
    BY DEF IInv, DealtInv
  <2>2. of \in Ids
    BY <2>1, RequestIds DEF IInv
  <2> HIDE DEF of, k
  <2>3. /\ Headers2(k, of) \in [Fields -> Ids \cup {0}]
        /\ Headers2(k, of)["Connection"] = IF k.connection # "" THEN of ELSE 0
        /\ Headers2(k, of)["Content-Type"] = IF k.form # <<>> THEN of ELSE 0
    BY <2>2, HeadersAre
  <2>4. /\ h \in [Fields -> Ids \cup {0}]
        /\ h["Connection"] = IF k.connection # "" THEN of ELSE 0
        /\ h["Content-Type"] = IF k.form # <<>> THEN of ELSE 0
    BY <2>2 DEF Fields
  <2> HIDE DEF h
  <2>5. \A f \in Fields : h[f] = Headers2(k, of)[f]
    BY <2>3, <2>4 DEF Fields
  <2>6. h = Headers2(k, of)
    BY <2>3, <2>4, <2>5, SameHeaders
  <2> QED
    BY <2>1, <2>6 DEF h, k, of
<1> QED
  BY <1>1, <1>2 DEF DealtAreRequests

\* The callback gets requests in the order of their lines, each once, and those
\* the client sent with their own headers, whatever is in their bodies and
\* wherever TCP cuts the stream, and a client can tell where each answer ends
\* (parseRequest, onDealRequest, HttpResponse).  What stands in a body and reads
\* like a request is given to the callback too: only its place is claimed.
THEOREM InvAlways == Spec => []Inv
<1>1. IInv => AnswersAreFramed
  BY DEF IInv, SentInv, Framed, AnswersAreFramed
<1>2. IInv => Inv
  BY <1>1, IInvImpliesDealt DEF IInv, Inv
<1> QED
  BY <1>2, Invariant, PTL

\* Once an answer has said that the connection is closed, nothing follows it
\* (TcpConnection::send after shutdown()).
THEOREM NothingAfterClose == Spec => []AnswersStopAtClose
<1>1. IInv => AnswersStopAtClose
  BY DEF IInv, SentInv
<1> QED
  BY <1>1, Invariant, PTL

\* A GET or POST that onMessage gets in one piece is answered by it, and the
\* callback gets its form as the client meant it.
THEOREM WholeRequestsAreAnswered == Spec => []WholeIsAnswered
<1>1. IInv => WholeIsAnswered
  <2> SUFFICES ASSUME IInv, pc = "idle", NEW i \in whole,
                      processRequestLine(stream[i].line).ok,
                      stream[i].line[1] \in {"GET", "POST"}
               PROVE  Answered(i)
    BY DEF WholeIsAnswered, Answered
  <2>1. Answerable(i) /\ ~Pending(i)
    BY DEF Answerable, Supported, Pending, IInv, WholeInv
  <2> QED
    BY <2>1 DEF IInv, WholeInv
<1> QED
  BY <1>1, Invariant, PTL

------------------------------------------------------------------------------
(* Buffer: BufferInv is inductive as it stands.  Each helper keeps the     *)
(* indices in order and the readable bytes unchanged, or adds just the new *)
(* ones; the actions are combinations of the helpers.                      *)

\* The one fact about the constants that the proofs need.
LEMMA PrependNat == kCheapPrepend \in Nat
  BY BufferAssumption

USE PrependNat

\* A buffer by its fields.
LEMMA BufferFields ==
  ASSUME NEW b, IsBuffer(b)
  PROVE  /\ b = [cells |-> b.cells, size |-> b.size, reader |-> b.reader, writer |-> b.writer]
         /\ b.size \in Nat /\ b.reader \in Nat /\ b.writer \in Nat
         /\ b.cells \in [0..(b.size - 1) -> Nat]
         /\ kCheapPrepend <= b.reader /\ b.reader <= b.writer /\ b.writer <= b.size
  BY DEF IsBuffer

\* And back: what has such fields is a buffer.
LEMMA BufferFromFields ==
  ASSUME NEW size \in Nat, NEW reader \in Nat, NEW writer \in Nat,
         NEW cells \in [0..(size - 1) -> Nat],
         kCheapPrepend <= reader, reader <= writer, writer <= size
  PROVE  IsBuffer([cells |-> cells, size |-> size, reader |-> reader, writer |-> writer])
  BY DEF IsBuffer

\* Growing the vector keeps the indices and the readable bytes (makeSpace).
LEMMA ResizedKeeps ==
  ASSUME NEW b, NEW t \in Nat, NEW g \in Nat, NEW n \in Nat,
         IsBuffer(b), HoldsBytes(b, t, g), n >= b.size
  PROVE  LET c == Resized(b, n) IN
           /\ IsBuffer(c) /\ HoldsBytes(c, t, g)
           /\ c.size = n /\ c.reader = b.reader /\ c.writer = b.writer
<1> DEFINE c == Resized(b, n)
           cells == [i \in 0..(n - 1) |-> IF i < b.size THEN b.cells[i] ELSE 0]
<1>1. c = [cells |-> cells, size |-> n, reader |-> b.reader, writer |-> b.writer]
  BY DEF Resized
<1>2. cells \in [0..(n - 1) -> Nat]
  BY BufferFields
<1>3. IsBuffer(c)
  <2> HIDE DEF cells, c
  <2> QED
    BY <1>1, <1>2, BufferFields, BufferFromFields
<1>4. \A i \in b.reader..(b.writer - 1) : cells[i] = b.cells[i]
  BY BufferFields
<1>5. HoldsBytes(c, t, g)
  <2> HIDE DEF cells, c
  <2> QED
    BY <1>1, <1>4 DEF HoldsBytes, readableBytes
<1> QED
  BY <1>1, <1>3, <1>5

\* Moving the readable bytes to the front keeps them (makeSpace).
LEMMA MovedToFrontKeeps ==
  ASSUME NEW b, NEW t \in Nat, NEW g \in Nat, IsBuffer(b), HoldsBytes(b, t, g)
  PROVE  LET c == MovedToFront(b) IN
           /\ IsBuffer(c) /\ HoldsBytes(c, t, g)
           /\ c.size = b.size /\ c.reader = kCheapPrepend
           /\ c.writer = kCheapPrepend + (b.writer - b.reader)
<1> DEFINE c == MovedToFront(b)
           k == kCheapPrepend
           r == b.writer - b.reader
           cells == [i \in 0..(b.size - 1) |->
                       IF i \in k..((k + r) - 1) THEN b.cells[b.reader + (i - k)] ELSE b.cells[i]]
<1>1. c = [cells |-> cells, size |-> b.size, reader |-> k, writer |-> k + r]
  BY DEF MovedToFront, readableBytes
<1>2. r \in Nat /\ k + r <= b.size /\ k + r \in Nat
  BY BufferFields
<1>3. \A i \in k..((k + r) - 1) :
        /\ i \in 0..(b.size - 1)
        /\ b.reader + (i - k) \in b.reader..(b.writer - 1)
        /\ b.reader + (i - k) \in 0..(b.size - 1)
  BY BufferFields
<1>4. cells \in [0..(b.size - 1) -> Nat]
  BY <1>3, BufferFields
<1>5. IsBuffer(c)
  <2> HIDE DEF cells, c, r
  <2> QED
    BY <1>1, <1>2, <1>4, BufferFields, BufferFromFields
<1>6. \A i \in k..((k + r) - 1) : cells[i] = t + (i - k)
  <2> TAKE i \in k..((k + r) - 1)
  <2>1. cells[i] = b.cells[b.reader + (i - k)]
    BY <1>3
  <2>2. b.cells[b.reader + (i - k)] = t + ((b.reader + (i - k)) - b.reader)
    BY <1>3 DEF HoldsBytes
  <2> QED
    BY <2>1, <2>2, BufferFields
<1>7. HoldsBytes(c, t, g)
  <2>1. r = g - t
    BY DEF HoldsBytes, readableBytes
  <2> HIDE DEF cells, c, r
  <2> QED
    BY <1>1, <1>2, <1>6, <2>1 DEF HoldsBytes, readableBytes
<1> QED
  BY <1>1, <1>5, <1>7

\* ensureWritableBytes makes room for len bytes, loses none, and enlarges the
\* vector only if the bytes would not fit it otherwise.
LEMMA EnsureWritableMakesRoom ==
  ASSUME NEW b, NEW t \in Nat, NEW g \in Nat, NEW len \in Nat,
         IsBuffer(b), HoldsBytes(b, t, g)
  PROVE  LET c == ensureWritableBytes(b, len) IN
           /\ IsBuffer(c) /\ HoldsBytes(c, t, g)
           /\ writableBytes(c) >= len
           /\ c.size # b.size =>
                c.size > b.size /\ readableBytes(b) + len > b.size - kCheapPrepend
<1> DEFINE c == ensureWritableBytes(b, len)
<1>0. b.size \in Nat /\ b.writer \in Nat /\ b.reader \in Nat
  BY DEF IsBuffer
<1>1. CASE writableBytes(b) >= len
  <2>1. c = b
    BY <1>0, <1>1 DEF ensureWritableBytes, writableBytes
  <2> QED
    BY <1>1, <2>1
<1>2. CASE /\ writableBytes(b) < len
           /\ writableBytes(b) + prependableBytes(b) < len + kCheapPrepend
  <2>1. c = Resized(b, b.writer + len)
    BY <1>2 DEF ensureWritableBytes, makeSpace
  <2>2. b.writer + len \in Nat /\ b.writer + len > b.size
    BY <1>0, <1>2 DEF writableBytes
  <2>3. /\ IsBuffer(c) /\ HoldsBytes(c, t, g)
        /\ c.size = b.writer + len /\ c.writer = b.writer
    BY <1>0, <2>1, <2>2, ResizedKeeps
  <2>4. readableBytes(b) + len > b.size - kCheapPrepend
    BY <1>0, <1>2 DEF writableBytes, prependableBytes, readableBytes
  <2> QED
    BY <1>0, <2>2, <2>3, <2>4 DEF writableBytes
<1>3. CASE /\ writableBytes(b) < len
           /\ ~(writableBytes(b) + prependableBytes(b) < len + kCheapPrepend)
  <2>1. c = MovedToFront(b)
    BY <1>3 DEF ensureWritableBytes, makeSpace
  <2>2. /\ IsBuffer(c) /\ HoldsBytes(c, t, g) /\ c.size = b.size
        /\ c.writer = kCheapPrepend + (b.writer - b.reader)
    BY <2>1, MovedToFrontKeeps
  <2> QED
    BY <1>0, <1>3, <2>2 DEF writableBytes, prependableBytes
<1> QED
  BY <1>0, <1>1, <1>2, <1>3 DEF writableBytes

\* Copying len bytes behind the writer adds them to the readable ones, given
\* that there is room.
LEMMA WrittenAdds ==
  ASSUME NEW b, NEW t \in Nat, NEW g \in Nat, NEW len \in Nat,
         IsBuffer(b), HoldsBytes(b, t, g), b.writer + len <= b.size
  PROVE  LET c == Written(b, g, len) IN
           /\ IsBuffer(c) /\ HoldsBytes(c, t, g + len)
           /\ c.size = b.size /\ c.writer = b.writer + len /\ c.reader = b.reader
<1> DEFINE c == Written(b, g, len)
           cells == [i \in 0..(b.size - 1) |->
                       IF i \in b.writer..((b.writer + len) - 1)
                       THEN g + (i - b.writer) ELSE b.cells[i]]
<1>1. c = [cells |-> cells, size |-> b.size, reader |-> b.reader, writer |-> b.writer + len]
  BY DEF Written
<1>2. b.writer + len <= b.size /\ b.writer + len \in Nat /\ b.reader <= b.writer + len
  BY BufferFields
<1>3. cells \in [0..(b.size - 1) -> Nat]
  BY BufferFields
<1>4. IsBuffer(c)
  <2> HIDE DEF cells, c
  <2> QED
    BY <1>1, <1>2, <1>3, BufferFields, BufferFromFields
<1>5. \A i \in b.reader..((b.writer + len) - 1) : cells[i] = t + (i - b.reader)
  <2> TAKE i \in b.reader..((b.writer + len) - 1)
  <2>1. i \in 0..(b.size - 1) /\ i \in Int
    BY <1>2, BufferFields
  <2>2. CASE i < b.writer
    <3>1. cells[i] = b.cells[i] /\ i \in b.reader..(b.writer - 1)
      BY <2>1, <2>2, BufferFields
    <3> QED
      BY <3>1 DEF HoldsBytes
  <2>3. CASE i >= b.writer
    <3>1. cells[i] = g + (i - b.writer)
      BY <2>1, <2>3, BufferFields
    <3>2. /\ b.writer - b.reader = g - t
          /\ b.writer \in Int /\ b.reader \in Int /\ i \in Int
      BY <2>1, BufferFields DEF HoldsBytes, readableBytes
    <3> HIDE DEF cells, c
    <3> QED
      BY <3>1, <3>2
  <2> QED
    BY <2>2, <2>3, BufferFields
<1>6. HoldsBytes(c, t, g + len)
  <2>1. /\ b.writer - b.reader = g - t
        /\ b.writer \in Int /\ b.reader \in Int
    BY BufferFields DEF HoldsBytes, readableBytes
  <2> DEFINE w == b.writer + len
  <2> HIDE DEF cells, c
  <2>2. w \in Nat /\ b.reader \in Nat /\ w - b.reader = (g + len) - t
    <3>1. b.reader \in Nat /\ b.writer \in Nat
      BY BufferFields
    <3>2. QED
      BY <2>1, <3>1
  <2>3. c = [cells |-> cells, size |-> b.size, reader |-> b.reader, writer |-> w]
    BY <1>1
  <2>4. \A i \in b.reader..(w - 1) : cells[i] = t + (i - b.reader)
    BY <1>5
  <2> HIDE DEF w
  <2> QED
    BY <2>2, <2>3, <2>4 DEF HoldsBytes, readableBytes
<1> QED
  BY <1>1, <1>4, <1>6

\* append adds len bytes behind the readable ones, for any len.
LEMMA AppendedAdds ==
  ASSUME NEW b, NEW t \in Nat, NEW g \in Nat, NEW len \in Nat,
         IsBuffer(b), HoldsBytes(b, t, g)
  PROVE  LET c == Appended(b, g, len) IN
           /\ IsBuffer(c) /\ HoldsBytes(c, t, g + len)
           /\ c.size # b.size =>
                c.size > b.size /\ readableBytes(c) > b.size - kCheapPrepend
<1> DEFINE e == ensureWritableBytes(b, len)
           c == Appended(b, g, len)
<1>1. /\ IsBuffer(e) /\ HoldsBytes(e, t, g) /\ e.writer + len <= e.size
      /\ e.size # b.size =>
           e.size > b.size /\ readableBytes(b) + len > b.size - kCheapPrepend
  <2>1. IsBuffer(e) /\ HoldsBytes(e, t, g) /\ writableBytes(e) >= len
    BY EnsureWritableMakesRoom
  <2>2. e.writer + len <= e.size
    BY <2>1, BufferFields DEF writableBytes
  <2> QED
    BY <2>1, <2>2, EnsureWritableMakesRoom
<1>2. c = Written(e, g, len)
  BY DEF Appended
<1>3. IsBuffer(c) /\ HoldsBytes(c, t, g + len) /\ c.size = e.size
  BY <1>1, <1>2, WrittenAdds
<1>4. readableBytes(c) = readableBytes(b) + len
  BY <1>3 DEF HoldsBytes
<1> QED
  BY <1>1, <1>3, <1>4

\* readFd adds the n bytes that came in, also when some of them took the detour
\* over extrabuf.
LEMMA ReadInAdds ==
  ASSUME NEW b, NEW t \in Nat, NEW g \in Nat, NEW n \in Nat,
         IsBuffer(b), HoldsBytes(b, t, g)
  PROVE  LET c == ReadIn(b, g, n) IN
           /\ IsBuffer(c) /\ HoldsBytes(c, t, g + n)
           /\ c.size # b.size =>
                c.size > b.size /\ readableBytes(c) > b.size - kCheapPrepend
<1> DEFINE c == ReadIn(b, g, n)
           w == writableBytes(b)
<1>0. w \in Nat /\ b.size \in Nat /\ b.writer \in Nat /\ b.writer + w <= b.size
  BY BufferFields DEF writableBytes
<1>1. CASE n <= w
  <2>1. c = Written(b, g, n)
    BY <1>1 DEF ReadIn
  <2>2. b.writer + n <= b.size
    BY <1>0, <1>1
  <2> QED
    BY <2>1, <2>2, WrittenAdds
<1>2. CASE ~(n <= w)
  <2> DEFINE full == Written(b, g, w)
  <2>1. c = Appended(full, g + w, n - w)
    BY <1>2 DEF ReadIn
  <2>2. IsBuffer(full) /\ HoldsBytes(full, t, g + w) /\ full.size = b.size
    BY <1>0, WrittenAdds
  <2>3. g + w \in Nat /\ n - w \in Nat /\ (g + w) + (n - w) = g + n
    BY <1>0, <1>2
  <2>4. /\ IsBuffer(c) /\ HoldsBytes(c, t, (g + w) + (n - w))
        /\ c.size # full.size =>
             c.size > full.size /\ readableBytes(c) > full.size - kCheapPrepend
    BY <2>1, <2>2, <2>3, AppendedAdds
  <2> QED
    BY <2>2, <2>3, <2>4
<1> QED
  BY <1>1, <1>2

\* retrieve takes the first len readable bytes, or all of them.
LEMMA RetrievedTakes ==
  ASSUME NEW b, NEW t \in Nat, NEW g \in Nat, NEW len \in Nat,
         IsBuffer(b), HoldsBytes(b, t, g)
  PROVE  LET c == Retrieved(b, len) IN
           /\ IsBuffer(c) /\ HoldsBytes(c, t + Least(len, readableBytes(b)), g)
           /\ c.size = b.size
<1> DEFINE c == Retrieved(b, len)
<1>0. b = [cells |-> b.cells, size |-> b.size, reader |-> b.reader, writer |-> b.writer]
  BY BufferFields
<1>1. /\ b.writer - b.reader = g - t
      /\ \A i \in b.reader..(b.writer - 1) : b.cells[i] = t + (i - b.reader)
  BY DEF HoldsBytes, readableBytes
<1>2. CASE len < readableBytes(b)
  <2>1. c = [cells |-> b.cells, size |-> b.size, reader |-> b.reader + len, writer |-> b.writer]
    BY <1>0, <1>2 DEF Retrieved
  <2>2. Least(len, readableBytes(b)) = len /\ len < b.writer - b.reader
    BY <1>2, BufferFields DEF Least, readableBytes
  <2>3. IsBuffer(c)
    <3>1. b.reader + len \in Nat /\ kCheapPrepend <= b.reader + len /\ b.reader + len <= b.writer
      BY <2>2, BufferFields
    <3> HIDE DEF c
    <3> QED
      BY <2>1, <3>1, BufferFields, BufferFromFields
  <2>4. HoldsBytes(c, t + len, g)
    <3>1. /\ b.reader \in Nat /\ b.writer \in Nat
          /\ b.writer - (b.reader + len) = g - (t + len)
      <4> HIDE DEF c
      <4>1. b.reader \in Nat /\ b.writer \in Nat
        BY BufferFields
      <4>2. b.writer - b.reader = g - t
        BY <1>1
      <4> QED
        BY <4>1, <4>2
    <3>2. ASSUME NEW i \in (b.reader + len)..(b.writer - 1)
          PROVE  b.cells[i] = (t + len) + (i - (b.reader + len))
      <4>1. i \in b.reader..(b.writer - 1)
        BY <3>1
      <4>2. b.cells[i] = t + (i - b.reader)
        BY <1>1, <4>1
      <4> QED
        BY <3>1, <4>2
    <3>3. /\ c.cells = b.cells
          /\ c.reader = b.reader + len /\ c.writer = b.writer
      BY <2>1
    <3> HIDE DEF c
    <3> QED
      BY <3>1, <3>2, <3>3 DEF HoldsBytes, readableBytes
  <2> QED
    BY <2>1, <2>2, <2>3, <2>4
<1>3. CASE ~(len < readableBytes(b))
  <2>1. c = [cells |-> b.cells, size |-> b.size, reader |-> kCheapPrepend, writer |-> kCheapPrepend]
    BY <1>0, <1>3 DEF Retrieved
  <2>2. Least(len, readableBytes(b)) = g - t
    BY <1>1, <1>3, BufferFields DEF Least, readableBytes
  <2>3. IsBuffer(c)
    BY <2>1, BufferFields, BufferFromFields
  <2>4. HoldsBytes(c, t + (g - t), g)
    BY <2>1 DEF HoldsBytes, readableBytes
  <2> QED
    BY <2>1, <2>2, <2>3, <2>4
<1> QED
  BY <1>2, <1>3

------------------------------------------------------------------------------
\* The constructor leaves an empty buffer.
LEMMA BufferInitInv == BufferInit => BufferInv
<1> DEFINE n == kCheapPrepend + InitialSize
           cells == [i \in 0..(n - 1) |-> 0]
<1>1. n \in Nat /\ kCheapPrepend <= n /\ cells \in [0..(n - 1) -> Nat]
  BY BufferAssumption
<1>2. IsBuffer([cells |-> cells, size |-> n, reader |-> kCheapPrepend, writer |-> kCheapPrepend])
  <2> HIDE DEF n, cells
  <2> QED
    BY <1>1, BufferFromFields
<1> QED
  BY <1>1, <1>2, BufferAssumption DEF BufferInit, BufferInv, HoldsBytes, readableBytes

\* Every operation keeps the invariant and grows the vector only when it must.
LEMMA BufferStepKeeps ==
  ASSUME BufferInv, BufferNext
  PROVE  /\ BufferInv'
         /\ buffer'.size # buffer.size =>
              buffer'.size > buffer.size /\ readableBytes(buffer') > buffer.size - kCheapPrepend
<1>1. PICK n \in 0..MaxBytes : AppendBytes(n) \/ ReadFd(n) \/ Retrieve(n)
  BY DEF BufferNext
<1>2. /\ n \in Nat /\ given \in Nat /\ taken \in Nat
      /\ IsBuffer(buffer) /\ HoldsBytes(buffer, taken, given)
  BY DEF BufferInv
<1>3. CASE AppendBytes(n)
  <2>1. buffer' = Appended(buffer, given, n) /\ given' = given + n /\ taken' = taken
    BY <1>3 DEF AppendBytes
  <2>2. /\ IsBuffer(buffer') /\ HoldsBytes(buffer', taken, given + n)
        /\ buffer'.size # buffer.size =>
             buffer'.size > buffer.size /\ readableBytes(buffer') > buffer.size - kCheapPrepend
    BY <1>2, <2>1, AppendedAdds
  <2> QED
    BY <1>2, <2>1, <2>2 DEF BufferInv, IsBuffer, HoldsBytes, readableBytes
<1>4. CASE ReadFd(n)
  <2>1. buffer' = ReadIn(buffer, given, n) /\ given' = given + n /\ taken' = taken
    BY <1>4 DEF ReadFd
  <2>2. /\ IsBuffer(buffer') /\ HoldsBytes(buffer', taken, given + n)
        /\ buffer'.size # buffer.size =>
             buffer'.size > buffer.size /\ readableBytes(buffer') > buffer.size - kCheapPrepend
    BY <1>2, <2>1, ReadInAdds
  <2> QED
    BY <1>2, <2>1, <2>2 DEF BufferInv, IsBuffer, HoldsBytes, readableBytes
<1>5. CASE Retrieve(n)
  <2>1. /\ buffer' = Retrieved(buffer, n) /\ given' = given
        /\ taken' = taken + Least(n, readableBytes(buffer))
    BY <1>5 DEF Retrieve
  <2>2. /\ IsBuffer(buffer') /\ HoldsBytes(buffer', taken + Least(n, readableBytes(buffer)), given)
        /\ buffer'.size = buffer.size
    BY <1>2, <2>1, RetrievedTakes
  <2>3. Least(n, readableBytes(buffer)) \in Nat
    BY <1>2 DEF Least, readableBytes, IsBuffer
  <2> QED
    BY <1>2, <2>1, <2>2, <2>3 DEF BufferInv, IsBuffer, HoldsBytes, readableBytes
<1> QED
  BY <1>1, <1>3, <1>4, <1>5

\* Buffer.h: the indices never leave their order, and every byte put into the
\* buffer is read once, in order, whatever the sizes and the calls.
THEOREM BufferIsAByteQueue == BufferSpec => []BufferInv
<1>1. BufferInv /\ UNCHANGED bufferVars => BufferInv'
  BY DEF BufferInv, bufferVars, IsBuffer, HoldsBytes, readableBytes
<1> QED
  BY <1>1, BufferInitInv, BufferStepKeeps, PTL DEF BufferSpec

\* makeSpace: the vector is only enlarged if its bytes would not fit otherwise.
THEOREM GrowsOnlyWhenItMust == BufferSpec => GrowsOnlyWhenFull
<1> DEFINE Grown == buffer'.size # buffer.size =>
                      buffer'.size > buffer.size /\ readableBytes(buffer') > buffer.size - kCheapPrepend
<1>1. BufferInv /\ [BufferNext]_bufferVars => [Grown]_bufferVars
  BY BufferStepKeeps
<1> QED
  BY <1>1, BufferIsAByteQueue, PTL DEF BufferSpec, GrowsOnlyWhenFull
=================================================================================
