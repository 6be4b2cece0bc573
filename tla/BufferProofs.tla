---------------------------- MODULE BufferProofs ----------------------------
(***************************************************************************)
(* Lemmas about the bytes of Buffer, which the proofs about the server     *)
(* connection and the asynchronous client share: where a message lies in a *)
(* stream of messages (FlattenSeq), what is in the buffer after a part was *)
(* consumed, and what a write from io_block_ leaves to be sent.            *)
(*                                                                         *)
(* FlattenSeq is a recursive function.  What it computes is proved by      *)
(* induction, in the form of SetInduction: a set that holds 0 and with     *)
(* every number the next one holds them all.                               *)
(***************************************************************************)
EXTENDS Buffer, SequencesExt, SequenceTheorems, WellFoundedInduction, TLAPS

\* Every nonempty set of natural numbers has a least element.
LEMMA LeastElement ==
  ASSUME NEW T \in SUBSET Nat, T # {}
  PROVE  \E m \in T : \A k \in T : m <= k
<1> DEFINE R == OpToRel(<, Nat)
<1>1. IsWellFoundedOn(R, Nat)
  BY NatLessThanWellFounded
<1>2. \A x, y \in Nat : y < x => <<y, x>> \in R
  BY DEF OpToRel
<1> HIDE DEF R
<1>3. \E x \in T : \A y \in T : ~ (<<y, x>> \in R)
  BY <1>1, WFMin, Zenon
<1>4. PICK m \in T : \A k \in T : ~ (<<k, m>> \in R)
  BY <1>3
<1>5. \A k \in T : k \in Nat /\ m \in Nat /\ ~(k < m)
  BY <1>2, <1>4
<1>6. \A k \in T : m <= k
  BY <1>5
<1> QED BY <1>6

\* Induction over the natural numbers, for a set in place of a predicate.
LEMMA SetInduction ==
  ASSUME NEW S, 0 \in S, \A n \in Nat : n \in S => n + 1 \in S
  PROVE  Nat \subseteq S
<1> DEFINE T == Nat \ S
<1>1. SUFFICES ASSUME T # {} PROVE FALSE
  OBVIOUS
<1>2. PICK m \in T : \A k \in T : m <= k
  BY <1>1, LeastElement
<1>3. m \in Nat /\ m # 0
  OBVIOUS
<1>4. m - 1 \in Nat /\ m - 1 \notin T
  BY <1>2, <1>3
<1>5. (m - 1) + 1 \in S
  BY <1>4
<1> QED BY <1>3, <1>5

\* What never shrinks from one number to the next is monotone.
LEMMA Growing ==
  ASSUME NEW n \in Nat, NEW f, \A k \in 0..n : f[k] \in Nat,
         \A k \in 1..n : f[k - 1] <= f[k]
  PROVE  \A k \in 0..n : \A j \in 0..k : f[j] <= f[k]
<1> DEFINE A == {k \in Nat : k <= n => \A j \in 0..k : f[j] <= f[k]}
<1>1. 0 \in A
  OBVIOUS
<1>2. \A k \in Nat : k \in A => k + 1 \in A
  <2> SUFFICES ASSUME NEW k \in Nat, k \in A, k + 1 <= n, NEW j \in 0..(k + 1)
               PROVE  f[j] <= f[k + 1]
    OBVIOUS
  <2>1. k + 1 \in 1..n /\ (k + 1) - 1 = k /\ k \in 0..n /\ k + 1 \in 0..n /\ j \in 0..n
    OBVIOUS
  <2>2. f[k] <= f[k + 1] /\ f[k] \in Nat /\ f[k + 1] \in Nat /\ f[j] \in Nat
    BY <2>1
  <2>3. CASE j \in 0..k
    BY <2>1, <2>2, <2>3
  <2>4. CASE j = k + 1
    BY <2>2, <2>4
  <2> QED BY <2>3, <2>4
<1> HIDE DEF A
<1>3. Nat \subseteq A
  BY <1>1, <1>2, SetInduction
<1> QED BY <1>3 DEF A

-----------------------------------------------------------------------------
\* f is the function that FlattenSeq defines on ss: f[i] is the concatenation of
\* the first i parts.
IsFlatten(f, ss) ==
  f = [i \in 1..Len(ss) |-> IF i = 1 THEN ss[i] ELSE f[i - 1] \o ss[i]]

\* There is such a function.
LEMMA FlattenExists ==
  ASSUME NEW S, NEW ss \in Seq(Seq(S))
  PROVE  \E f \in [1..Len(ss) -> Seq(S)] : IsFlatten(f, ss)
<1> DEFINE Part(f, n) == \A i \in 1..n : f[i] = IF i = 1 THEN ss[i] ELSE f[i - 1] \o ss[i]
           Some(n) == \E f \in [1..n -> Seq(S)] : Part(f, n)
           A == {n \in Nat : n <= Len(ss) => Some(n)}
<1>1. Len(ss) \in Nat /\ \A i \in 1..Len(ss) : ss[i] \in Seq(S)
  BY LenProperties, ElementOfSeq
<1>2. 0 \in A
  <2>1. Some(0)
    <3> DEFINE g == [i \in 1..0 |-> <<>>]
    <3>1. g \in [1..0 -> Seq(S)] /\ Part(g, 0)
      OBVIOUS
    <3> QED BY <3>1
  <2> QED BY <2>1
<1>3. \A n \in Nat : n \in A => n + 1 \in A
  <2> SUFFICES ASSUME NEW n \in Nat, n \in A, n + 1 <= Len(ss)
               PROVE  Some(n + 1)
    <3> HIDE DEF Some
    <3> QED OBVIOUS
  <2>1. n <= Len(ss) /\ n + 1 \in 1..Len(ss)
    BY <1>1
  <2>2. PICK f \in [1..n -> Seq(S)] : Part(f, n)
    BY <2>1
  <2> DEFINE last == IF n = 0 THEN ss[1] ELSE f[n] \o ss[n + 1]
             g == [i \in 1..(n + 1) |-> IF i \in 1..n THEN f[i] ELSE last]
  <2>3. last \in Seq(S)
    <3>1. CASE n = 0
      BY <1>1, <2>1, <3>1
    <3>2. CASE n # 0
      <4>1. f[n] \in Seq(S) /\ ss[n + 1] \in Seq(S)
        BY <1>1, <2>1, <3>2
      <4> QED BY <3>2, <4>1, ConcatProperties
    <3> QED BY <3>1, <3>2
  <2>4. g \in [1..(n + 1) -> Seq(S)]
    <3> HIDE DEF last
    <3> QED BY <2>3
  <2>5. Part(g, n + 1)
    <3> SUFFICES ASSUME NEW i \in 1..(n + 1)
                 PROVE  g[i] = IF i = 1 THEN ss[i] ELSE g[i - 1] \o ss[i]
      OBVIOUS
    <3>1. CASE i \in 1..n
      <4>1. f[i] = IF i = 1 THEN ss[i] ELSE f[i - 1] \o ss[i]
        BY <2>2, <3>1
      <4>2. g[i] = f[i] /\ (i # 1 => g[i - 1] = f[i - 1])
        <5> HIDE DEF last
        <5> QED BY <3>1
      <4> QED BY ONLY <4>1, <4>2
    <3>2. CASE i = n + 1 /\ n = 0
      BY <3>2
    <3>3. CASE i = n + 1 /\ n # 0
      <4>1. n \in 1..n /\ n \in 1..(n + 1) /\ i \notin 1..n /\ i # 1 /\ i - 1 = n
        BY <3>3
      <4>2. g[n] = f[n] /\ g[i] = last
        <5> HIDE DEF last
        <5> QED BY <4>1
      <4>3. last = f[n] \o ss[i]
        BY <3>3
      <4> QED BY ONLY <4>1, <4>2, <4>3
    <3> QED BY <3>1, <3>2, <3>3
  <2> QED BY <2>4, <2>5
<1> HIDE DEF A
<1>4. Nat \subseteq A
  BY <1>2, <1>3, SetInduction
<1>5. Len(ss) \in A
  BY <1>1, <1>4
<1>6. PICK f \in [1..Len(ss) -> Seq(S)] : Part(f, Len(ss))
  BY <1>1, <1>5 DEF A
<1>7. f = [i \in 1..Len(ss) |-> f[i]]
  OBVIOUS
<1>8. IsFlatten(f, ss)
  BY <1>6, <1>7 DEF IsFlatten
<1> QED BY <1>8

\* It has sequences as values, and its values on a prefix of ss are those on ss.
LEMMA FlattenUnique ==
  ASSUME NEW S, NEW ss \in Seq(Seq(S)), NEW tt \in Seq(Seq(S)), Len(tt) <= Len(ss),
         \A i \in 1..Len(tt) : tt[i] = ss[i],
         NEW f, IsFlatten(f, ss), NEW g, IsFlatten(g, tt)
  PROVE  \A i \in 1..Len(tt) : g[i] = f[i] /\ g[i] \in Seq(S)
<1> DEFINE A == {n \in Nat : n \in 1..Len(tt) => g[n] = f[n] /\ g[n] \in Seq(S)}
<1>1. /\ Len(ss) \in Nat /\ Len(tt) \in Nat
      /\ \A i \in 1..Len(tt) : tt[i] = ss[i] /\ tt[i] \in Seq(S)
  BY LenProperties, ElementOfSeq
<1>2. 0 \in A
  OBVIOUS
<1>3. \A n \in Nat : n \in A => n + 1 \in A
  <2> SUFFICES ASSUME NEW n \in Nat, n \in A, n + 1 \in 1..Len(tt)
               PROVE  g[n + 1] = f[n + 1] /\ g[n + 1] \in Seq(S)
    OBVIOUS
  <2>0. n + 1 \in 1..Len(ss)
    BY <1>1
  <2>1. g[n + 1] = IF n + 1 = 1 THEN tt[n + 1] ELSE g[(n + 1) - 1] \o tt[n + 1]
    BY DEF IsFlatten
  <2>2. f[n + 1] = IF n + 1 = 1 THEN ss[n + 1] ELSE f[(n + 1) - 1] \o ss[n + 1]
    BY <2>0 DEF IsFlatten
  <2>3. tt[n + 1] = ss[n + 1] /\ tt[n + 1] \in Seq(S)
    BY <1>1
  <2>4. CASE n = 0
    BY <2>1, <2>2, <2>3, <2>4
  <2>5. CASE n # 0
    <3>1. n \in 1..Len(tt) /\ (n + 1) - 1 = n /\ n + 1 # 1
      BY <2>5, <1>1
    <3>2. g[n] = f[n] /\ g[n] \in Seq(S)
      BY <3>1
    <3>3. g[n + 1] = g[n] \o tt[n + 1] /\ f[n + 1] = f[n] \o tt[n + 1]
      BY <2>1, <2>2, <2>3, <3>1
    <3>4. g[n] \o tt[n + 1] \in Seq(S)
      BY <2>3, <3>2, ConcatProperties
    <3> QED BY <3>2, <3>3, <3>4
  <2> QED BY <2>4, <2>5
<1> HIDE DEF A
<1>4. Nat \subseteq A
  BY <1>2, <1>3, SetInduction
<1> QED BY <1>1, <1>4 DEF A

\* FlattenSeq takes the last value of such a function.
LEMMA FlattenValue ==
  ASSUME NEW S, NEW ss \in Seq(Seq(S)), Len(ss) # 0
  PROVE  \E f : IsFlatten(f, ss) /\ FlattenSeq(ss) = f[Len(ss)]
<1>1. \E f : IsFlatten(f, ss)
  BY FlattenExists
<1> DEFINE h == CHOOSE f : IsFlatten(f, ss)
<1>2. IsFlatten(h, ss)
  BY <1>1
<1>3. FlattenSeq(ss) = h[Len(ss)]
  BY DEF FlattenSeq, IsFlatten
<1> HIDE DEF h
<1> QED BY <1>2, <1>3

\* Flattening no parts.
LEMMA FlattenEmpty == FlattenSeq(<<>>) = <<>>
BY DEF FlattenSeq

\* Flattening parts of bytes gives bytes.
LEMMA FlattenType ==
  ASSUME NEW S, NEW ss \in Seq(Seq(S))
  PROVE  FlattenSeq(ss) \in Seq(S)
<1>1. CASE Len(ss) = 0
  <2>1. ss = <<>>
    BY <1>1, EmptySeq
  <2> QED BY <2>1, FlattenEmpty, EmptySeq
<1>2. CASE Len(ss) # 0
  <2>1. PICK f : IsFlatten(f, ss) /\ FlattenSeq(ss) = f[Len(ss)]
    BY <1>2, FlattenValue
  <2>2. Len(ss) \in 1..Len(ss)
    BY <1>2, LenProperties
  <2> QED BY <2>1, <2>2, FlattenUnique
<1> QED BY <1>1, <1>2

\* The first k parts, flattened, and one part more.
LEMMA FlattenNext ==
  ASSUME NEW S, NEW ss \in Seq(Seq(S)), NEW tt \in Seq(Seq(S)), Len(ss) = Len(tt) + 1,
         \A i \in 1..Len(tt) : tt[i] = ss[i]
  PROVE  FlattenSeq(ss) = FlattenSeq(tt) \o ss[Len(ss)]
<1>1. /\ Len(ss) \in Nat /\ Len(tt) \in Nat /\ Len(ss) \in 1..Len(ss)
      /\ ss[Len(ss)] \in Seq(S) /\ Len(ss) # 0 /\ Len(ss) - 1 = Len(tt)
  <2>1. Len(ss) \in Nat /\ Len(tt) \in Nat
    BY LenProperties
  <2>2. Len(ss) \in 1..Len(ss) /\ Len(ss) # 0 /\ Len(ss) - 1 = Len(tt)
    BY <2>1
  <2> QED BY <2>1, <2>2, ElementOfSeq
<1>2. PICK f : IsFlatten(f, ss) /\ FlattenSeq(ss) = f[Len(ss)]
  BY <1>1, FlattenValue
<1>3. f[Len(ss)] = IF Len(ss) = 1 THEN ss[Len(ss)] ELSE f[Len(ss) - 1] \o ss[Len(ss)]
  BY <1>1, <1>2 DEF IsFlatten
<1>4. CASE Len(tt) = 0
  <2>1. tt = <<>>
    BY <1>4, EmptySeq
  <2>2. FlattenSeq(ss) = ss[Len(ss)]
    BY <1>1, <1>2, <1>3, <1>4
  <2>3. <<>> \o ss[Len(ss)] = ss[Len(ss)]
    BY <1>1, ConcatEmptySeq
  <2> QED BY <2>1, <2>2, <2>3, FlattenEmpty
<1>5. CASE Len(tt) # 0
  <2>1. PICK g : IsFlatten(g, tt) /\ FlattenSeq(tt) = g[Len(tt)]
    BY <1>5, FlattenValue
  <2>2. Len(tt) \in 1..Len(tt) /\ Len(tt) <= Len(ss) /\ Len(ss) # 1
    BY <1>1, <1>5
  <2>3. \A i \in 1..Len(tt) : g[i] = f[i] /\ g[i] \in Seq(S)
    BY <1>2, <2>1, <2>2, FlattenUnique
  <2> QED BY <1>1, <1>2, <1>3, <2>1, <2>2, <2>3
<1> QED BY <1>4, <1>5

\* The number of bytes in front of part k + 1.
Offset(ss, k) == Len(FlattenSeq(SubSeq(ss, 1, k)))

\* Taking one part more: the offset grows by its length, what was there stays.
LEMMA OffsetStep ==
  ASSUME NEW S, NEW ss \in Seq(Seq(S)), NEW k \in Nat, k < Len(ss)
  PROVE  /\ Offset(ss, k) \in Nat /\ Offset(ss, k + 1) = Offset(ss, k) + Len(ss[k + 1])
         /\ FlattenSeq(SubSeq(ss, 1, k + 1)) = FlattenSeq(SubSeq(ss, 1, k)) \o ss[k + 1]
         /\ FlattenSeq(SubSeq(ss, 1, k)) \in Seq(S) /\ ss[k + 1] \in Seq(S)
<1> DEFINE a == SubSeq(ss, 1, k)
           b == SubSeq(ss, 1, k + 1)
<1>1. Len(ss) \in Nat /\ k + 1 \in 1..Len(ss) /\ \A i \in 1..(k + 1) : ss[i] \in Seq(S)
  BY LenProperties, ElementOfSeq
<1>2. /\ a \in Seq(Seq(S)) /\ Len(a) = k /\ \A i \in 1..k : a[i] = ss[i]
      /\ b \in Seq(Seq(S)) /\ Len(b) = k + 1 /\ \A i \in 1..(k + 1) : b[i] = ss[i]
  BY <1>1
<1> HIDE DEF a, b
<1>3. FlattenSeq(a) \in Seq(S) /\ ss[k + 1] \in Seq(S)
  BY <1>1, <1>2, FlattenType
<1>4. FlattenSeq(b) = FlattenSeq(a) \o ss[k + 1]
  <2>1. Len(b) = Len(a) + 1 /\ \A i \in 1..Len(a) : a[i] = b[i]
    <3>1. Len(a) = k /\ \A i \in 1..k : i \in 1..(k + 1)
      BY <1>2
    <3>2. Len(b) = k + 1 /\ \A i \in 1..k : a[i] = b[i]
      BY <1>2, <3>1
    <3> QED BY ONLY <3>1, <3>2
  <2>2. b[Len(b)] = ss[k + 1]
    BY <1>2
  <2> QED BY <1>2, <2>1, <2>2, FlattenNext
<1>5. Len(FlattenSeq(b)) = Len(FlattenSeq(a)) + Len(ss[k + 1]) /\ Len(FlattenSeq(a)) \in Nat
  BY <1>3, <1>4, ConcatProperties, LenProperties
<1> QED BY <1>3, <1>4, <1>5 DEF Offset, a, b

\* Where the parts lie in the flattened sequence.
LEMMA FlattenParts ==
  ASSUME NEW S, NEW ss \in Seq(Seq(S))
  PROVE  /\ FlattenSeq(ss) \in Seq(S)
         /\ Offset(ss, 0) = 0 /\ Offset(ss, Len(ss)) = Len(FlattenSeq(ss))
         /\ \A k \in 0..Len(ss) : Offset(ss, k) \in 0..Len(FlattenSeq(ss))
         /\ \A k \in 1..Len(ss) :
              /\ Offset(ss, k) = Offset(ss, k - 1) + Len(ss[k])
              /\ \A i \in 1..Len(ss[k]) : FlattenSeq(ss)[Offset(ss, k - 1) + i] = ss[k][i]
<1> DEFINE F(n) == FlattenSeq(SubSeq(ss, 1, n))
           Good(n) == /\ F(n) \in Seq(S)
                      /\ \A k \in 0..n : Offset(ss, k) \in 0..Len(F(n))
                      /\ \A k \in 1..n : \A i \in 1..Len(ss[k]) :
                           /\ Offset(ss, k - 1) + i \in 1..Len(F(n))
                           /\ F(n)[Offset(ss, k - 1) + i] = ss[k][i]
           A == {n \in Nat : n <= Len(ss) => Good(n)}
<1>1. Len(ss) \in Nat /\ \A k \in 1..Len(ss) : ss[k] \in Seq(S) /\ Len(ss[k]) \in Nat
  BY LenProperties, ElementOfSeq
<1>2. F(0) = <<>>
  <2>1. SubSeq(ss, 1, 0) = <<>>
    BY SubSeqEmpty
  <2> QED BY <2>1, FlattenEmpty
<1>3. Offset(ss, 0) = 0
  BY <1>2, EmptySeq DEF Offset
<1>4. 0 \in A
  <2>1. F(0) \in Seq(S) /\ Len(F(0)) = 0
    BY <1>2, EmptySeq
  <2>2. Good(0)
    <3> HIDE DEF F
    <3> QED BY <1>3, <2>1
  <2> HIDE DEF Good
  <2> QED BY <2>2
<1>5. \A n \in Nat : n \in A => n + 1 \in A
  <2> SUFFICES ASSUME NEW n \in Nat, n \in A, n + 1 <= Len(ss) PROVE Good(n + 1)
    <3> HIDE DEF Good
    <3> QED OBVIOUS
  <2>1. Good(n) /\ n < Len(ss) /\ n + 1 \in 1..Len(ss)
    <3> HIDE DEF Good
    <3> QED BY <1>1
  <2>2. /\ Offset(ss, n) \in Nat /\ Offset(ss, n + 1) = Offset(ss, n) + Len(ss[n + 1])
        /\ F(n + 1) = F(n) \o ss[n + 1] /\ F(n) \in Seq(S) /\ ss[n + 1] \in Seq(S)
    BY <2>1, OffsetStep
  <2>3. Offset(ss, n) = Len(F(n)) /\ Offset(ss, n + 1) = Len(F(n + 1))
    BY DEF Offset
  <2> DEFINE u == F(n)
             v == ss[n + 1]
             w == F(n + 1)
  <2>4. /\ u \in Seq(S) /\ v \in Seq(S) /\ w = u \o v
        /\ Len(u) \in Nat /\ Len(v) \in Nat
    BY <1>1, <2>1, <2>2, LenProperties
  <2>5. /\ \A k \in 0..n : Offset(ss, k) \in 0..Len(u)
        /\ \A k \in 1..n : \A i \in 1..Len(ss[k]) :
             Offset(ss, k - 1) + i \in 1..Len(u) /\ u[Offset(ss, k - 1) + i] = ss[k][i]
    BY <2>1
  <2> HIDE DEF u, v, w, F
  <2>6. /\ w \in Seq(S) /\ Len(w) = Len(u) + Len(v)
        /\ \A i \in 1..Len(u) : w[i] = u[i]
        /\ \A i \in 1..Len(v) : w[Len(u) + i] = v[i]
    <3>1. /\ w \in Seq(S) /\ Len(w) = Len(u) + Len(v)
          /\ \A i \in 1..(Len(u) + Len(v)) : w[i] = IF i <= Len(u) THEN u[i] ELSE v[i - Len(u)]
      BY <2>4, ConcatProperties
    <3>2. \A i \in 1..Len(u) : w[i] = u[i]
      BY <2>4, <3>1
    <3>3. ASSUME NEW i \in 1..Len(v) PROVE w[Len(u) + i] = v[i]
      <4>1. Len(u) + i \in 1..(Len(u) + Len(v)) /\ ~(Len(u) + i <= Len(u))
            /\ (Len(u) + i) - Len(u) = i
        BY <2>4
      <4> QED BY <3>1, <4>1
    <3> QED BY <3>1, <3>2, <3>3
  <2>7. \A k \in 0..(n + 1) : Offset(ss, k) \in 0..Len(w)
    <3> TAKE k \in 0..(n + 1)
    <3>1. CASE k \in 0..n
      <4>1. Offset(ss, k) \in 0..Len(u)
        BY <2>5, <3>1
      <4> QED BY <2>4, <2>6, <4>1
    <3>2. CASE k = n + 1
      BY <2>2, <2>3, <2>4, <2>6, <3>2 DEF u, v, w
    <3> QED BY <3>1, <3>2
  <2>8. \A k \in 1..(n + 1) : \A i \in 1..Len(ss[k]) :
          Offset(ss, k - 1) + i \in 1..Len(w) /\ w[Offset(ss, k - 1) + i] = ss[k][i]
    <3> TAKE k \in 1..(n + 1)
    <3> TAKE i \in 1..Len(ss[k])
    <3>1. CASE k \in 1..n
      <4>1. Offset(ss, k - 1) + i \in 1..Len(u) /\ u[Offset(ss, k - 1) + i] = ss[k][i]
        BY <2>5, <3>1
      <4>2. Offset(ss, k - 1) + i \in 1..Len(w)
        BY <2>4, <2>6, <4>1
      <4> QED BY <2>6, <4>1, <4>2
    <3>2. CASE k = n + 1
      <4>1. k - 1 = n /\ ss[k] = v /\ Offset(ss, n) = Len(u)
        BY <2>3, <3>2 DEF u, v
      <4>2. i \in 1..Len(v)
        BY <4>1
      <4>3. Len(u) + i \in 1..Len(w) /\ w[Len(u) + i] = v[i]
        BY <2>4, <2>6, <4>2
      <4> QED BY <4>1, <4>3
    <3> QED BY <3>1, <3>2
  <2> QED BY <2>6, <2>7, <2>8 DEF w
<1> HIDE DEF A
<1>6. Nat \subseteq A
  BY <1>4, <1>5, SetInduction
<1>7. SubSeq(ss, 1, Len(ss)) = ss
  BY SubSeqFull
<1>8. Good(Len(ss)) /\ F(Len(ss)) = FlattenSeq(ss)
  <2>1. Good(Len(ss))
    <3> HIDE DEF Good
    <3> QED BY <1>1, <1>6 DEF A
  <2> QED BY <1>7, <2>1
<1>9. \A k \in 1..Len(ss) : Offset(ss, k) = Offset(ss, k - 1) + Len(ss[k])
  <2> TAKE k \in 1..Len(ss)
  <2>1. k - 1 \in Nat /\ k - 1 < Len(ss) /\ (k - 1) + 1 = k
    BY <1>1
  <2>2. Offset(ss, (k - 1) + 1) = Offset(ss, k - 1) + Len(ss[(k - 1) + 1])
    BY <2>1, OffsetStep
  <2> QED BY <2>1, <2>2
<1>10. Offset(ss, Len(ss)) = Len(FlattenSeq(ss))
  BY <1>7 DEF Offset
<1> QED BY <1>3, <1>8, <1>9, <1>10

-----------------------------------------------------------------------------
\* Messages and their payloads are sequences of bytes.
LEMMA MessageType ==
  ASSUME NEW m \in Nat, NEW len \in Nat
  PROVE  /\ NetStr(m, len) \in Seq(Byte) /\ Payload(m, len) \in Seq(Byte)
         /\ Len(NetStr(m, len)) = HeaderLen + len
         /\ \A i \in 1..(HeaderLen + len) : NetStr(m, len)[i] = <<m, i>>
<1>1. HeaderLen + len \in Nat
  BY HeaderLenAssumption
<1>2. NetStr(m, len) \in Seq(Byte)
  <2>1. \A i \in 1..(HeaderLen + len) : <<m, i>> \in Byte
    BY <1>1 DEF Byte
  <2> QED BY <1>1, <2>1 DEF NetStr
<1>3. Payload(m, len) \in Seq(Byte)
  <2>1. \A i \in 1..len : HeaderLen + i \in Nat
    BY HeaderLenAssumption
  <2>2. \A i \in 1..len : <<m, HeaderLen + i>> \in Byte
    BY <2>1 DEF Byte
  <2>3. Payload(m, len) \in [1..len -> Byte]
    BY <2>2 DEF Payload
  <2> QED BY <2>3
<1>4. Len(NetStr(m, len)) = HeaderLen + len
  BY <1>1 DEF NetStr
<1>5. \A i \in 1..(HeaderLen + len) : NetStr(m, len)[i] = <<m, i>>
  BY DEF NetStr
<1> QED BY <1>2, <1>3, <1>4, <1>5

\* Buffer::consume and front_erase split a buffer without losing a byte.
LEMMA BufferFacts ==
  ASSUME NEW data \in Seq(Byte), NEW sz \in Nat
  PROVE  /\ ConsumeStore(data, sz) \in Seq(Byte)
         /\ FrontErase(data, sz) \in Seq(Byte)
         /\ sz <= Len(data) => /\ Len(ConsumeStore(data, sz)) = sz
                               /\ Len(FrontErase(data, sz)) = Len(data) - sz
         /\ \A i \in 1..Len(ConsumeStore(data, sz)) : ConsumeStore(data, sz)[i] = data[i]
         /\ \A i \in 1..Len(FrontErase(data, sz)) : FrontErase(data, sz)[i] = data[sz + i]
  BY SubSeqProperties DEF ConsumeStore, FrontErase, Smaller

\* buf holds the bytes b + 1 to q of the stream str.
HoldsPart(buf, str, b, q) ==
  /\ q = b + Len(buf)
  /\ \A i \in 1..Len(buf) : buf[i] = str[b + i]

\* Taking bytes from the front of the buffer.
LEMMA TakeFront ==
  ASSUME NEW str \in Seq(Byte), NEW buf \in Seq(Byte), NEW b \in Nat, NEW q \in Nat,
         HoldsPart(buf, str, b, q), NEW sz \in Nat, sz <= Len(buf)
  PROVE  /\ ConsumeStore(buf, sz) \in Seq(Byte) /\ Len(ConsumeStore(buf, sz)) = sz
         /\ \A i \in 1..sz : ConsumeStore(buf, sz)[i] = str[b + i]
         /\ FrontErase(buf, sz) \in Seq(Byte)
         /\ HoldsPart(FrontErase(buf, sz), str, b + sz, q)
<1>1. /\ ConsumeStore(buf, sz) \in Seq(Byte) /\ Len(ConsumeStore(buf, sz)) = sz
      /\ \A i \in 1..sz : ConsumeStore(buf, sz)[i] = buf[i]
      /\ FrontErase(buf, sz) \in Seq(Byte) /\ Len(FrontErase(buf, sz)) = Len(buf) - sz
      /\ \A i \in 1..Len(FrontErase(buf, sz)) : FrontErase(buf, sz)[i] = buf[sz + i]
      /\ Len(buf) \in Nat
  BY BufferFacts, LenProperties
<1> DEFINE hd == ConsumeStore(buf, sz)
           tl == FrontErase(buf, sz)
<1>2. \A i \in 1..sz : hd[i] = str[b + i]
  <2> TAKE i \in 1..sz
  <2>1. i \in 1..Len(buf)
    BY <1>1
  <2> QED BY <1>1, <2>1 DEF HoldsPart
<1> HIDE DEF tl
<1>3. HoldsPart(tl, str, b + sz, q)
  <2>1. Len(tl) = Len(buf) - sz /\ \A i \in 1..Len(tl) : tl[i] = buf[sz + i]
    BY <1>1 DEF tl
  <2>2. q = (b + sz) + Len(tl)
    BY <1>1, <2>1 DEF HoldsPart
  <2>3. ASSUME NEW i \in 1..Len(tl) PROVE tl[i] = str[(b + sz) + i]
    <3>1. sz + i \in 1..Len(buf) /\ b + (sz + i) = (b + sz) + i
      BY <1>1, <2>1
    <3>2. buf[sz + i] = str[b + (sz + i)]
      BY <3>1 DEF HoldsPart
    <3> QED BY <2>1, <3>1, <3>2
  <2> QED BY <2>2, <2>3 DEF HoldsPart
<1> QED BY <1>1, <1>2, <1>3 DEF tl

\* append_internal of the bytes of the stream that a read brought.
LEMMA AddBack ==
  ASSUME NEW str \in Seq(Byte), NEW buf \in Seq(Byte), NEW b \in Nat, NEW q \in Nat,
         HoldsPart(buf, str, b, q), NEW n \in Nat, q + n <= Len(str)
  PROVE  /\ buf \o SubSeq(str, q + 1, q + n) \in Seq(Byte)
         /\ Len(buf \o SubSeq(str, q + 1, q + n)) = Len(buf) + n
         /\ HoldsPart(buf \o SubSeq(str, q + 1, q + n), str, b, q + n)
<1> DEFINE new == SubSeq(str, q + 1, q + n)
           all == buf \o new
<1>1. Len(str) \in Nat /\ Len(buf) \in Nat /\ q = b + Len(buf)
  BY LenProperties DEF HoldsPart
<1>2. new \in Seq(Byte) /\ Len(new) = n /\ \A i \in 1..n : new[i] = str[q + i]
  <2>1. \A i \in (q + 1)..(q + n) : i \in 1..Len(str)
    BY <1>1
  <2>2. \A i \in (q + 1)..(q + n) : str[i] \in Byte
    BY <2>1, ElementOfSeq
  <2>3. new \in Seq(Byte)
    BY <2>2, SubSeqProperties
  <2>4. Len(new) = n
    BY SubSeqProperties
  <2>5. ASSUME NEW i \in 1..n PROVE new[i] = str[q + i]
    <3>1. (q + 1) + i - 1 = q + i /\ i \in 1..((q + n) - (q + 1) + 1)
      BY <1>1
    <3> QED BY <3>1, SubSeqProperties
  <2> QED BY <2>3, <2>4, <2>5
<1> HIDE DEF new
<1>3. /\ all \in Seq(Byte) /\ Len(all) = Len(buf) + n
      /\ \A i \in 1..(Len(buf) + n) : all[i] = IF i <= Len(buf) THEN buf[i] ELSE new[i - Len(buf)]
  BY <1>2, ConcatProperties
<1> HIDE DEF all
<1>4. ASSUME NEW i \in 1..(Len(buf) + n) PROVE all[i] = str[b + i]
  <2>1. CASE i <= Len(buf)
    <3>1. i \in 1..Len(buf) /\ all[i] = buf[i]
      BY <1>1, <1>3, <2>1
    <3> QED BY <3>1 DEF HoldsPart
  <2>2. CASE i > Len(buf)
    <3>1. i - Len(buf) \in 1..n /\ q + (i - Len(buf)) = b + i /\ ~(i <= Len(buf))
      BY <1>1, <2>2
    <3>2. all[i] = new[i - Len(buf)]
      BY <1>3, <3>1
    <3>3. new[i - Len(buf)] = str[q + (i - Len(buf))]
      BY <1>2, <3>1
    <3> QED BY <3>1, <3>2, <3>3
  <2> QED BY <1>1, <2>1, <2>2
<1>5. HoldsPart(all, str, b, q + n)
  <2>1. q + n = b + Len(all)
    BY <1>1, <1>3
  <2> QED BY <1>3, <1>4, <2>1 DEF HoldsPart
<1> QED BY <1>3, <1>5 DEF all, new

\* More comes behind what the buffer holds.
LEMMA HoldsMore ==
  ASSUME NEW str \in Seq(Byte), NEW more \in Seq(Byte), NEW buf \in Seq(Byte),
         NEW b \in Nat, NEW q \in Nat, HoldsPart(buf, str, b, q), q <= Len(str)
  PROVE  HoldsPart(buf, str \o more, b, q)
<1> SUFFICES ASSUME NEW i \in 1..Len(buf) PROVE (str \o more)[b + i] = str[b + i]
  BY DEF HoldsPart
<1>1. Len(buf) \in Nat /\ Len(str) \in Nat /\ q = b + Len(buf) /\ Len(more) \in Nat
  BY LenProperties DEF HoldsPart
<1>2. b + i \in 1..Len(str) /\ b + i \in 1..(Len(str) + Len(more)) /\ b + i <= Len(str)
  BY <1>1
<1> QED BY <1>2, ConcatProperties

-----------------------------------------------------------------------------
\* An async_write of len bytes from the front of io_block_, of which pos are sent.
WritePart == [len : Nat, pos : Nat]

\* The writes under way are not done and lie within the first len bytes.
WithinBlock(ops, len) ==
  \A i \in 1..Len(ops) : ops[i].pos < ops[i].len /\ ops[i].len <= len

\* do_write copies at most a block, and the write reads no more than was copied.
LEMMA BlockStep ==
  ASSUME NEW max \in Nat \ {0}, NEW block \in Seq(Byte), Len(block) <= max,
         NEW data \in Seq(Byte), data # <<>>
  PROVE  LET to_write == Smaller(Len(data), max)
             new == ConsumeBlock(block, data, to_write)
         IN  /\ to_write \in Nat \ {0} /\ to_write <= Len(new)
             /\ new \in Seq(Byte) /\ Len(block) <= Len(new) /\ Len(new) <= max
             /\ FrontErase(data, to_write) \in Seq(Byte)
<1> DEFINE tw == Smaller(Len(data), max)
           a == SubSeq(data, 1, tw)
           b == SubSeq(block, tw + 1, Len(block))
<1>1. Len(data) \in Nat \ {0} /\ Len(block) \in Nat
  BY LenProperties, EmptySeq
<1>2. tw \in Nat \ {0} /\ tw <= Len(data) /\ tw <= max
  BY <1>1 DEF Smaller
<1> HIDE DEF tw
<1>3. a \in Seq(Byte) /\ Len(a) = tw
  BY <1>1, <1>2, SubSeqProperties, ElementOfSeq
<1>4. b \in Seq(Byte) /\ Len(b) = IF tw + 1 <= Len(block) THEN Len(block) - tw ELSE 0
  BY <1>1, <1>2, SubSeqProperties, ElementOfSeq
<1> HIDE DEF a, b
<1>5. a \o b \in Seq(Byte) /\ Len(a \o b) = Len(a) + Len(b)
  BY <1>3, <1>4, ConcatProperties
<1>6. ConsumeBlock(block, data, tw) = a \o b
  BY DEF ConsumeBlock, a, b
<1>7. FrontErase(data, tw) \in Seq(Byte)
  BY <1>2, BufferFacts
<1> QED BY <1>1, <1>2, <1>3, <1>4, <1>5, <1>6, <1>7 DEF tw

\* One part of a write is sent from within the block.
LEMMA PartStep ==
  ASSUME NEW ops \in Seq(WritePart), ops # <<>>, NEW len \in Nat, WithinBlock(ops, len),
         NEW k \in 1..(Head(ops).len - Head(ops).pos)
  PROVE  /\ Head(ops).pos \in Nat /\ Head(ops).pos + k <= len
         /\ WithinBlock(Tail(ops), len)
         /\ Head(ops).pos + k # Head(ops).len =>
              WithinBlock(Append(Tail(ops), [Head(ops) EXCEPT !.pos = @ + k]), len)
<1>1. /\ Head(ops) \in WritePart /\ Tail(ops) \in Seq(WritePart) /\ Head(ops) = ops[1]
      /\ Len(ops) \in Nat \ {0} /\ Len(Tail(ops)) = Len(ops) - 1
      /\ \A i \in 1..Len(Tail(ops)) : Tail(ops)[i] = ops[i + 1]
  BY HeadTailProperties, LenProperties, EmptySeq
<1>2. /\ Head(ops).pos \in Nat /\ Head(ops).len \in Nat /\ k \in Nat
      /\ Head(ops).len <= len
  BY <1>1 DEF WritePart, WithinBlock
<1>3. WithinBlock(Tail(ops), len)
  BY <1>1 DEF WithinBlock
<1> DEFINE op == [Head(ops) EXCEPT !.pos = @ + k]
<1>4. op \in WritePart /\ op.pos = Head(ops).pos + k /\ op.len = Head(ops).len
  BY <1>1, <1>2 DEF WritePart
<1> HIDE DEF op
<1>5. Head(ops).pos + k # Head(ops).len => op.pos < op.len /\ op.len <= len
  BY <1>2, <1>4
<1>6. /\ Len(Append(Tail(ops), op)) = Len(Tail(ops)) + 1
      /\ \A i \in 1..Len(Tail(ops)) : Append(Tail(ops), op)[i] = Tail(ops)[i]
      /\ Append(Tail(ops), op)[Len(Tail(ops)) + 1] = op
  BY <1>1, <1>4, AppendProperties
<1>7. Head(ops).pos + k # Head(ops).len => WithinBlock(Append(Tail(ops), op), len)
  <2> SUFFICES ASSUME Head(ops).pos + k # Head(ops).len,
                      NEW i \in 1..Len(Append(Tail(ops), op))
               PROVE  /\ Append(Tail(ops), op)[i].pos < Append(Tail(ops), op)[i].len
                      /\ Append(Tail(ops), op)[i].len <= len
    BY DEF WithinBlock
  <2>1. CASE i \in 1..Len(Tail(ops))
    BY <1>3, <1>6, <2>1 DEF WithinBlock
  <2>2. CASE i = Len(Tail(ops)) + 1
    BY <1>5, <1>6, <2>2
  <2>3. Len(Tail(ops)) \in Nat /\ i \in 1..(Len(Tail(ops)) + 1)
    BY <1>1, <1>6
  <2> QED BY <2>1, <2>2, <2>3
<1>8. Head(ops).pos + k <= len
  BY <1>2
<1> QED BY <1>2, <1>3, <1>7, <1>8 DEF op

\* A write is started, from a block that has not become shorter.
LEMMA AddPart ==
  ASSUME NEW ops \in Seq(WritePart), NEW old \in Nat, NEW new \in Nat, old <= new,
         WithinBlock(ops, old), NEW n \in Nat \ {0}, n <= new
  PROVE  /\ WithinBlock(ops, new)
         /\ Append(ops, [len |-> n, pos |-> 0]) \in Seq(WritePart)
         /\ WithinBlock(Append(ops, [len |-> n, pos |-> 0]), new)
<1> DEFINE op == [len |-> n, pos |-> 0]
           all == Append(ops, op)
<1>1. op \in WritePart /\ op.pos < op.len /\ op.len <= new
  BY DEF WritePart
<1>2. Len(ops) \in Nat /\ \A i \in 1..Len(ops) : ops[i] \in WritePart /\ ops[i].len \in Nat
  <2>1. \A i \in 1..Len(ops) : ops[i] \in WritePart
    BY ElementOfSeq
  <2> QED BY <2>1, LenProperties DEF WritePart
<1>3. WithinBlock(ops, new)
  <2> SUFFICES ASSUME NEW i \in 1..Len(ops) PROVE ops[i].pos < ops[i].len /\ ops[i].len <= new
    BY DEF WithinBlock
  <2>1. ops[i].pos < ops[i].len /\ ops[i].len <= old /\ ops[i].len \in Nat
    BY <1>2 DEF WithinBlock
  <2> QED BY ONLY <2>1, old \in Nat, new \in Nat, old <= new
<1> HIDE DEF op
<1>4. /\ all \in Seq(WritePart) /\ Len(all) = Len(ops) + 1 /\ all[Len(ops) + 1] = op
      /\ \A i \in 1..Len(ops) : all[i] = ops[i]
  BY <1>1, AppendProperties
<1> HIDE DEF all
<1>5. WithinBlock(all, new)
  <2> SUFFICES ASSUME NEW i \in 1..(Len(ops) + 1) PROVE all[i].pos < all[i].len /\ all[i].len <= new
    BY <1>4 DEF WithinBlock
  <2>1. CASE i \in 1..Len(ops)
    BY <1>3, <1>4, <2>1 DEF WithinBlock
  <2>2. CASE i = Len(ops) + 1
    BY <1>1, <1>4, <2>2
  <2> QED BY <1>2, <2>1, <2>2
<1> QED BY <1>3, <1>4, <1>5 DEF all, op
=============================================================================
