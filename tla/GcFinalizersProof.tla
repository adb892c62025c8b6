--------------------------- MODULE GcFinalizersProof ---------------------------
(***************************************************************************)
(* Proofs about GcFinalizers, for any finite set of blocks, any shapes and *)
(* any growth of the list, when no finalizer reaches a collection: one     *)
(* loop over the list at a time.                                           *)
(*                                                                         *)
(* The entries of an object lie next to each other in the list.  So how    *)
(* far the loop is says how many of them it has passed, and that is how    *)
(* often the finalizer of the object has run.                              *)
(***************************************************************************)
EXTENDS GcFinalizers, TLAPS, FiniteSetTheorems, SequenceTheorems, WellFoundedInduction

OneLoop == Nesting = 1 /\ IsFiniteSet(Blocks)

-------------------------------------------------------------------------------
(* Induction over the natural numbers, for a set of them.                  *)

LEMMA SetInduction ==
    ASSUME NEW X, 0 \in X, \A n \in Nat : n \in X => n + 1 \in X
    PROVE  Nat \subseteq X
<1> DEFINE Rest == Nat \ X
<1> SUFFICES ASSUME Rest # {} PROVE FALSE
  OBVIOUS
<1>1. PICK m \in Rest : \A x \in Rest : ~(<<x, m>> \in OpToRel(<, Nat))
  BY NatLessThanWellFounded, WFMin
<1>2. m \in Nat /\ m # 0 /\ m - 1 \in Nat /\ m - 1 < m /\ (m - 1) + 1 = m
  <2>1. m \in Nat /\ m # 0
    OBVIOUS
  <2> QED
    BY <2>1
<1>3. m - 1 \notin Rest
  <2>1. SUFFICES ASSUME m - 1 \in Rest PROVE FALSE
    OBVIOUS
  <2>2. <<m - 1, m>> \in OpToRel(<, Nat)
    BY <1>2 DEF OpToRel
  <2> QED
    BY <1>1, <2>1, <2>2
<1> QED
  BY <1>2, <1>3

-------------------------------------------------------------------------------
(* The list of entries: FlattenSeq of the entries of each block.           *)

IsFlat(s, n, f) == f = [i \in 1..n |-> IF i = 1 THEN s[i] ELSE f[i - 1] \o s[i]]

LEMMA FlatExists ==
    ASSUME NEW s, NEW n \in Nat
    PROVE  \E f : IsFlat(s, n, f)
<1> DEFINE X == {k \in Nat : \E f : IsFlat(s, k, f)}
<1>1. 0 \in X
  <2>1. IsFlat(s, 0, [i \in 1..0 |-> s[i]])
    BY DEF IsFlat
  <2> QED
    BY <2>1
<1>2. ASSUME NEW k \in Nat, k \in X PROVE k + 1 \in X
  <2>1. PICK f : IsFlat(s, k, f)
    BY <1>2
  <2> DEFINE g == [i \in 1..(k + 1) |-> IF i = k + 1
                                         THEN IF k = 0 THEN s[1] ELSE f[k] \o s[k + 1]
                                         ELSE f[i]]
  <2>2. \A i \in 1..k : f[i] = IF i = 1 THEN s[i] ELSE f[i - 1] \o s[i]
    BY <2>1 DEF IsFlat
  <2>3. \A i \in 1..(k + 1) : g[i] = IF i = 1 THEN s[i] ELSE g[i - 1] \o s[i]
    <3> TAKE i \in 1..(k + 1)
    <3>1. CASE i = k + 1
      <4>1. CASE k = 0
        BY <3>1, <4>1
      <4>2. CASE k # 0
        <5>1. i # 1 /\ i - 1 = k /\ i - 1 \in 1..(k + 1) /\ i - 1 # k + 1
          BY <3>1, <4>2
        <5>2. g[i] = f[k] \o s[k + 1]
          BY <3>1, <4>2
        <5>3. g[i - 1] = f[k]
          BY <5>1
        <5> QED
          BY <3>1, <5>1, <5>2, <5>3
      <4> QED
        BY <4>1, <4>2
    <3>2. CASE i # k + 1
      <4>1. i \in 1..k /\ g[i] = f[i]
        BY <3>2
      <4>2. i # 1 => g[i - 1] = f[i - 1]
        BY <3>2
      <4> QED
        BY <2>2, <4>1, <4>2
    <3> QED
      BY <3>1, <3>2
  <2>4. IsFlat(s, k + 1, g)
    BY <2>3 DEF IsFlat
  <2> QED
    BY <2>4
<1> HIDE DEF X
<1>3. n \in X
  BY <1>1, <1>2, SetInduction
<1> QED
  BY <1>3 DEF X

LEMMA FlattenIsFlat ==
    ASSUME NEW s, Len(s) \in Nat \ {0}
    PROVE  \E f : IsFlat(s, Len(s), f) /\ FlattenSeq(s) = f[Len(s)]
<1> DEFINE g == CHOOSE g : g = [i \in 1..Len(s) |-> IF i = 1 THEN s[i] ELSE g[i - 1] \o s[i]]
<1>1. FlattenSeq(s) = g[Len(s)]
  BY DEF FlattenSeq
<1>2. IsFlat(s, Len(s), g)
  BY FlatExists DEF IsFlat
<1> QED
  BY <1>1, <1>2

-------------------------------------------------------------------------------
(* The entries of one block lie next to each other.                        *)

\* from behind lo, r entries of s are b, and no other
Stretch(s, b, lo, r) ==
    /\ lo \in Nat /\ lo + r <= Len(s)
    /\ \A i \in 1..Len(s) : s[i] = b <=> lo < i /\ i <= lo + r
Stretched(s, b, r) == \E lo \in Nat : Stretch(s, b, lo, r)

LEMMA StretchKept ==
    ASSUME NEW S, NEW s \in Seq(S), NEW t \in Seq(S), NEW b, NEW r \in Nat,
           Stretched(s, b, r), \A i \in 1..Len(t) : t[i] # b
    PROVE  Stretched(s \o t, b, r)
<1>1. PICK lo \in Nat : Stretch(s, b, lo, r)
  BY DEF Stretched
<1>2. /\ Len(s) \in Nat /\ Len(t) \in Nat /\ Len(s \o t) = Len(s) + Len(t)
      /\ \A i \in 1..(Len(s) + Len(t)) :
             (s \o t)[i] = IF i <= Len(s) THEN s[i] ELSE t[i - Len(s)]
  BY ConcatProperties, LenProperties
<1>3. lo + r <= Len(s) /\ \A i \in 1..Len(s) : s[i] = b <=> lo < i /\ i <= lo + r
  BY <1>1 DEF Stretch
<1>4. ASSUME NEW i \in 1..(Len(s) + Len(t))
      PROVE  (s \o t)[i] = b <=> lo < i /\ i <= lo + r
  <2>1. CASE i <= Len(s)
    <3>1. i \in 1..Len(s) /\ (s \o t)[i] = s[i]
      BY <1>2, <2>1
    <3> QED
      BY <1>3, <3>1
  <2>2. CASE ~(i <= Len(s))
    <3>1. i - Len(s) \in 1..Len(t) /\ (s \o t)[i] = t[i - Len(s)]
      BY <1>2, <2>2
    <3>2. ~(i <= lo + r)
      BY <1>2, <1>3, <2>2
    <3> QED
      BY <3>1, <3>2
  <2> QED
    BY <2>1, <2>2
<1>5. Stretch(s \o t, b, lo, r)
  BY <1>2, <1>3, <1>4 DEF Stretch
<1> QED
  BY <1>5 DEF Stretched

LEMMA StretchAdded ==
    ASSUME NEW S, NEW s \in Seq(S), NEW b \in S, NEW r \in Nat,
           \A i \in 1..Len(s) : s[i] # b
    PROVE  Stretched(s \o [i \in 1..r |-> b], b, r)
<1> DEFINE t == [i \in 1..r |-> b]
<1>1. t \in Seq(S) /\ Len(t) = r
  OBVIOUS
<1>2. /\ Len(s) \in Nat /\ Len(s \o t) = Len(s) + r
      /\ \A i \in 1..(Len(s) + r) :
             (s \o t)[i] = IF i <= Len(s) THEN s[i] ELSE t[i - Len(s)]
  BY <1>1, ConcatProperties, LenProperties
<1>3. ASSUME NEW i \in 1..(Len(s) + r)
      PROVE  (s \o t)[i] = b <=> Len(s) < i /\ i <= Len(s) + r
  <2>1. CASE i <= Len(s)
    <3>1. i \in 1..Len(s) /\ (s \o t)[i] = s[i] /\ ~(Len(s) < i)
      BY <1>2, <2>1
    <3> QED
      BY <3>1
  <2>2. CASE ~(i <= Len(s))
    <3>1. i - Len(s) \in 1..r /\ (s \o t)[i] = t[i - Len(s)] /\ Len(s) < i
      BY <1>2, <2>2
    <3> QED
      BY <3>1
  <2> QED
    BY <2>1, <2>2
<1>4. Stretch(s \o t, b, Len(s), r)
  <2> HIDE DEF t
  <2> QED
    BY <1>2, <1>3 DEF Stretch
<1> QED
  BY <1>2, <1>4 DEF Stretched

Refs(b)     == References(heap[b])
List(order) == FlattenSeq([i \in DOMAIN order |-> Entries(order[i])])

\* t holds the entries of the first k blocks
Holds(t, order, S, k) ==
    /\ t \in Seq(S)
    /\ \A j \in 1..k : Stretched(t, order[j], Refs(order[j]))
    /\ \A i \in 1..Len(t) : \E j \in 1..k : t[i] = order[j]

LEMMA HoldsMore ==
    ASSUME NEW S, NEW n \in Nat, NEW order \in [1..n -> S], \A b \in S : Refs(b) \in Nat,
           \A i, j \in 1..n : i # j => order[i] # order[j],
           NEW k \in Nat, k + 1 \in 1..n, NEW t, Holds(t, order, S, k)
    PROVE  Holds(t \o Entries(order[k + 1]), order, S, k + 1)
<1> DEFINE b == order[k + 1]
           e == Entries(b)
           u == t \o e
<1>1. b \in S /\ Refs(b) \in Nat /\ t \in Seq(S)
  BY DEF Holds
<1>2. e = [i \in 1..Refs(b) |-> b]
  BY DEF Entries, Refs
<1>3. e \in Seq(S) /\ Len(e) = Refs(b) /\ \A i \in 1..Len(e) : e[i] = b
  <2> HIDE DEF b, e
  <2> QED
    BY <1>1, <1>2
<1>4. u \in Seq(S) /\ Len(u) = Len(t) + Len(e)
  BY <1>1, <1>3, ConcatProperties
<1>5. \A j \in 1..k : order[j] # b
  OBVIOUS
<1>6. Stretched(u, b, Refs(b))
  <2>1. \A i \in 1..Len(t) : t[i] # b
    BY <1>5 DEF Holds
  <2> HIDE DEF b, e
  <2> QED
    BY <1>1, <1>2, <2>1, StretchAdded
<1>7. ASSUME NEW j \in 1..k PROVE Stretched(u, order[j], Refs(order[j]))
  <2>1. Stretched(t, order[j], Refs(order[j])) /\ order[j] # b /\ Refs(order[j]) \in Nat
    BY <1>5 DEF Holds
  <2> HIDE DEF b, e
  <2> QED
    BY <1>1, <1>3, <2>1, StretchKept
<1>8. ASSUME NEW i \in 1..Len(u) PROVE \E j \in 1..(k + 1) : u[i] = order[j]
  <2>1. Len(t) \in Nat /\ Len(e) \in Nat
    BY <1>1, <1>3, LenProperties
  <2>2. u[i] = IF i <= Len(t) THEN t[i] ELSE e[i - Len(t)]
    <3> HIDE DEF b, e
    <3> QED
      BY <1>1, <1>3, <1>4, ConcatProperties
  <2>3. CASE i <= Len(t)
    <3>1. i \in 1..Len(t)
      BY <1>4, <2>1, <2>3
    <3>2. PICK j \in 1..k : t[i] = order[j]
      BY <3>1 DEF Holds
    <3>3. j \in 1..(k + 1) /\ u[i] = t[i]
      BY <2>2, <2>3
    <3> QED
      BY <3>2, <3>3
  <2>4. CASE ~(i <= Len(t))
    <3>1. i - Len(t) \in 1..Len(e)
      BY <1>4, <2>1, <2>4
    <3>2. u[i] = b
      BY <1>3, <2>2, <2>4, <3>1
    <3> QED
      BY <3>2
  <2> QED
    BY <2>3, <2>4
<1>9. \A j \in 1..(k + 1) : Stretched(u, order[j], Refs(order[j]))
  <2> TAKE j \in 1..(k + 1)
  <2>1. CASE j = k + 1
    BY <1>6, <2>1
  <2>2. CASE j # k + 1
    <3>1. j \in 1..k
      BY <2>2
    <3> QED
      BY <1>7, <3>1
  <2> QED
    BY <2>1, <2>2
<1> HIDE DEF u, b, e
<1>10. Holds(u, order, S, k + 1)
  BY <1>4, <1>8, <1>9 DEF Holds
<1> QED
  BY <1>10 DEF u, b, e

\* the list that FinalizePending queues for the blocks in fin
LEMMA ListHolds ==
    ASSUME NEW fin, IsFiniteSet(fin), NEW order \in SetToSeqs(fin),
           \A b \in fin : Refs(b) \in Nat
    PROVE  /\ List(order) \in Seq(fin)
           /\ \A b \in fin : Stretched(List(order), b, Refs(b))
<1> DEFINE n == Cardinality(fin)
           parts == [i \in DOMAIN order |-> Entries(order[i])]
<1>1. n \in Nat
  BY FS_CardinalityType
<1>2. order \in [1..n -> fin] /\ \A i, j \in 1..n : i # j => order[i] # order[j]
  BY DEF SetToSeqs
<1>3. \A b \in fin : \E j \in 1..n : order[j] = b
  <2>1. order \in Injection(1..n, fin)
    BY <1>2 DEF Injection, IsInjective
  <2>2. IsFiniteSet(1..n) /\ Cardinality(1..n) = n
    BY <1>1, FS_Interval
  <2>3. order \in Surjection(1..n, fin)
    BY <2>1, <2>2, FS_Injection
  <2> QED
    BY <2>3 DEF Surjection
<1>4. DOMAIN parts = 1..n /\ \A i \in 1..n : parts[i] = Entries(order[i])
  BY <1>2
<1>5. Len(parts) = n
  BY <1>1, <1>4, LenProperties
<1>6. Holds(<<>>, order, fin, 0)
  BY DEF Holds
<1>7. CASE n = 0
  <2>1. fin = {} /\ List(order) = parts
    BY <1>5, <1>7, FS_EmptySet DEF List, FlattenSeq
  <2>2. parts \in Seq({})
    BY <1>4, <1>7
  <2> QED
    BY <2>1, <2>2
<1>8. CASE n # 0
  <2>1. PICK f : IsFlat(parts, n, f) /\ List(order) = f[n]
    BY <1>1, <1>5, <1>8, FlattenIsFlat DEF List
  <2> DEFINE X == {k \in Nat : k + 1 \in 1..n => Holds(f[k + 1], order, fin, k + 1)}
  <2>2. \A i \in 1..n : f[i] = IF i = 1 THEN parts[i] ELSE f[i - 1] \o parts[i]
    BY <2>1 DEF IsFlat
  <2>3. 0 \in X
    <3>1. 1 \in 1..n /\ 0 + 1 = 1 /\ f[1] = Entries(order[1])
      BY <1>1, <1>4, <1>8, <2>2
    <3>2. Holds(<<>> \o Entries(order[0 + 1]), order, fin, 0 + 1)
      BY <1>1, <1>2, <1>6, <3>1, HoldsMore
    <3>3. <<>> \o Entries(order[1]) = Entries(order[1])
      <4>1. Entries(order[1]) \in Seq(fin)
        <5>1. order[1] \in fin
          BY <1>2, <3>1
        <5> QED
          BY <5>1 DEF Entries, Refs
      <4> QED
        BY <4>1
    <3> QED
      BY <3>1, <3>2, <3>3
  <2>4. ASSUME NEW k \in Nat, k \in X PROVE k + 1 \in X
    <3> SUFFICES ASSUME (k + 1) + 1 \in 1..n
                 PROVE  Holds(f[(k + 1) + 1], order, fin, (k + 1) + 1)
      OBVIOUS
    <3>1. k + 1 \in Nat /\ k + 1 \in 1..n /\ (k + 1) + 1 # 1 /\ ((k + 1) + 1) - 1 = k + 1
      BY <1>1
    <3>2. Holds(f[k + 1], order, fin, k + 1)
      BY <2>4, <3>1
    <3>3. f[(k + 1) + 1] = f[k + 1] \o Entries(order[(k + 1) + 1])
      BY <1>4, <2>2, <3>1
    <3> QED
      BY <1>1, <1>2, <3>1, <3>2, <3>3, HoldsMore
  <2> HIDE DEF X
  <2>5. Nat \subseteq X
    BY <2>3, <2>4, SetInduction
  <2>6. n - 1 \in Nat /\ (n - 1) + 1 = n /\ n \in 1..n
    BY <1>1, <1>8
  <2>7. n - 1 \in X
    BY <2>5, <2>6
  <2>8. Holds(f[n], order, fin, n)
    BY <2>6, <2>7 DEF X
  <2> QED
    BY <1>3, <2>1, <2>8 DEF Holds
<1> QED
  BY <1>7, <1>8

-------------------------------------------------------------------------------
(* The vector.                                                             *)

Vector == [data : Seq(Entry), count : Nat, buffer : Nat]
Room(v) == v.count <= Len(v.data)

LEMMA GrownMore ==
    ASSUME NEW m \in Nat
    PROVE  Grown(m) \in Nat /\ m < Grown(m)
<1>1. Chunk \in Nat /\ Chunk > 0
  BY FinalizersAssumption
<1>2. m \div 2 \in Nat
  OBVIOUS
<1> QED
  BY <1>1, <1>2 DEF Grown

LEMMA PushAppends ==
    ASSUME NEW v \in Vector, Room(v), NEW b \in Entry
    PROVE  /\ Push(v, b) \in Vector /\ Room(Push(v, b))
           /\ Push(v, b).count = v.count + 1
           /\ Push(v, b).data[v.count + 1] = b
           /\ \A i \in 1..v.count : Push(v, b).data[i] = v.data[i]
<1>1. v.data \in Seq(Entry) /\ v.count \in Nat /\ v.buffer \in Nat /\ Len(v.data) \in Nat
      /\ v.count <= Len(v.data)
  BY LenProperties DEF Vector, Room
<1>2. CASE v.count < Len(v.data)
  <2>1. v.count + 1 \in 1..Len(v.data)
    BY <1>1, <1>2
  <2> DEFINE d == [v.data EXCEPT ![v.count + 1] = b]
  <2>2. Push(v, b) = [v EXCEPT !.data = d, !.count = v.count + 1]
    BY <1>2 DEF Push
  <2>3. /\ d \in Seq(Entry) /\ Len(d) = Len(v.data) /\ d[v.count + 1] = b
        /\ \A i \in 1..v.count : d[i] = v.data[i]
    BY <1>1, <2>1
  <2> HIDE DEF d
  <2>4. Push(v, b).data = d /\ Push(v, b).count = v.count + 1
    BY <2>2 DEF Vector
  <2>5. Push(v, b) \in Vector
    <3>1. \A c \in Nat : [v EXCEPT !.data = d, !.count = c] \in Vector
      BY <2>3 DEF Vector
    <3>2. v.count + 1 \in Nat
      BY <1>1
    <3> HIDE DEF Vector
    <3> QED
      BY <2>2, <3>1, <3>2
  <2> QED
    BY <1>1, <1>2, <2>3, <2>4, <2>5 DEF Room
<1>3. CASE ~(v.count < Len(v.data))
  <2> DEFINE m == Grown(Len(v.data))
             d == [i \in 1..m |-> IF i <= v.count THEN v.data[i]
                                  ELSE IF i = v.count + 1 THEN b ELSE None]
  <2>1. m \in Nat /\ v.count < m
    BY <1>1, <1>3, GrownMore
  <2>2. Push(v, b) = [data |-> d, count |-> v.count + 1, buffer |-> v.buffer + 1]
    BY <1>3 DEF Push
  <2>3. \A i \in 1..m : d[i] \in Entry
    <3>1. \A i \in 1..m : i <= v.count => v.data[i] \in Entry
      BY <1>1
    <3>2. None \in Entry
      BY DEF Entry
    <3> QED
      BY <3>1, <3>2
  <2>4. d \in Seq(Entry) /\ Len(d) = m
    BY <2>1, <2>3
  <2>5. d[v.count + 1] = b /\ \A i \in 1..v.count : d[i] = v.data[i]
    BY <1>1, <2>1
  <2> HIDE DEF d, m
  <2> QED
    BY <1>1, <2>1, <2>2, <2>4, <2>5 DEF Vector, Room
<1> QED
  BY <1>2, <1>3

IsPushed(v, s, n, f) == f = [k \in 0..n |-> IF k = 0 THEN v ELSE Push(f[k - 1], s[k])]

LEMMA PushedExists ==
    ASSUME NEW v, NEW s, NEW n \in Nat
    PROVE  \E f : IsPushed(v, s, n, f)
<1> DEFINE X == {k \in Nat : \E f : IsPushed(v, s, k, f)}
<1>1. 0 \in X
  <2>1. IsPushed(v, s, 0, [i \in 0..0 |-> v])
    BY DEF IsPushed
  <2> QED
    BY <2>1
<1>2. ASSUME NEW k \in Nat, k \in X PROVE k + 1 \in X
  <2>1. PICK f : IsPushed(v, s, k, f)
    BY <1>2
  <2> DEFINE g == [i \in 0..(k + 1) |-> IF i = k + 1 THEN Push(f[k], s[k + 1]) ELSE f[i]]
  <2>2. \A i \in 0..k : f[i] = IF i = 0 THEN v ELSE Push(f[i - 1], s[i])
    BY <2>1 DEF IsPushed
  <2>3. ASSUME NEW i \in 0..(k + 1)
        PROVE  g[i] = IF i = 0 THEN v ELSE Push(g[i - 1], s[i])
    <3>1. CASE i = k + 1
      <4>1. i # 0 /\ i - 1 = k /\ i - 1 \in 0..(k + 1) /\ i - 1 # k + 1
        BY <3>1
      <4>2. g[i] = Push(f[k], s[k + 1])
        BY <3>1
      <4>3. g[i - 1] = f[k]
        BY <4>1
      <4> QED
        BY <3>1, <4>1, <4>2, <4>3
    <3>2. CASE i # k + 1
      <4>1. i \in 0..k /\ g[i] = f[i]
        BY <3>2
      <4>2. i # 0 => g[i - 1] = f[i - 1]
        BY <3>2
      <4> QED
        BY <2>2, <4>1, <4>2
    <3> QED
      BY <3>1, <3>2
  <2>4. IsPushed(v, s, k + 1, g)
    BY <2>3 DEF IsPushed
  <2> QED
    BY <2>4
<1> HIDE DEF X
<1>3. n \in X
  BY <1>1, <1>2, SetInduction
<1> QED
  BY <1>3 DEF X

\* w is v, which was empty, with n entries of s
Took(v, s, n, w) ==
    /\ w \in Vector /\ Room(w) /\ w.count = n
    /\ \A i \in 1..n : w.data[i] = s[i]

LEMMA PushedTakes ==
    ASSUME NEW v \in Vector, Room(v), v.count = 0, NEW s \in Seq(Entry)
    PROVE  Took(v, s, Len(s), Pushed(v, s))
<1> DEFINE n == Len(s)
<1>1. n \in Nat
  BY LenProperties
<1>2. PICK f : IsPushed(v, s, n, f) /\ Pushed(v, s) = f[n]
  <2> DEFINE g == CHOOSE g : g = [k \in 0..Len(s) |-> IF k = 0 THEN v ELSE Push(g[k - 1], s[k])]
  <2>1. Pushed(v, s) = g[Len(s)]
    BY DEF Pushed
  <2>2. IsPushed(v, s, n, g)
    BY <1>1, PushedExists DEF IsPushed
  <2> QED
    BY <2>1, <2>2
<1>3. \A k \in 0..n : f[k] = IF k = 0 THEN v ELSE Push(f[k - 1], s[k])
  BY <1>2 DEF IsPushed
<1> DEFINE X == {k \in Nat : k \in 0..n => Took(v, s, k, f[k])}
<1>4. 0 \in X
  <2>1. f[0] = v
    BY <1>1, <1>3
  <2> QED
    BY <2>1 DEF Took
<1>5. ASSUME NEW k \in Nat, k \in X PROVE k + 1 \in X
  <2> SUFFICES ASSUME k + 1 \in 0..n PROVE Took(v, s, k + 1, f[k + 1])
    OBVIOUS
  <2>1. k \in 0..n /\ k + 1 \in 1..n /\ k + 1 # 0 /\ (k + 1) - 1 = k
    BY <1>1
  <2>2. Took(v, s, k, f[k]) /\ f[k + 1] = Push(f[k], s[k + 1])
    BY <1>3, <1>5, <2>1
  <2>3. s[k + 1] \in Entry
    BY <2>1
  <2>4. f[k] \in Vector /\ Room(f[k]) /\ f[k].count = k /\ \A i \in 1..k : f[k].data[i] = s[i]
    BY <2>2 DEF Took
  <2>5. /\ f[k + 1] \in Vector /\ Room(f[k + 1]) /\ f[k + 1].count = k + 1
        /\ f[k + 1].data[k + 1] = s[k + 1]
        /\ \A i \in 1..k : f[k + 1].data[i] = f[k].data[i]
    <3> DEFINE w == f[k]
               b == s[k + 1]
    <3>1. w \in Vector /\ Room(w) /\ b \in Entry /\ w.count = k
      BY <2>3, <2>4
    <3> HIDE DEF w, b
    <3>2. /\ Push(w, b) \in Vector /\ Room(Push(w, b)) /\ Push(w, b).count = k + 1
          /\ Push(w, b).data[k + 1] = b /\ \A i \in 1..k : Push(w, b).data[i] = w.data[i]
      BY <3>1, PushAppends
    <3> QED
      BY <2>2, <3>2 DEF w, b
  <2>6. \A i \in 1..(k + 1) : f[k + 1].data[i] = s[i]
    <3> TAKE i \in 1..(k + 1)
    <3>1. CASE i = k + 1
      BY <2>2, <2>5, <3>1
    <3>2. CASE i # k + 1
      <4>1. i \in 1..k
        BY <3>2
      <4> QED
        BY <2>2, <2>4, <2>5, <4>1
    <3> QED
      BY <3>1, <3>2
  <2> QED
    BY <2>2, <2>5, <2>6 DEF Took
<1> HIDE DEF X
<1>6. n \in X
  BY <1>1, <1>4, <1>5, SetInduction
<1>7. Took(v, s, n, f[n])
  <2>1. n \in 0..n
    BY <1>1
  <2> QED
    BY <1>6, <2>1 DEF X
<1> QED
  BY <1>2, <1>7

-------------------------------------------------------------------------------
(* The invariant.                                                          *)

Shaped ==
    /\ live \subseteq Blocks /\ finalized \subseteq live
    /\ DOMAIN heap = Blocks /\ \A b \in Blocks : heap[b].shape \in Shapes

ListKept ==
    /\ [data |-> data, count |-> count, buffer |-> buffer] \in Vector
    /\ count <= Len(data)
    /\ \A i \in 1..count : data[i] \in finalized

Loop == [buffer : Nat, len : Nat, idx : Nat, cur : Entry]

LoopKept ==
    \/ loops = <<>> /\ count = 0
    \/ \E l \in Loop :
           /\ loops = <<l>>
           /\ l.buffer = buffer /\ l.len = count /\ l.idx <= count
           /\ l.cur # None => l.idx < count /\ l.cur = data[l.idx + 1]

\* how many entries the loop has called a finalizer for
Passed == IF loops = <<>> THEN 0
          ELSE loops[1].idx + IF loops[1].cur = None THEN 0 ELSE 1

\* how many of the r entries behind lo are among the first n
CallsOf(lo, r, n) == IF n <= lo THEN 0 ELSE IF lo + r <= n THEN r ELSE n - lo

Queued(b)   == \E i \in 1..count : data[i] = b
Lies(b, lo) == /\ lo + Refs(b) <= count
               /\ \A i \in 1..count : data[i] = b <=> lo < i /\ i <= lo + Refs(b)

\* the finalizer of b has run as often as the loop has passed an entry of b
RunKept(b) ==
    /\ b \notin finalized => runs[b] = 0
    /\ Queued(b) => \E lo \in Nat : Lies(b, lo) /\ runs[b] = CallsOf(lo, Refs(b), Passed)
    /\ b \in finalized /\ ~Queued(b) =>
           runs[b] <= Refs(b) /\ (b \in skipped \/ runs[b] = Refs(b))

Freeing == (~ended => toFree = {}) /\ freedTwice = {}

IInv ==
    /\ Shaped /\ ListKept /\ LoopKept /\ Freeing
    /\ runs \in [Blocks -> 0..MaxRuns] /\ \A b \in live : RunKept(b)

-------------------------------------------------------------------------------
(* What the operations of the list do.                                     *)

LEMMA RefsPositive ==
    ASSUME Shaped, NEW b \in Blocks
    PROVE  Refs(b) \in Nat \ {0}
<1>1. heap[b].shape \in Shape
  BY ShapesAssumption DEF Shaped
<1> QED
  BY <1>1 DEF Refs, References, Shape

\* the list that is handed to the program holds the entries of fin
LEMMA QueueStep ==
    ASSUME Shaped, ListKept, loops = <<>>, count = 0,
           NEW fin \in SUBSET Blocks, IsFiniteSet(fin), QueueAndLoop(fin)
    PROVE  /\ [data |-> data', count |-> count', buffer |-> buffer'] \in Vector
           /\ count' <= Len(data') /\ \A i \in 1..count' : data'[i] \in fin
           /\ loops' = <<[buffer |-> buffer', len |-> count', idx |-> 0, cur |-> None]>>
           /\ \A b \in fin : \E lo \in Nat :
                 /\ lo + Refs(b) <= count'
                 /\ \A i \in 1..count' : data'[i] = b <=> lo < i /\ i <= lo + Refs(b)
<1> DEFINE v == [data |-> data, count |-> count, buffer |-> buffer]
<1>1. PICK order \in SetToSeqs(fin) :
          LET w == Pushed(v, List(order))
          IN  /\ data' = w.data /\ count' = w.count /\ buffer' = w.buffer
              /\ loops' = Append(loops, [buffer |-> w.buffer, len |-> w.count,
                                         idx |-> 0, cur |-> None])
  BY DEF QueueAndLoop, List
<1> DEFINE s == List(order)
           w == Pushed(v, s)
<1>2. s \in Seq(fin) /\ \A b \in fin : Stretched(s, b, Refs(b))
  BY RefsPositive, ListHolds
<1>3. s \in Seq(Entry)
  <2>1. fin \subseteq Entry
    BY DEF Entry
  <2> HIDE DEF s
  <2> QED
    BY <1>2, <2>1
<1>4. v \in Vector /\ Room(v) /\ v.count = 0
  BY DEF ListKept, Room
<1> HIDE DEF s
<1>5. Took(v, s, Len(s), w)
  <2> HIDE DEF v, w
  <2> QED
    BY <1>3, <1>4, PushedTakes DEF w
<1> HIDE DEF v, w
<1>6. data' = w.data /\ count' = w.count /\ buffer' = w.buffer
      /\ loops' = <<[buffer |-> buffer', len |-> count', idx |-> 0, cur |-> None]>>
  <2>1. loops' = Append(loops, [buffer |-> w.buffer, len |-> w.count, idx |-> 0, cur |-> None])
        /\ data' = w.data /\ count' = w.count /\ buffer' = w.buffer
    BY <1>1 DEF w, s
  <2> QED
    BY <2>1
<1>7. w \in Vector /\ w.count <= Len(w.data) /\ w.count = Len(s)
      /\ \A i \in 1..Len(s) : w.data[i] = s[i]
  BY <1>5 DEF Took, Room
<1>8. w = [data |-> w.data, count |-> w.count, buffer |-> w.buffer]
  BY <1>7 DEF Vector
<1>9. ASSUME NEW b \in fin
      PROVE  \E lo \in Nat :
                 /\ lo + Refs(b) <= count'
                 /\ \A i \in 1..count' : data'[i] = b <=> lo < i /\ i <= lo + Refs(b)
  <2>1. PICK lo \in Nat : Stretch(s, b, lo, Refs(b))
    BY <1>2 DEF Stretched
  <2> QED
    BY <1>6, <1>7, <2>1 DEF Stretch
<1>10. \A i \in 1..count' : data'[i] \in fin
  BY <1>2, <1>6, <1>7
<1>11. [data |-> data', count |-> count', buffer |-> buffer'] \in Vector
  BY <1>6, <1>7, <1>8
<1> QED
  BY <1>6, <1>7, <1>9, <1>10, <1>11

LEMMA MutateKeeps ==
    ASSUME Shaped, NEW X, Mutate(X)
    PROVE  /\ Shaped' /\ finalized' = finalized /\ live \subseteq live'
           /\ \A b \in live : heap'[b].shape = heap[b].shape
<1>1. CASE \E b \in Blocks, s \in Shapes : Alloc(b, s)
  <2>1. PICK b \in Blocks, s \in Shapes : Alloc(b, s)
    BY <1>1
  <2>2. Fresh(s).shape = s
    BY DEF Fresh
  <2> QED
    BY <2>1, <2>2 DEF Alloc, Shaped
<1>2. CASE Store(X)
  <2>1. PICK b \in Accessible(X) : \E i, S :
            heap' = [heap EXCEPT ![b] = WithElement(heap[b], i, S)]
    BY <1>2 DEF Store
  <2>2. \A i, S : WithElement(heap[b], i, S).shape = heap[b].shape
    BY DEF WithElement
  <2>3. b \in Blocks
    BY DEF Accessible, Reach
  <2>4. \A c \in Blocks : heap'[c].shape = heap[c].shape
    BY <2>1, <2>2, <2>3 DEF Shaped
  <2> QED
    BY <1>2, <2>1, <2>4 DEF Store, Shaped
<1>3. CASE SetVars(X) \/ SetRegs(X)
  BY <1>3 DEF SetVars, SetRegs, Shaped
<1> QED
  BY <1>1, <1>2, <1>3 DEF Mutate

LEMMA OneOf ==
    ASSUME NEW l
    PROVE  <<l>> # <<>> /\ Len(<<l>>) = 1 /\ Last(<<l>>) = l /\ Front(<<l>>) = <<>>
<1>1. Len(<<l>>) = 1 /\ <<l>>[1] = l
  OBVIOUS
<1>2. Front(<<l>>) = <<>>
  BY <1>1 DEF Front
<1> QED
  BY <1>1, <1>2 DEF Last

\* the loop calls the finalizer of b
LEMMA Calling ==
    ASSUME NEW l \in Loop, NEW b \in Entry
    PROVE  /\ [<<l>> EXCEPT ![Len(<<l>>)].cur = b] = <<[l EXCEPT !.cur = b]>>
           /\ [l EXCEPT !.cur = b] \in Loop
<1>1. [l EXCEPT !.cur = b] \in Loop
  BY DEF Loop
<1> DEFINE k == [l EXCEPT !.cur = b]
<1>2. [<<l>> EXCEPT ![1].cur = b] = <<k>>
  OBVIOUS
<1> QED
  BY <1>1, <1>2, OneOf

\* the finalizer returns
LEMMA Returning ==
    ASSUME NEW l \in Loop
    PROVE  /\ [<<l>> EXCEPT ![Len(<<l>>)].cur = None, ![Len(<<l>>)].idx = @ + 1]
                  = <<[l EXCEPT !.cur = None, !.idx = l.idx + 1]>>
           /\ [l EXCEPT !.cur = None, !.idx = l.idx + 1] \in Loop
<1>1. [l EXCEPT !.cur = None, !.idx = l.idx + 1] \in Loop
  <2>1. \A n \in Nat : [l EXCEPT !.cur = None, !.idx = n] \in Loop
    BY DEF Loop, Entry
  <2>2. l.idx + 1 \in Nat
    BY DEF Loop
  <2> HIDE DEF Loop
  <2> QED
    BY <2>1, <2>2
<1>2. [<<l>> EXCEPT ![1].cur = None, ![1].idx = @ + 1]
          = <<[l EXCEPT !.cur = None, !.idx = l.idx + 1]>>
  BY DEF Loop
<1> QED
  BY <1>1, <1>2, OneOf

LEMMA InitInv == Init => IInv
<1> SUFFICES ASSUME Init PROVE IInv
  OBVIOUS
<1>1. live = {} /\ finalized = {} /\ data = <<>> /\ count = 0 /\ buffer = 0 /\ loops = <<>>
  BY DEF Init, MutatorInit
<1>2. Shaped
  <2>1. (CHOOSE s \in Shapes : TRUE) \in Shapes
    BY ShapesAssumption
  <2>2. heap = [b \in Blocks |-> FreedImage] /\ FreedImage.shape \in Shapes
    BY <2>1 DEF Init, MutatorInit, FreedImage
  <2> QED
    BY <1>1, <2>2 DEF Shaped
<1>3. ListKept
  BY <1>1 DEF ListKept, Vector
<1>4. LoopKept
  BY <1>1 DEF LoopKept
<1>5. Freeing /\ runs \in [Blocks -> 0..MaxRuns]
  BY FinalizersAssumption DEF Init, Freeing
<1> QED
  BY <1>1, <1>2, <1>3, <1>4, <1>5 DEF IInv

LEMMA RunStep ==
    ASSUME IInv, Run
    PROVE  IInv'
<1>1. /\ Shaped' /\ finalized' = finalized /\ live \subseteq live'
      /\ \A b \in live : heap'[b].shape = heap[b].shape
  BY MutateKeeps DEF IInv, Run
<1>2. /\ data' = data /\ count' = count /\ buffer' = buffer /\ loops' = loops
      /\ toFree' = toFree /\ skipped' = skipped /\ ended' = ended /\ freedTwice' = freedTwice
      /\ runs' = [b \in Blocks |-> IF b \in live' \ live THEN 0 ELSE runs[b]]
  BY DEF Run, listVars
<1>3. ListKept'
  BY <1>1, <1>2 DEF IInv, ListKept
<1>4. LoopKept'
  BY <1>2 DEF IInv, LoopKept
<1>5. Freeing'
  BY <1>2 DEF IInv, Freeing
<1>6. runs' \in [Blocks -> 0..MaxRuns]
  BY <1>2, FinalizersAssumption DEF IInv
<1>7. ASSUME NEW b \in live' PROVE RunKept(b)'
  <2>1. b \in Blocks /\ finalized \subseteq live
    BY <1>1 DEF IInv, Shaped
  <2>2. CASE b \in live
    <3>1. runs'[b] = runs[b] /\ Refs(b)' = Refs(b) /\ Passed' = Passed
      BY <1>1, <1>2, <2>1, <2>2 DEF Refs, References, Passed
    <3>2. RunKept(b)
      BY <2>2 DEF IInv
    <3> QED
      BY <1>1, <1>2, <3>1, <3>2 DEF RunKept, Queued, Lies, CallsOf
  <2>3. CASE b \notin live
    <3>1. runs'[b] = 0 /\ b \notin finalized'
      BY <1>1, <1>2, <2>1, <2>3
    <3>2. ~Queued(b)'
      BY <1>3, <3>1 DEF ListKept, Queued
    <3> QED
      BY <3>1, <3>2 DEF RunKept
  <2> QED
    BY <2>2, <2>3
<1> QED
  BY <1>1, <1>3, <1>4, <1>5, <1>6, <1>7 DEF IInv

\* what CollectMemory and FinalizeMemory have in common: fin is queued, and no
\* finalizer of its blocks has run
LEMMA QueueKeeps ==
    ASSUME OneLoop, IInv, loops = <<>>,
           NEW fin \in SUBSET live, fin \cap finalized = {}, QueueAndLoop(fin),
           live' \subseteq live, fin \subseteq live', finalized' = (finalized \cup fin) \cap live',
           \A b \in live' : heap'[b] = heap[b],
           runs' = runs, skipped \cap live' \subseteq skipped'
    PROVE  ListKept' /\ LoopKept' /\ \A b \in live' : RunKept(b)'
<1>1. Shaped /\ ListKept /\ count = 0 /\ live \subseteq Blocks
  BY DEF IInv, LoopKept, Shaped
<1>2. IsFiniteSet(fin)
  BY <1>1, FS_Subset DEF OneLoop
<1>3. /\ [data |-> data', count |-> count', buffer |-> buffer'] \in Vector
      /\ count' <= Len(data') /\ \A i \in 1..count' : data'[i] \in fin
      /\ loops' = <<[buffer |-> buffer', len |-> count', idx |-> 0, cur |-> None]>>
      /\ \A b \in fin : \E lo \in Nat :
            /\ lo + Refs(b) <= count'
            /\ \A i \in 1..count' : data'[i] = b <=> lo < i /\ i <= lo + Refs(b)
  BY <1>1, <1>2, QueueStep
<1>4. count' \in Nat /\ buffer' \in Nat
  BY <1>3 DEF Vector
<1>5. ListKept'
  BY <1>3 DEF ListKept
<1>6. LoopKept'
  <2> DEFINE l == [buffer |-> buffer', len |-> count', idx |-> 0, cur |-> None]
  <2>1. /\ l \in Loop /\ l.buffer = buffer' /\ l.len = count' /\ l.idx <= count'
        /\ l.cur = None
    BY <1>4 DEF Loop, Entry
  <2>2. loops' = <<l>>
    BY <1>3
  <2> HIDE DEF l
  <2> QED
    BY <2>1, <2>2 DEF LoopKept
<1>7. Passed' = 0
  BY <1>3 DEF Passed
<1>8. ASSUME NEW b \in live' PROVE RunKept(b)'
  <2>1. RunKept(b) /\ Refs(b)' = Refs(b) /\ Refs(b) \in Nat \ {0}
    BY <1>1, RefsPositive DEF IInv, Refs
  <2>2. ~Queued(b)
    BY <1>1 DEF Queued
  <2>3. CASE b \in fin
    <3>1. runs'[b] = 0 /\ b \in finalized'
      BY <2>1, <2>3 DEF RunKept
    <3>2. PICK lo \in Nat : /\ lo + Refs(b) <= count'
                            /\ \A i \in 1..count' : data'[i] = b <=> lo < i /\ i <= lo + Refs(b)
      BY <1>3, <2>3
    <3>3. Lies(b, lo)' /\ CallsOf(lo, Refs(b), Passed)' = 0
      BY <1>7, <2>1, <3>2 DEF Lies, CallsOf
    <3>4. Queued(b)'
      <4>1. lo + 1 \in 1..count' /\ lo < lo + 1 /\ lo + 1 <= lo + Refs(b)
        BY <1>4, <2>1, <3>2
      <4>2. data'[lo + 1] = b
        BY <3>2, <4>1
      <4> QED
        BY <4>1, <4>2 DEF Queued
    <3> QED
      BY <3>1, <3>3, <3>4 DEF RunKept
  <2>4. CASE b \notin fin
    <3>1. ~Queued(b)'
      BY <1>3, <2>4 DEF Queued
    <3>2. b \in finalized' <=> b \in finalized
      BY <2>4
    <3>3. b \in skipped => b \in skipped'
      OBVIOUS
    <3> QED
      BY <2>1, <2>2, <3>1, <3>2, <3>3 DEF RunKept
  <2> QED
    BY <2>3, <2>4
<1> QED
  BY <1>5, <1>6, <1>8

LEMMA ReachTakes ==
    ASSUME NEW S, NEW E
    PROVE  S \cap Blocks \subseteq Reach(S, E) /\ Reach(S, E) \subseteq Blocks
BY DEF Reach

\* CollectMemory in the terms of the invariant: it frees what it does not queue
LEMMA Collecting ==
    ASSUME OneLoop, IInv, CollectMemory
    PROVE  \E fin \in SUBSET live :
               /\ loops = <<>> /\ QueueAndLoop(fin) /\ fin \cap finalized = {}
               /\ live' \subseteq live /\ fin \subseteq live'
               /\ finalized' = (finalized \cup fin) \cap live'
               /\ \A b \in Blocks : heap'[b] = IF b \in live \ live' THEN FreedImage ELSE heap[b]
               /\ \A b \in live \ live' : heap[b].shape.fin => b \in finalized
               /\ freedTwice' = {}
<1>1. loops = <<>> /\ ~ended /\ toFree = {} /\ freedTwice = {}
  <2>1. Len(loops) < 1
    BY DEF CollectMemory, OneLoop
  <2>2. loops = <<>>
    BY <2>1, OneOf DEF IInv, LoopKept
  <2> QED
    BY <2>2 DEF CollectMemory, Executing, IInv, Freeing
<1> DEFINE marked == Reach(Roots, TracedGraph)
           fin    == Unfinalized(live \ marked)
           kept   == Reach(Roots \cup fin, TracedGraph)
           freed  == (live \ marked) \ kept
<1>2. /\ QueueAndLoop(fin) /\ live' = live \ freed /\ heap' = Released(heap, freed)
      /\ finalized' = (finalized \cup fin) \ freed /\ freedTwice' = {}
  <2>1. (toFree \cup (live \ marked)) \ kept = freed
    BY <1>1
  <2>2. freedTwice \cup (Big \cap toFree \cap freed) = {}
    BY <1>1
  <2> HIDE DEF freed, kept
  <2> QED
    BY <2>1, <2>2 DEF CollectMemory, kept
<1>3. fin \subseteq live /\ fin \cap finalized = {}
      /\ \A b \in live \ marked : heap[b].shape.fin /\ b \notin finalized => b \in fin
  BY DEF Unfinalized
<1>4. live \subseteq Blocks /\ finalized \subseteq live
  BY DEF IInv, Shaped
<1>5. fin \subseteq kept
  BY <1>3, <1>4, ReachTakes
<1> HIDE DEF marked, fin, kept
<1>6. live' \subseteq live /\ fin \subseteq live' /\ finalized' = (finalized \cup fin) \cap live'
      /\ live \ live' = freed
  BY <1>2, <1>3, <1>4, <1>5
<1>7. \A b \in Blocks : heap'[b] = IF b \in live \ live' THEN FreedImage ELSE heap[b]
  BY <1>2, <1>6 DEF Released
<1>8. \A b \in live \ live' : heap[b].shape.fin => b \in finalized
  BY <1>3, <1>5, <1>6
<1> QED
  BY <1>1, <1>2, <1>3, <1>6, <1>7, <1>8

LEMMA CollectStep ==
    ASSUME OneLoop, IInv, CollectMemory
    PROVE  IInv'
<1>1. PICK fin \in SUBSET live :
               /\ loops = <<>> /\ QueueAndLoop(fin) /\ fin \cap finalized = {}
               /\ live' \subseteq live /\ fin \subseteq live'
               /\ finalized' = (finalized \cup fin) \cap live'
               /\ \A b \in Blocks : heap'[b] = IF b \in live \ live' THEN FreedImage ELSE heap[b]
               /\ \A b \in live \ live' : heap[b].shape.fin => b \in finalized
               /\ freedTwice' = {}
  BY Collecting
<1>2. /\ toFree' = {} /\ runs' = runs /\ skipped' = skipped \cap live'
      /\ \E S : heap' = Released(heap, S)
  BY DEF CollectMemory
<1>3. live \subseteq Blocks /\ Shaped
  BY DEF IInv, Shaped
<1>4. ListKept' /\ LoopKept' /\ \A b \in live' : RunKept(b)'
  <2>1. \A b \in live' : heap'[b] = heap[b]
    BY <1>1, <1>3
  <2> QED
    BY <1>1, <1>2, <2>1, QueueKeeps
<1>5. Shaped'
  <2>1. DOMAIN heap' = Blocks
    BY <1>2 DEF Released
  <2>2. FreedImage.shape \in Shapes
    <3>1. (CHOOSE s \in Shapes : TRUE) \in Shapes
      BY ShapesAssumption
    <3> QED
      BY <3>1 DEF FreedImage
  <2>3. \A b \in Blocks : heap'[b].shape \in Shapes
    BY <1>1, <1>3, <2>2 DEF Shaped
  <2>4. live' \subseteq Blocks /\ finalized' \subseteq live'
    BY <1>1, <1>3
  <2> QED
    BY <2>1, <2>3, <2>4 DEF Shaped
<1>6. Freeing' /\ runs' \in [Blocks -> 0..MaxRuns]
  BY <1>1, <1>2 DEF IInv, Freeing
<1> QED
  BY <1>4, <1>5, <1>6 DEF IInv

LEMMA FinalizeStep ==
    ASSUME OneLoop, IInv, FinalizeMemory
    PROVE  IInv'
<1> DEFINE fin == Unfinalized(live)
<1>1. /\ loops = <<>> /\ QueueAndLoop(fin) /\ finalized' = finalized \cup fin
      /\ ended' = TRUE /\ live' = live /\ heap' = heap /\ runs' = runs /\ skipped' = skipped
      /\ freedTwice' = freedTwice
  BY DEF FinalizeMemory
<1>2. fin \subseteq live /\ fin \cap finalized = {}
  BY DEF Unfinalized
<1>3. Shaped
  BY DEF IInv
<1> HIDE DEF fin
<1>4. finalized' = (finalized \cup fin) \cap live'
  BY <1>1, <1>2, <1>3 DEF Shaped
<1>5. ListKept' /\ LoopKept' /\ \A b \in live' : RunKept(b)'
  BY <1>1, <1>2, <1>4, QueueKeeps
<1>6. Shaped'
  BY <1>1, <1>2, <1>3 DEF Shaped
<1>7. Freeing' /\ runs' \in [Blocks -> 0..MaxRuns]
  BY <1>1 DEF IInv, Freeing
<1> QED
  BY <1>5, <1>6, <1>7 DEF IInv

\* the loop over the list, in the terms of the invariant
LEMMA TheLoop ==
    ASSUME IInv, loops # <<>>
    PROVE  \E l \in Loop :
               /\ loops = <<l>> /\ l.buffer = buffer /\ l.len = count /\ l.idx <= count
               /\ l.cur # None => l.idx < count /\ l.cur = data[l.idx + 1]
               /\ Last(loops) = l
               /\ Passed = l.idx + IF l.cur = None THEN 0 ELSE 1
<1>1. PICK l \in Loop :
               /\ loops = <<l>> /\ l.buffer = buffer /\ l.len = count /\ l.idx <= count
               /\ l.cur # None => l.idx < count /\ l.cur = data[l.idx + 1]
  BY DEF IInv, LoopKept
<1>2. Last(loops) = l
  BY <1>1, OneOf
<1>3. loops[1] = l
  BY <1>1
<1>4. Passed = l.idx + IF l.cur = None THEN 0 ELSE 1
  BY <1>3 DEF Passed
<1> QED
  BY <1>1, <1>2, <1>4

\* the numbers of the list
LEMMA Counts ==
    ASSUME IInv
    PROVE  count \in Nat /\ buffer \in Nat /\ \A b \in live : Refs(b) \in Nat \ {0}
<1>1. count \in Nat /\ buffer \in Nat
  BY DEF IInv, ListKept, Vector
<1>2. \A b \in live : Refs(b) \in Nat \ {0}
  BY RefsPositive DEF IInv, Shaped
<1> QED
  BY <1>1, <1>2

\* the loop goes from l to m: what the other variables keep
SameButLoop ==
    /\ live' = live /\ heap' = heap /\ finalized' = finalized
    /\ data' = data /\ count' = count /\ buffer' = buffer
    /\ toFree' = toFree /\ skipped' = skipped /\ ended' = ended /\ freedTwice' = freedTwice

LEMMA LoopStep ==
    ASSUME IInv, SameButLoop, LoopKept', runs' \in [Blocks -> 0..MaxRuns],
           \A b \in live : RunKept(b)'
    PROVE  IInv'
<1>1. Shaped' /\ ListKept' /\ Freeing'
  BY DEF SameButLoop, IInv, Shaped, ListKept, Freeing
<1> QED
  BY <1>1 DEF IInv, SameButLoop

LEMMA CallStep ==
    ASSUME IInv, CallFinalizer
    PROVE  IInv'
<1>1. PICK l \in Loop :
               /\ loops = <<l>> /\ l.buffer = buffer /\ l.len = count /\ l.idx <= count
               /\ l.cur # None => l.idx < count /\ l.cur = data[l.idx + 1]
               /\ Last(loops) = l
               /\ Passed = l.idx + IF l.cur = None THEN 0 ELSE 1
  BY TheLoop DEF CallFinalizer
<1> DEFINE a == data[l.idx + 1]
           m == [l EXCEPT !.cur = a]
<1>2. /\ l.cur = None /\ l.idx < count /\ a \in Blocks /\ runs[a] < MaxRuns
      /\ runs' = [runs EXCEPT ![a] = @ + 1]
      /\ loops' = [loops EXCEPT ![Len(loops)].cur = a]
  BY <1>1 DEF CallFinalizer
<1>3. SameButLoop
  BY DEF CallFinalizer, SameButLoop, mutatorVars
<1>4. a \in Entry /\ a # None /\ l.idx \in Nat /\ count \in Nat
  BY <1>2, Counts, FinalizersAssumption DEF Entry, Loop
<1>5. loops' = <<m>> /\ m \in Loop
  <2> HIDE DEF a
  <2> QED
    BY <1>1, <1>2, <1>4, Calling
<1>6. m.buffer = l.buffer /\ m.len = l.len /\ m.idx = l.idx /\ m.cur = a
  BY DEF Loop
<1>7. LoopKept'
  <2>1. /\ m.buffer = buffer' /\ m.len = count' /\ m.idx <= count'
        /\ m.idx < count' /\ m.cur = data'[m.idx + 1]
    BY <1>1, <1>2, <1>3, <1>6 DEF SameButLoop
  <2> HIDE DEF m
  <2> QED
    BY <1>5, <2>1 DEF LoopKept
<1>8. Passed = l.idx /\ Passed' = l.idx + 1
  <2>1. loops' # <<>> /\ loops'[1] = m
    BY <1>5
  <2> HIDE DEF m, a
  <2> QED
    BY <1>1, <1>2, <1>4, <1>6, <2>1 DEF Passed
<1>9. runs \in [Blocks -> 0..MaxRuns] /\ MaxRuns \in Nat
  BY FinalizersAssumption DEF IInv
<1>10. runs' \in [Blocks -> 0..MaxRuns] /\ runs'[a] = runs[a] + 1
       /\ \A b \in Blocks : b # a => runs'[b] = runs[b]
  <2> HIDE DEF a
  <2> QED
    BY <1>2, <1>9
<1>11. l.idx + 1 \in 1..count /\ a \in finalized
  <2>1. l.idx + 1 \in 1..count
    BY <1>2, <1>4
  <2> QED
    BY <2>1 DEF IInv, ListKept
<1>12. ASSUME NEW b \in live PROVE RunKept(b)'
  <2>1. RunKept(b) /\ Refs(b) \in Nat \ {0} /\ Refs(b)' = Refs(b) /\ b \in Blocks
    BY <1>3, Counts DEF IInv, Shaped, Refs, SameButLoop
  <2>2. (Queued(b) <=> Queued(b)') /\ \A lo : Lies(b, lo) <=> Lies(b, lo)'
    BY <1>3, <2>1 DEF Queued, Lies, SameButLoop
  <2>3. CASE ~Queued(b)
    <3>1. b # a
      BY <1>11, <2>3 DEF Queued
    <3> QED
      BY <1>3, <1>10, <2>1, <2>2, <2>3, <3>1 DEF RunKept, SameButLoop
  <2>4. CASE Queued(b)
    <3>1. b \in finalized
      BY <2>4 DEF Queued, IInv, ListKept
    <3>2. PICK lo \in Nat : Lies(b, lo) /\ runs[b] = CallsOf(lo, Refs(b), Passed)
      BY <2>1, <2>4 DEF RunKept
    <3>3. a = b <=> lo < l.idx + 1 /\ l.idx + 1 <= lo + Refs(b)
      BY <1>11, <3>2 DEF Lies
    <3>4. runs'[b] = CallsOf(lo, Refs(b), Passed')
      <4> DEFINE r == Refs(b)
                 i == l.idx
      <4>1. r \in Nat /\ i \in Nat /\ (a = b <=> lo < i + 1 /\ i + 1 <= lo + r)
            /\ runs[b] = IF i <= lo THEN 0 ELSE IF lo + r <= i THEN r ELSE i - lo
        BY <1>4, <1>8, <2>1, <3>2, <3>3 DEF CallsOf
      <4> HIDE DEF r, i, a
      <4>2. CASE a = b
        <5>1. runs'[b] = runs[b] + 1
          BY <1>10, <4>2
        <5>2. runs[b] + 1 = IF i + 1 <= lo THEN 0 ELSE IF lo + r <= i + 1 THEN r ELSE (i + 1) - lo
          BY <4>1, <4>2
        <5> QED
          BY <1>8, <5>1, <5>2 DEF CallsOf, r, i
      <4>3. CASE a # b
        <5>1. runs'[b] = runs[b]
          BY <1>10, <2>1, <4>3
        <5>2. runs[b] = IF i + 1 <= lo THEN 0 ELSE IF lo + r <= i + 1 THEN r ELSE (i + 1) - lo
          BY <4>1, <4>3
        <5> QED
          BY <1>8, <5>1, <5>2 DEF CallsOf, r, i
      <4> QED
        BY <4>2, <4>3
    <3>5. CallsOf(lo, Refs(b), Passed)' = CallsOf(lo, Refs(b), Passed')
      BY <2>1 DEF CallsOf
    <3>6. \E n \in Nat : Lies(b, n)' /\ runs'[b] = CallsOf(n, Refs(b), Passed)'
      BY <2>2, <3>2, <3>4, <3>5
    <3> QED
      BY <1>3, <2>2, <2>4, <3>1, <3>6 DEF RunKept, SameButLoop
  <2> QED
    BY <2>3, <2>4
<1> QED
  BY <1>3, <1>7, <1>10, <1>12, LoopStep

LEMMA ReturnStep ==
    ASSUME IInv, FinalizerReturns
    PROVE  IInv'
<1>1. PICK l \in Loop :
               /\ loops = <<l>> /\ l.buffer = buffer /\ l.len = count /\ l.idx <= count
               /\ l.cur # None => l.idx < count /\ l.cur = data[l.idx + 1]
               /\ Last(loops) = l
               /\ Passed = l.idx + IF l.cur = None THEN 0 ELSE 1
  BY TheLoop DEF FinalizerReturns
<1> DEFINE m == [l EXCEPT !.cur = None, !.idx = l.idx + 1]
<1>2. l.cur # None /\ loops' = <<m>> /\ m \in Loop
  <2>1. loops' = [loops EXCEPT ![Len(loops)].cur = None, ![Len(loops)].idx = @ + 1]
        /\ l.cur # None
    BY <1>1 DEF FinalizerReturns
  <2> HIDE DEF m
  <2> QED
    BY <1>1, <2>1, Returning DEF m
<1>3. SameButLoop /\ runs' = runs
  BY DEF FinalizerReturns, SameButLoop, mutatorVars
<1>4. m.buffer = l.buffer /\ m.len = l.len /\ m.idx = l.idx + 1 /\ m.cur = None /\ l.idx \in Nat
  BY DEF Loop
<1>5. count \in Nat
  BY Counts
<1>6. LoopKept'
  <2>1. m.buffer = buffer' /\ m.len = count' /\ m.idx <= count'
    BY <1>1, <1>2, <1>3, <1>4, <1>5 DEF SameButLoop
  <2> HIDE DEF m
  <2> QED
    BY <1>2, <1>4, <2>1 DEF LoopKept
<1>7. Passed' = Passed
  <2>1. loops' # <<>> /\ loops'[1] = m
    BY <1>2
  <2> HIDE DEF m
  <2> QED
    BY <1>1, <1>2, <1>4, <2>1 DEF Passed
<1>8. ASSUME NEW b \in live PROVE RunKept(b)'
  <2>1. RunKept(b)
    BY DEF IInv
  <2> QED
    BY <1>3, <1>7, <2>1 DEF RunKept, Queued, Lies, CallsOf, Refs, SameButLoop
<1>9. runs' \in [Blocks -> 0..MaxRuns]
  BY <1>3 DEF IInv
<1> QED
  BY <1>3, <1>6, <1>8, <1>9, LoopStep

\* the list is cleared, and no loop goes over it
LEMMA ClearStep ==
    ASSUME IInv, loops' = <<>>, count' = 0, live' = live, heap' = heap, finalized' = finalized,
           data' = data, buffer' = buffer, toFree' = toFree, ended' = ended, runs' = runs,
           freedTwice' = freedTwice, skipped \subseteq skipped',
           \A b \in finalized, lo \in Nat :
               Lies(b, lo) => b \in skipped' \/ lo + Refs(b) <= Passed
    PROVE  IInv'
<1>1. Shaped' /\ Freeing' /\ LoopKept' /\ runs' \in [Blocks -> 0..MaxRuns]
  BY DEF IInv, Shaped, Freeing, LoopKept
<1>2. ListKept'
  <2> DEFINE v == [data |-> data, count |-> count, buffer |-> buffer]
  <2>1. [data |-> data, count |-> 0, buffer |-> buffer] \in Vector
    BY DEF IInv, ListKept, Vector
  <2>2. Len(data) \in Nat
    BY LenProperties DEF IInv, ListKept, Vector
  <2> QED
    BY <2>1, <2>2 DEF ListKept
<1>3. ASSUME NEW b \in live PROVE RunKept(b)'
  <2>1. RunKept(b) /\ Refs(b) \in Nat \ {0} /\ Refs(b)' = Refs(b) /\ runs'[b] = runs[b]
    BY Counts DEF IInv, Refs
  <2>2. ~Queued(b)'
    BY DEF Queued
  <2>3. CASE b \in finalized /\ Queued(b)
    <3>1. PICK lo \in Nat : Lies(b, lo) /\ runs[b] = CallsOf(lo, Refs(b), Passed)
      BY <2>1, <2>3 DEF RunKept
    <3>2. Passed \in Nat
      <4>1. CASE loops = <<>>
        BY <4>1 DEF Passed
      <4>2. CASE loops # <<>>
        <5>1. PICK l \in Loop : Passed = l.idx + IF l.cur = None THEN 0 ELSE 1
          BY <4>2, TheLoop
        <5>2. l.idx \in Nat
          BY DEF Loop
        <5> QED
          BY <5>1, <5>2
      <4> QED
        BY <4>1, <4>2
    <3>3. runs[b] <= Refs(b) /\ (lo + Refs(b) <= Passed => runs[b] = Refs(b))
      BY <2>1, <3>1, <3>2 DEF CallsOf
    <3> QED
      BY <2>1, <2>2, <2>3, <3>1, <3>3 DEF RunKept
  <2>4. CASE ~(b \in finalized /\ Queued(b))
    BY <2>1, <2>2, <2>4 DEF RunKept
  <2> QED
    BY <2>3, <2>4
<1> QED
  BY <1>1, <1>2, <1>3 DEF IInv

LEMMA EndStep ==
    ASSUME IInv, LoopEnds
    PROVE  IInv'
<1>1. PICK l \in Loop :
               /\ loops = <<l>> /\ l.buffer = buffer /\ l.len = count /\ l.idx <= count
               /\ l.cur # None => l.idx < count /\ l.cur = data[l.idx + 1]
               /\ Last(loops) = l
               /\ Passed = l.idx + IF l.cur = None THEN 0 ELSE 1
  BY TheLoop DEF LoopEnds
<1>2. l.cur = None /\ l.idx = l.len /\ loops' = <<>> /\ count' = 0
  BY <1>1, OneOf DEF LoopEnds
<1>3. Passed = count
  BY <1>1, <1>2, Counts
<1>4. \A b \in finalized, lo \in Nat : Lies(b, lo) => lo + Refs(b) <= Passed
  BY <1>3 DEF Lies
<1>5. /\ live' = live /\ heap' = heap /\ finalized' = finalized /\ data' = data
      /\ buffer' = buffer /\ toFree' = toFree /\ ended' = ended /\ runs' = runs
      /\ freedTwice' = freedTwice /\ skipped' = skipped
  BY DEF LoopEnds, mutatorVars
<1> QED
  BY <1>2, <1>4, <1>5, ClearStep

LEMMA FailStep ==
    ASSUME IInv, FinalizerFails
    PROVE  IInv'
<1>1. PICK l \in Loop :
               /\ loops = <<l>> /\ l.buffer = buffer /\ l.len = count /\ l.idx <= count
               /\ l.cur # None => l.idx < count /\ l.cur = data[l.idx + 1]
               /\ Last(loops) = l
               /\ Passed = l.idx + IF l.cur = None THEN 0 ELSE 1
  BY TheLoop DEF FinalizerFails
<1>2. /\ loops' = <<>> /\ count' = 0 /\ l.cur # None
      /\ live' = live /\ heap' = heap /\ finalized' = finalized /\ data' = data
      /\ buffer' = buffer /\ toFree' = toFree /\ ended' = ended /\ runs' = runs
      /\ freedTwice' = freedTwice
  BY <1>1 DEF FinalizerFails
<1>3. /\ skipped \subseteq skipped'
      /\ \A i \in UNION {Pending(loops[k]) : k \in DOMAIN loops} : data[i] \in skipped'
  BY DEF FinalizerFails
<1>4. Pending(l) = (l.idx + 2)..count
  BY <1>1, <1>2 DEF Pending
<1>5. \A i \in Pending(l) : data[i] \in skipped'
  <2>1. 1 \in DOMAIN loops /\ loops[1] = l
    BY <1>1
  <2> QED
    BY <1>3, <2>1
<1>6. count \in Nat /\ l.idx \in Nat /\ Passed = l.idx + 1
  BY <1>1, <1>2, Counts DEF Loop
<1>7. ASSUME NEW b \in finalized, NEW lo \in Nat, Lies(b, lo), ~(lo + Refs(b) <= Passed)
      PROVE  b \in skipped'
  <2>1. Refs(b) \in Nat \ {0} /\ lo + Refs(b) <= count
    BY <1>7, Counts DEF IInv, Shaped, Lies
  <2> DEFINE i == lo + Refs(b)
  <2>2. i \in 1..count /\ lo < i /\ i <= lo + Refs(b)
    BY <1>6, <2>1
  <2>3. data[i] = b
    BY <1>7, <2>2 DEF Lies
  <2>4. i \in (l.idx + 2)..count
    BY <1>6, <1>7, <2>2
  <2> QED
    BY <1>4, <1>5, <2>3, <2>4
<1> QED
  BY <1>2, <1>3, <1>7, ClearStep

LEMMA IInvStep ==
    ASSUME OneLoop
    PROVE  IInv /\ [Next]_vars_ => IInv'
<1> SUFFICES ASSUME IInv, [Next]_vars_ PROVE IInv'
  OBVIOUS
<1>1. CASE Next
  BY <1>1, RunStep, CollectStep, FinalizeStep, CallStep, ReturnStep, EndStep, FailStep DEF Next
<1>2. CASE UNCHANGED vars_
  BY <1>2 DEF vars_, mutatorVars, listVars, IInv, Shaped, ListKept, LoopKept, Freeing,
              RunKept, Queued, Lies, CallsOf, Passed, Refs
<1> QED
  BY <1>1, <1>2

-------------------------------------------------------------------------------
(* The theorems.                                                           *)

\* While an entry of finalizeList is on the list its finalizer runs once, and
\* the entries of an object lie next to each other: the loop of __finalizeObjects
\* has called the finalizer of each object as often as it has passed its entries.
THEOREM Invariant ==
    ASSUME OneLoop
    PROVE  Spec => []IInv
<1>1. IInv /\ [Next]_vars_ => IInv'
  BY IInvStep
<1> QED
  BY <1>1, InitInv, PTL DEF Spec

\* The native vector holds blocks up to its count, and the loop over it stays
\* inside: FastVector grows before an entry is written.
THEOREM Typed ==
    ASSUME OneLoop
    PROVE  Spec => []TypeOK
<1>1. IInv => TypeOK
  <2> SUFFICES ASSUME IInv PROVE TypeOK
    OBVIOUS
  <2>1. live \subseteq Blocks /\ finalized \subseteq live /\ count <= Len(data)
        /\ runs \in [Blocks -> 0..MaxRuns] /\ \A i \in 1..count : data[i] \in Blocks
    BY DEF IInv, Shaped, ListKept
  <2>2. \A k \in DOMAIN loops : loops[k].cur \in Entry /\ loops[k].idx <= loops[k].len
    <3>1. CASE loops = <<>>
      BY <3>1
    <3>2. CASE loops # <<>>
      <4>1. PICK l \in Loop : loops = <<l>> /\ l.len = count /\ l.idx <= count
        BY <3>2, TheLoop
      <4>2. l.cur \in Entry /\ DOMAIN loops = 1..1 /\ loops[1] = l
        BY <4>1 DEF Loop
      <4> QED
        BY <4>1, <4>2
    <3> QED
      BY <3>1, <3>2
  <2>3. Len(loops) <= Nesting
    <3>1. CASE loops = <<>>
      BY <3>1 DEF OneLoop
    <3>2. CASE loops # <<>>
      <4>1. PICK l \in Loop : loops = <<l>>
        BY <3>2, TheLoop
      <4> QED
        BY <4>1, OneOf DEF OneLoop
    <3> QED
      BY <3>1, <3>2
  <2> QED
    BY <2>1, <2>2, <2>3 DEF TypeOK
<1> QED
  BY <1>1, Invariant, PTL

\* No object whose finalizer is still to be called has been freed, and the memory
\* that the loop reads its entries from is still the vector's: nothing that runs
\* in between pushes to the list.
THEOREM PendingObjectsLive ==
    ASSUME OneLoop
    PROVE  Spec => []PendingLive
<1>1. IInv => PendingLive
  <2> SUFFICES ASSUME IInv, NEW k \in DOMAIN loops, NEW i \in Pending(loops[k])
               PROVE  loops[k].buffer = buffer /\ data[i] \in live
    BY DEF PendingLive
  <2>1. loops # <<>>
    OBVIOUS
  <2>2. PICK l \in Loop : loops = <<l>> /\ l.buffer = buffer /\ l.len = count
    BY <2>1, TheLoop
  <2>3. loops[k] = l
    BY <2>2
  <2>4. l.idx \in Nat /\ count \in Nat
    BY Counts DEF Loop
  <2>5. i \in 1..count
    <3>1. CASE l.cur = None
      BY <2>2, <2>3, <2>4, <3>1 DEF Pending
    <3>2. CASE l.cur # None
      BY <2>2, <2>3, <2>4, <3>2 DEF Pending
    <3> QED
      BY <3>1, <3>2
  <2> QED
    BY <2>2, <2>3, <2>5 DEF IInv, ListKept, Shaped
<1> QED
  BY <1>1, Invariant, PTL

\* The finalizer of an object runs once, that of an array once per element,
\* however often CollectMemory and FinalizeMemory are called.
THEOREM FinalizersRunOnce ==
    ASSUME OneLoop
    PROVE  Spec => []FinalizeOnce
<1>1. IInv => FinalizeOnce
  <2> SUFFICES ASSUME IInv, NEW b \in live PROVE runs[b] <= Refs(b)
    BY DEF FinalizeOnce, Refs
  <2>1. RunKept(b) /\ Refs(b) \in Nat \ {0}
    BY Counts DEF IInv
  <2>2. CASE b \notin finalized
    BY <2>1, <2>2 DEF RunKept
  <2>3. CASE b \in finalized /\ ~Queued(b)
    BY <2>1, <2>3 DEF RunKept
  <2>4. CASE Queued(b)
    <3>1. PICK lo \in Nat : runs[b] = CallsOf(lo, Refs(b), Passed)
      BY <2>1, <2>4 DEF RunKept
    <3>2. loops # <<>>
      <4>1. count # 0
        BY <2>4 DEF Queued
      <4> QED
        BY <4>1, OneOf DEF IInv, LoopKept
    <3>3. PICK l \in Loop : Passed = l.idx + IF l.cur = None THEN 0 ELSE 1
      BY <3>2, TheLoop
    <3>4. Passed \in Nat
      BY <3>3 DEF Loop
    <3> QED
      BY <2>1, <3>1, <3>4 DEF CallsOf
  <2> QED
    BY <2>2, <2>3, <2>4
<1> QED
  BY <1>1, Invariant, PTL

\* FreePending gives no block back twice: what FinalizeMemory leaves on the list
\* of blocks to free is not gone through again, as no collection follows it.
THEOREM BlocksFreedOnce ==
    ASSUME OneLoop
    PROVE  Spec => []FreedOnce
<1>1. IInv => FreedOnce
  BY DEF IInv, Freeing, FreedOnce
<1> QED
  BY <1>1, Invariant, PTL

\* CollectMemory frees an object with a finalizer only when the finalizer has run
\* for each of its elements, or when an error of an earlier finalizer dropped it
\* from the list.
THEOREM FinalizedBeforeFreed ==
    ASSUME OneLoop
    PROVE  Spec => FinalizerCalled
<1> DEFINE Freed(b) == heap[b].shape.fin /\ b \notin skipped => runs[b] >= References(heap[b])
<1>1. ASSUME IInv, Next, NEW b \in live \ live' PROVE Freed(b)
  <2>1. CASE CollectMemory
    <3>1. loops = <<>> /\ (heap[b].shape.fin => b \in finalized)
      BY <1>1, <2>1, Collecting
    <3>2. count = 0
      BY <1>1, <3>1 DEF IInv, LoopKept
    <3>3. ~Queued(b)
      BY <3>2 DEF Queued
    <3>4. RunKept(b) /\ Refs(b) \in Nat \ {0}
      BY <1>1, Counts DEF IInv
    <3> QED
      BY <3>1, <3>3, <3>4 DEF RunKept, Refs
  <2>2. CASE Run
    BY <1>1, <2>2, MutateKeeps DEF IInv, Run
  <2>3. CASE \/ FinalizeMemory \/ CallFinalizer \/ FinalizerReturns
             \/ LoopEnds \/ FinalizerFails
    <3>1. live' = live
      BY <2>3 DEF FinalizeMemory, CallFinalizer, FinalizerReturns, LoopEnds, FinalizerFails,
                  mutatorVars
    <3> QED
      BY <3>1
  <2> QED
    BY <1>1, <2>1, <2>2, <2>3 DEF Next
<1>2. IInv /\ [Next]_vars_ => [\A b \in live \ live' : Freed(b)]_vars_
  BY <1>1
<1> QED
  BY <1>2, Invariant, PTL DEF Spec, FinalizerCalled
===============================================================================
