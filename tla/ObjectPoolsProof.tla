--------------------------- MODULE ObjectPoolsProof ---------------------------
(***************************************************************************)
(* Proofs about ObjectPools, for any pools, any pages the system gives out *)
(* and any sequence of allocations, collections and limits.                *)
(*                                                                         *)
(* Two inductive invariants.  IInv says what each pool and each big block  *)
(* is to the objects in use; it is a statement about a memory and a set of *)
(* objects, so that it can be carried through an allocation that collects  *)
(* first.  SortedIn says that sortedPages has the pages in their order.    *)
(***************************************************************************)
EXTENDS ObjectPools, TLAPS, FiniteSetTheorems, SequenceTheorems, WellFoundedInduction

-------------------------------------------------------------------------------
(* Induction over the natural numbers, for a set of them.                  *)

LEMMA LeastExists ==
    ASSUME NEW S \in SUBSET Nat, S # {}
    PROVE  \E m \in S : \A n \in S : m <= n
<1>1. PICK m \in S : \A n \in S : ~(<<n, m>> \in OpToRel(<, Nat))
  BY NatLessThanWellFounded, WFMin
<1>2. \A n \in S : ~(n < m)
  BY <1>1 DEF OpToRel
<1> QED
  BY <1>2

LEMMA SetInduction ==
    ASSUME NEW X, 0 \in X, \A n \in Nat : n \in X => n + 1 \in X
    PROVE  Nat \subseteq X
<1> DEFINE Rest == Nat \ X
<1> SUFFICES ASSUME Rest # {} PROVE FALSE
  OBVIOUS
<1>1. PICK m \in Rest : \A n \in Rest : m <= n
  <2> HIDE DEF Rest
  <2>1. Rest \in SUBSET Nat
    BY DEF Rest
  <2> QED
    BY <2>1, LeastExists
<1>2. m \in Nat /\ m # 0 /\ m - 1 \in Nat /\ ~(m <= m - 1) /\ (m - 1) + 1 = m
  <2>1. m \in Nat /\ m # 0
    OBVIOUS
  <2> QED
    BY <2>1
<1> QED
  BY <1>1, <1>2

-------------------------------------------------------------------------------
(* Sums: FoldFunction(+, 0, f) over a finite domain.                       *)

Total(f)   == FoldFunction(+, 0, f)
Part(f, T) == [y \in T |-> f[y]]
Ints(S)    == [S -> Int]

\* the function inside MapThenFoldSet, over a family F of sets
IsIter(f, F, g) ==
    g = [s \in F |-> IF s = {} THEN 0
                     ELSE LET x == CHOOSE x \in s : TRUE IN f[x] + g[s \ {x}]]

Some(s) == CHOOSE x \in s : TRUE

\* any element can be the one taken
Swaps(S, f, g) ==
    \A T \in SUBSET S : g[T] \in Int /\ \A x \in T : g[T] = f[x] + g[T \ {x}]

UpToSize(S, n) == {s \in SUBSET S : Cardinality(s) <= n}

\* what is left of a finite set without an element
LEMMA Smaller ==
    ASSUME NEW s, IsFiniteSet(s), NEW x \in s
    PROVE  /\ IsFiniteSet(s \ {x}) /\ Cardinality(s) \in Nat
           /\ Cardinality(s \ {x}) \in Nat /\ Cardinality(s \ {x}) + 1 = Cardinality(s)
<1>1. IsFiniteSet(s \ {x}) /\ Cardinality(s \ {x}) = Cardinality(s) - 1
  BY FS_RemoveElement
<1>2. Cardinality(s) \in Nat /\ Cardinality(s \ {x}) \in Nat
  BY <1>1, FS_CardinalityType
<1> QED
  BY <1>1, <1>2

LEMMA IterExists ==
    ASSUME NEW f, NEW S, IsFiniteSet(S)
    PROVE  \E g : IsIter(f, SUBSET S, g)
<1> DEFINE X == {n \in Nat : \E g : IsIter(f, UpToSize(S, n), g)}
<1>0. ASSUME NEW s \in SUBSET S
      PROVE  IsFiniteSet(s) /\ Cardinality(s) \in Nat /\ (Cardinality(s) = 0 <=> s = {})
             /\ Cardinality(s) <= Cardinality(S)
  BY FS_Subset, FS_CardinalityType, FS_EmptySet
<1>1. 0 \in X
  <2>1. \A s \in UpToSize(S, 0) : s = {}
    BY <1>0 DEF UpToSize
  <2>2. IsIter(f, UpToSize(S, 0), [s \in UpToSize(S, 0) |-> 0])
    BY <2>1 DEF IsIter
  <2> QED
    BY <2>2
<1>2. ASSUME NEW n \in Nat, n \in X PROVE n + 1 \in X
  <2>1. PICK g : IsIter(f, UpToSize(S, n), g)
    BY <1>2
  <2> DEFINE F == UpToSize(S, n + 1)
             h == [s \in F |-> IF s = {} THEN 0
                               ELSE LET x == CHOOSE x \in s : TRUE IN f[x] + g[s \ {x}]]
  <2>2. \A s \in UpToSize(S, n) :
            g[s] = IF s = {} THEN 0 ELSE LET x == CHOOSE x \in s : TRUE IN f[x] + g[s \ {x}]
    BY <2>1 DEF IsIter
  <2>3. UpToSize(S, n) \subseteq F
    BY <1>0 DEF UpToSize
  <2>4. \A s \in UpToSize(S, n) : h[s] = g[s]
    BY <2>2, <2>3
  <2>5. ASSUME NEW s \in F, s # {}, NEW x \in s PROVE s \ {x} \in UpToSize(S, n)
    <3>1. s \in SUBSET S /\ Cardinality(s) <= n + 1
      BY <2>5 DEF UpToSize
    <3>2. Cardinality(s \ {x}) <= n /\ s \ {x} \in SUBSET S
      BY <1>0, <2>5, <3>1, Smaller
    <3> QED
      BY <3>2 DEF UpToSize
  <2>6. ASSUME NEW s \in F
        PROVE  h[s] = IF s = {} THEN 0
                      ELSE LET x == CHOOSE x \in s : TRUE IN f[x] + h[s \ {x}]
    <3>1. CASE s = {}
      BY <3>1
    <3>2. CASE s # {}
      <4> DEFINE x == CHOOSE x \in s : TRUE
      <4>1. x \in s
        BY <3>2
      <4> HIDE DEF x
      <4>2. h[s \ {x}] = g[s \ {x}]
        BY <2>4, <2>5, <3>2, <4>1
      <4>3. h[s] = f[x] + g[s \ {x}]
        BY <3>2 DEF x
      <4> QED
        BY <3>2, <4>2, <4>3 DEF x
    <3> QED
      BY <3>1, <3>2
  <2>7. IsIter(f, F, h)
    <3>1. h = [s \in F |-> h[s]]
      OBVIOUS
    <3> HIDE DEF h, F
    <3> QED
      BY <2>6, <3>1 DEF IsIter
  <2> QED
    BY <2>7
<1> HIDE DEF X
<1>3. Cardinality(S) \in X
  BY <1>1, <1>2, SetInduction, FS_CardinalityType
<1>4. UpToSize(S, Cardinality(S)) = SUBSET S
  BY <1>0 DEF UpToSize
<1> QED
  BY <1>3, <1>4 DEF X

LEMMA TotalIsIter ==
    ASSUME NEW f, IsFiniteSet(DOMAIN f)
    PROVE  \E g : IsIter(f, SUBSET DOMAIN f, g) /\ Total(f) = g[DOMAIN f]
<1> DEFINE S == DOMAIN f
           g == CHOOSE g : g = [s \in SUBSET S |->
                                   IF s = {} THEN 0
                                   ELSE LET x == CHOOSE x \in s : TRUE IN f[x] + g[s \ {x}]]
<1>1. Total(f) = g[S]
  BY DEF Total, FoldFunction, FoldFunctionOnSet, MapThenFoldSet
<1>2. IsIter(f, SUBSET S, g)
  <2>1. \E h : IsIter(f, SUBSET S, h)
    BY IterExists
  <2> QED
    BY <2>1 DEF IsIter
<1> QED
  BY <1>1, <1>2

\* one step of the function
LEMMA IterStep ==
    ASSUME NEW f, NEW F, NEW g, IsIter(f, F, g), NEW s \in F
    PROVE  /\ s = {} => g[s] = 0
           /\ s # {} => Some(s) \in s /\ g[s] = f[Some(s)] + g[s \ {Some(s)}]
<1>1. g[s] = IF s = {} THEN 0 ELSE f[Some(s)] + g[s \ {Some(s)}]
  BY DEF IsIter, Some
<1>2. s # {} => Some(s) \in s
  BY DEF Some
<1> QED
  BY <1>1, <1>2

\* the order in which the elements are taken does not matter
LEMMA IterSwap ==
    ASSUME NEW S, IsFiniteSet(S), NEW f, f \in Ints(S), NEW g, IsIter(f, SUBSET S, g)
    PROVE  Swaps(S, f, g)
<1> DEFINE P(T) == g[T] \in Int /\ \A x \in T : g[T] = f[x] + g[T \ {x}]
           X == {n \in Nat : \A T \in SUBSET S : Cardinality(T) <= n => P(T)}
<1>0. ASSUME NEW T \in SUBSET S
      PROVE  IsFiniteSet(T) /\ Cardinality(T) \in Nat /\ (Cardinality(T) = 0 <=> T = {})
             /\ Cardinality(T) <= Cardinality(S)
  BY FS_Subset, FS_CardinalityType, FS_EmptySet
<1>e. \A T \in SUBSET S : T = {} => g[T] = 0
  BY IterStep
<1>t. \A T \in SUBSET S : T # {} => g[T] = f[Some(T)] + g[T \ {Some(T)}]
  BY IterStep
<1>s. \A T \in SUBSET S : T # {} => Some(T) \in T /\ g[T] = f[Some(T)] + g[T \ {Some(T)}]
  BY <1>t DEF Some
<1>1. 0 \in X
  <2>1. ASSUME NEW T \in SUBSET S, Cardinality(T) <= 0 PROVE P(T)
    <3>1. T = {}
      BY <1>0, <2>1
    <3>2. g[T] = 0
      BY <1>e, <3>1
    <3> QED
      BY <3>1, <3>2
  <2> QED
    BY <2>1
<1>2. ASSUME NEW n \in Nat, n \in X PROVE n + 1 \in X
  <2>1. \A T \in SUBSET S : Cardinality(T) <= n => P(T)
    BY <1>2
  <2>2. ASSUME NEW T \in SUBSET S, Cardinality(T) <= n + 1 PROVE P(T)
    <3>1. CASE T = {}
      BY <1>0, <2>1, <3>1
    <3>2. CASE T # {}
      <4>1. \A x \in T : T \ {x} \in SUBSET S /\ Cardinality(T \ {x}) <= n
        BY <1>0, <2>2, Smaller
      <4>2. PICK c \in T : g[T] = f[c] + g[T \ {c}]
        BY <1>s, <3>2
      <4>3. \A x \in T : P(T \ {x})
        BY <2>1, <4>1
      <4>4. f[c] \in Int /\ g[T \ {c}] \in Int
        BY <4>3 DEF Ints
      <4>5. ASSUME NEW x \in T PROVE g[T] = f[x] + g[T \ {x}]
        <5>1. CASE x = c
          BY <4>2, <5>1
        <5>2. CASE x # c
          <6>1. x \in T \ {c} /\ c \in T \ {x} /\ (T \ {c}) \ {x} = (T \ {x}) \ {c}
            BY <5>2
          <6> DEFINE R == (T \ {x}) \ {c}
          <6>2. g[T \ {c}] = f[x] + g[R]
            BY <4>3, <6>1
          <6>3. g[T \ {x}] = f[c] + g[R]
            BY <4>3, <6>1
          <6>4. R \in SUBSET S /\ Cardinality(R) <= n
            <7>1. IsFiniteSet(T \ {x}) /\ Cardinality(T \ {x}) <= n /\ Cardinality(T \ {x}) \in Nat
              BY <1>0, <4>1
            <7>2. Cardinality(R) \in Nat /\ Cardinality(R) + 1 = Cardinality(T \ {x})
              BY <6>1, <7>1, Smaller
            <7> QED
              BY <7>1, <7>2
          <6>5. g[R] \in Int /\ f[x] \in Int
            BY <2>1, <6>4 DEF Ints
          <6> HIDE DEF R
          <6> QED
            BY <4>2, <4>4, <6>2, <6>3, <6>5
        <5> QED
          BY <5>1, <5>2
      <4>6. g[T] \in Int
        BY <4>2, <4>4
      <4> QED
        BY <4>5, <4>6
    <3> QED
      BY <3>1, <3>2
  <2> HIDE DEF P
  <2> QED
    BY <2>2
<1> HIDE DEF X, P
<1>3. Cardinality(S) \in X
  BY <1>1, <1>2, SetInduction, FS_CardinalityType
<1>4. \A T \in SUBSET S : P(T)
  BY <1>0, <1>3 DEF X
<1> QED
  BY <1>4 DEF P, Swaps

\* the value on a part depends on the part only
LEMMA IterAgree ==
    ASSUME NEW S, IsFiniteSet(S), NEW f, NEW g, IsIter(f, SUBSET S, g),
           NEW T \in SUBSET S, NEW h, IsIter(Part(f, T), SUBSET T, h)
    PROVE  g[T] = h[T]
<1> DEFINE X == {n \in Nat : \A U \in SUBSET T : Cardinality(U) <= n => g[U] = h[U]}
<1>0. ASSUME NEW U \in SUBSET T
      PROVE  U \in SUBSET S /\ IsFiniteSet(U) /\ Cardinality(U) \in Nat
             /\ (Cardinality(U) = 0 <=> U = {}) /\ Cardinality(U) <= Cardinality(S)
  BY FS_Subset, FS_CardinalityType, FS_EmptySet
<1>s. \A U \in SUBSET S :
          /\ U = {} => g[U] = 0
          /\ U # {} => Some(U) \in U /\ g[U] = f[Some(U)] + g[U \ {Some(U)}]
  BY IterStep
<1>t. \A U \in SUBSET T :
          /\ U = {} => h[U] = 0
          /\ U # {} => h[U] = Part(f, T)[Some(U)] + h[U \ {Some(U)}]
  BY IterStep
<1>1. 0 \in X
  <2>1. ASSUME NEW U \in SUBSET T, Cardinality(U) <= 0 PROVE g[U] = h[U]
    <3>1. U = {}
      BY <1>0, <2>1
    <3> QED
      BY <1>0, <1>s, <1>t, <3>1
  <2> QED
    BY <2>1
<1>2. ASSUME NEW n \in Nat, n \in X PROVE n + 1 \in X
  <2>1. ASSUME NEW U \in SUBSET T, Cardinality(U) <= n + 1 PROVE g[U] = h[U]
    <3>1. CASE U = {}
      BY <1>0, <1>s, <1>t, <3>1
    <3>2. CASE U # {}
      <4> DEFINE x == Some(U)
      <4>1. x \in U /\ g[U] = f[x] + g[U \ {x}]
        BY <1>0, <1>s, <3>2
      <4>2. h[U] = Part(f, T)[x] + h[U \ {x}]
        BY <1>t, <3>2
      <4> HIDE DEF x
      <4>3. Part(f, T)[x] = f[x]
        BY <4>1 DEF Part
      <4>4. g[U \ {x}] = h[U \ {x}]
        <5>1. U \ {x} \in SUBSET T /\ Cardinality(U \ {x}) <= n
          BY <1>0, <2>1, <4>1, Smaller
        <5> QED
          BY <1>2, <5>1
      <4> QED
        BY <4>1, <4>2, <4>3, <4>4
    <3> QED
      BY <3>1, <3>2
  <2> QED
    BY <2>1
<1> HIDE DEF X
<1>3. Cardinality(S) \in X
  BY <1>1, <1>2, SetInduction, FS_CardinalityType
<1> QED
  BY <1>0, <1>3 DEF X

\* the three facts about sums that the rest is built on
LEMMA TotalEmpty ==
    ASSUME NEW f, DOMAIN f = {}
    PROVE  Total(f) = 0
<1>1. PICK g : IsIter(f, SUBSET DOMAIN f, g) /\ Total(f) = g[DOMAIN f]
  BY FS_EmptySet, TotalIsIter
<1> QED
  BY <1>1, IterStep

LEMMA TotalType ==
    ASSUME NEW S, IsFiniteSet(S), NEW f, f \in Ints(S)
    PROVE  Total(f) \in Int
<1>1. PICK g : IsIter(f, SUBSET S, g) /\ Total(f) = g[S]
  BY TotalIsIter DEF Ints
<1>2. IsIter(f, SUBSET S, g)
  BY <1>1
<1>3. Swaps(S, f, g)
  BY <1>2, IterSwap
<1> QED
  BY <1>1, <1>3 DEF Swaps

LEMMA TotalMore ==
    ASSUME NEW S, IsFiniteSet(S), NEW f, f \in Ints(S), NEW x \in S
    PROVE  Total(f) = f[x] + Total(Part(f, S \ {x}))
<1> DEFINE T == S \ {x}
<1>1. PICK g : IsIter(f, SUBSET S, g) /\ Total(f) = g[S]
  BY TotalIsIter DEF Ints
<1>2. DOMAIN Part(f, T) = T /\ IsFiniteSet(T)
  BY FS_Subset DEF Part
<1>3. PICK h : IsIter(Part(f, T), SUBSET T, h) /\ Total(Part(f, T)) = h[T]
  <2> HIDE DEF T
  <2> QED
    BY <1>2, TotalIsIter
<1>4. g[T] = h[T]
  BY <1>1, <1>3, IterAgree
<1>5. g[S] = f[x] + g[T]
  <2>1. IsIter(f, SUBSET S, g)
    BY <1>1
  <2>2. S \in SUBSET S
    OBVIOUS
  <2> HIDE DEF T
  <2>3. Swaps(S, f, g)
    BY <2>1, IterSwap
  <2> QED
    BY <2>2, <2>3, Zenon DEF T, Swaps
<1> QED
  BY <1>1, <1>3, <1>4, <1>5

\* what holds for the empty set and for one element more holds for a finite set
LEMMA FiniteInduction ==
    ASSUME NEW S, IsFiniteSet(S), NEW X, {} \in X,
           \A U \in SUBSET S, x \in S : U \in X /\ x \notin U => U \cup {x} \in X
    PROVE  SUBSET S \subseteq X
<1> DEFINE N == {n \in Nat : \A U \in SUBSET S : Cardinality(U) <= n => U \in X}
<1>0. ASSUME NEW U \in SUBSET S
      PROVE  IsFiniteSet(U) /\ Cardinality(U) \in Nat
             /\ (Cardinality(U) = 0 <=> U = {}) /\ Cardinality(U) <= Cardinality(S)
  BY FS_Subset, FS_CardinalityType, FS_EmptySet
<1>1. 0 \in N
  <2>1. ASSUME NEW U \in SUBSET S, Cardinality(U) <= 0 PROVE U = {}
    BY <1>0, <2>1
  <2> QED
    BY <2>1
<1>2. ASSUME NEW n \in Nat, n \in N PROVE n + 1 \in N
  <2>1. ASSUME NEW U \in SUBSET S, Cardinality(U) <= n + 1 PROVE U \in X
    <3>1. CASE U = {}
      BY <3>1
    <3>2. CASE U # {}
      <4>1. PICK x : x \in U
        BY <3>2
      <4>2. U \ {x} \in SUBSET S /\ Cardinality(U \ {x}) <= n
        BY <1>0, <2>1, <4>1, Smaller
      <4>3. U \ {x} \in X /\ x \notin U \ {x} /\ x \in S /\ (U \ {x}) \cup {x} = U
        BY <1>2, <4>1, <4>2
      <4> QED
        BY <4>2, <4>3
    <3> QED
      BY <3>1, <3>2
  <2> QED
    BY <2>1
<1> HIDE DEF N
<1>3. Cardinality(S) \in N
  BY <1>1, <1>2, SetInduction, FS_CardinalityType
<1> QED
  BY <1>0, <1>3 DEF N

\* parts of parts
LEMMA PartOf ==
    ASSUME NEW f, NEW S, f \in Ints(S), NEW T \in SUBSET S
    PROVE  /\ Part(f, T) \in Ints(T)
           /\ Part(f, S) = f
           /\ \A U \in SUBSET T : Part(Part(f, T), U) = Part(f, U)
           /\ \A y \in T : Part(f, T)[y] = f[y]
<1>1. Part(f, T) \in Ints(T) /\ \A y \in T : Part(f, T)[y] = f[y]
  BY DEF Ints, Part
<1>2. Part(f, S) = f
  BY DEF Ints, Part
<1>3. \A U \in SUBSET T : Part(Part(f, T), U) = Part(f, U)
  BY DEF Part
<1> QED
  BY <1>1, <1>2, <1>3

\* the same function but in one place
LEMMA TotalChange ==
    ASSUME NEW S, IsFiniteSet(S), NEW f, f \in Ints(S), NEW h, h \in Ints(S), NEW x \in S,
           \A y \in S \ {x} : f[y] = h[y]
    PROVE  Total(h) = Total(f) - f[x] + h[x]
<1>1. Total(f) = f[x] + Total(Part(f, S \ {x})) /\ Total(h) = h[x] + Total(Part(h, S \ {x}))
  <2>1. Total(f) = f[x] + Total(Part(f, S \ {x}))
    BY TotalMore
  <2>2. Total(h) = h[x] + Total(Part(h, S \ {x}))
    BY TotalMore
  <2> QED
    BY <2>1, <2>2
<1>2. Part(f, S \ {x}) = Part(h, S \ {x})
  BY DEF Part
<1>3. f[x] \in Int /\ h[x] \in Int
  BY DEF Ints
<1>4. Total(Part(f, S \ {x})) \in Int
  <2>1. S \ {x} \in SUBSET S /\ IsFiniteSet(S \ {x})
    BY FS_Subset
  <2>2. Part(f, S \ {x}) \in Ints(S \ {x})
    BY <2>1, PartOf
  <2> QED
    BY <2>1, <2>2, TotalType
<1> HIDE DEF Part
<1> QED
  BY <1>1, <1>2, <1>3, <1>4

\* a sum of natural numbers, and of some of them
LEMMA TotalParts ==
    ASSUME NEW S, IsFiniteSet(S), NEW f, f \in Ints(S), \A y \in S : f[y] \in Nat,
           NEW T \in SUBSET S
    PROVE  Total(Part(f, T)) \in Nat /\ Total(Part(f, T)) <= Total(f)
<1> DEFINE X == {U \in SUBSET S : /\ Total(Part(f, U)) \in Nat
                                  /\ Total(Part(f, S \ U)) <= Total(f)}
<1>0. ASSUME NEW U \in SUBSET S
      PROVE  IsFiniteSet(U) /\ Part(f, U) \in Ints(U) /\ Total(Part(f, U)) \in Int
  BY FS_Subset, PartOf, TotalType
<1>1. {} \in X
  <2>1. Part(f, S \ {}) = f
    BY PartOf
  <2>2. Total(f) \in Int
    BY TotalType
  <2>3. Total(Part(f, {})) = 0
    <3>1. DOMAIN Part(f, {}) = {}
      BY DEF Part
    <3> QED
      BY <3>1, TotalEmpty
  <2> QED
    BY <2>1, <2>2, <2>3
<1>2. ASSUME NEW U \in SUBSET S, NEW x \in S, U \in X, x \notin U PROVE U \cup {x} \in X
  <2> DEFINE V == U \cup {x}
  <2>1. V \in SUBSET S /\ x \in V /\ V \ {x} = U /\ S \ U \in SUBSET S /\ x \in S \ U
        /\ (S \ U) \ {x} = S \ V /\ S \ V \in SUBSET S
    BY <1>2
  <2>2. Total(Part(f, V)) = f[x] + Total(Part(f, U))
    <3>1. Total(Part(f, V)) = Part(f, V)[x] + Total(Part(Part(f, V), V \ {x}))
      BY <1>0, <2>1, TotalMore
    <3>2. Part(f, V)[x] = f[x] /\ Part(Part(f, V), V \ {x}) = Part(f, U)
      BY <2>1, PartOf
    <3> QED
      BY <3>1, <3>2
  <2>3. Total(Part(f, S \ U)) = f[x] + Total(Part(f, S \ V))
    <3>1. Total(Part(f, S \ U)) = Part(f, S \ U)[x] + Total(Part(Part(f, S \ U), (S \ U) \ {x}))
      BY <1>0, <2>1, TotalMore
    <3>2. Part(f, S \ U)[x] = f[x] /\ Part(Part(f, S \ U), (S \ U) \ {x}) = Part(f, S \ V)
      <4>1. (S \ U) \ {x} \in SUBSET (S \ U)
        OBVIOUS
      <4>2. Part(f, S \ U)[x] = f[x]
        BY <2>1, PartOf
      <4>3. Part(Part(f, S \ U), (S \ U) \ {x}) = Part(f, (S \ U) \ {x})
        BY <2>1, <4>1, PartOf
      <4> QED
        BY <2>1, <4>2, <4>3
    <3> QED
      BY <3>1, <3>2
  <2>4. Total(Part(f, S \ V)) \in Int /\ Total(Part(f, U)) \in Nat
        /\ Total(Part(f, S \ U)) <= Total(f) /\ f[x] \in Nat /\ Total(f) \in Int
    BY <1>0, <1>2, <2>1, TotalType
  <2> HIDE DEF V
  <2>5. Total(Part(f, V)) \in Nat /\ Total(Part(f, S \ V)) <= Total(f)
    BY <2>2, <2>3, <2>4
  <2> QED
    BY <2>1, <2>5 DEF V
<1> HIDE DEF X
<1>3. SUBSET S \subseteq X
  BY <1>1, <1>2, FiniteInduction
<1>4. T \in X /\ S \ T \in X /\ S \ (S \ T) = T
  BY <1>3
<1> QED
  BY <1>4 DEF X

LEMMA TotalZero ==
    ASSUME NEW S, IsFiniteSet(S)
    PROVE  Total([y \in S |-> 0]) = 0
<1> DEFINE f == [y \in S |-> 0]
           X == {U \in SUBSET S : Total([y \in U |-> 0]) = 0}
<1>1. {} \in X
  <2>1. DOMAIN [y \in {} |-> 0] = {}
    OBVIOUS
  <2>2. Total([y \in {} |-> 0]) = 0
    BY <2>1, TotalEmpty
  <2> QED
    BY <2>2
<1>2. ASSUME NEW U \in SUBSET S, NEW x \in S, U \in X, x \notin U PROVE U \cup {x} \in X
  <2> DEFINE V == U \cup {x}
             g == [y \in V |-> 0]
  <2>1. V \in SUBSET S /\ IsFiniteSet(V) /\ x \in V /\ V \ {x} = U
    BY <1>2, FS_Subset
  <2>2. g \in Ints(V) /\ g[x] = 0 /\ Part(g, V \ {x}) = [y \in U |-> 0]
    BY <2>1 DEF Ints, Part
  <2>3. Total([y \in U |-> 0]) = 0
    BY <1>2
  <2> HIDE DEF V, g
  <2>4. Total(g) = 0
    BY <2>1, <2>2, <2>3, TotalMore
  <2> QED
    BY <2>1, <2>4 DEF V, g
<1> HIDE DEF X
<1>3. SUBSET S \subseteq X
  BY <1>1, <1>2, FiniteInduction
<1> QED
  BY <1>3 DEF X

-------------------------------------------------------------------------------
(* Sequences that hold each member of a set once.                          *)

Lists(s, X) ==
    /\ s \in Seq(X)
    /\ \A i, j \in 1..Len(s) : s[i] = s[j] => i = j
    /\ \A x \in X : \E i \in 1..Len(s) : s[i] = x

LEMMA ListsSet ==
    ASSUME NEW s, NEW X, Lists(s, X)
    PROVE  ToSet(s) = X /\ IsInjective(s) /\ s \in Seq(X) /\ DOMAIN s = 1..Len(s) /\ Len(s) \in Nat
<1>1. s \in Seq(X) /\ DOMAIN s = 1..Len(s) /\ Len(s) \in Nat
      /\ \A i \in 1..Len(s) : s[i] \in X
  BY LenProperties, ElementOfSeq DEF Lists
<1> QED
  BY <1>1 DEF Lists, ToSet, IsInjective

LEMMA SetLists ==
    ASSUME NEW D, NEW s \in Seq(D), IsInjective(s)
    PROVE  Lists(s, ToSet(s))
<1>1. DOMAIN s = 1..Len(s) /\ Len(s) \in Nat
  BY LenProperties
<1>2. s \in Seq(ToSet(s))
  <2>1. s \in [1..Len(s) -> ToSet(s)]
    BY <1>1 DEF ToSet
  <2> QED
    BY <1>1, <2>1
<1> QED
  BY <1>1, <1>2 DEF Lists, ToSet, IsInjective

LEMMA ListsLen ==
    ASSUME NEW s, NEW X, Lists(s, X)
    PROVE  IsFiniteSet(X) /\ Cardinality(X) = Len(s)
<1>1. s \in Seq(X) /\ Len(s) \in Nat
  BY ListsSet
<1>2. s \in Bijection(1..Len(s), X)
  BY <1>1, LenProperties DEF Lists, Bijection, Injection, Surjection, IsInjective
<1>3. IsFiniteSet(1..Len(s)) /\ Cardinality(1..Len(s)) = Len(s)
  BY <1>1, FS_Interval
<1>4. ExistsBijection(1..Len(s), X)
  BY <1>2 DEF ExistsBijection
<1> QED
  BY <1>3, <1>4, FS_Bijection

LEMMA ListsEmpty == Lists(<<>>, {})
  BY DEF Lists

LEMMA ListsNone ==
    ASSUME NEW s, NEW X, Lists(s, X)
    PROVE  s = <<>> <=> X = {}
<1>1. s \in Seq(X) /\ Len(s) \in Nat /\ \A i \in 1..Len(s) : s[i] \in X
  BY LenProperties, ElementOfSeq DEF Lists
<1>2. ASSUME s = <<>> PROVE X = {}
  BY <1>2 DEF Lists
<1>3. ASSUME X = {} PROVE s = <<>>
  <2>1. Len(s) = 0
    <3>1. CASE Len(s) # 0
      <4>1. 1 \in 1..Len(s)
        BY <1>1, <3>1
      <4> QED
        BY <1>1, <1>3, <4>1
    <3> QED
      BY <3>1
  <2> QED
    BY <1>1, <2>1, EmptySeq
<1> QED
  BY <1>2, <1>3

LEMMA ListsConcat ==
    ASSUME NEW s, NEW X, Lists(s, X), NEW t, NEW Y, Lists(t, Y), X \cap Y = {}
    PROVE  Lists(s \o t, X \cup Y)
<1>1. s \in Seq(X \cup Y) /\ t \in Seq(X \cup Y) /\ Len(s) \in Nat /\ Len(t) \in Nat
  <2>1. s \in Seq(X) /\ t \in Seq(Y) /\ Len(s) \in Nat /\ Len(t) \in Nat
    BY ListsSet
  <2>2. (\A i \in 1..Len(s) : s[i] \in X) /\ (\A i \in 1..Len(t) : t[i] \in Y)
    BY <2>1, ElementOfSeq
  <2> QED
    BY <2>1, <2>2
<1>2. /\ s \o t \in Seq(X \cup Y)
      /\ Len(s \o t) = Len(s) + Len(t)
      /\ \A i \in 1..(Len(s) + Len(t)) :
             (s \o t)[i] = IF i <= Len(s) THEN s[i] ELSE t[i - Len(s)]
  BY <1>1, ConcatProperties
<1>3. /\ \A i \in 1..Len(s) : s[i] \in X
      /\ \A i \in 1..Len(t) : t[i] \in Y
      /\ \A i, j \in 1..Len(s) : s[i] = s[j] => i = j
      /\ \A i, j \in 1..Len(t) : t[i] = t[j] => i = j
      /\ \A x \in X : \E i \in 1..Len(s) : s[i] = x
      /\ \A y \in Y : \E i \in 1..Len(t) : t[i] = y
  BY ElementOfSeq DEF Lists
<1> DEFINE u == s \o t
           m == Len(s)
           n == Len(t)
<1>4. \A i \in 1..(m + n) : \/ i \in 1..m /\ u[i] = s[i] /\ u[i] \in X
                            \/ i - m \in 1..n /\ u[i] = t[i - m] /\ u[i] \in Y
  BY <1>1, <1>2, <1>3
<1>5. (\A i \in 1..m : i \in 1..(m + n) /\ u[i] = s[i])
      /\ \A j \in 1..n : m + j \in 1..(m + n) /\ u[m + j] = t[j]
  BY <1>1, <1>2
<1>6. m \in Nat /\ n \in Nat /\ u \in Seq(X \cup Y) /\ Len(u) = m + n
  BY <1>1, <1>2
<1> HIDE DEF u
<1>7. \A i, j \in 1..(m + n) : u[i] = u[j] => i = j
  <2>1. SUFFICES ASSUME NEW i \in 1..(m + n), NEW j \in 1..(m + n), u[i] = u[j] PROVE i = j
    OBVIOUS
  <2>2. CASE i \in 1..m /\ u[i] = s[i] /\ u[i] \in X
    <3>1. j \in 1..m /\ u[j] = s[j]
      BY <1>4, <2>1, <2>2
    <3> QED
      BY <1>3, <2>1, <2>2, <3>1
  <2>3. CASE i - m \in 1..n /\ u[i] = t[i - m] /\ u[i] \in Y
    <3>1. j - m \in 1..n /\ u[j] = t[j - m]
      BY <1>4, <2>1, <2>3
    <3>2. i - m = j - m
      BY <1>3, <2>1, <2>3, <3>1
    <3> QED
      BY <1>6, <3>2
  <2> QED
    BY <1>4, <2>2, <2>3
<1>8. \A z \in X \cup Y : \E i \in 1..(m + n) : u[i] = z
  <2>1. ASSUME NEW z \in X PROVE \E i \in 1..(m + n) : u[i] = z
    BY <1>3, <1>5
  <2>2. ASSUME NEW z \in Y PROVE \E i \in 1..(m + n) : u[i] = z
    BY <1>3, <1>5
  <2> QED
    BY <2>1, <2>2
<1> HIDE DEF m, n
<1>9. Lists(u, X \cup Y)
  BY <1>6, <1>7, <1>8 DEF Lists
<1> QED
  BY <1>9 DEF u

LEMMA ListsOne ==
    ASSUME NEW x
    PROVE  Lists(<<x>>, {x})
<1>1. <<x>> \in Seq({x}) /\ Len(<<x>>) = 1 /\ <<x>>[1] = x
  OBVIOUS
<1>2. \A i \in 1..Len(<<x>>) : i = 1
  BY <1>1
<1>3. 1 \in 1..Len(<<x>>)
  BY <1>1
<1> QED
  BY <1>1, <1>2, <1>3 DEF Lists

LEMMA ListsReverse ==
    ASSUME NEW s, NEW X, Lists(s, X)
    PROVE  Lists(Reverse(s), X)
<1> DEFINE n == Len(s)
           r == Reverse(s)
<1>1. n \in Nat /\ \A i \in 1..n : s[i] \in X
  BY ListsSet, ElementOfSeq
<1>2. r = [i \in 1..n |-> s[(n - i) + 1]]
  BY DEF Reverse
<1>3. \A i \in 1..n : (n - i) + 1 \in 1..n /\ (n - ((n - i) + 1)) + 1 = i
  BY <1>1
<1> HIDE DEF n
<1>4. r \in Seq(X) /\ Len(r) = n
  BY <1>1, <1>2, <1>3
<1>5. \A i \in 1..n : r[i] = s[(n - i) + 1]
  BY <1>2
<1>6. (\A i, j \in 1..n : s[i] = s[j] => i = j) /\ \A x \in X : \E i \in 1..n : s[i] = x
  BY DEF Lists, n
<1> HIDE DEF r
<1>7. \A i, j \in 1..n : r[i] = r[j] => i = j
  <2>1. SUFFICES ASSUME NEW i \in 1..n, NEW j \in 1..n, r[i] = r[j] PROVE i = j
    OBVIOUS
  <2>2. (n - i) + 1 = (n - j) + 1
    BY <1>3, <1>5, <1>6, <2>1
  <2> QED
    BY <1>1, <2>2
<1>8. \A x \in X : \E i \in 1..n : r[i] = x
  <2>1. SUFFICES ASSUME NEW x \in X PROVE \E i \in 1..n : r[i] = x
    OBVIOUS
  <2>2. PICK j \in 1..n : s[j] = x
    BY <1>6
  <2>3. (n - j) + 1 \in 1..n /\ r[(n - j) + 1] = s[(n - ((n - j) + 1)) + 1]
    BY <1>3, <1>5
  <2> QED
    BY <1>3, <2>2, <2>3
<1>9. Lists(r, X)
  BY <1>4, <1>7, <1>8 DEF Lists
<1> QED
  BY <1>9 DEF r

LEMMA ListsTail ==
    ASSUME NEW s, NEW X, Lists(s, X), s # <<>>
    PROVE  Head(s) \in X /\ Lists(Tail(s), X \ {Head(s)})
<1> DEFINE n == Len(s)
           t == Tail(s)
           Y == X \ {s[1]}
<1>1. s \in Seq(X) /\ n \in Nat \ {0} /\ \A i \in 1..n : s[i] \in X
  <2>1. s \in Seq(X) /\ \A i \in 1..n : s[i] \in X
    BY ListsSet, ElementOfSeq
  <2>2. n \in Nat /\ n # 0
    BY <2>1, EmptySeq, LenProperties
  <2> QED
    BY <2>1, <2>2
<1>2. Head(s) = s[1] /\ t \in Seq(X) /\ Len(t) = n - 1 /\ \A i \in 1..(n - 1) : t[i] = s[i + 1]
  BY <1>1, HeadTailProperties
<1>3. (\A i, j \in 1..n : s[i] = s[j] => i = j) /\ \A x \in X : \E i \in 1..n : s[i] = x
  BY DEF Lists
<1>4. 1 \in 1..n /\ \A i \in 1..(n - 1) : i + 1 \in 1..n /\ i + 1 # 1
  BY <1>1
<1>5. \A i \in 1..n : i # 1 => i - 1 \in 1..(n - 1) /\ (i - 1) + 1 = i
  BY <1>1
<1> HIDE DEF n, t
<1>6. \A i \in 1..(n - 1) : t[i] \in Y
  BY <1>1, <1>2, <1>3, <1>4
<1>7. t \in Seq(Y)
  <2>1. DOMAIN t = 1..(n - 1) /\ n - 1 \in Nat
    BY <1>1, <1>2, LenProperties
  <2> QED
    BY <1>2, <1>6, <2>1
<1>8. \A i, j \in 1..(n - 1) : t[i] = t[j] => i = j
  <2>1. SUFFICES ASSUME NEW i \in 1..(n - 1), NEW j \in 1..(n - 1), t[i] = t[j] PROVE i = j
    OBVIOUS
  <2>2. i + 1 = j + 1
    BY <1>2, <1>3, <1>4, <2>1
  <2> QED
    BY <2>2
<1>9. \A x \in Y : \E i \in 1..(n - 1) : t[i] = x
  <2>1. SUFFICES ASSUME NEW x \in Y PROVE \E i \in 1..(n - 1) : t[i] = x
    OBVIOUS
  <2>2. PICK i \in 1..n : s[i] = x
    BY <1>3
  <2>3. i - 1 \in 1..(n - 1) /\ t[i - 1] = s[i]
    BY <1>2, <1>5, <2>2
  <2> QED
    BY <2>2, <2>3
<1>10. Lists(t, Y)
  <2> HIDE DEF Y
  <2> QED
    BY <1>2, <1>7, <1>8, <1>9 DEF Lists
<1> QED
  BY <1>1, <1>2, <1>4, <1>10 DEF t


-------------------------------------------------------------------------------
(* Only(s, S).                                                             *)

IsUpTo(s, S, n, f) ==
    f = [k \in 0..n |-> IF k = 0 THEN <<>>
                        ELSE IF s[k] \in S THEN Append(f[k - 1], s[k]) ELSE f[k - 1]]

LEMMA UpToExists ==
    ASSUME NEW s, NEW S, NEW n \in Nat
    PROVE  \E f : IsUpTo(s, S, n, f)
<1> DEFINE X == {k \in Nat : \E f : IsUpTo(s, S, k, f)}
<1>1. 0 \in X
  <2>1. IsUpTo(s, S, 0, [k \in 0..0 |-> <<>>])
    BY DEF IsUpTo
  <2> QED
    BY <2>1
<1>2. ASSUME NEW m \in Nat, m \in X PROVE m + 1 \in X
  <2>1. PICK f : IsUpTo(s, S, m, f)
    BY <1>2
  <2> DEFINE last == IF s[m + 1] \in S THEN Append(f[m], s[m + 1]) ELSE f[m]
             g == [k \in 0..(m + 1) |-> IF k = m + 1 THEN last ELSE f[k]]
  <2>2. \A k \in 0..m : f[k] = IF k = 0 THEN <<>>
                              ELSE IF s[k] \in S THEN Append(f[k - 1], s[k]) ELSE f[k - 1]
    BY <2>1 DEF IsUpTo
  <2>3. \A k \in 0..m : g[k] = f[k] /\ (k # 0 => k - 1 \in 0..m)
    OBVIOUS
  <2>4. g[m + 1] = last /\ m + 1 # 0 /\ (m + 1) - 1 = m /\ m \in 0..m
    OBVIOUS
  <2>5. \A k \in 0..(m + 1) : k = m + 1 \/ k \in 0..m
    OBVIOUS
  <2>6. g = [k \in 0..(m + 1) |-> g[k]]
    OBVIOUS
  <2> HIDE DEF g
  <2>7. ASSUME NEW k \in 0..(m + 1)
        PROVE  g[k] = IF k = 0 THEN <<>>
                      ELSE IF s[k] \in S THEN Append(g[k - 1], s[k]) ELSE g[k - 1]
    <3>1. CASE k = m + 1
      <4>1. g[k] = last /\ k # 0 /\ g[k - 1] = f[m]
        BY <2>3, <2>4, <3>1
      <4> QED
        BY <3>1, <4>1
    <3>2. CASE k \in 0..m
      <4>1. g[k] = f[k] /\ (k # 0 => g[k - 1] = f[k - 1])
        BY <2>3, <3>2
      <4> QED
        BY <2>2, <3>2, <4>1
    <3> QED
      BY <2>5, <3>1, <3>2
  <2>8. IsUpTo(s, S, m + 1, g)
    BY <2>6, <2>7 DEF IsUpTo
  <2> QED
    BY <2>8
<1> HIDE DEF X
<1>3. n \in X
  BY <1>1, <1>2, SetInduction
<1> QED
  BY <1>3 DEF X

LEMMA OnlyUpTo ==
    ASSUME NEW s, NEW S, Len(s) \in Nat
    PROVE  \E f : IsUpTo(s, S, Len(s), f) /\ Only(s, S) = f[Len(s)]
<1> DEFINE g == CHOOSE g : g = [k \in 0..Len(s) |->
                     IF k = 0 THEN <<>>
                     ELSE IF s[k] \in S THEN Append(g[k - 1], s[k]) ELSE g[k - 1]]
<1>1. Only(s, S) = g[Len(s)]
  BY DEF Only
<1>2. IsUpTo(s, S, Len(s), g)
  <2>1. \E f : IsUpTo(s, S, Len(s), f)
    BY UpToExists
  <2> QED
    BY <2>1, Zenon DEF IsUpTo
<1> QED
  BY <1>1, <1>2

LEMMA AppendLists ==
    ASSUME NEW s, NEW X, Lists(s, X), NEW x, x \notin X
    PROVE  Lists(Append(s, x), X \cup {x})
<1>1. Lists(s \o <<x>>, X \cup {x})
  BY ListsConcat, ListsOne
<1>2. s \in Seq(X \cup {x})
  <2>1. s \in Seq(X) /\ Len(s) \in Nat /\ \A i \in 1..Len(s) : s[i] \in X
    BY ListsSet, ElementOfSeq
  <2> QED
    BY <2>1
<1>3. Append(s, x) = s \o <<x>>
  BY <1>2, AppendIsConcat
<1> QED
  BY <1>1, <1>3

LEMMA OnlyLists ==
    ASSUME NEW s, NEW X, Lists(s, X), NEW S
    PROVE  Lists(Only(s, S), X \cap S)
<1> DEFINE n == Len(s)
           Upto(k) == {s[i] : i \in 1..k}
<1>1. n \in Nat /\ (\A i \in 1..n : s[i] \in X) /\ (\A x \in X : \E i \in 1..n : s[i] = x)
      /\ \A i, j \in 1..n : s[i] = s[j] => i = j
  BY ListsSet, ElementOfSeq DEF Lists
<1>2. PICK f : IsUpTo(s, S, n, f) /\ Only(s, S) = f[n]
  BY <1>1, OnlyUpTo
<1>3. \A k \in 0..n : f[k] = IF k = 0 THEN <<>>
                            ELSE IF s[k] \in S THEN Append(f[k - 1], s[k]) ELSE f[k - 1]
  BY <1>2 DEF IsUpTo
<1> DEFINE Y == {k \in Nat : k <= n => Lists(f[k], Upto(k) \cap S)}
<1> HIDE DEF n
<1>4. 0 \in Y
  <2>1. f[0] = <<>> /\ Upto(0) \cap S = {}
    BY <1>1, <1>3
  <2> HIDE DEF Upto
  <2> QED
    BY <2>1, ListsEmpty
<1>5. ASSUME NEW k \in Nat, k \in Y PROVE k + 1 \in Y
  <2>1. SUFFICES ASSUME k + 1 <= n PROVE Lists(f[k + 1], Upto(k + 1) \cap S)
    OBVIOUS
  <2>2. k <= n /\ k + 1 \in 0..n /\ k + 1 # 0 /\ (k + 1) - 1 = k
    BY <1>1, <2>1
  <2>3. f[k + 1] = IF s[k + 1] \in S THEN Append(f[k], s[k + 1]) ELSE f[k]
    BY <1>3, <2>2
  <2>4. Upto(k + 1) = Upto(k) \cup {s[k + 1]}
    <3>1. \A i \in 1..(k + 1) : i \in 1..k \/ i = k + 1
      OBVIOUS
    <3>2. \A i \in 1..k : i \in 1..(k + 1)
      OBVIOUS
    <3>3. k + 1 \in 1..(k + 1)
      OBVIOUS
    <3> QED
      BY <3>1, <3>2, <3>3
  <2>5. s[k + 1] \notin Upto(k)
    <3>1. \A i \in 1..k : i \in 1..n /\ i # k + 1
      BY <1>1, <2>1
    <3>2. k + 1 \in 1..n
      BY <1>1, <2>1
    <3> QED
      BY <1>1, <3>1, <3>2
  <2>6. Lists(f[k], Upto(k) \cap S)
    BY <1>5, <2>2
  <2> HIDE DEF Upto
  <2>7. CASE s[k + 1] \in S
    <3>1. Upto(k + 1) \cap S = (Upto(k) \cap S) \cup {s[k + 1]} /\ s[k + 1] \notin Upto(k) \cap S
      BY <2>4, <2>5, <2>7
    <3> QED
      BY <2>3, <2>6, <2>7, <3>1, AppendLists
  <2>8. CASE s[k + 1] \notin S
    <3>1. Upto(k + 1) \cap S = Upto(k) \cap S
      BY <2>4, <2>8
    <3> QED
      BY <2>3, <2>6, <2>8, <3>1
  <2> QED
    BY <2>7, <2>8
<1>6. Upto(n) = X
  BY <1>1
<1> HIDE DEF Y, Upto
<1>7. n \in Y
  BY <1>1, <1>4, <1>5, SetInduction
<1>8. Lists(f[n], Upto(n) \cap S)
  BY <1>1, <1>7 DEF Y
<1> QED
  BY <1>2, <1>6, <1>8

-------------------------------------------------------------------------------
(* FlattenSeq.                                                             *)

IsFlat(s, n, f) == f = [i \in 1..n |-> IF i = 1 THEN s[i] ELSE f[i - 1] \o s[i]]

LEMMA FlatExists ==
    ASSUME NEW s, NEW n \in Nat
    PROVE  \E f : IsFlat(s, n, f)
<1> DEFINE X == {k \in Nat : \E f : IsFlat(s, k, f)}
<1>1. 0 \in X
  <2>1. IsFlat(s, 0, [i \in 1..0 |-> s[i]])
    BY DEF IsFlat
  <2> QED
    BY <2>1
<1>2. ASSUME NEW k \in Nat, k \in X PROVE k + 1 \in X
  <2>1. PICK f : IsFlat(s, k, f)
    BY <1>2
  <2> DEFINE g == [i \in 1..(k + 1) |-> IF i = k + 1
                                         THEN IF k = 0 THEN s[1] ELSE f[k] \o s[k + 1]
                                         ELSE f[i]]
  <2>2. \A i \in 1..k : f[i] = IF i = 1 THEN s[i] ELSE f[i - 1] \o s[i]
    BY <2>1 DEF IsFlat
  <2>3. \A i \in 1..(k + 1) : g[i] = IF i = 1 THEN s[i] ELSE g[i - 1] \o s[i]
    <3> TAKE i \in 1..(k + 1)
    <3>1. CASE i = k + 1
      <4>1. CASE k = 0
        BY <3>1, <4>1
      <4>2. CASE k # 0
        <5>1. i # 1 /\ i - 1 = k /\ i - 1 \in 1..(k + 1) /\ i - 1 # k + 1
          BY <3>1, <4>2
        <5>2. g[i] = f[k] \o s[k + 1]
          BY <3>1, <4>2
        <5>3. g[i - 1] = f[k]
          BY <5>1
        <5> QED
          BY <3>1, <5>1, <5>2, <5>3
      <4> QED
        BY <4>1, <4>2
    <3>2. CASE i # k + 1
      <4>1. i \in 1..k /\ g[i] = f[i]
        BY <3>2
      <4>2. i # 1 => g[i - 1] = f[i - 1]
        BY <3>2
      <4> QED
        BY <2>2, <4>1, <4>2
    <3> QED
      BY <3>1, <3>2
  <2>4. IsFlat(s, k + 1, g)
    BY <2>3 DEF IsFlat
  <2> QED
    BY <2>4
<1> HIDE DEF X
<1>3. n \in X
  BY <1>1, <1>2, SetInduction
<1> QED
  BY <1>3 DEF X

LEMMA FlattenIsFlat ==
    ASSUME NEW s, Len(s) \in Nat \ {0}
    PROVE  \E f : IsFlat(s, Len(s), f) /\ FlattenSeq(s) = f[Len(s)]
<1> DEFINE g == CHOOSE g : g = [i \in 1..Len(s) |-> IF i = 1 THEN s[i] ELSE g[i - 1] \o s[i]]
<1>1. FlattenSeq(s) = g[Len(s)]
  BY DEF FlattenSeq
<1>2. IsFlat(s, Len(s), g)
  BY FlatExists DEF IsFlat
<1> QED
  BY <1>1, <1>2

LEMMA FlattenLists ==
    ASSUME NEW parts, NEW n \in Nat, Len(parts) = n, DOMAIN parts = 1..n,
           NEW B, \A k \in 1..n : Lists(parts[k], B[k]),
           \A j, k \in 1..n : j # k => B[j] \cap B[k] = {}
    PROVE  n # 0 => Lists(FlattenSeq(parts), UNION {B[k] : k \in 1..n})
<1> SUFFICES ASSUME n # 0 PROVE Lists(FlattenSeq(parts), UNION {B[k] : k \in 1..n})
  OBVIOUS
<1> DEFINE Upto(k) == UNION {B[i] : i \in 1..k}
<1>1. PICK f : IsFlat(parts, n, f) /\ FlattenSeq(parts) = f[n]
  BY FlattenIsFlat
<1>2. \A i \in 1..n : f[i] = IF i = 1 THEN parts[i] ELSE f[i - 1] \o parts[i]
  BY <1>1 DEF IsFlat
<1> DEFINE Y == {k \in Nat : k + 1 <= n => Lists(f[k + 1], Upto(k + 1))}
<1>3. 0 \in Y
  <2>1. 1 \in 1..n /\ f[1] = parts[1]
    BY <1>2
  <2>2. Upto(1) = B[1]
    OBVIOUS
  <2> HIDE DEF Upto
  <2> QED
    BY <2>1, <2>2
<1>4. ASSUME NEW k \in Nat, k \in Y PROVE k + 1 \in Y
  <2>1. SUFFICES ASSUME (k + 1) + 1 <= n PROVE Lists(f[(k + 1) + 1], Upto((k + 1) + 1))
    OBVIOUS
  <2> DEFINE m == k + 1
  <2>2. m \in Nat /\ m + 1 \in 1..n /\ m + 1 # 1 /\ (m + 1) - 1 = m
    BY <2>1
  <2>3. Lists(f[m], Upto(m))
    BY <1>4, <2>1
  <2> HIDE DEF m
  <2>4. f[m + 1] = f[m] \o parts[m + 1]
    BY <1>2, <2>2
  <2>5. Upto(m + 1) = Upto(m) \cup B[m + 1]
    <3>1. (\A i \in 1..(m + 1) : i \in 1..m \/ i = m + 1) /\ (\A i \in 1..m : i \in 1..(m + 1))
          /\ m + 1 \in 1..(m + 1)
      BY <2>2
    <3> QED
      BY <3>1
  <2>6. Upto(m) \cap B[m + 1] = {}
    <3>1. \A i \in 1..m : i \in 1..n /\ i # m + 1
      BY <2>2
    <3>2. \A i \in 1..m : B[i] \cap B[m + 1] = {}
      BY <2>2, <3>1
    <3> QED
      BY <3>2
  <2>7. Lists(parts[m + 1], B[m + 1])
    BY <2>2
  <2> HIDE DEF Upto
  <2>8. Lists(f[m + 1], Upto(m + 1))
    BY <2>3, <2>4, <2>5, <2>6, <2>7, ListsConcat
  <2> QED
    BY <2>8 DEF m
<1> HIDE DEF Y
<1>5. n - 1 \in Nat /\ (n - 1) + 1 = n
  OBVIOUS
<1>6. n - 1 \in Y
  BY <1>3, <1>4, <1>5, SetInduction
<1>7. Lists(f[n], Upto(n))
  BY <1>5, <1>6 DEF Y
<1> QED
  BY <1>1, <1>7

-------------------------------------------------------------------------------
(* Where blocks lie.                                                       *)

LEMMA Constants ==
    /\ Len(Pools) \in Nat /\ DOMAIN Pools = 1..Len(Pools) /\ Room \in Nat
    /\ \A p \in DOMAIN Pools : /\ Pools[p].elem \in Nat \ {0} /\ Pools[p].count \in Nat \ {0}
                               /\ Pools[p].elem * Pools[p].count + 16 <= Room
    /\ \A n \in Sizes : n \in Nat /\ n + 12 <= Room
    /\ \A a \in Slots : a \in Nat /\ a > 16
    /\ \A a, b \in Slots : a < b => a + Room + 16 < b
<1>1. Pools \in Seq([elem : Nat \ {0}, count : Nat \ {0}])
  BY PoolsAssumption
<1>2. Len(Pools) \in Nat /\ DOMAIN Pools = 1..Len(Pools)
  BY <1>1, LenProperties
<1>3. ASSUME NEW p \in DOMAIN Pools
      PROVE  /\ Pools[p].elem \in Nat \ {0} /\ Pools[p].count \in Nat \ {0}
             /\ Pools[p].elem * Pools[p].count + 16 <= Room
  <2>1. Pools[p] \in [elem : Nat \ {0}, count : Nat \ {0}]
    BY <1>1, <1>2, ElementOfSeq
  <2>2. PageBytes(p) <= Room
    BY PoolsAssumption
  <2>3. Padding = 8
    BY DEF Padding, MarkerSize
  <2>4. PageBytes(p) = 8 + Pools[p].elem * Pools[p].count + 8
    BY <2>3 DEF PageBytes
  <2> DEFINE v == Pools[p].elem * Pools[p].count
  <2>5. v \in Nat
    BY <2>1
  <2> HIDE DEF v
  <2>7. 8 + v + 8 = v + 16
    BY <2>5
  <2> QED
    BY <2>1, <2>2, <2>4, <2>7 DEF v
<1>4. \A n \in Sizes : n \in Nat /\ n + 12 <= Room
  <2>1. \A n \in Sizes : n \in Nat /\ SizeField + MarkerSize + n <= Room
    BY PoolsAssumption
  <2>2. SizeField + MarkerSize = 12
    BY DEF SizeField, MarkerSize
  <2> QED
    BY <2>1, <2>2
<1> QED
  BY <1>2, <1>3, <1>4, PoolsAssumption

\* the n bytes from b on are in the memory that the system gave out at a
InZone(a, b, n) == a + 8 <= b /\ b + n <= a + Room + 16

LEMMA ZonesApart ==
    ASSUME NEW a \in Slots, NEW c \in Slots, a # c,
           NEW b \in Nat, NEW d \in Nat, NEW n \in Nat \ {0}, NEW k \in Nat \ {0},
           InZone(a, b, n), InZone(c, d, k)
    PROVE  b # d /\ (b + n <= d \/ d + k <= b)
<1>1. /\ a \in Nat /\ c \in Nat /\ Room \in Nat
      /\ a < c => a + Room + 16 < c
      /\ c < a => c + Room + 16 < a
  BY Constants
<1> QED
  BY <1>1 DEF InZone

LEMMA BlockAt ==
    ASSUME NEW p \in DOMAIN Pools, NEW a \in Slots, NEW i \in 1..Pools[p].count
    PROVE  /\ Block(p, a, i) \in Nat
           /\ InZone(a, Block(p, a, i), Pools[p].elem)
<1> DEFINE e == Pools[p].elem
           c == Pools[p].count
<1>1. e \in Nat \ {0} /\ c \in Nat \ {0} /\ e * c + 16 <= Room /\ Room \in Nat /\ a \in Nat
  BY Constants
<1>2. Block(p, a, i) = a + 8 + (i - 1) * e
  BY DEF Block, Padding, MarkerSize
<1>3. i - 1 \in Nat /\ i \in Nat /\ i <= c
  BY <1>1
<1> HIDE DEF e, c
<1>4. (i - 1) * e \in Nat /\ (i - 1) * e + e = i * e /\ i * e \in Nat /\ e * c \in Nat
  BY <1>1, <1>3
<1>5. i * e <= e * c
  BY <1>1, <1>3
<1> DEFINE x == (i - 1) * e
           y == i * e
           z == e * c
<1>6. x \in Nat /\ y \in Nat /\ z \in Nat /\ x + e = y /\ y <= z /\ z + 16 <= Room
      /\ Block(p, a, i) = a + 8 + x
  BY <1>1, <1>2, <1>4, <1>5
<1> HIDE DEF x, y, z
<1>7. Block(p, a, i) \in Nat /\ InZone(a, Block(p, a, i), e)
  BY <1>1, <1>6 DEF InZone
<1> QED
  BY <1>7 DEF e

LEMMA BlocksApart ==
    ASSUME NEW p \in DOMAIN Pools, NEW a \in Slots,
           NEW i \in 1..Pools[p].count, NEW j \in 1..Pools[p].count, i # j
    PROVE  /\ Block(p, a, i) # Block(p, a, j)
           /\ \/ Block(p, a, i) + Pools[p].elem <= Block(p, a, j)
              \/ Block(p, a, j) + Pools[p].elem <= Block(p, a, i)
<1> DEFINE e == Pools[p].elem
<1>1. e \in Nat \ {0} /\ Pools[p].count \in Nat /\ a \in Nat
  BY Constants
<1>2. /\ Block(p, a, i) = a + 8 + (i - 1) * e
      /\ Block(p, a, j) = a + 8 + (j - 1) * e
  BY DEF Block, Padding, MarkerSize
<1> HIDE DEF e
<1>3. \A x, y \in Nat : x < y => x * e + e <= y * e /\ x * e \in Nat /\ y * e \in Nat
  BY <1>1
<1>4. i - 1 \in Nat /\ j - 1 \in Nat /\ (i - 1 < j - 1 \/ j - 1 < i - 1)
  BY <1>1
<1> DEFINE x == (i - 1) * e
           y == (j - 1) * e
<1>5. x \in Nat /\ y \in Nat /\ (x + e <= y \/ y + e <= x)
  BY <1>1, <1>3, <1>4
<1>6. Block(p, a, i) = a + 8 + x /\ Block(p, a, j) = a + 8 + y
  BY <1>2
<1> HIDE DEF x, y
<1>7. /\ Block(p, a, i) # Block(p, a, j)
      /\ Block(p, a, i) + e <= Block(p, a, j) \/ Block(p, a, j) + e <= Block(p, a, i)
  BY <1>1, <1>5, <1>6
<1> QED
  BY <1>7 DEF e

-------------------------------------------------------------------------------
(* The pool for an object.                                                 *)

LEMMA PoolForIs ==
    ASSUME NEW bytes \in Nat
    PROVE  \/ PoolFor(bytes) = 0 /\ 0 \notin DOMAIN Pools
           \/ PoolFor(bytes) \in DOMAIN Pools /\ bytes <= Pools[PoolFor(bytes)].elem
              /\ PoolFor(bytes) # 0
<1> DEFINE fit == {p \in DOMAIN Pools : bytes <= Pools[p].elem}
<1>1. fit \in SUBSET Nat /\ 0 \notin DOMAIN Pools
  BY Constants
<1>2. PoolFor(bytes) = IF fit = {} THEN 0 ELSE CHOOSE p \in fit : \A q \in fit : p <= q
  BY DEF PoolFor
<1> HIDE DEF fit
<1>3. CASE fit = {}
  BY <1>1, <1>2, <1>3
<1>4. CASE fit # {}
  <2>1. \E p \in fit : \A q \in fit : p <= q
    BY <1>1, <1>4, LeastExists
  <2>2. PoolFor(bytes) \in fit
    BY <1>2, <1>4, <2>1
  <2> QED
    BY <1>1, <2>2 DEF fit
<1> QED
  BY <1>3, <1>4

LEMMA PoolForRange ==
    ASSUME NEW bytes \in Nat
    PROVE  PoolFor(bytes) \in DOMAIN Pools \cup {0}
BY PoolForIs

LEMMA RealSizeIs ==
    ASSUME NEW bytes \in Nat
    PROVE  RealSize(bytes) \in Nat /\ bytes <= RealSize(bytes)
<1>1. CASE PoolFor(bytes) = 0
  BY <1>1 DEF RealSize
<1>2. CASE PoolFor(bytes) # 0
  BY <1>2, PoolForIs, Constants DEF RealSize
<1> QED
  BY <1>1, <1>2

-------------------------------------------------------------------------------
(* The invariant.                                                          *)

PoolType   == [pages : Seq(Slots), last : Nat, sorted : Seq(Slots), free : Seq(Nat)]
BigType    == [slot : Slots, start : Nat, size : Nat]
MemoryType == [pools : [DOMAIN Pools -> PoolType], big : SUBSET BigType,
               used : Nat, minimum : Nat]
Object     == [ptr : Nat, size : Sizes]

\* the blocks of the k-th page of a pool that were handed out, and of all its pages
GivenOf(pool, p, k) == {Block(p, pool.pages[k], i) : i \in 1..Out(pool, p, k)}
Given(pool, p)      == UNION {GivenOf(pool, p, k) : k \in DOMAIN pool.pages}

\* the objects of a pool, 0 for the big blocks, and the blocks they take
PoolOf(o)   == PoolFor(o.size + MarkerSize)
In(p, O)    == {o \in O : PoolOf(o) = p}
Heads(p, O) == {o.ptr - MarkerSize : o \in In(p, O)}

(***************************************************************************)
(* What a pool is to the blocks H that objects take: a block that a page   *)
(* handed out is in H or, once, on the free list, and no other is.         *)
(***************************************************************************)
PoolKept(pool, p, H) ==
    /\ pool \in PoolType
    /\ pool.last \in 0..Pools[p].count
    /\ pool.pages = <<>> => pool.last = Pools[p].count
    /\ IsInjective(pool.pages) /\ IsInjective(pool.free)
    /\ ToSet(pool.free) \cap H = {}
    /\ Given(pool, p) = ToSet(pool.free) \cup H

Pages(m, p) == ToSet(m.pools[p].pages)

\* the system gave out each page and each big block once
PagesApart(m) ==
    /\ \A p, q \in DOMAIN Pools : p # q => Pages(m, p) \cap Pages(m, q) = {}
    /\ \A r \in m.big, p \in DOMAIN Pools : r.slot \notin Pages(m, p)
    /\ \A r, s \in m.big : r.slot = s.slot => r = s

\* the big blocks and the objects in them
BigOf(o)    == [ptr |-> BigData(o), size |-> o.size - MarkerSize]
BigKept(m, O) ==
    /\ \A o \in In(0, O) : \E r \in m.big : BigOf(r) = o
    /\ \A r \in m.big : r = BigBlock(r.slot, r.size) /\ BigOf(r) \in In(0, O)

Cost(O) == [o \in O |-> RealSize(o.size + MarkerSize)]

Sound(m, O) ==
    /\ m \in MemoryType
    /\ IsFiniteSet(O) /\ O \subseteq Object
    /\ \A p \in DOMAIN Pools : PoolKept(m.pools[p], p, Heads(p, O))
    /\ PagesApart(m)
    /\ BigKept(m, O)
    /\ \A o, q \in O : o.ptr = q.ptr => o = q
    /\ m.used = Total(Cost(O))

IInv == Sound(mem, objects) /\ limit \in Nat /\ enabled \in BOOLEAN

-------------------------------------------------------------------------------
(* One pool.                                                               *)

LEMMA PoolFacts ==
    ASSUME NEW pool, NEW p \in DOMAIN Pools, NEW H, PoolKept(pool, p, H)
    PROVE  /\ Lists(pool.pages, ToSet(pool.pages)) /\ Lists(pool.free, ToSet(pool.free))
           /\ ToSet(pool.pages) \subseteq Slots
           /\ Len(pool.pages) \in Nat /\ DOMAIN pool.pages = 1..Len(pool.pages)
           /\ \A k \in DOMAIN pool.pages : /\ pool.pages[k] \in Slots
                                           /\ Out(pool, p, k) \in Nat
                                           /\ Out(pool, p, k) <= Pools[p].count
                                           /\ \A i \in 1..Out(pool, p, k) : i \in 1..Pools[p].count
           /\ \A j, k \in DOMAIN pool.pages : pool.pages[j] = pool.pages[k] => j = k
<1>1. pool.pages \in Seq(Slots) /\ pool.free \in Seq(Nat)
  BY DEF PoolKept, PoolType
<1>2. IsInjective(pool.pages) /\ IsInjective(pool.free)
  BY DEF PoolKept
<1>3. Len(pool.pages) \in Nat /\ DOMAIN pool.pages = 1..Len(pool.pages)
      /\ \A k \in DOMAIN pool.pages : pool.pages[k] \in Slots
  BY <1>1, LenProperties, ElementOfSeq
<1>4. Pools[p].count \in Nat /\ pool.last \in 0..Pools[p].count
  BY Constants DEF PoolKept
<1>5. \A k \in DOMAIN pool.pages : /\ Out(pool, p, k) \in Nat
                                   /\ Out(pool, p, k) <= Pools[p].count
  BY <1>4 DEF Out
<1>6. \A k \in DOMAIN pool.pages : \A i \in 1..Out(pool, p, k) : i \in 1..Pools[p].count
  <2>1. \A x \in Nat : x <= Pools[p].count => \A i \in 1..x : i \in 1..Pools[p].count
    BY <1>4
  <2> QED
    BY <1>5, <2>1
<1>7. Lists(pool.pages, ToSet(pool.pages)) /\ Lists(pool.free, ToSet(pool.free))
  BY <1>1, <1>2, SetLists
<1>8. ToSet(pool.pages) \subseteq Slots
  BY <1>3 DEF ToSet
<1>9. \A j, k \in DOMAIN pool.pages : pool.pages[j] = pool.pages[k] => j = k
  BY <1>2 DEF IsInjective
<1> QED
  BY <1>3, <1>5, <1>6, <1>7, <1>8, <1>9

\* the blocks of different pages are different
LEMMA GivenApart ==
    ASSUME NEW pool, NEW p \in DOMAIN Pools, NEW H, PoolKept(pool, p, H),
           NEW j \in DOMAIN pool.pages, NEW k \in DOMAIN pool.pages, j # k
    PROVE  GivenOf(pool, p, j) \cap GivenOf(pool, p, k) = {}
<1>1. pool.pages[j] \in Slots /\ pool.pages[k] \in Slots /\ pool.pages[j] # pool.pages[k]
  BY PoolFacts
<1>2. SUFFICES ASSUME NEW x \in GivenOf(pool, p, j), NEW y \in GivenOf(pool, p, k) PROVE x # y
  OBVIOUS
<1>3. PICK i \in 1..Out(pool, p, j) : x = Block(p, pool.pages[j], i)
  BY <1>2 DEF GivenOf
<1>4. PICK h \in 1..Out(pool, p, k) : y = Block(p, pool.pages[k], h)
  BY <1>2 DEF GivenOf
<1>5. i \in 1..Pools[p].count /\ h \in 1..Pools[p].count
  BY PoolFacts
<1>6. /\ x \in Nat /\ InZone(pool.pages[j], x, Pools[p].elem)
      /\ y \in Nat /\ InZone(pool.pages[k], y, Pools[p].elem)
  BY <1>1, <1>3, <1>4, <1>5, BlockAt
<1>7. Pools[p].elem \in Nat \ {0}
  BY Constants
<1> QED
  BY <1>1, <1>6, <1>7, ZonesApart

LEMMA CarvedLists ==
    ASSUME NEW pool, NEW p \in DOMAIN Pools, NEW H, PoolKept(pool, p, H)
    PROVE  Lists(Carved(pool, p), Given(pool, p))
<1> DEFINE n == Len(pool.pages)
           B == [k \in 1..n |-> GivenOf(pool, p, k)]
           parts == [k \in DOMAIN pool.pages |->
                        [i \in 1..Out(pool, p, k) |-> Block(p, pool.pages[k], i)]]
<1>1. n \in Nat /\ DOMAIN pool.pages = 1..n
  BY PoolFacts
<1>2. Carved(pool, p) = FlattenSeq(parts)
  BY DEF Carved
<1>3. Len(parts) = n /\ DOMAIN parts = 1..n
  BY <1>1
<1>4. ASSUME NEW k \in 1..n PROVE Lists(parts[k], B[k])
  <2> DEFINE s == [i \in 1..Out(pool, p, k) |-> Block(p, pool.pages[k], i)]
             c == Out(pool, p, k)
  <2>1. c \in Nat /\ pool.pages[k] \in Slots /\ \A i \in 1..c : i \in 1..Pools[p].count
    BY <1>1, PoolFacts
  <2>2. \A i, j \in 1..c : Block(p, pool.pages[k], i) = Block(p, pool.pages[k], j) => i = j
    BY <2>1, BlocksApart
  <2>3. B[k] = {Block(p, pool.pages[k], i) : i \in 1..c}
    BY DEF GivenOf
  <2>4. parts[k] = s
    BY <1>1
  <2> HIDE DEF c, parts, B, n
  <2>5. s = [i \in 1..c |-> Block(p, pool.pages[k], i)]
    BY DEF c
  <2> HIDE DEF s
  <2>6. s \in Seq(B[k]) /\ Len(s) = c /\ \A i \in 1..c : s[i] = Block(p, pool.pages[k], i)
    BY <2>1, <2>3, <2>5
  <2>7. (\A i, j \in 1..c : s[i] = s[j] => i = j) /\ \A x \in B[k] : \E i \in 1..c : s[i] = x
    BY <2>2, <2>3, <2>6
  <2> QED
    BY <2>4, <2>6, <2>7 DEF Lists
<1>5. \A j, k \in 1..n : j # k => B[j] \cap B[k] = {}
  BY <1>1, GivenApart
<1>6. Given(pool, p) = UNION {B[k] : k \in 1..n}
  <2>1. \A k \in 1..n : B[k] = GivenOf(pool, p, k)
    OBVIOUS
  <2> HIDE DEF B
  <2> QED
    BY <1>1, <2>1 DEF Given
<1> HIDE DEF B, parts
<1>7. CASE n # 0
  <2> HIDE DEF n
  <2>1. \A k \in 1..n : Lists(parts[k], B[k])
    BY <1>4
  <2>2. n \in Nat /\ Len(parts) = n /\ DOMAIN parts = 1..n
    BY <1>1, <1>3
  <2>3. Lists(FlattenSeq(parts), UNION {B[k] : k \in 1..n})
    BY <1>5, <1>7, <2>1, <2>2, FlattenLists
  <2> QED
    BY <1>2, <1>6, <2>3
<1>8. CASE n = 0
  <2>1. Given(pool, p) = {}
    BY <1>1, <1>6, <1>8
  <2>2. FlattenSeq(parts) = parts
    BY <1>3, <1>8 DEF FlattenSeq
  <2>3. parts = <<>>
    <3>1. DOMAIN pool.pages = 1..0
      BY <1>1, <1>8
    <3> QED
      BY <3>1 DEF parts
  <2> QED
    BY <1>2, <2>1, <2>2, <2>3, ListsEmpty
<1> QED
  BY <1>7, <1>8

LEMMA GivenAt ==
    ASSUME NEW pool, NEW p \in DOMAIN Pools, NEW H, PoolKept(pool, p, H), NEW x \in Given(pool, p)
    PROVE  /\ x \in Nat
           /\ \E a \in ToSet(pool.pages) : InZone(a, x, Pools[p].elem)
           /\ \E a \in ToSet(pool.pages), i \in 1..Pools[p].count : x = Block(p, a, i)
<1>1. PICK k \in DOMAIN pool.pages : x \in GivenOf(pool, p, k)
  BY DEF Given
<1>2. PICK i \in 1..Out(pool, p, k) : x = Block(p, pool.pages[k], i)
  BY <1>1 DEF GivenOf
<1>3. pool.pages[k] \in Slots /\ i \in 1..Pools[p].count
  BY PoolFacts
<1>4. pool.pages[k] \in ToSet(pool.pages)
  BY DEF ToSet
<1> QED
  BY <1>2, <1>3, <1>4, BlockAt

-------------------------------------------------------------------------------
(* A collection returns blocks.                                            *)

LEMMA FreedLists ==
    ASSUME NEW pool, NEW p \in DOMAIN Pools, NEW H, PoolKept(pool, p, H), NEW G
    PROVE  Lists(FreedOf(pool, p, G), H \cap {o.ptr - MarkerSize : o \in G})
<1> DEFINE S == {o.ptr - MarkerSize : o \in G}
           F == ToSet(pool.free)
<1>1. Lists(Only(Carved(pool, p), S \ F), Given(pool, p) \cap (S \ F))
  BY CarvedLists, OnlyLists
<1>2. Given(pool, p) \cap (S \ F) = H \cap S
  BY DEF PoolKept
<1> QED
  BY <1>1, <1>2 DEF FreedOf

Returned(pool, gone) == [pool EXCEPT !.free = Reverse(gone) \o @]

LEMMA ReturnedKept ==
    ASSUME NEW pool, NEW p \in DOMAIN Pools, NEW H, PoolKept(pool, p, H),
           NEW K \in SUBSET H, NEW gone, Lists(gone, K)
    PROVE  PoolKept(Returned(pool, gone), p, H \ K)
<1> DEFINE q == Returned(pool, gone)
           F == ToSet(pool.free)
           f == Reverse(gone) \o pool.free
<1>1. pool \in PoolType /\ F \cap H = {} /\ Given(pool, p) = F \cup H
  BY DEF PoolKept
<1>2. q = [pool EXCEPT !.free = f]
  BY DEF Returned
<1>3. Lists(f, K \cup F)
  <2>1. Lists(Reverse(gone), K)
    BY ListsReverse
  <2>2. Lists(pool.free, F) /\ K \cap F = {}
    BY <1>1, PoolFacts
  <2> HIDE DEF F
  <2> QED
    BY <2>1, <2>2, ListsConcat
<1>4. K \cup F \subseteq Nat
  BY <1>1, GivenAt
<1>5. f \in Seq(Nat) /\ ToSet(f) = K \cup F /\ IsInjective(f)
  <2>1. f \in Seq(K \cup F) /\ ToSet(f) = K \cup F /\ IsInjective(f) /\ Len(f) \in Nat
        /\ DOMAIN f = 1..Len(f)
    BY <1>3, ListsSet
  <2> QED
    BY <1>4, <2>1
<1> HIDE DEF f
<1>6. /\ q \in PoolType
      /\ q.pages = pool.pages /\ q.last = pool.last /\ q.free = f
  BY <1>1, <1>2, <1>5 DEF PoolType
<1> HIDE DEF q
<1>7. Given(q, p) = Given(pool, p)
  <2>1. \A k : GivenOf(q, p, k) = GivenOf(pool, p, k)
    BY <1>6 DEF GivenOf, Out
  <2> QED
    BY <1>6, <2>1 DEF Given
<1>8. ToSet(q.free) \cap (H \ K) = {} /\ Given(q, p) = ToSet(q.free) \cup (H \ K)
  BY <1>1, <1>5, <1>6, <1>7
<1>9. PoolKept(q, p, H \ K)
  <2>1. /\ pool.last \in 0..Pools[p].count
        /\ pool.pages = <<>> => pool.last = Pools[p].count
        /\ IsInjective(pool.pages)
    BY DEF PoolKept
  <2> QED
    BY <1>5, <1>6, <1>8, <2>1 DEF PoolKept
<1> QED
  BY <1>9 DEF q

-------------------------------------------------------------------------------
(* An allocation takes one.                                                *)

LEMMA TakenFreed ==
    ASSUME NEW pool, NEW p \in DOMAIN Pools, NEW H, PoolKept(pool, p, H), pool.free # <<>>
    PROVE  /\ Head(pool.free) \notin H
           /\ PoolKept([pool EXCEPT !.free = Tail(@)], p, H \cup {Head(pool.free)})
<1> DEFINE F == ToSet(pool.free)
           x == Head(pool.free)
           f == Tail(pool.free)
           q == [pool EXCEPT !.free = f]
<1>1. pool \in PoolType /\ F \cap H = {} /\ Given(pool, p) = F \cup H
  BY DEF PoolKept
<1>2. x \in F /\ Lists(f, F \ {x})
  BY PoolFacts, ListsTail
<1>3. F \subseteq Nat
  BY <1>1, GivenAt
<1>4. f \in Seq(Nat) /\ ToSet(f) = F \ {x} /\ IsInjective(f)
  <2>1. f \in Seq(F \ {x}) /\ ToSet(f) = F \ {x} /\ IsInjective(f) /\ Len(f) \in Nat
        /\ DOMAIN f = 1..Len(f)
    BY <1>2, ListsSet
  <2> QED
    BY <1>3, <2>1
<1> HIDE DEF f
<1>5. /\ q \in PoolType
      /\ q.pages = pool.pages /\ q.last = pool.last /\ q.free = f
  BY <1>1, <1>4 DEF PoolType
<1> HIDE DEF q
<1>6. Given(q, p) = Given(pool, p)
  <2>1. \A k : GivenOf(q, p, k) = GivenOf(pool, p, k)
    BY <1>5 DEF GivenOf, Out
  <2> QED
    BY <1>5, <2>1 DEF Given
<1>7. ToSet(q.free) \cap (H \cup {x}) = {} /\ Given(q, p) = ToSet(q.free) \cup (H \cup {x})
  BY <1>1, <1>2, <1>4, <1>5, <1>6
<1>8. PoolKept(q, p, H \cup {x})
  <2>1. /\ pool.last \in 0..Pools[p].count
        /\ pool.pages = <<>> => pool.last = Pools[p].count
        /\ IsInjective(pool.pages)
    BY DEF PoolKept
  <2> HIDE DEF x
  <2> QED
    BY <1>4, <1>5, <1>7, <2>1 DEF PoolKept
<1> QED
  BY <1>1, <1>2, <1>8 DEF q, f

\* the same free list and one more block handed out
LEMMA OneMore ==
    ASSUME NEW pool, NEW p \in DOMAIN Pools, NEW H, PoolKept(pool, p, H), pool.free = <<>>,
           NEW q \in PoolType, NEW x, x \notin Given(pool, p),
           q.free = <<>>, Given(q, p) = Given(pool, p) \cup {x},
           q.last \in 0..Pools[p].count, q.pages # <<>>, IsInjective(q.pages)
    PROVE  x \notin H /\ PoolKept(q, p, H \cup {x})
<1>1. ToSet(pool.free) = {}
  BY DEF ToSet
<1>2. Given(pool, p) = H /\ IsInjective(pool.free)
  BY <1>1 DEF PoolKept
<1>3. Given(q, p) = ToSet(q.free) \cup (H \cup {x}) /\ ToSet(q.free) \cap (H \cup {x}) = {}
      /\ IsInjective(q.free)
  BY <1>1, <1>2
<1> QED
  BY <1>2, <1>3 DEF PoolKept

LEMMA InsertIs ==
    ASSUME NEW D, NEW s \in Seq(D), NEW x \in D
    PROVE  LET c == Cardinality({k \in DOMAIN s : s[k] < x})
           IN /\ c \in 0..Len(s)
              /\ Insert(s, x) \in Seq(D) /\ Len(Insert(s, x)) = Len(s) + 1
              /\ \A i \in 1..(Len(s) + 1) :
                    Insert(s, x)[i] = IF i <= c THEN s[i] ELSE IF i = c + 1 THEN x ELSE s[i - 1]
<1> DEFINE n == Len(s)
           below == {k \in DOMAIN s : s[k] < x}
           c == Cardinality(below)
<1>1. n \in Nat /\ DOMAIN s = 1..n /\ \A i \in 1..n : s[i] \in D
  BY LenProperties, ElementOfSeq
<1>2. c \in 0..n
  <2>1. IsFiniteSet(1..n) /\ Cardinality(1..n) = n
    <3> HIDE DEF n
    <3> QED
      BY <1>1, FS_Interval
  <2>2. below \subseteq 1..n
    BY <1>1
  <2> HIDE DEF below
  <2>3. c \in Nat /\ c <= n
    BY <2>1, <2>2, FS_Subset, FS_CardinalityType
  <2> QED
    BY <1>1, <2>3
<1> DEFINE u == SubSeq(s, 1, (c + 1) - 1)
           v == SubSeq(s, c + 1, n)
<1>3. Insert(s, x) = u \o <<x>> \o v
  BY DEF Insert, InsertAt
<1> HIDE DEF c, n
<1>4. (c + 1) - 1 = c /\ c \in Int /\ c + 1 \in Int /\ n \in Int
  BY <1>1, <1>2
<1>5. u \in Seq(D) /\ Len(u) = c /\ \A i \in 1..c : u[i] = s[i]
  <2>1. \A i \in 1..c : s[i] \in D
    BY <1>1, <1>2
  <2> DEFINE w == SubSeq(s, 1, c)
  <2>2. /\ w \in Seq(D)
        /\ Len(w) = IF 1 <= c THEN c - 1 + 1 ELSE 0
        /\ \A i \in 1..(c - 1 + 1) : w[i] = s[1 + i - 1]
    BY <1>4, <2>1, SubSeqProperties
  <2>3. u = w
    BY <1>4
  <2> HIDE DEF u, w
  <2> QED
    BY <1>1, <1>2, <2>2, <2>3
<1>6. v \in Seq(D) /\ Len(v) = n - c /\ \A i \in 1..(n - c) : v[i] = s[c + i]
  <2>1. \A i \in (c + 1)..n : s[i] \in D
    BY <1>1, <1>2
  <2>2. /\ v \in Seq(D)
        /\ Len(v) = IF c + 1 <= n THEN n - (c + 1) + 1 ELSE 0
        /\ \A i \in 1..(n - (c + 1) + 1) : v[i] = s[(c + 1) + i - 1]
    BY <1>4, <2>1, SubSeqProperties
  <2> HIDE DEF v
  <2> QED
    BY <1>1, <1>2, <2>2
<1> HIDE DEF u, v
<1> DEFINE w == u \o <<x>>
<1>7. /\ w \in Seq(D) /\ Len(w) = c + 1
      /\ \A i \in 1..(c + 1) : w[i] = IF i <= c THEN s[i] ELSE x
  <2>1. <<x>> \in Seq(D) /\ Len(<<x>>) = 1 /\ <<x>>[1] = x
    OBVIOUS
  <2>2. /\ w \in Seq(D) /\ Len(w) = Len(u) + Len(<<x>>)
        /\ \A i \in 1..(Len(u) + Len(<<x>>)) :
              w[i] = IF i <= Len(u) THEN u[i] ELSE <<x>>[i - Len(u)]
    BY <1>5, <2>1, ConcatProperties
  <2>3. \A i \in 1..(c + 1) : w[i] = IF i <= c THEN u[i] ELSE <<x>>[i - c]
    BY <1>5, <2>1, <2>2
  <2> HIDE DEF w
  <2>4. ASSUME NEW i \in 1..(c + 1) PROVE w[i] = IF i <= c THEN s[i] ELSE x
    <3>1. CASE i <= c
      <4>1. i \in 1..c
        BY <1>2, <3>1
      <4> QED
        BY <1>5, <2>3, <3>1, <4>1
    <3>2. CASE ~(i <= c)
      <4>1. i - c = 1
        BY <1>1, <1>2, <3>2
      <4> QED
        BY <2>1, <2>3, <3>2, <4>1
    <3> QED
      BY <3>1, <3>2
  <2> QED
    BY <1>1, <1>2, <1>5, <2>1, <2>2, <2>4
<1> DEFINE z == w \o v
<1>8. Insert(s, x) = z
  BY <1>3
<1> HIDE DEF w
<1>9. /\ z \in Seq(D) /\ Len(z) = (c + 1) + (n - c)
      /\ \A i \in 1..((c + 1) + (n - c)) : z[i] = IF i <= c + 1 THEN w[i] ELSE v[i - (c + 1)]
  <2>1. /\ z \in Seq(D) /\ Len(z) = Len(w) + Len(v)
        /\ \A i \in 1..(Len(w) + Len(v)) : z[i] = IF i <= Len(w) THEN w[i] ELSE v[i - Len(w)]
    BY <1>6, <1>7, ConcatProperties
  <2> HIDE DEF z
  <2> QED
    BY <1>6, <1>7, <2>1
<1> HIDE DEF z
<1>10. (c + 1) + (n - c) = n + 1
  BY <1>1, <1>2
<1>11. ASSUME NEW i \in 1..(n + 1)
       PROVE  z[i] = IF i <= c THEN s[i] ELSE IF i = c + 1 THEN x ELSE s[i - 1]
  <2>1. CASE i <= c + 1
    <3>1. i \in 1..(c + 1) /\ (i <= c \/ (~(i <= c) /\ i = c + 1))
      BY <1>1, <1>2, <2>1
    <3> QED
      BY <1>7, <1>9, <1>10, <2>1, <3>1
  <2>2. CASE ~(i <= c + 1)
    <3>1. i - (c + 1) \in 1..(n - c) /\ c + (i - (c + 1)) = i - 1 /\ ~(i <= c) /\ i # c + 1
      BY <1>1, <1>2, <2>2
    <3> QED
      BY <1>6, <1>9, <1>10, <2>2, <3>1
  <2> QED
    BY <2>1, <2>2
<1>12. /\ c \in 0..n
       /\ Insert(s, x) \in Seq(D) /\ Len(Insert(s, x)) = n + 1
       /\ \A i \in 1..(n + 1) :
             Insert(s, x)[i] = IF i <= c THEN s[i] ELSE IF i = c + 1 THEN x ELSE s[i - 1]
  BY <1>2, <1>8, <1>9, <1>10, <1>11
<1> QED
  BY <1>12 DEF c, n

\* the first block of a new page
WithPage(pool, slot) ==
    [pool EXCEPT !.pages = <<slot>> \o @, !.last = 1, !.sorted = Insert(@, slot)]

LEMMA TakenPage ==
    ASSUME NEW pool, NEW p \in DOMAIN Pools, NEW H, PoolKept(pool, p, H),
           pool.free = <<>>, pool.last = Pools[p].count,
           NEW slot \in Slots, slot \notin ToSet(pool.pages)
    PROVE  /\ Block(p, slot, 1) \notin H
           /\ PoolKept(WithPage(pool, slot), p, H \cup {Block(p, slot, 1)})
           /\ ToSet(WithPage(pool, slot).pages) = ToSet(pool.pages) \cup {slot}
<1> DEFINE x == Block(p, slot, 1)
           q == WithPage(pool, slot)
           n == Len(pool.pages)
           e == Pools[p].elem
           c == Pools[p].count
           pages == <<slot>> \o pool.pages
           sorted == Insert(pool.sorted, slot)
<1>1. pool \in PoolType
  BY DEF PoolKept
<1>2. e \in Nat \ {0} /\ c \in Nat \ {0} /\ 1 \in 1..c
  BY Constants
<1>3. n \in Nat /\ DOMAIN pool.pages = 1..n /\ pool.pages \in Seq(Slots)
  BY <1>1, PoolFacts DEF PoolType
<1>4. sorted \in Seq(Slots)
  BY <1>1, InsertIs DEF PoolType
<1>5. Lists(pages, {slot} \cup ToSet(pool.pages))
  <2>1. Lists(pool.pages, ToSet(pool.pages)) /\ {slot} \cap ToSet(pool.pages) = {}
    BY PoolFacts
  <2> QED
    BY <2>1, ListsOne, ListsConcat
<1>6. /\ pages \in Seq(Slots) /\ Len(pages) = n + 1 /\ pages[1] = slot
      /\ DOMAIN pages = 1..(n + 1)
      /\ \A k \in 1..n : pages[k + 1] = pool.pages[k]
  <2>1. <<slot>> \in Seq(Slots) /\ Len(<<slot>>) = 1 /\ <<slot>>[1] = slot
    OBVIOUS
  <2>2. /\ pages \in Seq(Slots) /\ Len(pages) = 1 + n
        /\ \A k \in 1..(1 + n) : pages[k] = IF k <= 1 THEN <<slot>>[k] ELSE pool.pages[k - 1]
    BY <1>3, <2>1, ConcatProperties
  <2>3. 1 \in 1..(1 + n) /\ \A k \in 1..n : k + 1 \in 1..(1 + n) /\ ~(k + 1 <= 1) /\ (k + 1) - 1 = k
    BY <1>3
  <2> HIDE DEF pages, n
  <2>4. DOMAIN pages = 1..Len(pages) /\ 1 + n = n + 1
    BY <1>3, <2>2, LenProperties
  <2> QED
    BY <1>3, <2>1, <2>2, <2>3, <2>4
<1>7. ToSet(pages) = ToSet(pool.pages) \cup {slot} /\ IsInjective(pages)
  BY <1>5, ListsSet
<1>8. q = [pool EXCEPT !.pages = pages, !.last = 1, !.sorted = sorted]
  BY DEF WithPage
<1> HIDE DEF pages, sorted
<1> HIDE DEF q, n
<1>9. /\ q \in PoolType
      /\ q.pages = pages /\ q.last = 1 /\ q.free = pool.free
  <2>1. pages \in Seq(Slots)
    BY <1>6
  <2>2. q.pages = pages /\ q.last = 1 /\ q.free = pool.free
    BY <1>1, <1>8 DEF PoolType
  <2> QED
    BY <1>1, <1>4, <1>8, <2>1, <2>2 DEF PoolType
<1>10. GivenOf(q, p, 1) = {x}
  <2>1. Out(q, p, 1) = 1 /\ 1..1 = {1}
    BY <1>9 DEF Out
  <2> QED
    BY <1>6, <1>9, <2>1 DEF GivenOf
<1>11. \A k \in 1..n : GivenOf(q, p, k + 1) = GivenOf(pool, p, k)
  <2>1. \A k \in 1..n : k + 1 # 1
    BY <1>3
  <2>2. \A k \in 1..n : Out(q, p, k + 1) = c /\ Out(pool, p, k) = c
    BY <2>1 DEF Out
  <2> QED
    BY <1>6, <1>9, <2>2 DEF GivenOf
<1>12. Given(q, p) = Given(pool, p) \cup {x}
  <2>1. \A k \in 1..(n + 1) : k = 1 \/ (k - 1 \in 1..n /\ (k - 1) + 1 = k)
    BY <1>3
  <2>2. 1 \in 1..(n + 1) /\ \A k \in 1..n : k + 1 \in 1..(n + 1)
    BY <1>3
  <2>3. Given(q, p) \subseteq Given(pool, p) \cup {x}
    <3>1. SUFFICES ASSUME NEW k \in 1..(n + 1), NEW b \in GivenOf(q, p, k)
                   PROVE  b \in Given(pool, p) \cup {x}
      BY <1>6, <1>9 DEF Given
    <3>2. CASE k = 1
      BY <1>10, <3>1, <3>2
    <3>3. CASE k - 1 \in 1..n /\ (k - 1) + 1 = k
      <4>1. b \in GivenOf(pool, p, k - 1)
        BY <1>11, <3>1, <3>3
      <4> QED
        BY <1>3, <3>3, <4>1 DEF Given
    <3> QED
      BY <2>1, <3>2, <3>3
  <2>4. Given(pool, p) \subseteq Given(q, p)
    <3>1. SUFFICES ASSUME NEW k \in 1..n, NEW b \in GivenOf(pool, p, k)
                   PROVE  b \in Given(q, p)
      BY <1>3 DEF Given
    <3>2. b \in GivenOf(q, p, k + 1) /\ k + 1 \in DOMAIN q.pages
      BY <1>6, <1>9, <1>11, <2>2, <3>1
    <3> QED
      BY <3>2 DEF Given
  <2>5. x \in Given(q, p)
    <3>1. x \in GivenOf(q, p, 1) /\ 1 \in DOMAIN q.pages
      BY <1>6, <1>9, <1>10, <2>2
    <3> QED
      BY <3>1 DEF Given
  <2> QED
    BY <2>3, <2>4, <2>5
<1>13. x \notin Given(pool, p)
  <2>1. SUFFICES ASSUME x \in Given(pool, p) PROVE FALSE
    OBVIOUS
  <2>2. x \in Nat /\ InZone(slot, x, e)
    BY <1>2, BlockAt
  <2>3. PICK a \in ToSet(pool.pages) : InZone(a, x, e)
    BY <2>1, GivenAt
  <2>4. a \in Slots /\ a # slot
    BY PoolFacts
  <2> QED
    BY <1>2, <2>2, <2>3, <2>4, ZonesApart
<1>14. q.last \in 0..c /\ q.pages # <<>> /\ IsInjective(q.pages) /\ q.free = <<>>
  <2>1. 1 \in 0..c
    BY <1>2
  <2>2. pages # <<>>
    BY <1>5, ListsNone
  <2> QED
    BY <1>7, <1>9, <2>1, <2>2
<1>15. x \notin H /\ PoolKept(q, p, H \cup {x})
  <2> HIDE DEF x
  <2> QED
    BY <1>9, <1>12, <1>13, <1>14, OneMore
<1> QED
  BY <1>7, <1>9, <1>15 DEF q

\* the next block of the newest page
LEMMA TakenNext ==
    ASSUME NEW pool, NEW p \in DOMAIN Pools, NEW H, PoolKept(pool, p, H),
           pool.free = <<>>, pool.last # Pools[p].count
    PROVE  LET x == Block(p, Head(pool.pages), pool.last + 1)
           IN /\ x \notin H /\ Head(pool.pages) \in ToSet(pool.pages)
              /\ PoolKept([pool EXCEPT !.last = @ + 1], p, H \cup {x})
<1> DEFINE x == Block(p, Head(pool.pages), pool.last + 1)
           q == [pool EXCEPT !.last = @ + 1]
           n == Len(pool.pages)
           c == Pools[p].count
           m == pool.last
           a == pool.pages[1]
<1>1. pool \in PoolType /\ m \in 0..c /\ pool.pages # <<>> /\ c \in Nat
  BY Constants DEF PoolKept
<1>2. pool.pages \in Seq(Slots) /\ n \in Nat \ {0} /\ DOMAIN pool.pages = 1..n
      /\ Head(pool.pages) = a /\ 1 \in 1..n
  <2>1. pool.pages \in Seq(Slots)
    BY <1>1 DEF PoolType
  <2> QED
    BY <1>1, <2>1, EmptySeq, PoolFacts
<1>3. a \in Slots /\ a \in ToSet(pool.pages)
  BY <1>2, PoolFacts DEF ToSet
<1>4. m \in Nat /\ m + 1 \in 1..c /\ m + 1 \in 0..c /\ m + 1 \in Nat
  BY <1>1
<1>5. /\ q \in PoolType
      /\ q.pages = pool.pages /\ q.last = m + 1 /\ q.free = pool.free
  BY <1>1, <1>4 DEF PoolType
<1>6. x = Block(p, a, m + 1)
  BY <1>2
<1> HIDE DEF q, n, x, a
<1>7. GivenOf(q, p, 1) = GivenOf(pool, p, 1) \cup {x}
  <2>1. Out(q, p, 1) = m + 1 /\ Out(pool, p, 1) = m
    BY <1>5 DEF Out
  <2>2. (\A i \in 1..(m + 1) : i \in 1..m \/ i = m + 1) /\ (\A i \in 1..m : i \in 1..(m + 1))
        /\ m + 1 \in 1..(m + 1)
    BY <1>4
  <2>3. GivenOf(q, p, 1) = {Block(p, a, i) : i \in 1..(m + 1)}
        /\ GivenOf(pool, p, 1) = {Block(p, a, i) : i \in 1..m}
    BY <1>5, <2>1 DEF GivenOf, a
  <2> QED
    BY <1>6, <2>2, <2>3
<1>8. \A k \in 1..n : k # 1 => GivenOf(q, p, k) = GivenOf(pool, p, k)
  BY <1>5 DEF GivenOf, Out
<1>9. Given(q, p) = Given(pool, p) \cup {x}
  BY <1>2, <1>5, <1>7, <1>8 DEF Given
<1>10. x \notin Given(pool, p)
  <2>1. SUFFICES ASSUME NEW k \in 1..n, NEW i \in 1..Out(pool, p, k)
                 PROVE  x # Block(p, pool.pages[k], i)
    BY <1>2 DEF Given, GivenOf
  <2>2. i \in 1..c /\ pool.pages[k] \in Slots /\ (k # 1 => pool.pages[k] # a)
    BY <1>2, PoolFacts DEF a
  <2>3. CASE k = 1
    <3>1. Out(pool, p, k) = m /\ pool.pages[k] = a
      BY <2>3 DEF Out, a
    <3>2. i # m + 1
      BY <1>4, <3>1
    <3> QED
      BY <1>3, <1>4, <1>6, <2>2, <3>1, <3>2, BlocksApart
  <2>4. CASE k # 1
    <3>1. /\ x \in Nat /\ InZone(a, x, Pools[p].elem)
          /\ Block(p, pool.pages[k], i) \in Nat
          /\ InZone(pool.pages[k], Block(p, pool.pages[k], i), Pools[p].elem)
      BY <1>3, <1>4, <1>6, <2>2, BlockAt
    <3>2. Pools[p].elem \in Nat \ {0}
      BY Constants
    <3> QED
      BY <1>3, <2>2, <2>4, <3>1, <3>2, ZonesApart
  <2> QED
    BY <2>3, <2>4
<1>11. q.last \in 0..c /\ q.pages # <<>> /\ IsInjective(q.pages) /\ q.free = <<>>
  BY <1>1, <1>4, <1>5 DEF PoolKept
<1>12. x \notin H /\ PoolKept(q, p, H \cup {x})
  BY <1>5, <1>9, <1>10, <1>11, OneMore
<1> QED
  BY <1>2, <1>3, <1>12 DEF q, x

\* ObjectBlockPool::Alloc: a block that no object has, in a page of the pool or the new one
LEMMA TakenKept ==
    ASSUME NEW pool, NEW p \in DOMAIN Pools, NEW H, PoolKept(pool, p, H),
           NEW slot \in Slots, slot \notin ToSet(pool.pages)
    PROVE  LET t == Taken(pool, p, slot)
           IN /\ t.block \notin H /\ t.block \in Nat
              /\ PoolKept(t.pool, p, H \cup {t.block})
              /\ ToSet(t.pool.pages) \subseteq ToSet(pool.pages) \cup {slot}
              /\ \E a \in ToSet(pool.pages) \cup {slot} : InZone(a, t.block, Pools[p].elem)
<1> DEFINE t == Taken(pool, p, slot)
<1>0. pool \in PoolType
  BY DEF PoolKept
<1>1. /\ t.block \notin H
      /\ PoolKept(t.pool, p, H \cup {t.block})
      /\ ToSet(t.pool.pages) \subseteq ToSet(pool.pages) \cup {slot}
  <2>1. CASE pool.free # <<>>
    <3>1. t.block = Head(pool.free) /\ t.pool = [pool EXCEPT !.free = Tail(@)]
      BY <2>1 DEF Taken
    <3>2. t.pool.pages = pool.pages
      BY <1>0, <3>1 DEF PoolType
    <3>3. /\ Head(pool.free) \notin H
          /\ PoolKept([pool EXCEPT !.free = Tail(@)], p, H \cup {Head(pool.free)})
      BY <2>1, TakenFreed
    <3> HIDE DEF t
    <3> QED
      BY <3>1, <3>2, <3>3
  <2>2. CASE pool.free = <<>> /\ pool.last = Pools[p].count
    <3>1. t.block = Block(p, slot, 1) /\ t.pool = WithPage(pool, slot)
      BY <2>2 DEF Taken, WithPage
    <3>2. /\ Block(p, slot, 1) \notin H
          /\ PoolKept(WithPage(pool, slot), p, H \cup {Block(p, slot, 1)})
          /\ ToSet(WithPage(pool, slot).pages) = ToSet(pool.pages) \cup {slot}
      BY <2>2, TakenPage
    <3> HIDE DEF t
    <3> QED
      BY <3>1, <3>2
  <2>3. CASE pool.free = <<>> /\ pool.last # Pools[p].count
    <3>1. t.block = Block(p, Head(pool.pages), pool.last + 1)
          /\ t.pool = [pool EXCEPT !.last = @ + 1]
      BY <2>3 DEF Taken
    <3>2. t.pool.pages = pool.pages
      BY <1>0, <3>1 DEF PoolType
    <3> HIDE DEF t
    <3> QED
      BY <2>3, <3>1, <3>2, TakenNext
  <2> QED
    BY <2>1, <2>2, <2>3
<1> HIDE DEF t
<1>2. t.block \in Given(t.pool, p)
  BY <1>1 DEF PoolKept
<1>3. t.block \in Nat /\ \E a \in ToSet(t.pool.pages) : InZone(a, t.block, Pools[p].elem)
  BY <1>1, <1>2, GivenAt
<1> QED
  BY <1>1, <1>3 DEF t

-------------------------------------------------------------------------------
(* Where objects lie.                                                      *)

\* what the system gave out for a pool, 0 for the big blocks
Places(m, p) == IF p = 0 THEN {r.slot : r \in m.big} ELSE Pages(m, p)

LEMMA SoundTypes ==
    ASSUME NEW m, NEW O, Sound(m, O)
    PROVE  /\ m.big \subseteq BigType /\ m.used \in Nat /\ m.minimum \in Nat
           /\ 0 \notin DOMAIN Pools
           /\ \A p \in DOMAIN Pools : m.pools[p] \in PoolType /\ Pages(m, p) \subseteq Slots
           /\ \A o \in O : o.ptr \in Nat /\ o.size \in Sizes /\ o.size \in Nat
                           /\ o.size + MarkerSize \in Nat
<1>1. m \in MemoryType /\ O \subseteq Object
  BY DEF Sound
<1>2. m.big \subseteq BigType /\ m.used \in Nat /\ m.minimum \in Nat
      /\ \A p \in DOMAIN Pools : m.pools[p] \in PoolType
  BY <1>1 DEF MemoryType
<1>3. ASSUME NEW p \in DOMAIN Pools PROVE Pages(m, p) \subseteq Slots
  BY PoolFacts DEF Sound, Pages
<1>4. \A o \in O : o.ptr \in Nat /\ o.size \in Sizes /\ o.size \in Nat
                   /\ o.size + MarkerSize \in Nat
  BY <1>1, Constants DEF Object, MarkerSize
<1> QED
  BY <1>2, <1>3, <1>4, Constants

LEMMA PlacesApart ==
    ASSUME NEW m, NEW O, Sound(m, O), NEW p \in DOMAIN Pools \cup {0},
           NEW q \in DOMAIN Pools \cup {0}, p # q
    PROVE  Places(m, p) \cap Places(m, q) = {} /\ Places(m, p) \subseteq Slots
<1>1. PagesApart(m)
  BY DEF Sound
<1>2. Places(m, p) \cap Places(m, q) = {}
  BY <1>1, SoundTypes DEF PagesApart, Places
<1>3. Places(m, p) \subseteq Slots
  BY SoundTypes DEF Places, BigType
<1> QED
  BY <1>2, <1>3

LEMMA BigBlockAt ==
    ASSUME NEW slot \in Slots, NEW n \in Sizes
    PROVE  LET r == BigBlock(slot, n + MarkerSize)
           IN /\ r \in BigType /\ r.slot = slot /\ r.size = n + MarkerSize
              /\ BigData(r) = slot + 16
              /\ BigOf(r) = [ptr |-> slot + 16, size |-> n]
              /\ slot + 16 - MarkerSize \in Nat
              /\ InZone(slot, slot + 16 - MarkerSize, n + MarkerSize)
<1> DEFINE r == BigBlock(slot, n + MarkerSize)
<1>1. slot \in Nat /\ n \in Nat /\ n + 12 <= Room /\ Room \in Nat
      /\ MarkerSize = 8 /\ SizeField = 4
  BY Constants DEF MarkerSize, SizeField
<1>2. r = [slot |-> slot, start |-> slot + 16 - 4 - 8, size |-> n + 8]
  BY <1>1 DEF BigBlock
<1>3. r \in BigType
  <2>1. slot + 16 - 4 - 8 \in Nat /\ n + 8 \in Nat
    BY <1>1
  <2> QED
    BY <1>2, <2>1 DEF BigType
<1>4. r.slot = slot /\ r.start = slot + 16 - 4 - 8 /\ r.size = n + 8
  BY <1>2
<1> HIDE DEF r
<1>5. BigData(r) = slot + 16
  BY <1>1, <1>4 DEF BigData
<1>6. BigOf(r) = [ptr |-> slot + 16, size |-> n]
  BY <1>1, <1>4, <1>5 DEF BigOf
<1>7. slot + 16 - MarkerSize \in Nat /\ InZone(slot, slot + 16 - MarkerSize, n + MarkerSize)
  BY <1>1 DEF InZone
<1> QED
  BY <1>1, <1>3, <1>4, <1>5, <1>6, <1>7 DEF r

\* a big block and its object
LEMMA BigAt ==
    ASSUME NEW m, NEW O, Sound(m, O), NEW r \in m.big, NEW o \in O, BigOf(r) = o, PoolOf(o) = 0
    PROVE  /\ r.slot \in Slots /\ r.size = o.size + MarkerSize
           /\ RealSize(o.size + MarkerSize) = o.size + MarkerSize
           /\ o.ptr - MarkerSize \in Nat
           /\ InZone(r.slot, o.ptr - MarkerSize, RealSize(o.size + MarkerSize))
<1> DEFINE c == RealSize(o.size + MarkerSize)
<1>1. o.ptr \in Nat /\ o.size \in Nat /\ o.size \in Sizes /\ MarkerSize = 8
  BY SoundTypes DEF MarkerSize
<1>2. c = o.size + MarkerSize
  BY DEF RealSize, PoolOf
<1>3. r = BigBlock(r.slot, r.size) /\ r \in BigType
  BY SoundTypes DEF Sound, BigKept
<1>4. r.slot \in Slots /\ r.size \in Nat /\ r.slot \in Nat
  BY <1>3, Constants DEF BigType
<1>5. o.size = r.size - MarkerSize /\ o.ptr = BigData(r)
  BY DEF BigOf
<1>6. r.size = o.size + MarkerSize
  BY <1>1, <1>4, <1>5
<1>7. r = BigBlock(r.slot, o.size + MarkerSize)
  BY <1>3, <1>6
<1>8. BigData(r) = r.slot + 16 /\ r.slot + 16 - MarkerSize \in Nat
      /\ InZone(r.slot, r.slot + 16 - MarkerSize, o.size + MarkerSize)
  <2> DEFINE q == BigBlock(r.slot, o.size + MarkerSize)
  <2>1. BigData(q) = r.slot + 16 /\ r.slot + 16 - MarkerSize \in Nat
        /\ InZone(r.slot, r.slot + 16 - MarkerSize, o.size + MarkerSize)
    BY <1>1, <1>4, BigBlockAt
  <2>2. r = q
    BY <1>7
  <2> HIDE DEF q
  <2> QED
    BY <2>1, <2>2
<1>9. o.ptr - MarkerSize = r.slot + 16 - MarkerSize
  BY <1>1, <1>4, <1>5, <1>8
<1> HIDE DEF c
<1> QED
  BY <1>2, <1>4, <1>6, <1>8, <1>9 DEF c

\* an object is in a place of its pool, and all that it costs is
LEMMA ObjectAt ==
    ASSUME NEW m, NEW O, Sound(m, O), NEW o \in O
    PROVE  /\ PoolOf(o) \in DOMAIN Pools \cup {0}
           /\ RealSize(o.size + MarkerSize) \in Nat \ {0}
           /\ o.size + MarkerSize <= RealSize(o.size + MarkerSize)
           /\ o.ptr - MarkerSize \in Nat
           /\ \E a \in Places(m, PoolOf(o)) :
                 InZone(a, o.ptr - MarkerSize, RealSize(o.size + MarkerSize))
<1> DEFINE p == PoolOf(o)
           c == RealSize(o.size + MarkerSize)
<1>1. o.ptr \in Nat /\ o.size \in Nat /\ o.size \in Sizes /\ MarkerSize = 8
      /\ o.size + MarkerSize \in Nat
  BY SoundTypes DEF MarkerSize
<1>2. p \in DOMAIN Pools \cup {0} /\ (p = 0 \/ (p \in DOMAIN Pools /\ p # 0))
  <2> DEFINE bytes == o.size + MarkerSize
  <2>1. bytes \in Nat
    BY <1>1
  <2> HIDE DEF bytes
  <2>2. PoolFor(bytes) \in DOMAIN Pools \cup {0}
    BY <2>1, PoolForRange
  <2>3. p = PoolFor(bytes)
    BY DEF bytes, PoolOf
  <2>4. 0 \notin DOMAIN Pools
    BY Constants
  <2> HIDE DEF p
  <2> QED
    BY <2>2, <2>3, <2>4
<1>3. c \in Nat \ {0} /\ o.size + MarkerSize <= c
  BY <1>1, RealSizeIs
<1>4. CASE p = 0
  <2>1. o \in In(0, O)
    BY <1>4 DEF In
  <2>2. PICK r \in m.big : BigOf(r) = o
    BY <2>1 DEF Sound, BigKept
  <2>3. r.slot \in Places(m, p)
    BY <1>4 DEF Places
  <2>4. o.ptr - MarkerSize \in Nat /\ InZone(r.slot, o.ptr - MarkerSize, c)
    BY <1>4, <2>2, BigAt
  <2> HIDE DEF c, p
  <2> QED
    BY <1>2, <1>3, <2>3, <2>4 DEF c, p
<1>5. CASE p \in DOMAIN Pools /\ p # 0
  <2>1. o.ptr - MarkerSize \in Heads(p, O) /\ c = Pools[p].elem
    BY <1>5 DEF Heads, In, RealSize, PoolOf
  <2>2. PoolKept(m.pools[p], p, Heads(p, O))
    BY <1>5 DEF Sound
  <2>3. o.ptr - MarkerSize \in Given(m.pools[p], p)
    BY <2>1, <2>2 DEF PoolKept
  <2>4. o.ptr - MarkerSize \in Nat
        /\ \E a \in ToSet(m.pools[p].pages) : InZone(a, o.ptr - MarkerSize, Pools[p].elem)
    BY <1>5, <2>2, <2>3, GivenAt
  <2>5. Places(m, p) = ToSet(m.pools[p].pages)
    BY <1>5 DEF Places, Pages
  <2> QED
    BY <1>2, <1>3, <2>1, <2>4, <2>5
<1> QED
  BY <1>2, <1>4, <1>5

-------------------------------------------------------------------------------
(* NoOverlap.                                                              *)

LEMMA DisjointSlots ==
    ASSUME NEW m, NEW O, Sound(m, O), NEW p \in DOMAIN Pools \cup {0},
           NEW q \in DOMAIN Pools \cup {0}, p # q,
           NEW a \in Places(m, p), NEW c \in Places(m, q)
    PROVE  a \in Slots /\ c \in Slots /\ a # c
BY PlacesApart

\* the blocks of objects do not overlap
LEMMA ObjectsApart ==
    ASSUME NEW m, NEW O, Sound(m, O), NEW o \in O, NEW q \in O, o # q
    PROVE  \/ o.ptr - MarkerSize + RealSize(o.size + MarkerSize) <= q.ptr - MarkerSize
           \/ q.ptr - MarkerSize + RealSize(q.size + MarkerSize) <= o.ptr - MarkerSize
<1> DEFINE b == o.ptr - MarkerSize
           d == q.ptr - MarkerSize
           n == RealSize(o.size + MarkerSize)
           k == RealSize(q.size + MarkerSize)
<1>1. b \in Nat /\ d \in Nat /\ n \in Nat \ {0} /\ k \in Nat \ {0}
  BY ObjectAt
<1>2. PoolOf(o) \in DOMAIN Pools \cup {0} /\ PoolOf(q) \in DOMAIN Pools \cup {0}
  BY ObjectAt
<1>3. b # d
  <2>1. o.ptr # q.ptr
    BY DEF Sound
  <2>2. o.ptr \in Nat /\ q.ptr \in Nat /\ MarkerSize = 8
    BY SoundTypes DEF MarkerSize
  <2> QED
    BY <2>1, <2>2
<1>4. PICK a \in Places(m, PoolOf(o)) : InZone(a, b, n)
  BY ObjectAt
<1>5. PICK c \in Places(m, PoolOf(q)) : InZone(c, d, k)
  BY ObjectAt
<1> HIDE DEF b, d, n, k
<1>6. CASE PoolOf(o) # PoolOf(q)
  <2>1. a \in Slots /\ c \in Slots /\ a # c
    BY <1>2, <1>4, <1>5, <1>6, DisjointSlots
  <2>2. b + n <= d \/ d + k <= b
    BY <1>1, <1>4, <1>5, <2>1, ZonesApart
  <2> QED
    BY <2>2 DEF b, d, n, k
<1>7. CASE PoolOf(o) = PoolOf(q) /\ PoolOf(o) \in DOMAIN Pools
  <2> DEFINE p == PoolOf(o)
             pool == m.pools[p]
  <2>1. PoolKept(pool, p, Heads(p, O)) /\ p \in DOMAIN Pools /\ p # 0
    BY <1>7, SoundTypes DEF Sound
  <2>2. b \in Given(pool, p) /\ d \in Given(pool, p)
    <3>1. b \in Heads(p, O) /\ d \in Heads(p, O)
      BY <1>7 DEF Heads, In, b, d
    <3> QED
      BY <2>1, <3>1 DEF PoolKept
  <2>3. n = Pools[p].elem /\ k = Pools[p].elem
    BY <1>7, <2>1 DEF n, k, RealSize, PoolOf
  <2> HIDE DEF p, pool
  <2>4. PICK x \in ToSet(pool.pages), i \in 1..Pools[p].count : b = Block(p, x, i)
    BY <2>1, <2>2, GivenAt
  <2>5. PICK y \in ToSet(pool.pages), j \in 1..Pools[p].count : d = Block(p, y, j)
    BY <2>1, <2>2, GivenAt
  <2>6. x \in Slots /\ y \in Slots
    BY <2>1, PoolFacts
  <2>7. CASE x = y
    <3>1. i # j
      BY <1>3, <2>4, <2>5, <2>7
    <3>2. Block(p, x, i) + Pools[p].elem <= Block(p, x, j)
          \/ Block(p, x, j) + Pools[p].elem <= Block(p, x, i)
      BY <2>1, <2>6, <3>1, BlocksApart
    <3>3. b + n <= d \/ d + k <= b
      BY <2>3, <2>4, <2>5, <2>7, <3>2
    <3> QED
      BY <3>3 DEF b, d, n, k
  <2>8. CASE x # y
    <3>1. InZone(x, b, n) /\ InZone(y, d, k)
      BY <2>1, <2>3, <2>4, <2>5, <2>6, BlockAt
    <3>2. b + n <= d \/ d + k <= b
      BY <1>1, <2>6, <2>8, <3>1, ZonesApart
    <3> QED
      BY <3>2 DEF b, d, n, k
  <2> QED
    BY <2>7, <2>8
<1>8. CASE PoolOf(o) = 0 /\ PoolOf(q) = 0
  <2>1. o \in In(0, O) /\ q \in In(0, O)
    BY <1>8 DEF In
  <2>2. PICK r \in m.big : BigOf(r) = o
    BY <2>1 DEF Sound, BigKept
  <2>3. PICK s \in m.big : BigOf(s) = q
    BY <2>1 DEF Sound, BigKept
  <2>4. r.slot # s.slot
    BY <2>2, <2>3 DEF Sound, PagesApart
  <2>5. r.slot \in Slots /\ s.slot \in Slots
    BY SoundTypes DEF BigType
  <2>6. InZone(r.slot, b, n) /\ InZone(s.slot, d, k)
    BY <1>8, <2>2, <2>3, BigAt DEF b, d, n, k
  <2>7. b + n <= d \/ d + k <= b
    BY <1>1, <2>4, <2>5, <2>6, ZonesApart
  <2> QED
    BY <2>7 DEF b, d, n, k
<1> QED
  BY <1>2, <1>6, <1>7, <1>8

\* no object is in a block of a free list
LEMMA NotFree ==
    ASSUME NEW m, NEW O, Sound(m, O), NEW o \in O, NEW p \in DOMAIN Pools
    PROVE  o.ptr - MarkerSize \notin ToSet(m.pools[p].free)
<1> DEFINE F == ToSet(m.pools[p].free)
           b == o.ptr - MarkerSize
<1>1. PoolKept(m.pools[p], p, Heads(p, O))
  BY DEF Sound
<1>2. F \cap Heads(p, O) = {} /\ F \subseteq Given(m.pools[p], p)
  BY <1>1 DEF PoolKept
<1>3. CASE PoolOf(o) = p
  BY <1>2, <1>3 DEF Heads, In
<1>4. CASE PoolOf(o) # p
  <2>1. SUFFICES ASSUME b \in F PROVE FALSE
    OBVIOUS
  <2>2. PICK a \in ToSet(m.pools[p].pages) : InZone(a, b, Pools[p].elem)
    BY <1>1, <1>2, <2>1, GivenAt
  <2>3. a \in Places(m, p)
    BY SoundTypes DEF Places, Pages
  <2>4. PICK c \in Places(m, PoolOf(o)) : InZone(c, b, RealSize(o.size + MarkerSize))
    BY ObjectAt
  <2>5. a \in Slots /\ c \in Slots /\ a # c
    BY <1>4, <2>3, <2>4, ObjectAt, DisjointSlots
  <2>6. b \in Nat /\ RealSize(o.size + MarkerSize) \in Nat \ {0} /\ Pools[p].elem \in Nat \ {0}
    BY ObjectAt, Constants
  <2> HIDE DEF b
  <2> QED
    BY <2>2, <2>4, <2>5, <2>6, ZonesApart
<1> QED
  BY <1>3, <1>4

LEMMA SoundNoOverlap ==
    ASSUME Sound(mem, objects)
    PROVE  NoOverlap
<1>1. ASSUME NEW o \in objects, NEW q \in objects, o # q
      PROVE  Bytes(o) \cap Bytes(q) = {}
  <2> DEFINE n == RealSize(o.size + MarkerSize)
             k == RealSize(q.size + MarkerSize)
  <2>1. n \in Nat /\ k \in Nat /\ o.size + MarkerSize <= n /\ q.size + MarkerSize <= k
    BY ObjectAt
  <2>2. \/ o.ptr - MarkerSize + n <= q.ptr - MarkerSize
        \/ q.ptr - MarkerSize + k <= o.ptr - MarkerSize
    BY <1>1, ObjectsApart
  <2>3. o.ptr \in Nat /\ q.ptr \in Nat /\ o.size \in Nat /\ q.size \in Nat /\ MarkerSize = 8
    BY SoundTypes DEF MarkerSize
  <2> HIDE DEF n, k
  <2>4. \/ o.ptr + o.size <= q.ptr - 8
        \/ q.ptr + q.size <= o.ptr - 8
    BY <2>1, <2>2, <2>3
  <2>5. Bytes(o) = (o.ptr - 8)..(o.ptr + o.size - 1) /\ Bytes(q) = (q.ptr - 8)..(q.ptr + q.size - 1)
    BY <2>3 DEF Bytes
  <2> QED
    BY <2>3, <2>4, <2>5
<1> QED
  BY <1>1, NotFree DEF NoOverlap

-------------------------------------------------------------------------------
(* AllocObject, once the memory fits.                                      *)

LEMMA CostInts ==
    ASSUME NEW O, O \subseteq Object
    PROVE  Cost(O) \in Ints(O) /\ \A o \in O : Cost(O)[o] \in Nat
<1>1. \A o \in O : o.size + MarkerSize \in Nat
  BY Constants DEF Object, MarkerSize
<1>2. \A o \in O : RealSize(o.size + MarkerSize) \in Nat
  BY <1>1, RealSizeIs
<1> QED
  BY <1>2 DEF Cost, Ints

LEMMA CostMore ==
    ASSUME NEW O, O \subseteq Object, IsFiniteSet(O), NEW o \in O
    PROVE  /\ Total(Cost(O)) = RealSize(o.size + MarkerSize) + Total(Cost(O \ {o}))
           /\ Total(Cost(O \ {o})) \in Nat /\ Total(Cost(O)) \in Nat
<1>1. Cost(O) \in Ints(O) /\ (\A q \in O : Cost(O)[q] \in Nat)
  BY CostInts
<1>2. Total(Cost(O)) = Cost(O)[o] + Total(Part(Cost(O), O \ {o}))
  BY <1>1, TotalMore
<1>3. Part(Cost(O), O \ {o}) = Cost(O \ {o}) /\ Part(Cost(O), O) = Cost(O)
  BY DEF Part, Cost
<1>4. Total(Part(Cost(O), O \ {o})) \in Nat /\ Total(Part(Cost(O), O)) \in Nat
  <2>1. O \ {o} \in SUBSET O /\ O \in SUBSET O
    OBVIOUS
  <2> QED
    BY <1>1, <2>1, TotalParts
<1>5. Cost(O)[o] = RealSize(o.size + MarkerSize)
  BY DEF Cost
<1> QED
  BY <1>2, <1>3, <1>4, <1>5

\* the cost of what is left
LEMMA CostLess ==
    ASSUME NEW O, O \subseteq Object, IsFiniteSet(O), NEW T \in SUBSET O
    PROVE  Total(Cost(T)) \in Nat /\ Total(Cost(T)) <= Total(Cost(O))
<1>1. Cost(O) \in Ints(O) /\ (\A q \in O : Cost(O)[q] \in Nat)
  BY CostInts
<1>2. Total(Part(Cost(O), T)) \in Nat /\ Total(Part(Cost(O), T)) <= Total(Cost(O))
  BY <1>1, TotalParts
<1>3. Part(Cost(O), T) = Cost(T)
  BY DEF Part, Cost
<1> QED
  BY <1>2, <1>3

LEMMA FreshSlot ==
    ASSUME NEW m, NEW slot \in FreeSlots(m)
    PROVE  /\ slot \in Slots
           /\ \A p \in DOMAIN Pools : slot \notin Pages(m, p)
           /\ \A r \in m.big : slot # r.slot
<1>1. slot \in Slots
  BY DEF FreeSlots
<1>2. ASSUME NEW p \in DOMAIN Pools PROVE slot \notin Pages(m, p)
  BY DEF FreeSlots, Pages
<1>3. ASSUME NEW r \in m.big PROVE slot # r.slot
  BY DEF FreeSlots
<1> QED
  BY <1>1, <1>2, <1>3

\* a new object next to those in use
NotAt(ptr, O) == \A o \in O : o.ptr # ptr
Joins(o, O) ==
    /\ o \notin O
    /\ \A q, r \in O \cup {o} : q.ptr = r.ptr => q = r
    /\ Total(Cost(O \cup {o})) = Total(Cost(O)) + RealSize(o.size + MarkerSize)
    /\ IsFiniteSet(O \cup {o}) /\ O \cup {o} \subseteq Object

LEMMA ObjectMore ==
    ASSUME NEW m, NEW O, Sound(m, O), NEW o \in Object, NEW p \in DOMAIN Pools \cup {0},
           PoolOf(o) = p, NEW slot \in FreeSlots(m),
           NEW a \in Places(m, p) \cup {slot}, NEW n \in Nat \ {0},
           NEW b \in Nat, b = o.ptr - MarkerSize, InZone(a, b, n),
           NotAt(o.ptr, In(p, O))
    PROVE  Joins(o, O)
<1>1. ASSUME NEW q \in O PROVE q.ptr # o.ptr
  <2>1. CASE PoolOf(q) = p
    BY <2>1 DEF In, NotAt
  <2>2. CASE PoolOf(q) # p
    <3> DEFINE d == q.ptr - MarkerSize
               k == RealSize(q.size + MarkerSize)
    <3>1. PICK c \in Places(m, PoolOf(q)) : InZone(c, d, k)
      BY ObjectAt
    <3>2. PoolOf(q) \in DOMAIN Pools \cup {0} /\ d \in Nat /\ k \in Nat \ {0}
      BY ObjectAt
    <3>3. c \in Slots /\ c # slot
      <4>1. c \in Slots
        BY <2>2, <3>1, <3>2, PlacesApart
      <4>2. c # slot
        BY <3>1, <3>2, FreshSlot DEF Places
      <4> QED
        BY <4>1, <4>2
    <3>4. a \in Slots /\ a # c
      <4>1. CASE a = slot
        BY <3>3, <4>1, FreshSlot
      <4>2. CASE a \in Places(m, p)
        BY <2>2, <3>1, <3>2, <4>2, DisjointSlots
      <4> QED
        BY <4>1, <4>2
    <3> HIDE DEF d, k
    <3>5. b # d
      BY <3>1, <3>2, <3>3, <3>4, ZonesApart
    <3> QED
      BY <3>5 DEF d
  <2> QED
    BY <2>1, <2>2
<1>2. o \notin O /\ \A q, r \in O \cup {o} : q.ptr = r.ptr => q = r
  BY <1>1 DEF Sound
<1>3. IsFiniteSet(O \cup {o}) /\ O \cup {o} \subseteq Object
  BY FS_AddElement DEF Sound
<1>4. Total(Cost(O \cup {o})) = Total(Cost(O)) + RealSize(o.size + MarkerSize)
  <2> DEFINE N == O \cup {o}
  <2>1. N \ {o} = O /\ o \in N
    BY <1>2
  <2> HIDE DEF N
  <2>2. Total(Cost(N)) = RealSize(o.size + MarkerSize) + Total(Cost(O)) /\ Total(Cost(O)) \in Nat
    BY <1>3, <2>1, CostMore DEF N
  <2>3. RealSize(o.size + MarkerSize) \in Nat
    <3>1. o.size + MarkerSize \in Nat
      BY Constants DEF Object, MarkerSize
    <3> QED
      BY <3>1, RealSizeIs
  <2> QED
    BY <2>2, <2>3 DEF N
<1> QED
  BY <1>2, <1>3, <1>4 DEF Joins

LEMMA AllocatedSmall ==
    ASSUME NEW m, NEW O, Sound(m, O), NEW n \in Sizes, NEW slot \in FreeSlots(m),
           PoolFor(n + MarkerSize) \in DOMAIN Pools
    PROVE  LET a == Allocated(m, n + MarkerSize, slot)
               o == [ptr |-> a.ptr, size |-> n]
           IN /\ Sound(a.mem, O \cup {o}) /\ o \notin O
              /\ a.mem.used = m.used + RealSize(n + MarkerSize)
<1> DEFINE bytes == n + MarkerSize
           p == PoolFor(bytes)
           pool == m.pools[p]
           H == Heads(p, O)
           t == Taken(pool, p, slot)
           a == Allocated(m, bytes, slot)
           o == [ptr |-> a.ptr, size |-> n]
           N == O \cup {o}
<1>1. n \in Nat /\ bytes \in Nat /\ MarkerSize = 8 /\ p \in DOMAIN Pools /\ p # 0
  BY Constants DEF MarkerSize
<1>2. slot \in Slots /\ (\A q \in DOMAIN Pools : slot \notin Pages(m, q))
      /\ (\A r \in m.big : slot # r.slot)
  BY FreshSlot
<1>3. PoolKept(pool, p, H) /\ slot \notin ToSet(pool.pages)
  BY <1>1, <1>2 DEF Sound, Pages
<1>4. /\ t.block \notin H /\ t.block \in Nat
      /\ PoolKept(t.pool, p, H \cup {t.block})
      /\ ToSet(t.pool.pages) \subseteq ToSet(pool.pages) \cup {slot}
      /\ \E z \in ToSet(pool.pages) \cup {slot} : InZone(z, t.block, Pools[p].elem)
  <2>1. p \in DOMAIN Pools
    BY <1>1
  <2> HIDE DEF p, pool, H
  <2> QED
    BY <1>2, <1>3, <2>1, TakenKept
<1>5. a.ptr = t.block + MarkerSize
      /\ a.mem = [m EXCEPT !.pools[p] = t.pool, !.used = @ + RealSize(bytes)]
  BY <1>1 DEF Allocated
<1>6. RealSize(bytes) \in Nat /\ m.used \in Nat /\ Pools[p].elem \in Nat \ {0}
  BY <1>1, RealSizeIs, SoundTypes, Constants
<1> HIDE DEF bytes, p, pool, t, a
<1>7. o.ptr = t.block + MarkerSize /\ o.size = n /\ o.ptr - MarkerSize = t.block
      /\ PoolOf(o) = p /\ o \in Object
  <2>1. o.ptr = t.block + MarkerSize /\ o.size = n
    BY <1>5
  <2>2. o.ptr - MarkerSize = t.block
    BY <1>1, <1>4, <2>1
  <2>3. PoolOf(o) = p
    BY <2>1 DEF PoolOf, p, bytes
  <2>4. o \in Object
    <3>1. a.ptr \in Nat
      BY <1>1, <1>4, <1>5
    <3> QED
      BY <3>1 DEF Object
  <2> QED
    BY <2>1, <2>2, <2>3, <2>4
<1> HIDE DEF o, H
<1>8. \A q \in In(p, O) : q.ptr # o.ptr
  <2>1. \A q \in In(p, O) : q.ptr - MarkerSize \in H
    BY DEF Heads, H
  <2> QED
    BY <1>4, <1>7, <2>1
<1>9. /\ o \notin O
      /\ \A q, r \in N : q.ptr = r.ptr => q = r
      /\ Total(Cost(N)) = Total(Cost(O)) + RealSize(bytes)
      /\ IsFiniteSet(N) /\ N \subseteq Object
  <2>1. PICK z \in ToSet(pool.pages) \cup {slot} : InZone(z, t.block, Pools[p].elem)
    BY <1>4
  <2>2. z \in Places(m, p) \cup {slot} /\ p \in DOMAIN Pools \cup {0}
    BY <1>1, <2>1 DEF Places, Pages, pool
  <2>3. o.ptr - MarkerSize = t.block /\ t.block \in Nat /\ o.size + MarkerSize = bytes
    BY <1>4, <1>7 DEF bytes
  <2>4. o \in Object /\ PoolOf(o) = p /\ Pools[p].elem \in Nat \ {0}
    BY <1>6, <1>7
  <2>5. NotAt(o.ptr, In(p, O))
    BY <1>8 DEF NotAt
  <2> HIDE DEF N
  <2>6. Joins(o, O)
    BY <2>1, <2>2, <2>3, <2>4, <2>5, ObjectMore
  <2> QED
    BY <2>3, <2>6 DEF Joins, N
<1> HIDE DEF N
<1>10. N = O \cup {o}
  BY DEF N
<1> DEFINE v == a.mem
<1>11. m \in MemoryType /\ t.pool \in PoolType
  BY <1>4 DEF Sound, PoolKept
<1>12. /\ v \in MemoryType
       /\ v.big = m.big /\ v.used = m.used + RealSize(bytes)
       /\ v.pools[p] = t.pool
       /\ \A q \in DOMAIN Pools : q # p => v.pools[q] = m.pools[q]
  <2>1. v.big = m.big /\ v.used = m.used + RealSize(bytes) /\ v.minimum = m.minimum
        /\ v.pools = [m.pools EXCEPT ![p] = t.pool]
    BY <1>5, <1>11 DEF MemoryType
  <2>2. m.pools \in [DOMAIN Pools -> PoolType]
    BY <1>11 DEF MemoryType
  <2>3. v.pools \in [DOMAIN Pools -> PoolType] /\ v.pools[p] = t.pool
        /\ \A q \in DOMAIN Pools : q # p => v.pools[q] = m.pools[q]
    BY <1>1, <1>11, <2>1, <2>2
  <2>4. m.used + RealSize(bytes) \in Nat
    BY <1>6
  <2>5. \A f \in [DOMAIN Pools -> PoolType], u \in Nat :
            [m EXCEPT !.pools = f, !.used = u] \in MemoryType
    BY <1>11 DEF MemoryType
  <2>6. v = [m EXCEPT !.pools = v.pools, !.used = m.used + RealSize(bytes)]
    BY <1>5, <1>11 DEF MemoryType
  <2> HIDE DEF v
  <2>7. v \in MemoryType
    BY <2>3, <2>4, <2>5, <2>6
  <2> QED
    BY <2>1, <2>3, <2>7
<1> HIDE DEF v
<1>13. Heads(p, N) = H \cup {t.block} /\ (\A q : q # p => In(q, N) = In(q, O))
  <2>1. In(p, N) = In(p, O) \cup {o} /\ (\A q : q # p => In(q, N) = In(q, O))
    BY <1>7, <1>10 DEF In
  <2> QED
    BY <1>7, <2>1 DEF Heads, H
<1>14. ASSUME NEW q \in DOMAIN Pools PROVE PoolKept(v.pools[q], q, Heads(q, N))
  <2>1. CASE q = p
    BY <1>4, <1>12, <1>13, <2>1
  <2>2. CASE q # p
    <3>1. Heads(q, N) = Heads(q, O) /\ v.pools[q] = m.pools[q]
      BY <1>12, <1>13, <2>2 DEF Heads
    <3> QED
      BY <3>1 DEF Sound
  <2> QED
    BY <2>1, <2>2
<1>15. PagesApart(v)
  <2>1. \A q \in DOMAIN Pools : q # p => Pages(v, q) = Pages(m, q)
    BY <1>12 DEF Pages
  <2>2. Pages(v, p) \subseteq Pages(m, p) \cup {slot}
    BY <1>4, <1>12 DEF Pages, pool
  <2>3. PagesApart(m)
    BY DEF Sound
  <2> QED
    BY <1>1, <1>2, <1>12, <2>1, <2>2, <2>3 DEF PagesApart
<1>16. BigKept(v, N)
  <2>1. BigKept(m, O) /\ In(0, N) = In(0, O)
    BY <1>1, <1>13 DEF Sound
  <2> QED
    BY <1>12, <2>1 DEF BigKept
<1>17. v.used = Total(Cost(N))
  <2>1. m.used = Total(Cost(O))
    BY DEF Sound
  <2> QED
    BY <1>9, <1>12, <2>1
<1>18. Sound(v, N)
  BY <1>9, <1>12, <1>14, <1>15, <1>16, <1>17 DEF Sound
<1> QED
  BY <1>9, <1>12, <1>18 DEF v, N, o, a, bytes

LEMMA AllocatedBig ==
    ASSUME NEW m, NEW O, Sound(m, O), NEW n \in Sizes, NEW slot \in FreeSlots(m),
           PoolFor(n + MarkerSize) = 0
    PROVE  LET a == Allocated(m, n + MarkerSize, slot)
               o == [ptr |-> a.ptr, size |-> n]
           IN /\ Sound(a.mem, O \cup {o}) /\ o \notin O
              /\ a.mem.used = m.used + RealSize(n + MarkerSize)
<1> DEFINE bytes == n + MarkerSize
           r == BigBlock(slot, bytes)
           a == Allocated(m, bytes, slot)
           o == [ptr |-> a.ptr, size |-> n]
           N == O \cup {o}
<1>1. n \in Nat /\ bytes \in Nat \ {0} /\ bytes \in Nat /\ MarkerSize = 8
  BY Constants DEF MarkerSize
<1>2. slot \in Slots /\ (\A q \in DOMAIN Pools : slot \notin Pages(m, q))
      /\ (\A s \in m.big : slot # s.slot)
  BY FreshSlot
<1>3. /\ r \in BigType /\ r.slot = slot /\ r.size = bytes
      /\ BigData(r) = slot + 16
      /\ BigOf(r) = [ptr |-> slot + 16, size |-> n]
      /\ slot + 16 - MarkerSize \in Nat
      /\ InZone(slot, slot + 16 - MarkerSize, bytes)
  BY <1>2, BigBlockAt
<1>4. a.ptr = BigData(r)
      /\ a.mem = [m EXCEPT !.big = @ \cup {r}, !.used = @ + RealSize(bytes)]
  BY DEF Allocated
<1>5. RealSize(bytes) = bytes /\ m.used \in Nat
  BY SoundTypes DEF RealSize
<1> HIDE DEF bytes, a
<1>6. r = BigBlock(r.slot, r.size)
  BY <1>3
<1> HIDE DEF r
<1>7. o.ptr = slot + 16 /\ o.size = n /\ BigOf(r) = o /\ PoolOf(o) = 0 /\ o \in Object
  <2>1. o.ptr = slot + 16 /\ o.size = n /\ BigOf(r) = o
    BY <1>3, <1>4
  <2>2. PoolOf(o) = 0
    BY <2>1 DEF PoolOf
  <2>3. slot + 16 \in Nat
    BY <1>2, Constants
  <2> QED
    BY <2>1, <2>2, <2>3 DEF Object
<1> HIDE DEF o
<1>8. NotAt(o.ptr, In(0, O))
  <2>1. SUFFICES ASSUME NEW q \in In(0, O) PROVE q.ptr # slot + 16
    BY <1>7 DEF NotAt
  <2>2. PICK s \in m.big : BigOf(s) = q
    BY DEF Sound, BigKept
  <2>3. s.slot \in Slots /\ s.slot # slot /\ q.ptr - MarkerSize \in Nat
        /\ RealSize(q.size + MarkerSize) \in Nat \ {0}
        /\ InZone(s.slot, q.ptr - MarkerSize, RealSize(q.size + MarkerSize))
    BY <1>2, <2>1, <2>2, BigAt, ObjectAt DEF In
  <2>4. q.ptr - MarkerSize # slot + 16 - MarkerSize
    BY <1>1, <1>2, <1>3, <2>3, ZonesApart
  <2>5. slot \in Nat
    BY <1>2, Constants
  <2> QED
    BY <1>1, <2>4, <2>5
<1>9. Joins(o, O)
  <2>1. slot + 16 - MarkerSize = o.ptr - MarkerSize
    BY <1>1, <1>2, <1>7, Constants
  <2>2. slot \in Places(m, 0) \cup {slot} /\ 0 \in DOMAIN Pools \cup {0}
    OBVIOUS
  <2> HIDE DEF N
  <2> QED
    BY <1>1, <1>3, <1>7, <1>8, <2>1, <2>2, ObjectMore
<1> DEFINE v == a.mem
<1>10. m \in MemoryType
  BY DEF Sound
<1>11. /\ v \in MemoryType
       /\ v.big = m.big \cup {r} /\ v.used = m.used + RealSize(bytes)
       /\ v.pools = m.pools
  <2>1. v.big = m.big \cup {r} /\ v.used = m.used + RealSize(bytes) /\ v.pools = m.pools
    BY <1>4, <1>10 DEF MemoryType
  <2>2. m.big \cup {r} \in SUBSET BigType /\ m.used + RealSize(bytes) \in Nat
    BY <1>1, <1>3, <1>5, SoundTypes
  <2>3. \A b \in SUBSET BigType, u \in Nat : [m EXCEPT !.big = b, !.used = u] \in MemoryType
    BY <1>10 DEF MemoryType
  <2>4. v = [m EXCEPT !.big = m.big \cup {r}, !.used = m.used + RealSize(bytes)]
    BY <1>4, <1>10 DEF MemoryType
  <2> HIDE DEF v
  <2>5. v \in MemoryType
    BY <2>2, <2>3, <2>4
  <2> QED
    BY <2>1, <2>5
<1> HIDE DEF v, N
<1>12. In(0, N) = In(0, O) \cup {o} /\ \A q : q # 0 => In(q, N) = In(q, O)
  BY <1>7 DEF In, N
<1>13. ASSUME NEW q \in DOMAIN Pools PROVE PoolKept(v.pools[q], q, Heads(q, N))
  <2>1. Heads(q, N) = Heads(q, O) /\ v.pools[q] = m.pools[q]
    BY <1>11, <1>12, SoundTypes DEF Heads
  <2> QED
    BY <2>1 DEF Sound
<1>14. PagesApart(v)
  <2>1. \A q \in DOMAIN Pools : Pages(v, q) = Pages(m, q)
    BY <1>11 DEF Pages
  <2>2. PagesApart(m)
    BY DEF Sound
  <2> QED
    BY <1>2, <1>3, <1>11, <2>1, <2>2 DEF PagesApart
<1>15. BigKept(v, N)
  <2>1. BigKept(m, O)
    BY DEF Sound
  <2> QED
    BY <1>6, <1>7, <1>11, <1>12, <2>1 DEF BigKept
<1>16. v.used = Total(Cost(N))
  <2>1. m.used = Total(Cost(O)) /\ o.size + MarkerSize = bytes
    BY <1>7 DEF Sound, bytes
  <2> QED
    BY <1>9, <1>11, <2>1 DEF Joins, N
<1>17. Sound(v, N)
  <2>1. IsFiniteSet(N) /\ N \subseteq Object /\ \A q, s \in N : q.ptr = s.ptr => q = s
    BY <1>9 DEF Joins, N
  <2> QED
    BY <1>11, <1>13, <1>14, <1>15, <1>16, <2>1 DEF Sound
<1>18. o \notin O
  BY <1>9 DEF Joins
<1> QED
  BY <1>11, <1>17, <1>18 DEF v, N, o, a, bytes

LEMMA AllocatedSound ==
    ASSUME NEW m, NEW O, Sound(m, O), NEW n \in Sizes, NEW slot \in FreeSlots(m)
    PROVE  LET a == Allocated(m, n + MarkerSize, slot)
               o == [ptr |-> a.ptr, size |-> n]
           IN /\ Sound(a.mem, O \cup {o}) /\ o \notin O
              /\ a.mem.used = m.used + RealSize(n + MarkerSize)
<1>1. n + MarkerSize \in Nat
  BY Constants DEF MarkerSize
<1>2. CASE PoolFor(n + MarkerSize) = 0
  BY <1>2, AllocatedBig
<1>3. CASE PoolFor(n + MarkerSize) \in DOMAIN Pools
  BY <1>3, AllocatedSmall
<1> QED
  BY <1>1, <1>2, <1>3, PoolForRange

-------------------------------------------------------------------------------
(* FreePending.                                                            *)

\* the big blocks, and the blocks of each pool, that garbage takes
LostOf(m, G)  == {r \in m.big : BigData(r) \in {o.ptr : o \in G}}
Large(m, G)   == [r \in LostOf(m, G) |-> r.size]
Small(G)      == [p \in DOMAIN Pools |-> Cardinality(Heads(p, G)) * Pools[p].elem]
Balance(m, O, G) ==
    /\ IsFiniteSet(LostOf(m, G))
    /\ \A p \in DOMAIN Pools : IsFiniteSet(Heads(p, G))
    /\ Total(Small(G)) \in Int /\ Total(Large(m, G)) \in Int
    /\ Total(Cost(O)) - Total(Small(G)) - Total(Large(m, G)) = Total(Cost(O \ G))

LEMMA LostIs ==
    ASSUME NEW m, NEW O, Sound(m, O), NEW G \in SUBSET O, NEW r \in m.big
    PROVE  r \in LostOf(m, G) <=> BigOf(r) \in G
<1>1. BigOf(r) \in O /\ BigOf(r).ptr = BigData(r)
  BY DEF Sound, BigKept, BigOf, In
<1>2. \A o \in O : o.ptr = BigOf(r).ptr => o = BigOf(r)
  BY <1>1 DEF Sound
<1> HIDE DEF LostOf
<1>3. r \in LostOf(m, G) <=> \E o \in G : o.ptr = BigData(r)
  BY DEF LostOf
<1> QED
  BY <1>1, <1>2, <1>3

LEMMA PoolFinite ==
    /\ IsFiniteSet(DOMAIN Pools)
    /\ \A G : (\A p \in DOMAIN Pools : IsFiniteSet(Heads(p, G))) => Small(G) \in Ints(DOMAIN Pools)
<1>1. IsFiniteSet(DOMAIN Pools)
  BY Constants, FS_Interval
<1>2. ASSUME NEW G, \A p \in DOMAIN Pools : IsFiniteSet(Heads(p, G))
      PROVE  Small(G) \in Ints(DOMAIN Pools)
  <2>1. ASSUME NEW p \in DOMAIN Pools PROVE Cardinality(Heads(p, G)) * Pools[p].elem \in Int
    <3>1. Cardinality(Heads(p, G)) \in Nat /\ Pools[p].elem \in Nat
      BY <1>2, FS_CardinalityType, Constants
    <3> QED
      BY <3>1
  <2> QED
    BY <2>1 DEF Small, Ints
<1> QED
  BY <1>1, <1>2

LEMMA LargeInts ==
    ASSUME NEW m, NEW O, Sound(m, O), NEW G
    PROVE  Large(m, G) \in Ints(LostOf(m, G))
<1>1. \A r \in LostOf(m, G) : r.size \in Int
  BY SoundTypes DEF LostOf, BigType
<1> QED
  BY <1>1 DEF Large, Ints

LEMMA BalanceNone ==
    ASSUME NEW m, NEW O, Sound(m, O)
    PROVE  Balance(m, O, {})
<1>1. LostOf(m, {}) = {} /\ \A p \in DOMAIN Pools : Heads(p, {}) = {}
  BY DEF LostOf, Heads, In
<1>2. IsFiniteSet({}) /\ Cardinality({}) = 0
  BY FS_EmptySet
<1>3. Total(Large(m, {})) = 0
  <2>1. DOMAIN Large(m, {}) = {}
    BY <1>1 DEF Large
  <2> QED
    BY <2>1, TotalEmpty
<1>4. Total(Small({})) = 0
  <2>1. Small({}) = [p \in DOMAIN Pools |-> 0]
    <3>1. ASSUME NEW p \in DOMAIN Pools PROVE Cardinality(Heads(p, {})) * Pools[p].elem = 0
      <4>1. Cardinality(Heads(p, {})) = 0 /\ Pools[p].elem \in Nat
        BY <1>1, <1>2, Constants
      <4> QED
        BY <4>1
    <3> QED
      BY <3>1 DEF Small
  <2>2. Total([p \in DOMAIN Pools |-> 0]) = 0
    BY PoolFinite, TotalZero
  <2> QED
    BY <2>1, <2>2
<1>5. Total(Cost(O)) \in Nat /\ O \ {} = O
  <2>1. O \subseteq Object /\ IsFiniteSet(O) /\ O \in SUBSET O
    BY DEF Sound
  <2> QED
    BY <2>1, CostLess
<1> QED
  BY <1>1, <1>2, <1>3, <1>4, <1>5 DEF Balance

LEMMA BalanceMore ==
    ASSUME NEW m, NEW O, Sound(m, O), NEW G \in SUBSET O, Balance(m, O, G),
           NEW o \in O, o \notin G
    PROVE  Balance(m, O, G \cup {o})
<1> DEFINE N == G \cup {o}
           c == RealSize(o.size + MarkerSize)
           p == PoolOf(o)
           x == o.ptr - MarkerSize
<1>1. /\ IsFiniteSet(LostOf(m, G))
      /\ \A q \in DOMAIN Pools : IsFiniteSet(Heads(q, G))
      /\ Total(Small(G)) \in Int /\ Total(Large(m, G)) \in Int
      /\ Total(Cost(O)) - Total(Small(G)) - Total(Large(m, G)) = Total(Cost(O \ G))
  BY DEF Balance
<1>2. O \subseteq Object /\ IsFiniteSet(O) /\ \A q, r \in O : q.ptr = r.ptr => q = r
  BY DEF Sound
<1>3. Total(Cost(O \ G)) = c + Total(Cost(O \ N)) /\ c \in Nat /\ Total(Cost(O \ N)) \in Nat
      /\ Total(Cost(O)) \in Nat
  <2>1. O \ G \subseteq Object /\ IsFiniteSet(O \ G) /\ o \in O \ G /\ (O \ G) \ {o} = O \ N
    BY <1>2, FS_Subset
  <2>2. Total(Cost(O \ G)) = c + Total(Cost((O \ G) \ {o})) /\ Total(Cost((O \ G) \ {o})) \in Nat
    BY <2>1, CostMore
  <2>3. O \in SUBSET O
    OBVIOUS
  <2>4. Total(Cost(O)) \in Nat
    BY <1>2, <2>3, CostLess
  <2>5. c \in Nat
    BY ObjectAt
  <2> HIDE DEF c, N
  <2> QED
    BY <2>1, <2>2, <2>4, <2>5
<1>4. p \in DOMAIN Pools \cup {0} /\ 0 \notin DOMAIN Pools
  BY ObjectAt, SoundTypes
<1>5. \A q : q # p => Heads(q, N) = Heads(q, G)
  BY DEF Heads, In
<1>6. Heads(p, N) = Heads(p, G) \cup {x}
  BY DEF Heads, In
<1>7. x \notin Heads(p, G)
  <2>1. SUFFICES ASSUME NEW q \in In(p, G), q.ptr - MarkerSize = x PROVE FALSE
    BY DEF Heads
  <2>2. q \in O /\ q # o
    BY DEF In
  <2>3. q.ptr \in Nat /\ o.ptr \in Nat /\ MarkerSize = 8
    BY <2>2, SoundTypes DEF MarkerSize
  <2>4. q.ptr = o.ptr
    BY <2>1, <2>3
  <2> QED
    BY <1>2, <2>2, <2>4
<1>8. \A q \in DOMAIN Pools : IsFiniteSet(Heads(q, N))
  <2>1. ASSUME NEW q \in DOMAIN Pools PROVE IsFiniteSet(Heads(q, N))
    <3>1. CASE q = p
      <4>1. IsFiniteSet(Heads(p, G))
        BY <1>1, <3>1
      <4>2. IsFiniteSet(Heads(p, G) \cup {x})
        BY <4>1, FS_AddElement
      <4> QED
        BY <1>6, <3>1, <4>2
    <3>2. CASE q # p
      BY <1>1, <1>5, <3>2
    <3> QED
      BY <3>1, <3>2
  <2> QED
    BY <2>1
<1>9. Small(G) \in Ints(DOMAIN Pools) /\ Small(N) \in Ints(DOMAIN Pools)
      /\ IsFiniteSet(DOMAIN Pools)
  BY <1>1, <1>8, PoolFinite
<1>10. N \in SUBSET O
  OBVIOUS
<1> HIDE DEF N, c, x
<1>11. CASE p \in DOMAIN Pools
  <2>1. LostOf(m, N) = LostOf(m, G)
    <3>1. ASSUME NEW r \in m.big PROVE r \in LostOf(m, N) <=> r \in LostOf(m, G)
      <4>1. BigOf(r) # o
        <5>1. BigOf(r) \in In(0, O)
          BY DEF Sound, BigKept
        <5> QED
          BY <1>4, <1>11, <5>1 DEF In
      <4> QED
        BY <1>10, <4>1, LostIs DEF N
    <3> QED
      BY <3>1 DEF LostOf
  <2>2. Large(m, N) = Large(m, G)
    BY <2>1 DEF Large
  <2>3. Small(N)[p] = Small(G)[p] + c /\ Small(G)[p] \in Int
    <3> DEFINE h == Cardinality(Heads(p, G))
               e == Pools[p].elem
    <3>1. h \in Nat /\ Cardinality(Heads(p, N)) = h + 1
      BY <1>1, <1>6, <1>7, <1>11, FS_AddElement, FS_CardinalityType
    <3>2. e \in Nat /\ c = e
      BY <1>4, <1>11, Constants DEF c, RealSize, PoolOf
    <3>3. Small(N)[p] = Cardinality(Heads(p, N)) * e /\ Small(G)[p] = h * e
      BY <1>11 DEF Small
    <3> HIDE DEF h, e
    <3>4. (h + 1) * e = h * e + e /\ h * e \in Int
      BY <3>1, <3>2
    <3> QED
      BY <3>1, <3>2, <3>3, <3>4
  <2>4. \A q \in DOMAIN Pools \ {p} : Small(G)[q] = Small(N)[q]
    BY <1>5 DEF Small
  <2>5. Total(Small(N)) = Total(Small(G)) - Small(G)[p] + Small(N)[p]
    BY <1>9, <1>11, <2>4, TotalChange
  <2>6. Total(Small(N)) = Total(Small(G)) + c
    BY <1>1, <1>3, <2>3, <2>5
  <2>7. Total(Cost(O)) - Total(Small(N)) - Total(Large(m, G)) = Total(Cost(O \ N))
    BY <1>1, <1>3, <2>6
  <2>8. Total(Small(N)) \in Int
    BY <1>1, <1>3, <2>6
  <2>9. Balance(m, O, N)
    BY <1>1, <1>8, <2>1, <2>2, <2>7, <2>8 DEF Balance
  <2> QED
    BY <2>9 DEF N
<1>12. CASE p = 0
  <2>1. Small(N) = Small(G)
    BY <1>4, <1>5, <1>12 DEF Small
  <2>2. PICK r \in m.big : BigOf(r) = o
    BY <1>12 DEF Sound, BigKept, In
  <2>3. r.size = c
    BY <1>12, <2>2, BigAt DEF c
  <2>4. LostOf(m, N) = LostOf(m, G) \cup {r} /\ r \notin LostOf(m, G)
    <3>1. ASSUME NEW s \in m.big PROVE s \in LostOf(m, N) <=> s \in LostOf(m, G) \/ s = r
      <4>1. CASE s = r
        BY <1>10, <2>2, <4>1, LostIs DEF N
      <4>2. CASE s # r
        <5>1. BigOf(s) # o
          <6>1. SUFFICES ASSUME BigOf(s) = o PROVE FALSE
            OBVIOUS
          <6>2. /\ InZone(r.slot, o.ptr - MarkerSize, c) /\ r.slot \in Slots
                /\ InZone(s.slot, o.ptr - MarkerSize, c) /\ s.slot \in Slots
                /\ c \in Nat \ {0} /\ o.ptr - MarkerSize \in Nat
            BY <1>12, <2>2, <6>1, BigAt, ObjectAt DEF c
          <6>3. r.slot # s.slot
            BY <4>2 DEF Sound, PagesApart
          <6> QED
            BY <6>2, <6>3, ZonesApart
        <5> QED
          BY <1>10, <4>2, <5>1, LostIs DEF N
      <4> QED
        BY <4>1, <4>2
    <3>2. r \notin LostOf(m, G)
      BY <2>2, LostIs
    <3> QED
      BY <2>2, <3>1, <3>2 DEF LostOf
  <2> DEFINE L == LostOf(m, N)
             F == Large(m, N)
  <2>5. IsFiniteSet(L) /\ F \in Ints(L) /\ r \in L /\ L \ {r} = LostOf(m, G)
    <3>1. r \in L /\ L \ {r} = LostOf(m, G)
      BY <2>4
    <3>2. IsFiniteSet(LostOf(m, G) \cup {r})
      BY <1>1, FS_AddElement
    <3>3. F \in Ints(L)
      BY LargeInts
    <3> QED
      BY <2>4, <3>1, <3>2, <3>3
  <2>6. F[r] = c /\ Part(F, L \ {r}) = Large(m, G)
    <3>1. F[r] = c
      BY <2>3, <2>5 DEF Large
    <3>2. Part(F, L \ {r}) = Large(m, G)
      BY <2>4, <2>5 DEF Part, Large
    <3> QED
      BY <3>1, <3>2
  <2> HIDE DEF L, F
  <2>7. Total(F) = c + Total(Large(m, G))
    BY <2>5, <2>6, TotalMore
  <2>8. Total(Cost(O)) - Total(Small(G)) - Total(F) = Total(Cost(O \ N)) /\ Total(F) \in Int
    BY <1>1, <1>3, <2>7
  <2>9. Balance(m, O, N)
    BY <1>1, <1>8, <2>1, <2>5, <2>8 DEF Balance, L, F
  <2> QED
    BY <2>9 DEF N
<1> QED
  BY <1>4, <1>11, <1>12

\* the bytes that a collection takes from usedMemory are those of the garbage
LEMMA Balanced ==
    ASSUME NEW m, NEW O, Sound(m, O), NEW G \in SUBSET O
    PROVE  Balance(m, O, G)
<1> DEFINE X == {U \in SUBSET O : Balance(m, O, U)}
<1>1. {} \in X
  BY BalanceNone
<1>2. ASSUME NEW U \in SUBSET O, NEW o \in O, U \in X, o \notin U PROVE U \cup {o} \in X
  <2>1. Balance(m, O, U \cup {o})
    BY <1>2, BalanceMore
  <2> QED
    BY <2>1
<1>3. IsFiniteSet(O)
  BY DEF Sound
<1> HIDE DEF X
<1>4. SUBSET O \subseteq X
  BY <1>1, <1>2, <1>3, FiniteInduction
<1> QED
  BY <1>4 DEF X

LEMMA SweptSound ==
    ASSUME NEW m, NEW O, Sound(m, O), NEW G \in SUBSET O
    PROVE  /\ Sound(Swept(m, G), O \ G)
           /\ Swept(m, G).minimum = m.minimum
<1> DEFINE gone == [p \in DOMAIN Pools |-> FreedOf(m.pools[p], p, G)]
           lost == LostOf(m, G)
           pools == [p \in DOMAIN Pools |-> Returned(m.pools[p], gone[p])]
           small == [p \in DOMAIN Pools |-> Len(gone[p]) * Pools[p].elem]
           v == Swept(m, G)
           N == O \ G
<1>1. m \in MemoryType /\ O \subseteq Object /\ IsFiniteSet(O)
      /\ \A q, r \in O : q.ptr = r.ptr => q = r
  BY DEF Sound
<1>2. v = [m EXCEPT !.pools = pools, !.big = @ \ lost,
                    !.used = @ - Total(small) - Total(Large(m, G))]
  BY DEF Swept, Returned, Total, LostOf, Large
<1> HIDE DEF v
<1>3. ASSUME NEW p \in DOMAIN Pools
      PROVE  /\ Lists(gone[p], Heads(p, G)) /\ Heads(p, G) \subseteq Heads(p, O)
             /\ Heads(p, N) = Heads(p, O) \ Heads(p, G)
  <2> DEFINE S == {o.ptr - MarkerSize : o \in G}
  <2>1. PoolKept(m.pools[p], p, Heads(p, O))
    BY DEF Sound
  <2>2. Lists(gone[p], Heads(p, O) \cap S)
    BY <2>1, FreedLists
  <2>3. \A o, q \in O : o.ptr - MarkerSize = q.ptr - MarkerSize => o = q
    <3>1. \A o \in O : o.ptr \in Nat
      BY SoundTypes
    <3>2. \A o, q \in O : o.ptr - MarkerSize = q.ptr - MarkerSize => o.ptr = q.ptr
      BY <3>1 DEF MarkerSize
    <3> QED
      BY <1>1, <3>2
  <2>4. Heads(p, O) \cap S = Heads(p, G)
    <3>1. Heads(p, G) \subseteq Heads(p, O) \cap S
      BY DEF Heads, In
    <3>2. ASSUME NEW o \in In(p, O), NEW q \in G, o.ptr - MarkerSize = q.ptr - MarkerSize
          PROVE  o.ptr - MarkerSize \in Heads(p, G)
      <4>1. o = q
        BY <2>3, <3>2 DEF In
      <4> QED
        BY <3>2, <4>1 DEF Heads, In
    <3>3. Heads(p, O) \cap S \subseteq Heads(p, G)
      BY <3>2 DEF Heads
    <3> QED
      BY <3>1, <3>3
  <2>5. Heads(p, N) = Heads(p, O) \ Heads(p, G)
    <3>1. ASSUME NEW o \in In(p, N) PROVE o.ptr - MarkerSize \in Heads(p, O) \ Heads(p, G)
      <4>1. o \in In(p, O) /\ o \notin G
        BY DEF In
      <4>2. o.ptr - MarkerSize \in Heads(p, O)
        BY <4>1 DEF Heads
      <4>3. o.ptr - MarkerSize \notin Heads(p, G)
        BY <2>3, <4>1 DEF Heads, In
      <4> QED
        BY <4>2, <4>3
    <3>2. ASSUME NEW o \in In(p, O), o.ptr - MarkerSize \notin Heads(p, G)
          PROVE  o.ptr - MarkerSize \in Heads(p, N)
      <4>1. o \in In(p, N)
        BY <3>2 DEF Heads, In
      <4> QED
        BY <4>1 DEF Heads
    <3>3. Heads(p, N) \subseteq Heads(p, O) \ Heads(p, G)
      BY <3>1 DEF Heads
    <3>4. Heads(p, O) \ Heads(p, G) \subseteq Heads(p, N)
      <4> HIDE DEF N
      <4>1. \A x \in Heads(p, O) : \E o \in In(p, O) : x = o.ptr - MarkerSize
        BY DEF Heads
      <4> QED
        BY <3>2, <4>1 DEF N
    <3> QED
      BY <3>3, <3>4
  <2> QED
    BY <2>2, <2>4, <2>5 DEF Heads, In
<1>4. ASSUME NEW p \in DOMAIN Pools PROVE PoolKept(pools[p], p, Heads(p, N))
  <2>1. PoolKept(m.pools[p], p, Heads(p, O))
    BY DEF Sound
  <2>2. PoolKept(Returned(m.pools[p], gone[p]), p, Heads(p, O) \ Heads(p, G))
    <3> HIDE DEF gone
    <3> QED
      BY <1>3, <2>1, ReturnedKept
  <2>3. pools[p] = Returned(m.pools[p], gone[p])
    OBVIOUS
  <2> HIDE DEF pools, gone, N
  <2> QED
    BY <1>3, <2>2, <2>3
<1>5. small = Small(G)
  <2>1. ASSUME NEW p \in DOMAIN Pools PROVE Len(gone[p]) = Cardinality(Heads(p, G))
    <3> HIDE DEF gone
    <3> QED
      BY <1>3, ListsLen
  <2> HIDE DEF gone
  <2> QED
    BY <2>1 DEF Small
<1> HIDE DEF pools, small, lost, gone
<1>6. m.used - Total(small) - Total(Large(m, G)) = Total(Cost(N)) /\ Total(Cost(N)) \in Nat
  <2>1. Balance(m, O, G)
    BY Balanced
  <2>2. m.used = Total(Cost(O))
    BY DEF Sound
  <2>3. Total(Cost(N)) \in Nat
    BY <1>1, CostLess
  <2> QED
    BY <1>5, <2>1, <2>2, <2>3 DEF Balance
<1>7. /\ v.pools = pools /\ v.big = m.big \ lost /\ v.used = Total(Cost(N))
      /\ v.minimum = m.minimum
  BY <1>1, <1>2, <1>6 DEF MemoryType
<1>8. v \in MemoryType
  <2>1. pools \in [DOMAIN Pools -> PoolType]
    <3>1. ASSUME NEW p \in DOMAIN Pools PROVE pools[p] \in PoolType
      BY <1>4 DEF PoolKept
    <3>2. pools = [p \in DOMAIN Pools |-> pools[p]]
      BY DEF pools
    <3> QED
      BY <3>1, <3>2
  <2>2. m.big \ lost \in SUBSET BigType
    BY SoundTypes
  <2>3. v = [m EXCEPT !.pools = pools, !.big = m.big \ lost, !.used = Total(Cost(N))]
    BY <1>1, <1>2, <1>6 DEF MemoryType
  <2>4. \A f \in [DOMAIN Pools -> PoolType], b \in SUBSET BigType, u \in Nat :
            [m EXCEPT !.pools = f, !.big = b, !.used = u] \in MemoryType
    BY <1>1 DEF MemoryType
  <2> HIDE DEF N
  <2> QED
    BY <1>6, <2>1, <2>2, <2>3, <2>4
<1>9. PagesApart(v)
  <2>1. ASSUME NEW p \in DOMAIN Pools PROVE Pages(v, p) = Pages(m, p)
    <3>1. pools[p].pages = m.pools[p].pages
      <4>1. m.pools[p] \in PoolType
        BY SoundTypes
      <4> QED
        BY <4>1 DEF pools, Returned, PoolType
    <3> QED
      BY <1>7, <3>1 DEF Pages
  <2>2. PagesApart(m)
    BY DEF Sound
  <2> QED
    BY <1>7, <2>1, <2>2 DEF PagesApart
<1>10. BigKept(v, N)
  <2>1. BigKept(m, O)
    BY DEF Sound
  <2>2. ASSUME NEW o \in In(0, N) PROVE \E r \in v.big : BigOf(r) = o
    <3>1. o \in In(0, O) /\ o \notin G
      BY DEF In
    <3>2. PICK r \in m.big : BigOf(r) = o
      BY <2>1, <3>1 DEF BigKept
    <3>3. r \notin lost
      BY <3>1, <3>2, LostIs DEF lost
    <3> QED
      BY <1>7, <3>2, <3>3
  <2>3. ASSUME NEW r \in v.big PROVE r = BigBlock(r.slot, r.size) /\ BigOf(r) \in In(0, N)
    <3>1. r \in m.big /\ r \notin lost
      BY <1>7
    <3>2. r = BigBlock(r.slot, r.size) /\ BigOf(r) \in In(0, O)
      BY <2>1, <3>1 DEF BigKept
    <3>3. BigOf(r) \notin G
      BY <3>1, LostIs DEF lost
    <3> QED
      BY <3>2, <3>3 DEF In
  <2> QED
    BY <2>2, <2>3 DEF BigKept
<1>11. IsFiniteSet(N) /\ N \subseteq Object /\ \A q, r \in N : q.ptr = r.ptr => q = r
  BY <1>1, FS_Subset
<1> HIDE DEF N
<1>12. Sound(v, N)
  BY <1>4, <1>7, <1>8, <1>9, <1>10, <1>11 DEF Sound
<1> QED
  BY <1>7, <1>12 DEF v, N

-------------------------------------------------------------------------------
(* The collection and the other operations on the memory.                  *)

LEMMA SoundMinimum ==
    ASSUME NEW m, NEW O, Sound(m, O), NEW x \in Nat
    PROVE  /\ Sound([m EXCEPT !.minimum = x], O)
           /\ [m EXCEPT !.minimum = x].used = m.used
<1> DEFINE v == [m EXCEPT !.minimum = x]
<1>1. m \in MemoryType
  BY DEF Sound
<1>2. v \in MemoryType
  BY <1>1 DEF MemoryType
<1>3. v.pools = m.pools /\ v.big = m.big /\ v.used = m.used
  BY <1>1 DEF MemoryType
<1> HIDE DEF v
<1>4. PagesApart(v) <=> PagesApart(m)
  BY <1>3 DEF PagesApart, Pages
<1>5. BigKept(v, O) <=> BigKept(m, O)
  BY <1>3 DEF BigKept
<1>6. Sound(v, O)
  BY <1>2, <1>3, <1>4, <1>5 DEF Sound
<1> QED
  BY <1>3, <1>6 DEF v

\* the garbage that a collection can find
LEMMA CollectedSound ==
    ASSUME NEW m, NEW O, Sound(m, O), NEW G \in SUBSET O, enabled \/ G = {}
    PROVE  Sound(Collected(m, G), O \ G)
<1> DEFINE s == Swept(m, G)
           n == IF s.used + s.used \div 2 >= s.minimum THEN 2 * s.minimum ELSE s.minimum
<1>1. CASE enabled
  <2>1. Sound(s, O \ G)
    BY SweptSound
  <2>2. n \in Nat
    <3>1. s.minimum \in Nat
      BY <2>1, SoundTypes
    <3> HIDE DEF s
    <3> QED
      BY <3>1
  <2>3. Collected(m, G) = [s EXCEPT !.minimum = n]
    BY <1>1 DEF Collected
  <2> HIDE DEF s, n
  <2> QED
    BY <2>1, <2>2, <2>3, SoundMinimum
<1>2. CASE ~enabled
  <2>1. O \ G = O /\ Collected(m, G) = m
    BY <1>2 DEF Collected
  <2> QED
    BY <2>1
<1> QED
  BY <1>1, <1>2

LEMMA EmptySound ==
    ASSUME NEW x \in Nat
    PROVE  Sound(EmptyMemory(x), {})
<1> DEFINE v == EmptyMemory(x)
<1>1. /\ v.pools = [p \in DOMAIN Pools |-> EmptyPool(p)]
      /\ v.big = {} /\ v.used = 0 /\ v.minimum = x
  BY DEF EmptyMemory
<1>2. ASSUME NEW p \in DOMAIN Pools PROVE EmptyPool(p) \in PoolType
  BY Constants DEF EmptyPool, PoolType
<1>3. v \in MemoryType
  BY <1>2 DEF EmptyMemory, MemoryType
<1> HIDE DEF v
<1>4. ASSUME NEW p \in DOMAIN Pools PROVE PoolKept(v.pools[p], p, Heads(p, {}))
  <2> DEFINE q == EmptyPool(p)
  <2>1. q.pages = <<>> /\ q.free = <<>> /\ q.last = Pools[p].count
    BY DEF EmptyPool
  <2>2. q \in PoolType /\ Pools[p].count \in 0..Pools[p].count
    BY <1>2, Constants
  <2> HIDE DEF q
  <2>3. Given(q, p) = {} /\ ToSet(q.free) = {} /\ IsInjective(q.pages) /\ IsInjective(q.free)
    BY <2>1 DEF Given, ToSet, IsInjective
  <2>4. Heads(p, {}) = {}
    BY DEF Heads, In
  <2>5. PoolKept(q, p, {})
    BY <2>1, <2>2, <2>3 DEF PoolKept
  <2> QED
    BY <1>1, <2>4, <2>5 DEF q
<1>5. PagesApart(v)
  <2>1. \A p \in DOMAIN Pools : Pages(v, p) = {}
    BY <1>1 DEF Pages, EmptyPool, ToSet
  <2> QED
    BY <1>1, <2>1 DEF PagesApart
<1>6. BigKept(v, {})
  BY <1>1 DEF BigKept, In
<1>7. Total(Cost({})) = 0
  <2>1. DOMAIN Cost({}) = {}
    BY DEF Cost
  <2> QED
    BY <2>1, TotalEmpty
<1>8. Sound(v, {})
  BY <1>1, <1>3, <1>4, <1>5, <1>6, <1>7, FS_EmptySet DEF Sound
<1> QED
  BY <1>8 DEF v

-------------------------------------------------------------------------------
(* Each step keeps the invariant.                                          *)

\* what AllocObject works with after the collection, if there was one
After(n, G) == IF MustCollect(n + MarkerSize) THEN Collected(mem, G) ELSE mem
Kept(n, G)  == IF MustCollect(n + MarkerSize) THEN objects \ G ELSE objects

LEMMA GarbageIs ==
    ASSUME NEW G \in Garbage
    PROVE  G \in SUBSET objects /\ (enabled \/ G = {})
BY DEF Garbage

LEMMA AfterSound ==
    ASSUME IInv, NEW n, NEW G \in Garbage
    PROVE  Sound(After(n, G), Kept(n, G)) /\ Kept(n, G) \subseteq objects
<1>1. Sound(mem, objects)
  BY DEF IInv
<1>2. G \in SUBSET objects /\ (enabled \/ G = {})
  BY GarbageIs
<1>3. Sound(Collected(mem, G), objects \ G)
  BY <1>1, <1>2, CollectedSound
<1> QED
  BY <1>1, <1>3 DEF After, Kept

\* what AllocObject does
LEMMA AllocStep ==
    ASSUME IInv, AllocObject
    PROVE  \E n \in Sizes, G \in Garbage :
              \/ /\ Fits(After(n, G), n + MarkerSize)
                 /\ \E slot \in FreeSlots(After(n, G)) :
                       LET a == Allocated(After(n, G), n + MarkerSize, slot)
                       IN mem' = a.mem /\ objects' = Kept(n, G) \cup {[ptr |-> a.ptr, size |-> n]}
              \/ mem' = After(n, G) /\ objects' = Kept(n, G)
<1>1. PICK n \in Sizes, G \in Garbage :
          LET bytes == n + MarkerSize
              m == IF MustCollect(bytes) THEN Collected(mem, G) ELSE mem
              kept == IF MustCollect(bytes) THEN objects \ G ELSE objects
          IN IF Fits(m, bytes)
             THEN \E slot \in FreeSlots(m) :
                    LET a == Allocated(m, bytes, slot)
                    IN /\ mem' = a.mem
                       /\ objects' = kept \cup {[ptr |-> a.ptr, size |-> n]}
             ELSE mem' = m /\ objects' = kept
  BY Zenon DEF AllocObject
<1> QED
  BY <1>1, Zenon DEF After, Kept

LEMMA AllocKept ==
    ASSUME IInv, AllocObject
    PROVE  Sound(mem', objects')
<1>1. PICK n \in Sizes, G \in Garbage :
          \/ /\ Fits(After(n, G), n + MarkerSize)
             /\ \E slot \in FreeSlots(After(n, G)) :
                   LET a == Allocated(After(n, G), n + MarkerSize, slot)
                   IN mem' = a.mem /\ objects' = Kept(n, G) \cup {[ptr |-> a.ptr, size |-> n]}
          \/ mem' = After(n, G) /\ objects' = Kept(n, G)
  BY AllocStep
<1>2. Sound(After(n, G), Kept(n, G))
  BY AfterSound
<1>3. CASE mem' = After(n, G) /\ objects' = Kept(n, G)
  BY <1>2, <1>3
<1>4. CASE \E slot \in FreeSlots(After(n, G)) :
              LET a == Allocated(After(n, G), n + MarkerSize, slot)
              IN mem' = a.mem /\ objects' = Kept(n, G) \cup {[ptr |-> a.ptr, size |-> n]}
  <2>1. PICK slot \in FreeSlots(After(n, G)) :
            LET a == Allocated(After(n, G), n + MarkerSize, slot)
            IN mem' = a.mem /\ objects' = Kept(n, G) \cup {[ptr |-> a.ptr, size |-> n]}
    BY <1>4
  <2> DEFINE a == Allocated(After(n, G), n + MarkerSize, slot)
             o == [ptr |-> a.ptr, size |-> n]
  <2>2. mem' = a.mem /\ objects' = Kept(n, G) \cup {o}
    BY <2>1
  <2>3. Sound(a.mem, Kept(n, G) \cup {o})
    BY <1>2, AllocatedSound
  <2> HIDE DEF a, o
  <2> QED
    BY <2>2, <2>3
<1> QED
  BY <1>1, <1>3, <1>4

LEMMA CollectKept ==
    ASSUME IInv, CollectMemory
    PROVE  Sound(mem', objects') /\ objects' \subseteq objects
<1>1. PICK G \in Garbage : mem' = Collected(mem, G) /\ objects' = objects \ G
  BY DEF CollectMemory
<1>2. G \in SUBSET objects /\ (enabled \/ G = {}) /\ Sound(mem, objects)
  BY GarbageIs DEF IInv
<1>3. Sound(Collected(mem, G), objects \ G)
  BY <1>2, CollectedSound
<1> QED
  BY <1>1, <1>3

LEMMA LimitSetKept ==
    ASSUME IInv, SetGlobalLimit
    PROVE  Sound(mem', objects') /\ limit' \in Nat /\ objects' = objects /\ enabled' = enabled
<1>1. PICK n \in Limits :
          /\ limit' = n
          /\ mem' = [mem EXCEPT !.minimum = IF n < BaseMinimum THEN n ELSE BaseMinimum]
          /\ objects' = objects /\ enabled' = enabled
  BY DEF SetGlobalLimit
<1>2. n \in Nat /\ BaseMinimum \in Nat
  BY PoolsAssumption
<1> DEFINE x == IF n < BaseMinimum THEN n ELSE BaseMinimum
<1>3. x \in Nat
  BY <1>2
<1>4. mem' = [mem EXCEPT !.minimum = x]
  BY <1>1
<1> HIDE DEF x
<1>5. Sound([mem EXCEPT !.minimum = x], objects)
  BY <1>3, SoundMinimum DEF IInv
<1> QED
  BY <1>1, <1>2, <1>4, <1>5

LEMMA ClearKept ==
    ASSUME IInv, ClearMemory
    PROVE  Sound(mem', objects') /\ objects' = {} /\ mem'.used = 0
<1>1. mem.minimum \in Nat
  BY SoundTypes DEF IInv
<1>2. mem' = EmptyMemory(mem.minimum) /\ objects' = {}
  BY DEF ClearMemory
<1>3. Sound(EmptyMemory(mem.minimum), {})
  BY <1>1, EmptySound
<1>4. EmptyMemory(mem.minimum).used = 0
  BY DEF EmptyMemory
<1> QED
  BY <1>2, <1>3, <1>4

LEMMA InitKept ==
    ASSUME Init
    PROVE  IInv
<1>1. BaseMinimum \in Nat /\ Limit \in Nat
  BY PoolsAssumption
<1>2. Sound(EmptyMemory(BaseMinimum), {})
  BY <1>1, EmptySound
<1> QED
  BY <1>1, <1>2 DEF Init, IInv

LEMMA StepKept ==
    ASSUME IInv, [Next]_vars
    PROVE  IInv'
<1>1. limit \in Nat /\ enabled \in BOOLEAN /\ Sound(mem, objects)
  BY DEF IInv
<1>2. CASE AllocObject
  <2>1. limit' = limit /\ enabled' = enabled
    BY <1>2 DEF AllocObject
  <2>2. Sound(mem', objects')
    BY <1>2, AllocKept
  <2> QED
    BY <1>1, <2>1, <2>2 DEF IInv
<1>3. CASE CollectMemory
  <2>1. limit' = limit /\ enabled' = enabled
    BY <1>3 DEF CollectMemory
  <2>2. Sound(mem', objects')
    BY <1>3, CollectKept
  <2> QED
    BY <1>1, <2>1, <2>2 DEF IInv
<1>4. CASE SetCollectMemory
  BY <1>1, <1>4 DEF SetCollectMemory, IInv
<1>5. CASE SetGlobalLimit
  BY <1>1, <1>5, LimitSetKept DEF IInv
<1>6. CASE ClearMemory
  <2>1. limit' = limit /\ enabled' = TRUE
    BY <1>6 DEF ClearMemory
  <2>2. Sound(mem', objects')
    BY <1>6, ClearKept
  <2> QED
    BY <1>1, <2>1, <2>2 DEF IInv
<1>7. CASE UNCHANGED vars
  BY <1>1, <1>7 DEF vars, IInv
<1> QED
  BY <1>2, <1>3, <1>4, <1>5, <1>6, <1>7 DEF Next

-------------------------------------------------------------------------------
(* What the invariant says of the properties.                              *)

LEMMA InvTyped ==
    ASSUME IInv
    PROVE  TypeOK
<1>1. Sound(mem, objects) /\ mem \in MemoryType
  BY DEF IInv, Sound
<1>2. mem.pools \in Seq(PoolType)
  <2>1. mem.pools \in [1..Len(Pools) -> PoolType] /\ Len(Pools) \in Nat
    BY <1>1, Constants DEF MemoryType
  <2> QED
    BY <2>1
<1>3. mem \in Memory
  <2> DEFINE Rest == [big : SUBSET BigType, used : Nat, minimum : Nat]
  <2>1. /\ mem = [pools |-> mem.pools, big |-> mem.big, used |-> mem.used, minimum |-> mem.minimum]
        /\ mem.big \in SUBSET BigType /\ mem.used \in Nat /\ mem.minimum \in Nat
    BY <1>1 DEF MemoryType
  <2>2. Memory = [pools : Seq(PoolType), big : SUBSET BigType, used : Nat, minimum : Nat]
    BY DEF Memory, PoolType, BigType
  <2>3. \A f \in Seq(PoolType), b \in SUBSET BigType, u \in Nat, x \in Nat :
            [pools |-> f, big |-> b, used |-> u, minimum |-> x]
                \in [pools : Seq(PoolType), big : SUBSET BigType, used : Nat, minimum : Nat]
    OBVIOUS
  <2> QED
    BY <1>2, <2>1, <2>2, <2>3
<1>4. \A p \in DOMAIN Pools : mem.pools[p].last <= Pools[p].count
  BY <1>1, Constants DEF Sound, PoolKept
<1>5. \A o \in objects : o.ptr \in Nat /\ o.size \in Sizes
  BY <1>1, SoundTypes
<1> QED
  BY <1>3, <1>4, <1>5 DEF TypeOK, IInv

LEMMA InvAccounted ==
    ASSUME IInv
    PROVE  Accounted
<1>1. Sound(mem, objects)
  BY DEF IInv
<1>2. ASSUME NEW p \in DOMAIN Pools
      PROVE  /\ IsInjective(mem.pools[p].free)
             /\ ToSet(Carved(mem.pools[p], p)) = ToSet(mem.pools[p].free) \cup Heads(p, objects)
  <2>1. PoolKept(mem.pools[p], p, Heads(p, objects))
    BY <1>1 DEF Sound
  <2>2. ToSet(Carved(mem.pools[p], p)) = Given(mem.pools[p], p)
    BY <2>1, CarvedLists, ListsSet
  <2> QED
    BY <2>1, <2>2 DEF PoolKept
<1>3. BlocksAccounted
  BY <1>2 DEF BlocksAccounted, Heads, In, PoolOf
<1>4. UsedExact
  BY <1>1 DEF UsedExact, Sound, Total, Cost
<1> QED
  BY <1>3, <1>4 DEF Accounted

LEMMA UsedLess ==
    ASSUME NEW m, NEW O, Sound(m, O), NEW v, NEW T \in SUBSET O, Sound(v, T)
    PROVE  ~(v.used > m.used)
<1>1. O \subseteq Object /\ IsFiniteSet(O) /\ m.used = Total(Cost(O)) /\ v.used = Total(Cost(T))
  BY DEF Sound
<1>2. Total(Cost(T)) <= Total(Cost(O))
  BY <1>1, CostLess
<1>3. v.used \in Nat /\ m.used \in Nat
  BY SoundTypes
<1> QED
  BY <1>1, <1>2, <1>3

Limited ==
    mem'.used > mem.used =>
        \E o \in objects' \ objects :
            mem'.used <= limit + RealSize(o.size + MarkerSize) - (o.size + MarkerSize)

LEMMA AllocLimited ==
    ASSUME IInv, AllocObject
    PROVE  Limited
<1>1. PICK n \in Sizes, G \in Garbage :
          \/ /\ Fits(After(n, G), n + MarkerSize)
             /\ \E slot \in FreeSlots(After(n, G)) :
                   LET a == Allocated(After(n, G), n + MarkerSize, slot)
                   IN mem' = a.mem /\ objects' = Kept(n, G) \cup {[ptr |-> a.ptr, size |-> n]}
          \/ mem' = After(n, G) /\ objects' = Kept(n, G)
  BY AllocStep
<1> DEFINE m == After(n, G)
           kept == Kept(n, G)
<1>2. Sound(m, kept) /\ kept \in SUBSET objects /\ Sound(mem, objects) /\ limit \in Nat
  BY AfterSound DEF IInv
<1>3. CASE mem' = m /\ objects' = kept
  <2>1. ~(mem'.used > mem.used)
    BY <1>2, <1>3, UsedLess
  <2> QED
    BY <2>1 DEF Limited
<1>4. CASE /\ Fits(m, n + MarkerSize)
           /\ \E slot \in FreeSlots(m) :
                 LET a == Allocated(m, n + MarkerSize, slot)
                 IN mem' = a.mem /\ objects' = kept \cup {[ptr |-> a.ptr, size |-> n]}
  <2>1. PICK slot \in FreeSlots(m) :
            LET a == Allocated(m, n + MarkerSize, slot)
            IN mem' = a.mem /\ objects' = kept \cup {[ptr |-> a.ptr, size |-> n]}
    BY <1>4
  <2> DEFINE a == Allocated(m, n + MarkerSize, slot)
             o == [ptr |-> a.ptr, size |-> n]
  <2>2. mem' = a.mem /\ objects' = kept \cup {o} /\ o.size = n
    BY <2>1
  <2>3. Sound(a.mem, kept \cup {o}) /\ a.mem.used = m.used + RealSize(n + MarkerSize)
    BY <1>2, AllocatedSound
  <2> HIDE DEF a, o, m, kept
  <2>4. CASE o \in objects
    <3>1. objects' \in SUBSET objects /\ Sound(mem', objects')
      BY <1>2, <2>2, <2>3, <2>4
    <3>2. ~(mem'.used > mem.used)
      BY <1>2, <3>1, UsedLess
    <3> QED
      BY <3>2 DEF Limited
  <2>5. CASE o \notin objects
    <3>1. o \in objects' \ objects
      BY <2>2, <2>5
    <3>2. m.used + (n + MarkerSize) <= limit
      BY <1>4 DEF Fits
    <3>3. m.used \in Nat /\ n + MarkerSize \in Nat
      BY <1>2, SoundTypes, Constants DEF MarkerSize
    <3>4. RealSize(n + MarkerSize) \in Nat
      BY <3>3, RealSizeIs
    <3>5. mem'.used = m.used + RealSize(n + MarkerSize)
      BY <2>2, <2>3
    <3>6. mem'.used <= limit + RealSize(n + MarkerSize) - (n + MarkerSize)
      <4> DEFINE b == n + MarkerSize
                 r == RealSize(b)
      <4>1. m.used + b <= limit /\ m.used \in Nat /\ b \in Nat /\ r \in Nat /\ limit \in Nat
            /\ mem'.used = m.used + r
        BY <1>2, <3>2, <3>3, <3>4, <3>5
      <4> HIDE DEF b, r
      <4>2. mem'.used <= limit + r - b
        BY <4>1
      <4> QED
        BY <4>2 DEF b, r
    <3> QED
      BY <2>2, <3>1, <3>6 DEF Limited
  <2> QED
    BY <2>4, <2>5
<1> QED
  BY <1>1, <1>3, <1>4

LEMMA StepLimited ==
    ASSUME IInv, [Next]_vars
    PROVE  [Limited]_vars
<1>1. Sound(mem, objects) /\ mem.used \in Nat
  BY SoundTypes DEF IInv
<1>2. CASE AllocObject
  BY <1>2, AllocLimited
<1>3. CASE CollectMemory
  BY <1>1, <1>3, CollectKept, UsedLess DEF Limited
<1>4. CASE SetCollectMemory
  BY <1>1, <1>4 DEF SetCollectMemory, Limited
<1>5. CASE SetGlobalLimit
  <2>1. Sound(mem', objects') /\ objects' \in SUBSET objects
    BY <1>5, LimitSetKept
  <2> QED
    BY <1>1, <2>1, UsedLess DEF Limited
<1>6. CASE ClearMemory
  <2>1. mem'.used = 0
    BY <1>6, ClearKept
  <2> QED
    BY <1>1, <2>1 DEF Limited
<1>7. CASE UNCHANGED vars
  BY <1>7
<1> QED
  BY <1>2, <1>3, <1>4, <1>5, <1>6, <1>7 DEF Next


-------------------------------------------------------------------------------
(* The binary search of GetBasePointer.                                    *)

Window(n) == [lower : 0..n, upper : 0..n, at : 0..n]
Narrow(n, k) == {w \in Window(n) : w.upper - w.lower <= k}
Middle(w) == (w.lower + w.upper) \div 2
Left(w)  == [lower |-> w.lower, upper |-> Middle(w), at |-> Middle(w)]
Right(w) == [lower |-> Middle(w), upper |-> w.upper, at |-> Middle(w)]

IsSearch(s, a, D, f) ==
    f = [w \in D |-> IF w.upper - w.lower <= 1 THEN w.at
                     ELSE IF a < s[Middle(w) + 1] THEN f[Left(w)]
                     ELSE IF a > s[Middle(w) + 1] THEN f[Right(w)]
                     ELSE -1]

LEMMA MiddleIs ==
    ASSUME NEW n \in Nat, NEW w \in Window(n), w.upper - w.lower > 1
    PROVE  /\ Middle(w) \in 0..n
           /\ w.lower < Middle(w) /\ Middle(w) < w.upper
           /\ Left(w) \in Window(n) /\ Right(w) \in Window(n)
           /\ \A k \in Nat : w.upper - w.lower <= k + 1 =>
                                Left(w) \in Narrow(n, k) /\ Right(w) \in Narrow(n, k)
<1> DEFINE l == w.lower
           u == w.upper
           m == Middle(w)
<1>1. l \in 0..n /\ u \in 0..n /\ l \in Nat /\ u \in Nat
  BY DEF Window
<1>2. m = (l + u) \div 2
  BY DEF Middle
<1> HIDE DEF l, u, m
<1>3. u - l > 1
  BY DEF l, u
<1>4. m \in Int /\ l < m /\ m < u
  BY <1>1, <1>2, <1>3
<1>5. m \in 0..n
  BY <1>1, <1>4
<1>6. /\ Left(w) = [lower |-> l, upper |-> m, at |-> m]
      /\ Right(w) = [lower |-> m, upper |-> u, at |-> m]
  BY DEF Left, Right, l, u, m
<1>7. Left(w) \in Window(n) /\ Right(w) \in Window(n)
  BY <1>1, <1>5, <1>6 DEF Window
<1>8. ASSUME NEW k \in Nat, u - l <= k + 1
      PROVE  Left(w) \in Narrow(n, k) /\ Right(w) \in Narrow(n, k)
  <2>1. m - l <= k /\ u - m <= k
    BY <1>1, <1>4, <1>8
  <2> QED
    BY <1>6, <1>7, <2>1 DEF Narrow
<1> QED
  BY <1>4, <1>5, <1>7, <1>8 DEF l, u, m

LEMMA SearchMore ==
    ASSUME NEW s, NEW a, NEW n \in Nat, NEW k \in Nat \ {0}, NEW g,
           IsSearch(s, a, Narrow(n, k), g)
    PROVE  \E h : IsSearch(s, a, Narrow(n, k + 1), h)
<1> DEFINE D == Narrow(n, k)
           E == Narrow(n, k + 1)
           h == [w \in E |-> IF w.upper - w.lower <= 1 THEN w.at
                             ELSE IF a < s[Middle(w) + 1] THEN g[Left(w)]
                             ELSE IF a > s[Middle(w) + 1] THEN g[Right(w)]
                             ELSE -1]
<1>1. \A w \in D : g[w] = IF w.upper - w.lower <= 1 THEN w.at
                          ELSE IF a < s[Middle(w) + 1] THEN g[Left(w)]
                          ELSE IF a > s[Middle(w) + 1] THEN g[Right(w)]
                          ELSE -1
  BY DEF IsSearch
<1>2. D \subseteq E
  <2>1. \A w \in Window(n) : w.upper - w.lower <= k => w.upper - w.lower <= k + 1
    <3>1. \A w \in Window(n) : w.upper - w.lower \in Int
      BY DEF Window
    <3> QED
      BY <3>1
  <2> QED
    BY <2>1 DEF Narrow
<1>3. \A w \in D : h[w] = g[w]
  BY <1>1, <1>2
<1>4. \A w \in E : w \in Window(n) /\ w.upper - w.lower <= k + 1 /\ w.upper - w.lower \in Int
  BY DEF Narrow, Window
<1>5. \A w \in E : ~(w.upper - w.lower <= 1) => Left(w) \in D /\ Right(w) \in D
  <2>1. SUFFICES ASSUME NEW w \in E, ~(w.upper - w.lower <= 1) PROVE Left(w) \in D /\ Right(w) \in D
    OBVIOUS
  <2>2. w.upper - w.lower > 1
    BY <1>4, <2>1
  <2> QED
    BY <1>4, <2>2, MiddleIs
<1>6. \A w \in E : h[w] = IF w.upper - w.lower <= 1 THEN w.at
                          ELSE IF a < s[Middle(w) + 1] THEN g[Left(w)]
                          ELSE IF a > s[Middle(w) + 1] THEN g[Right(w)]
                          ELSE -1
  OBVIOUS
<1>7. h = [w \in E |-> h[w]]
  OBVIOUS
<1> HIDE DEF h, D, E
<1>8. \A w \in E : h[w] = IF w.upper - w.lower <= 1 THEN w.at
                          ELSE IF a < s[Middle(w) + 1] THEN h[Left(w)]
                          ELSE IF a > s[Middle(w) + 1] THEN h[Right(w)]
                          ELSE -1
  BY <1>3, <1>5, <1>6
<1>9. IsSearch(s, a, E, h)
  BY <1>7, <1>8 DEF IsSearch
<1> QED
  BY <1>9 DEF E

LEMMA SearchExists ==
    ASSUME NEW s, NEW a, NEW n \in Nat
    PROVE  \E f : IsSearch(s, a, Window(n), f)
<1> DEFINE X == {k \in Nat : \E f : IsSearch(s, a, Narrow(n, k + 1), f)}
<1>1. 0 \in X
  <2> DEFINE f == [w \in Narrow(n, 0 + 1) |-> w.at]
  <2>1. \A w \in Narrow(n, 0 + 1) : w.upper - w.lower <= 1
    BY DEF Narrow
  <2>2. IsSearch(s, a, Narrow(n, 0 + 1), f)
    BY <2>1 DEF IsSearch
  <2> QED
    BY <2>2
<1>2. ASSUME NEW k \in Nat, k \in X PROVE k + 1 \in X
  <2>1. PICK g : IsSearch(s, a, Narrow(n, k + 1), g)
    BY <1>2
  <2>2. k + 1 \in Nat \ {0}
    OBVIOUS
  <2>3. \E h : IsSearch(s, a, Narrow(n, (k + 1) + 1), h)
    BY <2>1, <2>2, SearchMore
  <2> QED
    BY <2>3
<1> HIDE DEF X
<1>3. n \in X
  BY <1>1, <1>2, SetInduction
<1>4. Narrow(n, n + 1) = Window(n)
  <2>1. \A w \in Window(n) : w.lower \in 0..n /\ w.upper \in 0..n
    BY DEF Window
  <2>2. \A l, u \in 0..n : u - l <= n + 1
    OBVIOUS
  <2>3. \A w \in Window(n) : w.upper - w.lower <= n + 1
    BY <2>1, <2>2
  <2> QED
    BY <2>3 DEF Narrow
<1> QED
  BY <1>3, <1>4 DEF X

LEMMA SearchIs ==
    ASSUME NEW s, NEW a, Len(s) \in Nat
    PROVE  \E f : /\ IsSearch(s, a, Window(Len(s)), f)
                  /\ Search(s, a) = f[[lower |-> 0, upper |-> Len(s) - 1, at |-> 0]]
<1> DEFINE n == Len(s)
           g == CHOOSE g : g = [w \in [lower : 0..n, upper : 0..n, at : 0..n] |->
                     IF w.upper - w.lower <= 1 THEN w.at
                     ELSE IF a < s[((w.lower + w.upper) \div 2) + 1]
                     THEN g[[lower |-> w.lower, upper |-> (w.lower + w.upper) \div 2,
                             at |-> (w.lower + w.upper) \div 2]]
                     ELSE IF a > s[((w.lower + w.upper) \div 2) + 1]
                     THEN g[[lower |-> (w.lower + w.upper) \div 2, upper |-> w.upper,
                             at |-> (w.lower + w.upper) \div 2]]
                     ELSE -1]
<1>1. Search(s, a) = g[[lower |-> 0, upper |-> n - 1, at |-> 0]]
  BY DEF Search
<1>2. IsSearch(s, a, Window(n), g)
  <2>1. \E f : IsSearch(s, a, Window(n), f)
    BY SearchExists
  <2> QED
    BY <2>1, Zenon DEF IsSearch, Window, Middle, Left, Right
<1> QED
  BY <1>1, <1>2

-------------------------------------------------------------------------------
(* Where the search ends.                                                  *)

\* what holds of the window: the address is behind its lower page, before its upper
\* one if the search has moved that, and at is one of the two
Around(s, a, l, u, at) ==
    /\ l \in 0..(Len(s) - 1) /\ u \in 0..(Len(s) - 1) /\ l <= u
    /\ s[l + 1] < a
    /\ \/ at = l /\ u = Len(s) - 1
       \/ at = l /\ a < s[u + 1]
       \/ at = u /\ l < u /\ a < s[u + 1]

Ended(s, a, at) == \E l, u \in 0..(Len(s) - 1) : Around(s, a, l, u, at) /\ u - l <= 1

LEMMA SearchEnds ==
    ASSUME NEW s \in Seq(Nat), s # <<>>, NEW a \in Nat, s[1] < a,
           \A i \in 1..Len(s) : s[i] # a
    PROVE  Ended(s, a, Search(s, a))
<1> DEFINE n == Len(s)
           W == Window(n)
<1>1. n \in Nat \ {0} /\ \A i \in 1..n : s[i] \in Nat
  BY EmptySeq, ElementOfSeq
<1>2. PICK f : /\ IsSearch(s, a, W, f)
               /\ Search(s, a) = f[[lower |-> 0, upper |-> n - 1, at |-> 0]]
  BY <1>1, SearchIs
<1>3. \A w \in W : f[w] = IF w.upper - w.lower <= 1 THEN w.at
                          ELSE IF a < s[Middle(w) + 1] THEN f[Left(w)]
                          ELSE IF a > s[Middle(w) + 1] THEN f[Right(w)]
                          ELSE -1
  BY <1>2 DEF IsSearch
<1> DEFINE Good(w) == Around(s, a, w.lower, w.upper, w.at)
           X == {k \in Nat : \A w \in W : Good(w) /\ w.upper - w.lower <= k + 1
                                              => Ended(s, a, f[w])}
<1> HIDE DEF W, n
<1>4. \A w \in W : w.lower \in 0..n /\ w.upper \in 0..n /\ w.upper - w.lower \in Int
  BY <1>1 DEF W, Window
<1>5. ASSUME NEW w \in W, Good(w), w.upper - w.lower <= 1 PROVE Ended(s, a, f[w])
  <2>1. f[w] = w.at
    BY <1>3, <1>5
  <2>2. w.lower \in 0..(Len(s) - 1) /\ w.upper \in 0..(Len(s) - 1)
    BY <1>5 DEF Around
  <2> QED
    BY <1>5, <2>1, <2>2 DEF Ended
<1>6. 0 \in X
  BY <1>5
<1>7. ASSUME NEW k \in Nat, k \in X PROVE k + 1 \in X
  <2>1. SUFFICES ASSUME NEW w \in W, Good(w), w.upper - w.lower <= (k + 1) + 1
                 PROVE  Ended(s, a, f[w])
    OBVIOUS
  <2>2. CASE w.upper - w.lower <= 1
    BY <1>5, <2>1, <2>2
  <2>3. CASE ~(w.upper - w.lower <= 1)
    <3> DEFINE m == Middle(w)
    <3>1. w.upper - w.lower > 1
      BY <1>4, <2>3
    <3>2. /\ m \in 0..n /\ w.lower < m /\ m < w.upper
          /\ Left(w) \in W /\ Right(w) \in W
          /\ Left(w) \in Narrow(n, k + 1) /\ Right(w) \in Narrow(n, k + 1)
      BY <1>1, <2>1, <3>1, MiddleIs DEF W
    <3>3. Left(w).upper - Left(w).lower <= k + 1 /\ Right(w).upper - Right(w).lower <= k + 1
      BY <3>2 DEF Narrow
    <3>4. w.upper \in 0..(n - 1) /\ w.lower \in 0..(n - 1) /\ s[w.lower + 1] < a
          /\ (w.upper = n - 1 \/ a < s[w.upper + 1])
      BY <2>1 DEF Around, n
    <3>5. m \in 0..(n - 1) /\ m + 1 \in 1..n /\ m \in Nat
      BY <1>1, <3>2, <3>4
    <3>6. s[m + 1] # a /\ s[m + 1] \in Nat
      BY <1>1, <3>5 DEF n
    <3> HIDE DEF m
    <3>7. CASE a < s[m + 1]
      <4>1. f[w] = f[Left(w)]
        BY <1>3, <2>1, <2>3, <3>7 DEF m
      <4>2. Left(w).lower = w.lower /\ Left(w).upper = m /\ Left(w).at = m
        BY DEF Left, m
      <4>3. Around(s, a, w.lower, m, m)
        BY <3>2, <3>4, <3>5, <3>7, <1>1 DEF Around, n
      <4>4. Good(Left(w))
        BY <4>2, <4>3
      <4> HIDE DEF Good
      <4> QED
        BY <1>7, <3>2, <3>3, <4>1, <4>4
    <3>8. CASE ~(a < s[m + 1])
      <4>1. a > s[m + 1]
        BY <3>6, <3>8
      <4>2. f[w] = f[Right(w)]
        BY <1>3, <2>1, <2>3, <3>8, <4>1 DEF m
      <4>3. Right(w).lower = m /\ Right(w).upper = w.upper /\ Right(w).at = m
        BY DEF Right, m
      <4>4. Around(s, a, m, w.upper, m)
        BY <3>2, <3>4, <3>5, <3>6, <4>1, <1>1 DEF Around, n
      <4>5. Good(Right(w))
        BY <4>3, <4>4
      <4> HIDE DEF Good
      <4> QED
        BY <1>7, <3>2, <3>3, <4>2, <4>5
    <3> QED
      BY <3>7, <3>8
  <2> QED
    BY <2>2, <2>3
<1> DEFINE w == [lower |-> 0, upper |-> n - 1, at |-> 0]
<1>8. w \in W /\ w.lower = 0 /\ w.upper = n - 1 /\ w.at = 0
  BY <1>1 DEF W, Window
<1>9. Good(w)
  <2>1. 0 \in 0..(n - 1) /\ n - 1 \in 0..(n - 1) /\ 0 <= n - 1 /\ 0 + 1 = 1
    BY <1>1
  <2>2. Around(s, a, 0, n - 1, 0)
    BY <2>1 DEF Around, n
  <2> HIDE DEF w
  <2> QED
    BY <1>8, <2>2
<1> HIDE DEF X, Good, w
<1>10. n \in X
  <2>1. \A k \in Nat : k \in X
    BY <1>6, <1>7, SetInduction
  <2> QED
    BY <1>1, <2>1
<1> HIDE DEF n
<1>11. (n - 1) - 0 <= n + 1
  BY <1>1
<1>12. w.upper - w.lower <= n + 1
  BY <1>8, <1>11
<1>13. Ended(s, a, f[w])
  BY <1>8, <1>9, <1>10, <1>12 DEF X
<1> QED
  BY <1>2, <1>13 DEF w, n

-------------------------------------------------------------------------------
(* The order of sortedPages.                                               *)

Increasing(s) == \A i, j \in 1..Len(s) : i < j => s[i] < s[j]

SortedOk(pool) == Increasing(pool.sorted) /\ ToSet(pool.sorted) = ToSet(pool.pages)
SortedIn(m)    == \A p \in DOMAIN Pools : SortedOk(m.pools[p])

LEMMA BelowIs ==
    ASSUME NEW s \in Seq(Slots), Increasing(s), NEW x \in Slots, x \notin ToSet(s)
    PROVE  LET c == Cardinality({k \in DOMAIN s : s[k] < x})
           IN /\ c \in 0..Len(s)
              /\ \A i \in 1..Len(s) : s[i] \in Nat /\ (IF i <= c THEN s[i] < x ELSE x < s[i])
<1> DEFINE n == Len(s)
           below == {k \in DOMAIN s : s[k] < x}
           Rest == (1..(n + 1)) \ below
<1>1. n \in Nat /\ DOMAIN s = 1..n /\ \A i \in 1..n : s[i] \in Slots
  BY LenProperties, ElementOfSeq
<1>2. x \in Nat /\ \A i \in 1..n : s[i] \in Nat /\ s[i] # x
  <2>1. \A i \in 1..n : s[i] \in ToSet(s)
    BY <1>1 DEF ToSet
  <2> QED
    BY <1>1, <2>1, Constants
<1>3. below = {k \in 1..n : s[k] < x}
  BY <1>1
<1> HIDE DEF below, n
<1>4. PICK m \in Rest : \A k \in Rest : m <= k
  <2>1. Rest \in SUBSET Nat
    BY <1>1
  <2>2. n + 1 \in Rest
    BY <1>1, <1>3
  <2> HIDE DEF Rest
  <2> QED
    BY <2>1, <2>2, LeastExists
<1>5. m \in 1..(n + 1) /\ m \notin below
  BY <1>4
<1>6. \A k \in 1..n : k < m => k \in below
  <2>1. SUFFICES ASSUME NEW k \in 1..n, k < m, k \notin below PROVE FALSE
    OBVIOUS
  <2>2. k \in Rest
    BY <1>1, <2>1
  <2> HIDE DEF Rest
  <2> QED
    BY <1>1, <1>4, <1>5, <2>1, <2>2
<1>7. \A k \in below : k < m
  <2>1. SUFFICES ASSUME NEW k \in below, ~(k < m) PROVE FALSE
    OBVIOUS
  <2>2. k \in 1..n /\ s[k] < x
    BY <1>3
  <2>3. m \in 1..n /\ m < k
    BY <1>1, <1>5, <2>1, <2>2
  <2>4. s[m] < s[k]
    BY <2>2, <2>3 DEF Increasing, n
  <2>5. s[m] < x
    BY <1>2, <2>2, <2>3, <2>4
  <2> QED
    BY <1>3, <1>5, <2>3, <2>5
<1>8. below = 1..(m - 1)
  <2>1. \A k \in below : k \in 1..(m - 1)
    BY <1>1, <1>3, <1>5, <1>7
  <2>2. \A k \in 1..(m - 1) : k \in 1..n /\ k < m
    BY <1>1, <1>5
  <2> QED
    BY <1>6, <2>1, <2>2
<1>9. Cardinality(below) = m - 1
  <2>1. 1 \in Int /\ m - 1 \in Int /\ (1 > m - 1 => m - 1 = 0) /\ (m - 1) - 1 + 1 = m - 1
    BY <1>1, <1>5
  <2>2. Cardinality(1..(m - 1)) = IF 1 > m - 1 THEN 0 ELSE (m - 1) - 1 + 1
    BY <2>1, FS_Interval
  <2> QED
    BY <1>8, <2>1, <2>2
<1>10. m - 1 \in 0..n
  BY <1>1, <1>5
<1>11. \A i \in 1..n : s[i] \in Nat /\ (IF i <= m - 1 THEN s[i] < x ELSE x < s[i])
  <2>1. SUFFICES ASSUME NEW i \in 1..n PROVE IF i <= m - 1 THEN s[i] < x ELSE x < s[i]
    BY <1>2
  <2>2. CASE i <= m - 1
    <3>1. i \in below
      BY <1>1, <1>5, <1>8, <2>2
    <3> QED
      BY <1>3, <2>2, <3>1
  <2>3. CASE ~(i <= m - 1)
    <3>1. i \notin below
      BY <1>1, <1>5, <1>8, <2>3
    <3>2. ~(s[i] < x)
      BY <1>3, <3>1
    <3> QED
      BY <1>2, <2>3, <3>2
  <2> QED
    BY <2>2, <2>3
<1> QED
  BY <1>9, <1>10, <1>11 DEF below, n

\* sortedPages stays in order and gets the page
LEMMA InsertSorted ==
    ASSUME NEW s \in Seq(Slots), Increasing(s), NEW x \in Slots, x \notin ToSet(s)
    PROVE  Increasing(Insert(s, x)) /\ ToSet(Insert(s, x)) = ToSet(s) \cup {x}
<1> DEFINE n == Len(s)
           c == Cardinality({k \in DOMAIN s : s[k] < x})
           z == Insert(s, x)
<1>1. n \in Nat /\ DOMAIN s = 1..n /\ x \in Nat
  BY LenProperties, Constants
<1>2. /\ c \in 0..n
      /\ \A i \in 1..n : s[i] \in Nat /\ (IF i <= c THEN s[i] < x ELSE x < s[i])
  BY BelowIs
<1>3. /\ z \in Seq(Slots) /\ Len(z) = n + 1
      /\ \A i \in 1..(n + 1) : z[i] = IF i <= c THEN s[i] ELSE IF i = c + 1 THEN x ELSE s[i - 1]
  <2>1. LET d == Cardinality({k \in DOMAIN s : s[k] < x})
        IN /\ d \in 0..Len(s)
           /\ Insert(s, x) \in Seq(Slots) /\ Len(Insert(s, x)) = Len(s) + 1
           /\ \A i \in 1..(Len(s) + 1) :
                 Insert(s, x)[i] = IF i <= d THEN s[i] ELSE IF i = d + 1 THEN x ELSE s[i - 1]
    BY InsertIs
  <2> QED
    BY <2>1, Zenon
<1>4. DOMAIN z = 1..(n + 1)
  BY <1>3, LenProperties
<1> HIDE DEF c, z, n
<1>5. \A i \in 1..(n + 1) :
          \/ i <= c /\ i \in 1..n /\ z[i] = s[i] /\ z[i] < x
          \/ i = c + 1 /\ z[i] = x
          \/ i > c + 1 /\ i - 1 \in 1..n /\ z[i] = s[i - 1] /\ x < z[i]
  <2>1. SUFFICES ASSUME NEW i \in 1..(n + 1)
                 PROVE  \/ i <= c /\ i \in 1..n /\ z[i] = s[i] /\ z[i] < x
                        \/ i = c + 1 /\ z[i] = x
                        \/ i > c + 1 /\ i - 1 \in 1..n /\ z[i] = s[i - 1] /\ x < z[i]
    OBVIOUS
  <2>2. CASE i <= c
    <3>1. i \in 1..n
      BY <1>1, <1>2, <2>2
    <3> QED
      BY <1>2, <1>3, <2>2, <3>1
  <2>3. CASE i = c + 1
    <3>1. ~(i <= c)
      BY <1>1, <1>2, <2>3
    <3> QED
      BY <1>3, <2>3, <3>1
  <2>4. CASE i > c + 1
    <3>1. ~(i <= c) /\ i # c + 1 /\ i - 1 \in 1..n /\ ~(i - 1 <= c)
      BY <1>1, <1>2, <2>4
    <3> QED
      BY <1>2, <1>3, <2>4, <3>1
  <2> QED
    BY <1>1, <1>2, <2>2, <2>3, <2>4
<1>6. Increasing(z)
  <2>1. SUFFICES ASSUME NEW i \in 1..(n + 1), NEW j \in 1..(n + 1), i < j
                 PROVE  z[i] < z[j]
    BY <1>3 DEF Increasing
  <2>2. z[i] \in Nat /\ z[j] \in Nat
    BY <1>1, <1>2, <1>5
  <2>3. \A h, k \in 1..n : h < k => s[h] < s[k]
    BY DEF Increasing, n
  <2>4. CASE j <= c
    <3>1. i <= c /\ i \in 1..n /\ j \in 1..n
      BY <1>1, <1>2, <2>1, <2>4
    <3>2. z[i] = s[i] /\ z[j] = s[j]
      BY <1>3, <2>4, <3>1
    <3> QED
      BY <2>1, <2>3, <3>1, <3>2
  <2>5. CASE j = c + 1
    <3>1. i <= c
      BY <1>1, <1>2, <2>1, <2>5
    <3>2. z[j] = x /\ z[i] < x
      BY <1>1, <1>2, <1>5, <2>5, <3>1
    <3> QED
      BY <3>2
  <2>6. CASE j > c + 1
    <3>1. x < z[j] /\ z[j] = s[j - 1] /\ j - 1 \in 1..n
      BY <1>1, <1>2, <1>5, <2>6
    <3>2. CASE i <= c + 1
      <4>1. z[i] < x \/ z[i] = x
        BY <1>1, <1>2, <1>5, <3>2
      <4> QED
        BY <1>1, <2>2, <3>1, <4>1
    <3>3. CASE i > c + 1
      <4>1. z[i] = s[i - 1] /\ i - 1 \in 1..n /\ i - 1 < j - 1
        BY <1>1, <1>2, <1>5, <2>1, <3>3
      <4> QED
        BY <2>3, <3>1, <4>1
    <3> QED
      BY <1>1, <1>2, <3>2, <3>3
  <2> QED
    BY <1>1, <1>2, <2>4, <2>5, <2>6
<1>7. ToSet(z) = ToSet(s) \cup {x}
  <2>1. ToSet(z) = {z[i] : i \in 1..(n + 1)} /\ ToSet(s) = {s[i] : i \in 1..n}
    BY <1>1, <1>4 DEF ToSet
  <2>2. \A i \in 1..(n + 1) : z[i] \in ToSet(s) \cup {x}
    BY <1>5, <2>1
  <2>3. x \in ToSet(z)
    <3>1. c + 1 \in 1..(n + 1) /\ ~(c + 1 <= c)
      BY <1>1, <1>2
    <3>2. z[c + 1] = x
      BY <1>3, <3>1
    <3> QED
      BY <2>1, <3>1, <3>2
  <2>4. ASSUME NEW i \in 1..n PROVE s[i] \in ToSet(z)
    <3>1. CASE i <= c
      <4>1. i \in 1..(n + 1) /\ z[i] = s[i]
        BY <1>1, <1>3, <3>1
      <4> QED
        BY <2>1, <4>1
    <3>2. CASE ~(i <= c)
      <4>1. i + 1 \in 1..(n + 1) /\ ~(i + 1 <= c) /\ i + 1 # c + 1 /\ (i + 1) - 1 = i
        BY <1>1, <1>2, <3>2
      <4>2. z[i + 1] = s[i]
        BY <1>3, <4>1
      <4> QED
        BY <2>1, <4>1, <4>2
    <3> QED
      BY <3>1, <3>2
  <2> QED
    BY <2>1, <2>2, <2>3, <2>4
<1> QED
  BY <1>6, <1>7 DEF z

LEMMA TakenSorted ==
    ASSUME NEW pool, NEW p \in DOMAIN Pools, NEW H, PoolKept(pool, p, H), SortedOk(pool),
           NEW slot \in Slots, slot \notin ToSet(pool.pages)
    PROVE  SortedOk(Taken(pool, p, slot).pool)
<1> DEFINE t == Taken(pool, p, slot)
<1>1. pool \in PoolType /\ pool.sorted \in Seq(Slots)
  BY DEF PoolKept, PoolType
<1>2. CASE pool.free # <<>>
  <2>1. t.pool = [pool EXCEPT !.free = Tail(@)]
    BY <1>2 DEF Taken
  <2>2. t.pool.pages = pool.pages /\ t.pool.sorted = pool.sorted
    BY <1>1, <2>1 DEF PoolType
  <2> HIDE DEF t
  <2>3. SortedOk(t.pool)
    BY <2>2 DEF SortedOk
  <2> QED
    BY <2>3 DEF t
<1>3. CASE pool.free = <<>> /\ pool.last = Pools[p].count
  <2>1. t.pool = WithPage(pool, slot)
    BY <1>3 DEF Taken, WithPage
  <2>2. t.pool.sorted = Insert(pool.sorted, slot)
    BY <1>1, <2>1 DEF PoolType, WithPage
  <2>3. ToSet(WithPage(pool, slot).pages) = ToSet(pool.pages) \cup {slot}
    BY <1>3, TakenPage
  <2>4. Increasing(Insert(pool.sorted, slot))
        /\ ToSet(Insert(pool.sorted, slot)) = ToSet(pool.sorted) \cup {slot}
    BY <1>1, InsertSorted DEF SortedOk
  <2> HIDE DEF t
  <2>5. SortedOk(t.pool)
    BY <2>1, <2>2, <2>3, <2>4 DEF SortedOk
  <2> QED
    BY <2>5 DEF t
<1>4. CASE pool.free = <<>> /\ pool.last # Pools[p].count
  <2>1. t.pool = [pool EXCEPT !.last = @ + 1]
    BY <1>4 DEF Taken
  <2>2. t.pool.pages = pool.pages /\ t.pool.sorted = pool.sorted
    BY <1>1, <2>1 DEF PoolType
  <2> HIDE DEF t
  <2>3. SortedOk(t.pool)
    BY <2>2 DEF SortedOk
  <2> QED
    BY <2>3 DEF t
<1> QED
  BY <1>2, <1>3, <1>4

LEMMA AllocatedSorted ==
    ASSUME NEW m, NEW O, Sound(m, O), SortedIn(m), NEW n \in Sizes, NEW slot \in FreeSlots(m)
    PROVE  SortedIn(Allocated(m, n + MarkerSize, slot).mem)
<1> DEFINE bytes == n + MarkerSize
           p == PoolFor(bytes)
           t == Taken(m.pools[p], p, slot)
           v == Allocated(m, bytes, slot).mem
<1>1. m \in MemoryType /\ slot \in Slots /\ bytes \in Nat
  BY FreshSlot, Constants DEF Sound, MarkerSize
<1>2. CASE p = 0
  <2>1. v = [m EXCEPT !.big = @ \cup {BigBlock(slot, bytes)}, !.used = @ + RealSize(bytes)]
    BY <1>2 DEF Allocated
  <2>2. v.pools = m.pools
    BY <1>1, <2>1 DEF MemoryType
  <2> HIDE DEF v
  <2>3. SortedIn(v)
    BY <2>2 DEF SortedIn
  <2> QED
    BY <2>3 DEF v
<1>3. CASE p # 0
  <2>1. v = [m EXCEPT !.pools[p] = t.pool, !.used = @ + RealSize(bytes)]
    BY <1>3 DEF Allocated
  <2>2. p \in DOMAIN Pools
    <3> HIDE DEF bytes
    <3> QED
      BY <1>1, <1>3, PoolForRange
  <2>3. PoolKept(m.pools[p], p, Heads(p, O)) /\ SortedOk(m.pools[p])
        /\ slot \notin ToSet(m.pools[p].pages)
    BY <2>2, FreshSlot DEF Sound, SortedIn, Pages
  <2>4. SortedOk(t.pool)
    <3> HIDE DEF p
    <3> QED
      BY <1>1, <2>2, <2>3, TakenSorted
  <2> HIDE DEF p, t, v
  <2>5. \A q \in DOMAIN Pools : v.pools[q] = IF q = p THEN t.pool ELSE m.pools[q]
    BY <1>1, <2>1 DEF MemoryType
  <2>6. SortedIn(v)
    BY <2>4, <2>5 DEF SortedIn
  <2> QED
    BY <2>6 DEF v
<1> QED
  BY <1>2, <1>3

LEMMA CollectedSorted ==
    ASSUME NEW m, NEW O, Sound(m, O), SortedIn(m), NEW G
    PROVE  SortedIn(Collected(m, G))
<1> DEFINE gone == [p \in DOMAIN Pools |-> FreedOf(m.pools[p], p, G)]
           pools == [p \in DOMAIN Pools |-> Returned(m.pools[p], gone[p])]
           s == Swept(m, G)
           n == IF s.used + s.used \div 2 >= s.minimum THEN 2 * s.minimum ELSE s.minimum
           v == [s EXCEPT !.minimum = n]
<1>1. m \in MemoryType
  BY DEF Sound
<1>2. s.pools = pools /\ v.pools = pools
  <2>1. s = [m EXCEPT !.pools = pools, !.big = @ \ LostOf(m, G),
                      !.used = @ - Total([p \in DOMAIN Pools |-> Len(gone[p]) * Pools[p].elem])
                                 - Total(Large(m, G))]
    BY DEF Swept, Returned, Total, LostOf, Large
  <2> HIDE DEF s, pools, n
  <2>2. s.pools = pools /\ v.pools = s.pools
    BY <1>1, <2>1 DEF MemoryType
  <2> QED
    BY <2>2
<1>3. ASSUME NEW p \in DOMAIN Pools PROVE SortedOk(pools[p])
  <2>1. m.pools[p] \in PoolType /\ SortedOk(m.pools[p])
    BY <1>1 DEF MemoryType, SortedIn
  <2>2. pools[p] = [m.pools[p] EXCEPT !.free = Reverse(gone[p]) \o @]
    BY DEF Returned
  <2>3. pools[p].pages = m.pools[p].pages /\ pools[p].sorted = m.pools[p].sorted
    <3> HIDE DEF pools, gone
    <3> QED
      BY <2>1, <2>2 DEF PoolType
  <2> HIDE DEF pools
  <2> QED
    BY <2>1, <2>3 DEF SortedOk
<1>4. Collected(m, G) = IF ~enabled THEN m ELSE v
  BY DEF Collected
<1> HIDE DEF pools, v
<1>5. SortedIn(v)
  BY <1>2, <1>3 DEF SortedIn
<1> QED
  BY <1>4, <1>5

LEMMA EmptySorted ==
    ASSUME NEW x
    PROVE  SortedIn(EmptyMemory(x))
<1>1. ASSUME NEW p \in DOMAIN Pools PROVE SortedOk(EmptyPool(p))
  <2>1. EmptyPool(p).sorted = <<>> /\ EmptyPool(p).pages = <<>>
    BY DEF EmptyPool
  <2>2. Increasing(<<>>)
    BY DEF Increasing
  <2> QED
    BY <2>1, <2>2 DEF SortedOk
<1>2. EmptyMemory(x).pools = [p \in DOMAIN Pools |-> EmptyPool(p)]
  BY DEF EmptyMemory
<1> QED
  BY <1>1, <1>2 DEF SortedIn

LEMMA StepSorted ==
    ASSUME IInv, SortedIn(mem), [Next]_vars
    PROVE  SortedIn(mem')
<1>1. Sound(mem, objects)
  BY DEF IInv
<1>2. CASE AllocObject
  <2>1. PICK n \in Sizes, G \in Garbage :
          \/ /\ Fits(After(n, G), n + MarkerSize)
             /\ \E slot \in FreeSlots(After(n, G)) :
                   LET a == Allocated(After(n, G), n + MarkerSize, slot)
                   IN mem' = a.mem /\ objects' = Kept(n, G) \cup {[ptr |-> a.ptr, size |-> n]}
          \/ mem' = After(n, G) /\ objects' = Kept(n, G)
    BY <1>2, AllocStep
  <2>2. Sound(After(n, G), Kept(n, G))
    BY AfterSound
  <2>3. SortedIn(After(n, G))
    <3>1. SortedIn(Collected(mem, G))
      BY <1>1, CollectedSorted
    <3> QED
      BY <3>1 DEF After
  <2>4. CASE mem' = After(n, G)
    BY <2>3, <2>4
  <2>5. CASE \E slot \in FreeSlots(After(n, G)) :
                mem' = Allocated(After(n, G), n + MarkerSize, slot).mem
    BY <2>2, <2>3, <2>5, AllocatedSorted
  <2> QED
    BY <2>1, <2>4, <2>5
<1>3. CASE CollectMemory
  <2>1. PICK G \in Garbage : mem' = Collected(mem, G)
    BY <1>3 DEF CollectMemory
  <2> QED
    BY <1>1, <2>1, CollectedSorted
<1>4. CASE SetCollectMemory
  BY <1>4 DEF SetCollectMemory
<1>5. CASE SetGlobalLimit
  <2>1. mem \in MemoryType /\ \E x : mem' = [mem EXCEPT !.minimum = x]
    BY <1>1, <1>5 DEF SetGlobalLimit, Sound
  <2>2. mem'.pools = mem.pools
    BY <2>1 DEF MemoryType
  <2> QED
    BY <2>2 DEF SortedIn
<1>6. CASE ClearMemory
  BY <1>6, EmptySorted DEF ClearMemory
<1>7. CASE UNCHANGED vars
  BY <1>7 DEF vars
<1> QED
  BY <1>2, <1>3, <1>4, <1>5, <1>6, <1>7 DEF Next

-------------------------------------------------------------------------------
(* From an address to its block.                                           *)

\* an address in what the system gave out at d is far from what it gave out elsewhere
LEMMA NearSlot ==
    ASSUME NEW d \in Slots, NEW a \in Nat, d < a, a < d + Room + 16, NEW x \in Slots
    PROVE  /\ x \in Nat /\ d \in Nat /\ Room \in Nat /\ a # x
           /\ x < d => x + Room < a
           /\ x > d => a < x
<1>1. x \in Nat /\ d \in Nat /\ Room \in Nat
      /\ (x < d => x + Room + 16 < d) /\ (d < x => d + Room + 16 < x)
  BY Constants
<1> QED
  BY <1>1

LEMMA PageBytesIs ==
    ASSUME NEW p \in DOMAIN Pools
    PROVE  /\ PageBytes(p) \in Nat /\ PageBytes(p) <= Room
           /\ Pools[p].elem * Pools[p].count \in Nat
           /\ PageBytes(p) = Pools[p].elem * Pools[p].count + 16
<1> DEFINE v == Pools[p].elem * Pools[p].count
<1>1. v \in Nat /\ v + 16 <= Room
  BY Constants
<1>2. PageBytes(p) = 8 + v + 8
  BY DEF PageBytes, Padding, MarkerSize
<1> HIDE DEF v
<1>3. PageBytes(p) = v + 16 /\ PageBytes(p) \in Nat /\ PageBytes(p) <= Room
  BY <1>1, <1>2
<1> QED
  BY <1>1, <1>3 DEF v

\* the page that GetBasePointer looks at after the search
PageOf(s, a, n) ==
    IF a < s[Search(s, a) + 1] THEN s[Search(s, a)]
    ELSE IF a > s[Search(s, a) + 1] + n THEN s[Search(s, a) + 2]
    ELSE s[Search(s, a) + 1]

\* what the end of the search says of that page
Landed(s, a, n, l) ==
    \/ PageOf(s, a, n) = s[l + 1] /\ l + 2 \in 1..Len(s) /\ a < s[l + 2]
    \/ PageOf(s, a, n) = s[l + 1] /\ a <= s[l + 1] + n
    \/ /\ PageOf(s, a, n) = s[l + 2] /\ l + 2 \in 1..Len(s) /\ a > s[l + 1] + n
       /\ l + 2 = Len(s) \/ a < s[l + 2]

LEMMA PageLanded ==
    ASSUME NEW s \in Seq(Nat), s # <<>>, NEW a \in Nat, NEW n \in Nat,
           s[1] <= a, a <= s[Len(s)] + n, \A i \in 1..Len(s) : s[i] # a
    PROVE  /\ Search(s, a) # -1
           /\ \E l \in 0..(Len(s) - 1) : s[l + 1] < a /\ Landed(s, a, n, l)
<1> DEFINE at == Search(s, a)
           c == Len(s)
<1>1. c \in Nat \ {0} /\ \A i \in 1..c : s[i] \in Nat
  BY EmptySeq, ElementOfSeq
<1>2. s[1] < a
  <2>1. 1 \in 1..c /\ s[1] # a /\ s[1] \in Nat
    BY <1>1
  <2> QED
    BY <2>1
<1>3. Ended(s, a, at)
  BY <1>2, SearchEnds
<1> HIDE DEF at, c
<1>4. PICK l \in 0..(c - 1), u \in 0..(c - 1) : Around(s, a, l, u, at) /\ u - l <= 1
  BY <1>3 DEF Ended, c
<1>5. /\ l <= u /\ s[l + 1] < a
      /\ \/ at = l /\ u = c - 1
         \/ at = l /\ a < s[u + 1]
         \/ at = u /\ l < u /\ a < s[u + 1]
  BY <1>4 DEF Around, c
<1>6. l \in Nat /\ u \in Nat /\ l + 1 \in 1..c /\ u + 1 \in 1..c /\ (u = l \/ u = l + 1)
  BY <1>1, <1>4, <1>5
<1>7. s[l + 1] \in Nat /\ s[u + 1] \in Nat
  BY <1>1, <1>6
<1>8. at # -1
  BY <1>5, <1>6
<1>9. PageOf(s, a, n) = IF a < s[at + 1] THEN s[at]
                        ELSE IF a > s[at + 1] + n THEN s[at + 2] ELSE s[at + 1]
  BY DEF PageOf, at
<1>10. CASE at = u /\ l < u /\ a < s[u + 1]
  <2>1. u = l + 1 /\ u + 1 = l + 2
    BY <1>6, <1>10
  <2>2. PageOf(s, a, n) = s[l + 1] /\ l + 2 \in 1..c /\ a < s[l + 2]
    BY <1>6, <1>9, <1>10, <2>1
  <2> QED
    BY <1>4, <1>5, <1>8, <2>2 DEF Landed, at, c
<1>11. CASE at = l /\ (u = c - 1 \/ a < s[u + 1])
  <2>1. ~(a < s[at + 1])
    BY <1>5, <1>7, <1>11
  <2>2. CASE a > s[l + 1] + n
    <3>1. PageOf(s, a, n) = s[l + 2]
      BY <1>9, <1>11, <2>1, <2>2
    <3>2. u = l + 1
      <4>1. SUFFICES ASSUME u = l PROVE FALSE
        BY <1>6
      <4>2. ~(a < s[u + 1])
        BY <1>5, <1>7, <4>1
      <4>3. l + 1 = c
        BY <1>1, <1>11, <4>1, <4>2
      <4> QED
        BY <1>7, <2>2, <4>3 DEF c
    <3>3. u + 1 = l + 2 /\ l + 2 \in 1..c /\ (u = c - 1 => l + 2 = c)
      BY <1>1, <1>6, <3>2
    <3> QED
      BY <1>4, <1>5, <1>8, <1>11, <2>2, <3>1, <3>3 DEF Landed, at, c
  <2>3. CASE ~(a > s[l + 1] + n)
    <3>1. PageOf(s, a, n) = s[l + 1] /\ a <= s[l + 1] + n
      BY <1>7, <1>9, <1>11, <2>1, <2>3
    <3> QED
      BY <1>4, <1>5, <1>8, <3>1 DEF Landed, at, c
  <2> QED
    BY <2>2, <2>3
<1> QED
  BY <1>5, <1>10, <1>11

\* the page of the address, if it is among the pages
LEMMA PageFound ==
    ASSUME NEW s \in Seq(Slots), Increasing(s), s # <<>>, NEW n \in Nat, n <= Room,
           NEW d \in Slots, NEW a \in Nat, d < a, a < d + Room + 16,
           s[1] <= a, a <= s[Len(s)] + n
    PROVE  /\ Search(s, a) # -1
           /\ PageOf(s, a, n) \in ToSet(s)
           /\ d \in ToSet(s) /\ a <= d + n => PageOf(s, a, n) = d
<1> DEFINE c == Len(s)
           page == PageOf(s, a, n)
<1>1. c \in Nat /\ DOMAIN s = 1..c /\ \A i \in 1..c : s[i] \in Slots
  BY LenProperties, ElementOfSeq
<1>2. \A i \in 1..c : /\ s[i] \in Nat /\ s[i] # a
                      /\ (s[i] < d => s[i] + Room < a) /\ (s[i] > d => a < s[i])
  BY <1>1, NearSlot
<1>3. d \in Nat /\ Room \in Nat
  BY NearSlot
<1>4. Search(s, a) # -1 /\ \E l \in 0..(c - 1) : s[l + 1] < a /\ Landed(s, a, n, l)
  <2>1. s \in Seq(Nat)
    <3>1. Slots \subseteq Nat
      BY Constants
    <3>2. s \in [1..c -> Nat]
      BY <1>1, <1>2
    <3> QED
      BY <1>1, <3>2
  <2> QED
    BY <1>2, <2>1, PageLanded
<1>5. PICK l \in 0..(c - 1) : s[l + 1] < a /\ Landed(s, a, n, l)
  BY <1>4
<1>6. l \in Nat /\ l + 1 \in 1..c
  BY <1>1, <1>5
<1>7. \/ page = s[l + 1] /\ l + 2 \in 1..c /\ a < s[l + 2]
      \/ page = s[l + 1] /\ a <= s[l + 1] + n
      \/ page = s[l + 2] /\ l + 2 \in 1..c /\ a > s[l + 1] + n /\ (l + 2 = c \/ a < s[l + 2])
  BY <1>5 DEF Landed
<1>8. \A i, j \in 1..c : i < j => s[i] < s[j]
  BY DEF Increasing
<1>9. ToSet(s) = {s[i] : i \in 1..c}
  BY <1>1 DEF ToSet
<1> HIDE DEF c, page
<1>10. page \in ToSet(s)
  BY <1>6, <1>7, <1>9
<1>11. ASSUME d \in ToSet(s), a <= d + n PROVE page = d
  <2>1. PICK k \in 1..c : s[k] = d
    BY <1>9, <1>11
  <2>2. s[l + 1] \in Nat /\ ~(s[l + 1] > d)
    BY <1>2, <1>5, <1>6
  <2>3. CASE s[l + 1] = d
    <3>1. ~(a > s[l + 1] + n)
      BY <1>3, <1>11, <2>3
    <3> QED
      BY <1>7, <2>3, <3>1
  <2>4. CASE s[l + 1] < d
    <3>1. ~(a <= s[l + 1] + n)
      BY <1>2, <1>3, <1>6, <2>2, <2>4
    <3>2. k \in Nat /\ l + 2 <= k
      <4>1. SUFFICES ASSUME k < l + 2 PROVE FALSE
        BY <1>1, <1>6
      <4>2. k = l + 1 \/ k < l + 1
        BY <1>1, <1>6, <4>1
      <4>3. s[k] = s[l + 1] \/ s[k] < s[l + 1]
        BY <1>6, <1>8, <4>2
      <4> QED
        BY <1>3, <2>1, <2>2, <2>4, <4>3
    <3>3. l + 2 \in 1..c => (s[l + 2] = d \/ s[l + 2] < d)
      <4>1. k = l + 2 \/ l + 2 < k
        BY <1>6, <3>2
      <4> QED
        BY <1>8, <2>1, <4>1
    <3>4. ~(l + 2 \in 1..c /\ a < s[l + 2])
      <4>1. l + 2 \in 1..c => s[l + 2] \in Nat
        BY <1>2
      <4> QED
        BY <1>3, <3>3, <4>1
    <3>5. page = s[l + 2] /\ l + 2 = c
      BY <1>7, <3>1, <3>4
    <3>6. k = l + 2
      BY <1>1, <1>6, <3>2, <3>5
    <3> QED
      BY <2>1, <3>5, <3>6
  <2> QED
    BY <1>3, <2>2, <2>3, <2>4
<1> QED
  BY <1>4, <1>10, <1>11 DEF page

\* ObjectBlockPool::GetBasePointer in terms of that page
LEMMA PoolBaseIs ==
    ASSUME NEW p, NEW a
    PROVE  LET s == mem.pools[p].sorted
               from == a - (PageOf(s, a, PageBytes(p)) + Padding)
           IN PoolBase(p, a) =
                IF s = <<>> \/ a < s[1] \/ a > s[Len(s)] + PageBytes(p) THEN Null
                ELSE IF Search(s, a) = -1 \/ from < 0 \/ from > Pools[p].elem * Pools[p].count
                THEN Null
                ELSE PageOf(s, a, PageBytes(p)) + Padding
                        + (from \div Pools[p].elem) * Pools[p].elem + MarkerSize
BY DEF PoolBase, PageOf

LEMMA SortedPages ==
    ASSUME IInv, SortedIn(mem), NEW p \in DOMAIN Pools
    PROVE  LET s == mem.pools[p].sorted
           IN s \in Seq(Slots) /\ Increasing(s) /\ ToSet(s) = Pages(mem, p)
<1>1. mem.pools[p] \in PoolType
  BY SoundTypes DEF IInv
<1>2. SortedOk(mem.pools[p])
  BY DEF SortedIn
<1> QED
  BY <1>1, <1>2 DEF PoolType, SortedOk, Pages

\* a pool whose pages the address is not in does not claim it
LEMMA PoolMiss ==
    ASSUME IInv, SortedIn(mem), NEW p \in DOMAIN Pools, NEW d \in Slots, d \notin Pages(mem, p),
           NEW a \in Nat, d < a, a < d + Room + 16
    PROVE  PoolBase(p, a) = Null
<1> DEFINE s == mem.pools[p].sorted
           n == PageBytes(p)
           v == Pools[p].elem * Pools[p].count
           page == PageOf(s, a, n)
           from == a - (page + Padding)
           outside == s = <<>> \/ a < s[1] \/ a > s[Len(s)] + n
           wrong == Search(s, a) = -1 \/ from < 0 \/ from > v
           good == page + Padding + (from \div Pools[p].elem) * Pools[p].elem + MarkerSize
<1>1. PoolBase(p, a) = IF outside THEN Null ELSE IF wrong THEN Null ELSE good
  BY PoolBaseIs
<1>2. s \in Seq(Slots) /\ Increasing(s) /\ ToSet(s) = Pages(mem, p)
  BY SortedPages
<1>3. n \in Nat /\ n <= Room /\ v \in Nat /\ n = v + 16 /\ Padding = 8 /\ d \in Nat /\ Room \in Nat
  BY PageBytesIs, Constants DEF Padding, MarkerSize
<1>4. ASSUME ~outside PROVE from < 0 \/ from > v
  <2>1. s # <<>> /\ s[1] <= a /\ a <= s[Len(s)] + n
    <3>1. s # <<>> /\ ~(a < s[1]) /\ ~(a > s[Len(s)] + n)
      BY <1>4
    <3>2. s[1] \in Nat /\ s[Len(s)] \in Nat
      <4>1. Len(s) \in Nat \ {0} /\ 1 \in 1..Len(s) /\ Len(s) \in 1..Len(s)
        BY <1>2, <3>1, EmptySeq
      <4>2. s[1] \in Slots /\ s[Len(s)] \in Slots
        BY <1>2, <4>1, ElementOfSeq
      <4> QED
        BY <4>2, Constants
    <3> HIDE DEF s, n
    <3> QED
      BY <1>3, <3>1, <3>2
  <2> HIDE DEF s, n
  <2>2. page \in Pages(mem, p)
    BY <1>2, <1>3, <2>1, PageFound
  <2> HIDE DEF page
  <2>3. page # d /\ page \in Slots
    BY <2>2, SoundTypes DEF IInv
  <2>4. page \in Nat /\ (page < d => page + Room < a) /\ (page > d => a < page)
    BY <2>3, NearSlot
  <2> HIDE DEF v
  <2>5. CASE page < d
    BY <1>3, <2>4, <2>5
  <2>6. CASE page > d
    BY <1>3, <2>4, <2>6
  <2> QED
    BY <1>3, <2>3, <2>4, <2>5, <2>6
<1> HIDE DEF outside, wrong, good, from
<1>5. CASE outside
  BY <1>1, <1>5
<1>6. CASE ~outside
  <2>1. wrong
    BY <1>4, <1>6 DEF wrong, from
  <2> QED
    BY <1>1, <2>1
<1> QED
  BY <1>5, <1>6

LEMMA DivIs ==
    ASSUME NEW e \in Nat \ {0}, NEW j \in Nat, NEW y \in Nat, y < e
    PROVE  (j * e + y) \div e = j
<1> DEFINE x == j * e + y
           q == x \div e
<1>1. x \in Nat /\ j * e \in Nat
  OBVIOUS
<1>2. q \in Nat /\ q * e <= x /\ x < q * e + e
  <2> HIDE DEF x
  <2> QED
    BY <1>1
<1> HIDE DEF q
<1>3. \A g, h \in Nat : g < h => g * e + e <= h * e /\ g * e \in Nat /\ h * e \in Nat
  OBVIOUS
<1>4. CASE q < j
  <2>1. q * e + e <= j * e /\ q * e \in Nat
    BY <1>2, <1>3, <1>4
  <2> DEFINE g == q * e
             h == j * e
  <2>2. g \in Nat /\ h \in Nat /\ h + y < g + e /\ g + e <= h
    BY <1>1, <1>2, <2>1
  <2> HIDE DEF g, h
  <2> QED
    BY <2>2
<1>5. CASE j < q
  <2>1. j * e + e <= q * e /\ q * e \in Nat
    BY <1>2, <1>3, <1>5
  <2> DEFINE g == q * e
             h == j * e
  <2>2. g \in Nat /\ h \in Nat /\ g <= h + y /\ h + e <= g
    BY <1>1, <1>2, <2>1
  <2> HIDE DEF g, h
  <2> QED
    BY <2>2
<1>6. q = j
  BY <1>2, <1>4, <1>5
<1> QED
  BY <1>6 DEF q

\* the pool of the page leads from any byte behind the marker to the pointer of the block
LEMMA PoolHit ==
    ASSUME IInv, SortedIn(mem), NEW p \in DOMAIN Pools, NEW d \in Pages(mem, p),
           NEW i \in 1..Pools[p].count, NEW y \in Nat, y < Pools[p].elem,
           NEW a, a = Block(p, d, i) + y
    PROVE  PoolBase(p, a) = Block(p, d, i) + MarkerSize
<1> DEFINE s == mem.pools[p].sorted
           n == PageBytes(p)
           e == Pools[p].elem
           c == Pools[p].count
           v == e * c
           page == PageOf(s, a, n)
           from == a - (page + Padding)
           outside == s = <<>> \/ a < s[1] \/ a > s[Len(s)] + n
           wrong == Search(s, a) = -1 \/ from < 0 \/ from > v
           good == page + Padding + (from \div e) * e + MarkerSize
<1>1. PoolBase(p, a) = IF outside THEN Null ELSE IF wrong THEN Null ELSE good
  BY PoolBaseIs
<1>2. s \in Seq(Slots) /\ Increasing(s) /\ ToSet(s) = Pages(mem, p)
  BY SortedPages
<1>3. n \in Nat /\ n <= Room /\ v \in Nat /\ n = v + 16 /\ Padding = 8 /\ Room \in Nat
  BY PageBytesIs, Constants DEF Padding, MarkerSize
<1>4. e \in Nat \ {0} /\ c \in Nat \ {0}
  BY Constants
<1>5. d \in Slots /\ d \in Nat
  BY SoundTypes, Constants DEF IInv
<1>6. Block(p, d, i) = d + 8 + (i - 1) * e
  BY DEF Block, Padding, MarkerSize
<1> HIDE DEF e, c, s, n
<1>7. (i - 1) * e \in Nat /\ (i - 1) * e + e <= v /\ i - 1 \in Nat
  <2>1. i - 1 \in Nat /\ i \in Nat /\ i <= c
    BY <1>4 DEF c
  <2>2. (i - 1) * e \in Nat /\ (i - 1) * e + e = i * e
    BY <1>4, <2>1
  <2>3. i * e <= v
    BY <1>4, <2>1
  <2> QED
    BY <2>1, <2>2, <2>3
<1> DEFINE x == (i - 1) * e
<1>8. x \in Nat /\ x + e <= v /\ a = d + 8 + x + y /\ y < e
  BY <1>5, <1>6, <1>7 DEF e
<1> HIDE DEF v, x
<1>9. a \in Nat /\ d < a /\ a < d + Room + 16 /\ a <= d + n
  BY <1>3, <1>4, <1>5, <1>8
<1>10. s # <<>> /\ s[1] <= a /\ a <= s[Len(s)] + n
  <2>1. Len(s) \in Nat /\ DOMAIN s = 1..Len(s) /\ \A k \in 1..Len(s) : s[k] \in Slots
    BY <1>2, LenProperties, ElementOfSeq
  <2>2. PICK k \in 1..Len(s) : s[k] = d
    BY <1>2, <2>1 DEF ToSet
  <2>3. 1 \in 1..Len(s) /\ Len(s) \in 1..Len(s) /\ (k = 1 \/ 1 < k) /\ (k = Len(s) \/ k < Len(s))
    <3>1. \A g \in Nat : \A h \in 1..g : 1 \in 1..g /\ g \in 1..g
                                         /\ (h = 1 \/ 1 < h) /\ (h = g \/ h < g)
      OBVIOUS
    <3> QED
      BY <2>1, <2>2, <3>1
  <2>4. (s[1] = d \/ s[1] < d) /\ (s[Len(s)] = d \/ d < s[Len(s)])
    BY <1>2, <2>2, <2>3 DEF Increasing
  <2>5. s[1] \in Nat /\ s[Len(s)] \in Nat
    BY <2>1, <2>3, Constants
  <2>6. s # <<>>
    <3>1. DOMAIN s # {}
      BY <2>1, <2>3
    <3>2. DOMAIN << >> = {}
      OBVIOUS
    <3> HIDE DEF s
    <3> QED
      BY <3>1, <3>2, Zenon
  <2> QED
    BY <1>3, <1>5, <1>9, <2>4, <2>5, <2>6
<1>11. Search(s, a) # -1 /\ page = d
  BY <1>2, <1>3, <1>5, <1>9, <1>10, PageFound
<1> HIDE DEF page
<1>12. from = x + y /\ ~(from < 0) /\ ~(from > v)
  BY <1>3, <1>4, <1>5, <1>8, <1>11
<1>13. ~outside /\ ~wrong
  <2>1. s[1] \in Nat /\ s[Len(s)] \in Nat
    <3>1. Len(s) \in Nat \ {0} /\ 1 \in 1..Len(s) /\ Len(s) \in 1..Len(s)
      BY <1>2, <1>10, EmptySeq
    <3>2. s[1] \in Slots /\ s[Len(s)] \in Slots
      BY <1>2, <3>1, ElementOfSeq
    <3> QED
      BY <3>2, Constants
  <2>2. ~(a < s[1]) /\ ~(a > s[Len(s)] + n)
    BY <1>3, <1>9, <1>10, <2>1
  <2> HIDE DEF from
  <2> QED
    BY <1>10, <1>11, <1>12, <2>2
<1>14. from \div e = i - 1
  <2>1. ((i - 1) * e + y) \div e = i - 1
    BY <1>4, <1>7, <1>8, DivIs
  <2>2. from = (i - 1) * e + y
    BY <1>12 DEF x
  <2> HIDE DEF from
  <2> QED
    BY <2>1, <2>2
<1>15. good = d + 8 + (i - 1) * e + MarkerSize
  <2> HIDE DEF from
  <2> QED
    BY <1>3, <1>11, <1>14
<1> HIDE DEF outside, wrong, good
<1> QED
  BY <1>1, <1>6, <1>13, <1>15 DEF e

-------------------------------------------------------------------------------
(* LookupExact.                                                            *)

\* programs address parts as long as they are apart, and objects consist of them
WholeParts == Grain >= SizeField /\ \A n \in Sizes : n > 0 /\ n % Grain = 0

LEMMA PartInside ==
    ASSUME WholeParts, NEW n \in Sizes, NEW k \in 0..(n - 1), k % Grain = 0
    PROVE  k \in Nat /\ k + 4 <= n
<1>1. Grain \in Nat \ {0} /\ 4 <= Grain /\ n % Grain = 0 /\ n \in Nat
  BY PoolsAssumption, Constants DEF WholeParts, SizeField
<1>2. k \in Nat /\ k < n
  BY <1>1
<1> DEFINE x == n \div Grain
           y == k \div Grain
<1>3. x \in Nat /\ n = x * Grain + (n % Grain)
  BY <1>1
<1>4. y \in Nat /\ k = y * Grain + (k % Grain)
  BY <1>1, <1>2
<1> HIDE DEF x, y
<1>5. n = x * Grain /\ k = y * Grain
  BY <1>1, <1>2, <1>3, <1>4
<1>6. y < x
  <2>1. \A g, h \in Nat : g <= h => g * Grain <= h * Grain
    BY <1>1
  <2>2. CASE x <= y
    <3>1. x * Grain <= y * Grain
      BY <1>3, <1>4, <2>1, <2>2
    <3> QED
      BY <1>1, <1>2, <1>5, <3>1
  <2> QED
    BY <1>3, <1>4, <2>2
<1>7. y * Grain + Grain <= x * Grain
  BY <1>1, <1>3, <1>4, <1>6
<1> QED
  BY <1>1, <1>2, <1>5, <1>7

\* from the parts of an object in a pool
LEMMA SmallFound ==
    ASSUME IInv, SortedIn(mem), NEW o \in objects, PoolOf(o) # 0, NEW k \in Nat, k < o.size
    PROVE  GetBasePointer(o.ptr + k) = o.ptr
<1> DEFINE p == PoolOf(o)
           a == o.ptr + k
<1>1. Sound(mem, objects)
  BY DEF IInv
<1>2. /\ o.ptr \in Nat /\ o.size \in Nat /\ MarkerSize = 8 /\ a \in Nat
      /\ p \in DOMAIN Pools /\ RealSize(o.size + MarkerSize) = Pools[p].elem
      /\ o.size + MarkerSize <= RealSize(o.size + MarkerSize)
  <2>1. p \in DOMAIN Pools \cup {0} /\ o.size + MarkerSize <= RealSize(o.size + MarkerSize)
    BY <1>1, ObjectAt
  <2>2. RealSize(o.size + MarkerSize) = Pools[p].elem
    BY DEF RealSize, PoolOf
  <2>3. o.ptr \in Nat /\ o.size \in Nat
    BY <1>1, SoundTypes
  <2> HIDE DEF p
  <2> QED
    BY <2>1, <2>2, <2>3 DEF p, MarkerSize
<1>3. \E d \in Pages(mem, p), i \in 1..Pools[p].count : o.ptr - MarkerSize = Block(p, d, i)
  <2>1. PoolKept(mem.pools[p], p, Heads(p, objects))
    BY <1>1, <1>2 DEF Sound
  <2>2. o.ptr - MarkerSize \in Given(mem.pools[p], p)
    BY <2>1 DEF PoolKept, Heads, In
  <2>3. PICK j \in DOMAIN mem.pools[p].pages :
            o.ptr - MarkerSize \in GivenOf(mem.pools[p], p, j)
    BY <2>2 DEF Given
  <2>4. PICK i \in 1..Out(mem.pools[p], p, j) :
            o.ptr - MarkerSize = Block(p, mem.pools[p].pages[j], i)
    BY <2>3 DEF GivenOf
  <2> HIDE DEF p
  <2>5. i \in 1..Pools[p].count
    BY <1>2, <2>1, <2>3, PoolFacts
  <2>6. mem.pools[p].pages[j] \in Pages(mem, p)
    BY <2>3 DEF Pages, ToSet
  <2> QED
    BY <2>4, <2>5, <2>6
<1>4. PICK d \in Pages(mem, p), i \in 1..Pools[p].count : o.ptr - MarkerSize = Block(p, d, i)
  BY <1>3
<1> HIDE DEF p
<1>5. d \in Slots /\ d \in Nat /\ Room \in Nat
  BY <1>1, <1>2, SoundTypes, Constants
<1>6. Block(p, d, i) \in Nat /\ InZone(d, Block(p, d, i), Pools[p].elem)
  BY <1>2, <1>5, BlockAt
<1> DEFINE b == Block(p, d, i)
           y == k + 8
           e == Pools[p].elem
<1>7. o.ptr = b + MarkerSize /\ b \in Nat /\ a = b + y /\ y \in Nat /\ y < e
      /\ d + 8 <= b /\ b + e <= d + Room + 16 /\ e \in Nat
  <2>1. e \in Nat
    BY <1>2, Constants
  <2> HIDE DEF b, e
  <2>2. o.ptr - MarkerSize = b /\ b \in Nat /\ d + 8 <= b /\ b + e <= d + Room + 16
    BY <1>4, <1>6 DEF b, e, InZone
  <2>3. o.size + MarkerSize <= e
    BY <1>2 DEF e
  <2> QED
    BY <1>2, <2>1, <2>2, <2>3
<1>8. d < a /\ a < d + Room + 16
  <2> HIDE DEF b, e, y, a
  <2> QED
    BY <1>5, <1>7
<1>9. PoolBase(p, a) = o.ptr
  <2>1. y < Pools[p].elem /\ a = Block(p, d, i) + y /\ y \in Nat
    BY <1>7
  <2>2. o.ptr = Block(p, d, i) + MarkerSize
    BY <1>7
  <2> HIDE DEF a, y
  <2> QED
    BY <1>2, <2>1, <2>2, PoolHit
<1>10. ASSUME NEW q \in DOMAIN Pools, q # p PROVE PoolBase(q, a) = Null
  <2>1. d \notin Pages(mem, q)
    BY <1>1, <1>2, <1>10 DEF Sound, PagesApart
  <2> HIDE DEF a
  <2> QED
    BY <1>2, <1>5, <1>8, <2>1, PoolMiss DEF a
<1> HIDE DEF a
<1>11. o.ptr # Null
  <2> HIDE DEF b, e
  <2> QED
    BY <1>2, <1>7 DEF Null
<1> DEFINE in == {q \in DOMAIN Pools : PoolBase(q, a) # Null}
<1>12. in = {p}
  BY <1>2, <1>9, <1>10, <1>11
<1>13. (CHOOSE q \in in : \A h \in in : q <= h) = p
  <2>1. p <= p
    BY <1>2, Constants
  <2> HIDE DEF in
  <2> QED
    BY <1>12, <2>1
<1>14. GetBasePointer(a) = IF in = {} THEN BigBase(a)
                           ELSE PoolBase(CHOOSE q \in in : \A h \in in : q <= h, a)
  BY DEF GetBasePointer
<1> HIDE DEF in
<1> QED
  BY <1>9, <1>12, <1>13, <1>14 DEF a

\* from the parts of an object that is a big block
LEMMA BigFound ==
    ASSUME IInv, SortedIn(mem), NEW o \in objects, PoolOf(o) = 0, NEW k \in Nat, k + 4 <= o.size
    PROVE  GetBasePointer(o.ptr + k) = o.ptr
<1> DEFINE a == o.ptr + k
<1>1. Sound(mem, objects)
  BY DEF IInv
<1>2. o.ptr \in Nat /\ o.size \in Nat /\ MarkerSize = 8 /\ SizeField = 4 /\ a \in Nat
  BY <1>1, SoundTypes DEF MarkerSize, SizeField
<1>3. PICK r \in mem.big : BigOf(r) = o
  BY <1>1 DEF Sound, BigKept, In
<1>4. \A x \in mem.big : /\ x \in BigType /\ x = BigBlock(x.slot, x.size)
                         /\ x.start = x.slot + 16 - SizeField - MarkerSize
                         /\ BigData(x) = x.start + SizeField + MarkerSize
                         /\ x.slot \in Slots /\ x.size \in Nat /\ x.slot \in Nat
  <2>1. SUFFICES ASSUME NEW x \in mem.big
        PROVE /\ x \in BigType /\ x = BigBlock(x.slot, x.size)
              /\ x.start = x.slot + 16 - SizeField - MarkerSize
              /\ BigData(x) = x.start + SizeField + MarkerSize
              /\ x.slot \in Slots /\ x.size \in Nat /\ x.slot \in Nat
    OBVIOUS
  <2>2. x \in BigType /\ x = BigBlock(x.slot, x.size)
    BY <1>1, SoundTypes DEF Sound, BigKept
  <2>3. x.slot \in Slots /\ x.size \in Nat /\ x.slot \in Nat
    BY <2>2, Constants DEF BigType
  <2>4. x.start = x.slot + 16 - SizeField - MarkerSize
    <3>1. BigBlock(x.slot, x.size).start = x.slot + 16 - SizeField - MarkerSize
      BY DEF BigBlock
    <3> QED
      BY <2>2, <3>1
  <2> QED
    BY <2>2, <2>3, <2>4 DEF BigData
<1>5. \A x \in mem.big : x.start = x.slot + 4 /\ BigData(x) = x.slot + 16
  BY <1>2, <1>4
<1> DEFINE d == r.slot
<1>6. /\ d \in Slots /\ d \in Nat /\ r.size = o.size + 8 /\ o.ptr = d + 16
      /\ InZone(d, o.ptr - MarkerSize, o.size + MarkerSize) /\ Room \in Nat
  <2>1. r.size = o.size + MarkerSize /\ RealSize(o.size + MarkerSize) = o.size + MarkerSize
        /\ InZone(d, o.ptr - MarkerSize, RealSize(o.size + MarkerSize))
    BY <1>1, <1>3, BigAt
  <2>2. o.ptr = BigData(r)
    BY <1>3 DEF BigOf
  <2> QED
    BY <1>2, <1>3, <1>4, <1>5, <2>1, <2>2, Constants
<1> HIDE DEF d
<1>7. a = d + 16 + k /\ d < a /\ a < d + Room + 16 /\ a <= d + 4 + (o.size + 8)
  BY <1>2, <1>6 DEF InZone
<1> HIDE DEF a
<1>8. ASSUME NEW q \in DOMAIN Pools PROVE PoolBase(q, a) = Null
  <2>1. d \notin Pages(mem, q)
    BY <1>1, <1>3 DEF Sound, PagesApart, d
  <2> QED
    BY <1>2, <1>6, <1>7, <2>1, PoolMiss DEF a
<1> DEFINE hit == {x \in mem.big : x.start <= a /\ a <= x.start + x.size + SizeField}
<1>9. r \in hit /\ a <= r.start + r.size
  <2>1. r.start = d + 4 /\ r.size = o.size + 8 /\ r \in mem.big
    BY <1>3, <1>5, <1>6 DEF d
  <2>2. a \in Nat
    BY <1>2 DEF a
  <2> QED
    BY <1>2, <1>6, <1>7, <2>1, <2>2
<1>10. ASSUME NEW x \in hit, a <= x.start + x.size PROVE x = r
  <2>1. x \in mem.big /\ x.start <= a /\ x.start = x.slot + 4 /\ x.slot \in Slots /\ x.slot \in Nat
        /\ x.size \in Nat
    BY <1>4, <1>5
  <2>2. a \in Nat
    BY <1>2 DEF a
  <2>3. x.slot < d => x.slot + Room < a
    BY <1>6, <1>7, <2>1, <2>2, NearSlot
  <2>4. x.slot > d => a < x.slot
    BY <1>6, <1>7, <2>1, <2>2, NearSlot
  <2>5. x.size + 4 <= Room
    <3>1. BigOf(x) \in objects /\ PoolOf(BigOf(x)) = 0
      BY <1>1, <2>1 DEF Sound, BigKept, In
    <3>2. x.size = BigOf(x).size + MarkerSize /\ BigOf(x).size \in Sizes
      BY <1>1, <2>1, <3>1, BigAt, SoundTypes
    <3> QED
      BY <1>2, <3>2, Constants
  <2>6. x.slot = d
    BY <1>6, <1>10, <2>1, <2>2, <2>3, <2>4, <2>5
  <2> QED
    BY <1>1, <1>3, <2>1, <2>6 DEF Sound, PagesApart, d
<1>11. BigBase(a) = IF \E x \in hit : a <= x.start + x.size
                    THEN BigData(CHOOSE x \in hit : a <= x.start + x.size) ELSE Null
  BY DEF BigBase
<1> HIDE DEF hit
<1>12. (CHOOSE x \in hit : a <= x.start + x.size) = r
  BY <1>9, <1>10
<1>13. BigBase(a) = BigData(r)
  BY <1>9, <1>11, <1>12
<1>14. BigBase(a) = o.ptr
  BY <1>3, <1>5, <1>6, <1>13 DEF d
<1>15. {q \in DOMAIN Pools : PoolBase(q, a) # Null} = {}
  BY <1>8
<1>16. GetBasePointer(a) = BigBase(a)
  BY <1>15 DEF GetBasePointer
<1> QED
  BY <1>14, <1>16 DEF a

LEMMA PartFound ==
    ASSUME WholeParts, IInv, SortedIn(mem), NEW o \in objects,
           NEW k \in 0..(o.size - 1), k % Grain = 0
    PROVE  GetBasePointer(o.ptr + k) = o.ptr
<1>1. o.size \in Sizes /\ o.size \in Nat
  BY SoundTypes DEF IInv
<1>2. k \in Nat /\ k + 4 <= o.size
  BY <1>1, PartInside
<1>3. k < o.size
  BY <1>1
<1>4. CASE PoolOf(o) = 0
  BY <1>2, <1>4, BigFound
<1>5. CASE PoolOf(o) # 0
  BY <1>2, <1>3, <1>5, SmallFound
<1> QED
  BY <1>4, <1>5

LEMMA InvLookup ==
    ASSUME WholeParts, IInv, SortedIn(mem)
    PROVE  LookupExact
<1>1. ASSUME NEW o \in objects PROVE GetBasePointer(o.ptr) = o.ptr
  <2>1. o.size \in Nat /\ o.size > 0 /\ o.ptr \in Nat
    BY SoundTypes DEF IInv, WholeParts
  <2>2. 0 \in 0..(o.size - 1) /\ 0 % Grain = 0 /\ o.ptr + 0 = o.ptr
    <3>1. Grain \in Nat \ {0}
      BY PoolsAssumption
    <3> QED
      BY <2>1, <3>1
  <2>3. GetBasePointer(o.ptr + 0) = o.ptr
    BY <2>2, PartFound
  <2> QED
    BY <2>2, <2>3
<1> QED
  BY <1>1, PartFound DEF LookupExact
-------------------------------------------------------------------------------
(* The theorems.                                                           *)

(* Every pool, every big block and usedMemory are to the objects what the  *)
(* invariant says, whatever AllocObject, CollectMemory, SetGlobalLimit and *)
(* ClearMemory do in whatever order.                                       *)
THEOREM Invariant == Spec => []IInv
<1>1. Init => IInv
  BY InitKept
<1>2. IInv /\ [Next]_vars => IInv'
  BY StepKept
<1> QED
  BY <1>1, <1>2, PTL DEF Spec

(* The pools, the big blocks and the counters keep their types; no page    *)
(* hands out more blocks than it has.                                      *)
THEOREM Typed == Spec => []TypeOK
<1>1. IInv => TypeOK
  BY InvTyped
<1> QED
  BY <1>1, Invariant, PTL

(* No byte belongs to two objects and no object lies in a block of a free  *)
(* list, whatever was freed and handed out again (ObjectBlockPool::Alloc,  *)
(* FreePending, the big blocks of AllocObject).                            *)
THEOREM BytesApart == Spec => []NoOverlap
<1>1. IInv => NoOverlap
  BY SoundNoOverlap DEF IInv
<1> QED
  BY <1>1, Invariant, PTL

(* Each block that a page gave out is in use or on the free list, once, and*)
(* usedMemory is the sum of what the objects in use take (the additions in *)
(* AllocObject against the subtractions in FreePending).                   *)
THEOREM NothingLost == Spec => []Accounted
<1>1. IInv => Accounted
  BY InvAccounted
<1> QED
  BY <1>1, Invariant, PTL

(* usedMemory grows only by an allocation that the limit let pass: past the*)
(* limit by no more than what the block is larger than what was asked for. *)
THEOREM LimitObeyed == Spec => LimitKept
<1>1. IInv /\ [Next]_vars => [Limited]_vars
  BY StepLimited
<1>2. LimitKept <=> [][Limited]_vars
  BY PTL DEF LimitKept, Limited
<1> QED
  BY <1>1, <1>2, Invariant, PTL DEF Spec

(* The pages of every pool are in sortedPages, in the order of their        *)
(* addresses (the insertion in ObjectBlockPool::Alloc).                    *)
THEOREM PagesInOrder == Spec => []SortedIn(mem)
<1>1. Init => SortedIn(mem)
  BY EmptySorted DEF Init
<1>2. IInv /\ SortedIn(mem) /\ [Next]_vars => SortedIn(mem)'
  BY StepSorted
<1> QED
  BY <1>1, <1>2, Invariant, PTL DEF Spec

(* GetBasePointer leads from every part of every object to the object: the *)
(* binary search over sortedPages, the division in the page, the pools in  *)
(* their order and the look into bigBlocks, if objects consist of parts    *)
(* that are not smaller than the size in front of a big block.             *)
THEOREM LookupsExact == WholeParts => (Spec => []LookupExact)
<1> SUFFICES ASSUME WholeParts PROVE Spec => []LookupExact
  OBVIOUS
<1>1. IInv /\ SortedIn(mem) => LookupExact
  BY InvLookup
<1> QED
  BY <1>1, Invariant, PagesInOrder, PTL
===============================================================================
