---------------------------- MODULE LoadStoreProof ----------------------------
(***************************************************************************)
(* Proofs about LoadStore: for any variables, pointers and operands of     *)
(* well-typed programs, what the optimizer remembers is what memory holds, *)
(* and the optimized block is the block.                                   *)
(***************************************************************************)
EXTENDS LoadStore, TLAPS

\* An entry that is true of a memory.
True(e, m) == IF e.type = "copy" THEN Content(m, target, e.at) = Content(m, target, e.from)
              ELSE Content(m, target, e.at) = e.value

LastTrue(l, m) == l # NoStore => /\ l.op \in Operands
                                 /\ Content(m, target, l.op) = l.new
                                 /\ l.old \in [0..(l.op.size - 1) -> Values]

EntryOK(e) ==
    /\ \/ e.type = "load"
       \/ e.type = "store" /\ e.at.pointer = None
       \/ /\ e.type = "copy" /\ e.at.pointer = None /\ e.at.size = e.from.size
          /\ {e.at, e.from} \subseteq Structures
    /\ \A u \in Uses(e) : u \in Operands /\ (u.pointer = None => u.container \notin Long)

\* The inductive invariant, and what it consists of.
IInv == TypeOK /\ Remembered

LEMMA IInvParts ==
    IInv <=> /\ memory \in [Cells -> Values] /\ target \in Targets
             /\ \A e \in loadStoreInfo : EntryOK(e) /\ True(e, memory)
             /\ LastTrue(last, memory)
BY DEF IInv, TypeOK, Remembered, EntryOK, True, LastTrue

-------------------------------------------------------------------------------
\* Operands and their regions

LEMMA OperandFacts ==
    ASSUME NEW op \in Operands, target \in Targets
    PROVE  /\ op.offset \in Nat /\ op.size \in Nat
           /\ First(target, op) \in Nat
           /\ op.pointer # None => Home(target, op) \in Taken
           /\ Region(target, op) \subseteq Cells
           /\ \A k \in 0..(op.size - 1) : <<Home(target, op), First(target, op) + k>> \in Region(target, op)
           /\ \A cell \in Region(target, op) :
                /\ cell[1] = Home(target, op)
                /\ cell[2] - First(target, op) \in 0..(op.size - 1)
                /\ cell = <<Home(target, op), First(target, op) + (cell[2] - First(target, op))>>
<1>1. op.offset \in Nat /\ op.size \in Nat /\ (op.pointer = None \/ op.pointer \in Pointers)
  BY BlockAssumption
<1>2. op.pointer \in Pointers => target[op.pointer] \in Objects[op.pointer]
  BY DEF Targets
<1>3. op.pointer # None => target[op.pointer].container \in Taken /\ target[op.pointer].offset \in Nat
  BY <1>1, <1>2, BlockAssumption
<1>4. First(target, op) \in Nat
  BY <1>1, <1>3 DEF First
<1>5. op.pointer # None => Home(target, op) \in Taken
  BY <1>3 DEF Home
<1>6. Region(target, op) \subseteq Cells
  BY BlockAssumption
<1>7. ASSUME NEW k \in 0..(op.size - 1)
      PROVE  <<Home(target, op), First(target, op) + k>> \in Region(target, op)
  BY <1>1, <1>4 DEF Region, Span
<1>8. ASSUME NEW cell \in Region(target, op)
      PROVE  /\ cell[1] = Home(target, op)
             /\ cell[2] - First(target, op) \in 0..(op.size - 1)
             /\ cell = <<Home(target, op), First(target, op) + (cell[2] - First(target, op))>>
  BY <1>1, <1>4 DEF Region, Span
<1> QED
  BY <1>1, <1>4, <1>5, <1>6, <1>7, <1>8

LEMMA SameRegion ==
    ASSUME NEW a, NEW b, SameAccess(a, b), NEW m
    PROVE  /\ Home(target, a) = Home(target, b) /\ First(target, a) = First(target, b)
           /\ Region(target, a) = Region(target, b)
           /\ Content(m, target, a) = Content(m, target, b)
BY DEF SameAccess, SameAddress, Home, First, Region, Content, Span

\* Content depends on the region alone.
LEMMA ContentKept ==
    ASSUME NEW op \in Operands, target \in Targets, NEW m1, NEW m2,
           \A cell \in Region(target, op) : m1[cell] = m2[cell]
    PROVE  Content(m1, target, op) = Content(m2, target, op)
BY OperandFacts DEF Content

LEMMA ContentType ==
    ASSUME NEW op \in Operands, target \in Targets, NEW m \in [Cells -> Values]
    PROVE  Content(m, target, op) \in [0..(op.size - 1) -> Values]
BY OperandFacts DEF Content

\* What is written is there, and everything else is as it was.
LEMMA WrittenFacts ==
    ASSUME NEW op \in Operands, target \in Targets, NEW m \in [Cells -> Values],
           NEW v \in [0..(op.size - 1) -> Values]
    PROVE  /\ Written(m, target, op, v) \in [Cells -> Values]
           /\ Content(Written(m, target, op, v), target, op) = v
           /\ \A cell \in Cells \ Region(target, op) : Written(m, target, op, v)[cell] = m[cell]
<1>1. Written(m, target, op, v) \in [Cells -> Values]
  BY OperandFacts DEF Written
<1>2. \A k \in 0..(op.size - 1) :
        Written(m, target, op, v)[<<Home(target, op), First(target, op) + k>>] = v[k]
  <2> TAKE k \in 0..(op.size - 1)
  <2> DEFINE cell == <<Home(target, op), First(target, op) + k>>
  <2>1. cell \in Region(target, op) /\ cell \in Cells
    BY OperandFacts
  <2>2. cell[2] - First(target, op) = k
    BY OperandFacts
  <2> QED
    BY <2>1, <2>2 DEF Written
<1>3. Content(Written(m, target, op, v), target, op) = v
  BY <1>2 DEF Content
<1>4. \A cell \in Cells \ Region(target, op) : Written(m, target, op, v)[cell] = m[cell]
  BY DEF Written
<1> QED
  BY <1>1, <1>3, <1>4

\* A store over the same region makes the one before it void.
LEMMA WrittenTwice ==
    ASSUME NEW a \in Operands, NEW b \in Operands, target \in Targets, NEW m, NEW v, NEW w,
           Region(target, a) = Region(target, b)
    PROVE  Written(Written(m, target, a, w), target, b, v) = Written(m, target, b, v)
BY DEF Written

\* An entry stays true when the memory it speaks about stays.
LEMMA EntryKept ==
    ASSUME NEW e, EntryOK(e), target \in Targets, True(e, memory), NEW m,
           \A u \in Uses(e) : \A cell \in Region(target, u) : m[cell] = memory[cell]
    PROVE  True(e, m)
<1>1. \A u \in Uses(e) : u \in Operands /\ Content(m, target, u) = Content(memory, target, u)
  BY ContentKept DEF EntryOK
<1>2. e.at \in Uses(e) /\ (e.type = "copy" => e.from \in Uses(e))
  BY DEF Uses
<1> QED
  BY <1>1, <1>2 DEF True

-------------------------------------------------------------------------------
\* What survives a write is not where it went

LEMMA SpansApart ==
    ASSUME NEW c, NEW d, NEW i \in Nat, NEW j \in Int, NEW n \in Int, NEW k \in Int,
           c # d \/ i + n <= j \/ j + k <= i
    PROVE  Span(c, i, n) \cap Span(d, j, k) = {}
BY DEF Span

LEMMA RangeForgotten ==
    ASSUME NEW t, target \in Targets, NEW c, NEW first \in Nat, NEW size \in Int,
           NEW e \in ClearLoadStoreInfo(t, c, first, size), EntryOK(e), NEW u \in Uses(e)
    PROVE  Region(target, u) \cap Span(c, first, size) = {}
<1>1. u \in Operands
  BY DEF EntryOK
<1>2. CASE u.pointer = None
  <2>1. u.container # c \/ first + size <= u.offset \/ u.offset + u.size <= first
    BY <1>2 DEF ClearLoadStoreInfo
  <2>2. Region(target, u) = Span(u.container, u.offset, u.size)
    BY <1>2 DEF Region, Home, First
  <2> QED
    BY <2>1, <2>2, <1>1, OperandFacts, SpansApart
<1>3. CASE u.pointer # None
  <2>1. c \notin Taken
    BY <1>3 DEF ClearLoadStoreInfo, HasAddressTaken
  <2>2. Home(target, u) # c
    BY <2>1, <1>1, <1>3, OperandFacts
  <2> QED
    BY <2>2 DEF Region, Span
<1> QED
  BY <1>2, <1>3

\* An entry without aliases is not about what pointers lead to.
LEMMA NoAliasApart ==
    ASSUME NEW e, NoAlias(e), NEW u \in Uses(e), NEW cell \in Region(target, u)
    PROVE  cell[1] \notin Taken
BY DEF NoAlias, HasAddressTaken, Region, Home, Span

LEMMA AliasesForgotten ==
    ASSUME NEW t, target \in Targets, NEW op \in Operands, op.pointer # None, StrictAliasing,
           NEW e \in ClearLoadStoreInfoAliasing(t, "store", op), EntryOK(e), NEW u \in Uses(e)
    PROVE  Region(target, u) \cap Region(target, op) = {}
<1>1. op.pointer # None => Home(target, op) \in Taken
  BY OperandFacts
<1>2. CASE NoAlias(e)
  BY <1>1, <1>2, NoAliasApart DEF Region, Span
<1>3. CASE e.type = "load" /\ ~IsLoadAliasedWithStore(e.at, "store", op)
  BY <1>3 DEF Uses, EntryOK, StrictAliasing
<1> QED
  BY <1>2, <1>3 DEF ClearLoadStoreInfoAliasing

LEMMA CopyForgotten ==
    ASSUME NEW t, target \in Targets, NEW op \in Operands, op.pointer # None,
           NEW e \in ClearLoadStoreInfoAliasing(t, "copy", op), EntryOK(e), NEW u \in Uses(e),
           e.type = "load" /\ e.at.kind \in Scalars => NoAlias(e)
    PROVE  Region(target, u) \cap Region(target, op) = {}
<1>1. op.pointer # None => Home(target, op) \in Taken
  BY OperandFacts
<1>2. NoAlias(e)
  <2>1. CASE e.type = "load" /\ ~IsLoadAliasedWithStore(e.at, "copy", op)
    <3>1. e.at \in Operands
      BY <2>1 DEF EntryOK, Uses
    <3>2. e.at.kind \in Scalars
      BY <2>1, <3>1, KindAssumption DEF IsLoadAliasedWithStore
    <3> QED
      BY <2>1, <3>2
  <2> QED
    BY <2>1 DEF ClearLoadStoreInfoAliasing
<1> QED
  BY <1>1, <1>2, NoAliasApart DEF Region, Span

\* After a call or a fill only what nothing else can name is remembered.
Forgetful(t, cmd) == ClearLoadStoreInfoGlobal(ClearLoadStoreInfoAliasing(t, cmd, None))

LEMMA CallForgotten ==
    ASSUME NEW t, NEW cmd, NEW e \in Forgetful(t, cmd)
    PROVE  /\ e \in t /\ NoAlias(e)
           /\ \A u \in Uses(e) : \A cell \in Region(target, u) :
                cell[1] = u.container /\ cell[1] \notin Taken \union Global
<1>1. e \in t /\ NoAlias(e)
  BY DEF Forgetful, ClearLoadStoreInfoGlobal, ClearLoadStoreInfoAliasing
<1>2. \A u \in Uses(e) : u.container \notin Global
  BY <1>1 DEF Forgetful, ClearLoadStoreInfoGlobal, NoAlias
<1> QED
  BY <1>1, <1>2 DEF NoAlias, HasAddressTaken, Region, Home, Span

\* Nothing is added by forgetting.
LEMMA OnlyLess ==
    ASSUME NEW t, NEW c, NEW i, NEW n, NEW cmd, NEW op
    PROVE  /\ ClearLoadStoreInfo(t, c, i, n) \subseteq t
           /\ ClearLoadStoreInfoAliasing(t, cmd, op) \subseteq t
BY DEF ClearLoadStoreInfo, ClearLoadStoreInfoAliasing

-------------------------------------------------------------------------------
\* The steps

LEMMA InvNext ==
    ASSUME memory' \in [Cells -> Values], target' = target, target \in Targets,
           \A e \in loadStoreInfo' : EntryOK(e) /\ True(e, memory'),
           LastTrue(last', memory')
    PROVE  IInv'
BY DEF IInv, TypeOK, Remembered, EntryOK, True, LastTrue

\* The value of a load that is taken from an earlier load or store.
LEMMA ReuseStep ==
    ASSUME IInv, NEW op \in Operands, Reuse(op)
    PROVE  IInv' /\ Load(op)
<1> USE IInvParts
<1>1. PICK e \in GetLoadStoreInfo(op) : done' = <<"load", op, Reused(e, op)>>
  BY DEF Reuse
<1>2. e \in loadStoreInfo /\ e.type # "copy"
  BY <1>1 DEF GetLoadStoreInfo, Matches, IsComponent
<1>3. e.at \in Operands /\ Content(memory, target, e.at) = e.value
  BY <1>2 DEF EntryOK, True, Uses
<1>4. Reused(e, op) = Content(memory, target, op)
  <2>1. CASE SameAccess(e.at, op)
    BY <2>1, <1>3, SameRegion DEF Reused
  <2>2. CASE ~SameAccess(e.at, op)
    <3>1. IsComponent(e, op)
      BY <1>1, <2>2 DEF GetLoadStoreInfo, Matches
    <3>2. e.at.pointer = None
      BY <1>2, <3>1 DEF EntryOK, IsComponent
    <3>3. /\ Home(target, op) = Home(target, e.at)
          /\ First(target, op) = op.offset /\ First(target, e.at) = e.at.offset
      BY <3>1, <3>2 DEF IsComponent, Home, First
    <3>4. /\ op.offset \in Nat /\ op.size \in Nat
          /\ e.at.offset \in Nat /\ e.at.size \in Nat
      BY <1>3, BlockAssumption
    <3>5. ASSUME NEW k \in 0..(op.size - 1)
          PROVE  e.value[k + op.offset - e.at.offset] = memory[<<Home(target, op), First(target, op) + k>>]
      <4>1. k + op.offset - e.at.offset \in 0..(e.at.size - 1)
        BY <3>1, <3>4 DEF IsComponent
      <4>2. First(target, e.at) + (k + op.offset - e.at.offset) = First(target, op) + k
        BY <3>3, <3>4
      <4> QED
        BY <1>3, <4>1, <4>2, <3>3 DEF Content
    <3> QED
      BY <2>2, <3>5 DEF Reused, Content
  <2> QED
    BY <2>1, <2>2
<1>5. Load(op)
  BY <1>1, <1>4 DEF Reuse, Load
<1>6. IInv'
  BY InvNext DEF Reuse
<1> QED
  BY <1>5, <1>6

LEMMA LoadMemoryStep ==
    ASSUME IInv, NEW op \in Operands, NEW fused \in BOOLEAN, LoadMemory(op, fused)
    PROVE  IInv' /\ Load(op)
<1> USE IInvParts
<1> DEFINE v == IF fused THEN Content(memory, target, op) ELSE Value(op)
<1>1. v = Content(memory, target, op)
  BY SameRegion DEF Value, LastTrue
<1>2. Load(op)
  BY <1>1 DEF LoadMemory, Load
<1>3. ASSUME NEW e \in loadStoreInfo' PROVE EntryOK(e) /\ True(e, memory')
  <2>1. CASE e \in loadStoreInfo
    BY <2>1 DEF LoadMemory
  <2>2. CASE e \notin loadStoreInfo
    <3>1. e = Entry("load", op, None, v) /\ ~(op.pointer = None /\ op.container \in Long)
      BY <2>2 DEF LoadMemory, AddLoadInfo
    <3>2. e.type = "load" /\ e.at = op /\ e.value = v
      BY <3>1 DEF Entry
    <3> QED
      BY <3>1, <3>2, <1>1 DEF LoadMemory, EntryOK, Uses, True
  <2> QED
    BY <2>1, <2>2
<1>4. IInv'
  BY <1>3, InvNext DEF LoadMemory, LastTrue
<1> QED
  BY <1>2, <1>4

LEMMA StoreStep ==
    ASSUME IInv, WellTyped, NEW op \in Operands, NEW v \in [0..(op.size - 1) -> Values],
           StoreMemory(op, v)
    PROVE  IInv' /\ Store(op, v)
<1> USE IInvParts
<1>1. Base(op) \in [Cells -> Values] /\ memory' = Written(memory, target, op, v)
  <2>1. CASE Overwrites(op)
    <3>1. last.op.size = op.size
      BY <2>1 DEF StoreMemory, WellTyped
    <3>2. Region(target, last.op) = Region(target, op)
      BY <2>1, <3>1, SameRegion DEF Overwrites, SameAccess
    <3>3. last.op \in Operands /\ last.old \in [0..(last.op.size - 1) -> Values]
      BY <2>1 DEF Overwrites, LastTrue
    <3>4. Base(op) \in [Cells -> Values]
      BY <2>1, <3>3, WrittenFacts DEF Base
    <3> QED
      BY <2>1, <3>2, <3>3, <3>4, WrittenTwice DEF Base, StoreMemory
  <2>2. CASE ~Overwrites(op)
    BY <2>2 DEF Base, StoreMemory
  <2> QED
    BY <2>1, <2>2
<1>2. Store(op, v)
  BY <1>1 DEF StoreMemory, Store
<1>3. /\ memory' \in [Cells -> Values] /\ Content(memory', target, op) = v
      /\ \A cell \in Cells \ Region(target, op) : memory'[cell] = memory[cell]
  BY <1>1, WrittenFacts
<1>4. ASSUME NEW e \in loadStoreInfo, e \in AddStoreInfo(loadStoreInfo, op, v),
             NEW u \in Uses(e), e # Entry("store", op, None, v)
      PROVE  Region(target, u) \cap Region(target, op) = {}
  <2> DEFINE k == Known[op.pointer]
  <2>1. CASE op.pointer = None /\ op.container \in Long
    <3>1. op.container \notin Taken
      BY <2>1 DEF WellTyped, LongUnshared, HasAddressTaken
    <3>2. u \in Operands /\ (u.pointer = None => u.container \notin Long)
      BY DEF EntryOK
    <3>3. Home(target, u) # Home(target, op)
      BY <2>1, <3>1, <3>2, OperandFacts DEF Home
    <3> QED
      BY <3>3 DEF Region, Span
  <2>2. CASE op.pointer = None /\ op.container \notin Long
    <3>1. e \in ClearLoadStoreInfo(loadStoreInfo, op.container, op.offset, op.size)
      BY <1>4, <2>2 DEF AddStoreInfo
    <3>2. Region(target, op) = Span(op.container, op.offset, op.size)
      BY <2>2 DEF Region, Home, First
    <3> QED
      BY <3>1, <3>2, RangeForgotten, OperandFacts
  <2>3. CASE op.pointer # None /\ k = None
    BY <1>4, <2>3, AliasesForgotten DEF AddStoreInfo, WellTyped
  <2>4. CASE op.pointer # None /\ k # None
    <3>1. /\ k.offset \in Nat /\ k.size \in Nat /\ op.offset \in Nat
          /\ Region(target, op) \subseteq Span(k.container, k.offset + op.offset, k.size - op.offset)
      BY <2>4, KnownAssumption, BlockAssumption
    <3>2. e \in ClearLoadStoreInfo(loadStoreInfo, k.container, k.offset + op.offset, k.size - op.offset)
      BY <1>4, <2>4 DEF AddStoreInfo
    <3>3. k.offset + op.offset \in Nat /\ k.size - op.offset \in Int
      BY <3>1
    <3>4. Region(target, u) \cap Span(k.container, k.offset + op.offset, k.size - op.offset) = {}
      BY <3>2, <3>3, RangeForgotten
    <3> QED
      BY <3>1, <3>4
  <2> QED
    BY <2>1, <2>2, <2>3, <2>4
<1>5. ASSUME NEW e \in loadStoreInfo' PROVE EntryOK(e) /\ True(e, memory')
  <2>1. CASE e = Entry("store", op, None, v) /\ op.pointer = None /\ op.container \notin Long
    <3>1. e.type = "store" /\ e.at = op /\ e.value = v
      BY <2>1 DEF Entry
    <3> QED
      BY <2>1, <3>1, <1>3 DEF EntryOK, Uses, True
  <2>2. CASE e \in loadStoreInfo /\ e # Entry("store", op, None, v)
    <3>1. \A u \in Uses(e) : Region(target, u) \cap Region(target, op) = {}
      BY <2>2, <1>4, <1>5 DEF StoreMemory
    <3>2. \A u \in Uses(e) : Region(target, u) \subseteq Cells
      BY <2>2, OperandFacts DEF EntryOK
    <3> QED
      BY <2>2, <3>1, <3>2, <1>3, EntryKept
  <2>3. \/ e \in loadStoreInfo /\ e # Entry("store", op, None, v)
        \/ e = Entry("store", op, None, v) /\ op.pointer = None /\ op.container \notin Long
        \/ e = Entry("store", op, None, v) /\ e \in loadStoreInfo
    BY <1>5, OnlyLess DEF StoreMemory, AddStoreInfo
  <2>4. CASE e = Entry("store", op, None, v) /\ e \in loadStoreInfo
    <3>1. e.type = "store" /\ e.at = op /\ e.value = v
      BY <2>4 DEF Entry
    <3> QED
      BY <2>4, <3>1, <1>3 DEF EntryOK, Uses, True
  <2> QED
    BY <2>1, <2>2, <2>3, <2>4
<1>6. LastTrue(last', memory')
  BY <1>1, <1>3, ContentType DEF StoreMemory, LastTrue
<1>7. IInv'
  BY <1>3, <1>5, <1>6, InvNext DEF StoreMemory
<1> QED
  BY <1>2, <1>7

\* What a copy is read from holds what the source holds.
LEMMA CopySource ==
    ASSUME IInv, NEW src \in Structures, NEW from \in GetCopyInfo(src)
    PROVE  /\ from \in Structures /\ from.size = src.size
           /\ Content(memory, target, from) = Content(memory, target, src)
<1> USE IInvParts
<1>1. CASE from = src
  BY <1>1
<1>2. CASE from # src
  <2>1. PICK e \in loadStoreInfo : e.type = "copy" /\ SameAccess(e.at, src) /\ from = e.from
    BY <1>2 DEF GetCopyInfo
  <2>2. e.at.size = e.from.size /\ {e.at, e.from} \subseteq Structures
    BY <2>1 DEF EntryOK
  <2>3. Content(memory, target, e.at) = Content(memory, target, e.from)
    BY <2>1 DEF True
  <2> QED
    BY <2>1, <2>2, <2>3, SameRegion DEF SameAccess
<1> QED
  BY <1>1, <1>2

LEMMA CopyStep ==
    ASSUME IInv, WellTyped, NEW dst \in Structures, NEW src \in Structures,
           dst.size = src.size, CopyMemory(dst, src)
    PROVE  IInv' /\ MemCopy(dst, src)
<1> USE IInvParts
<1>1. PICK from \in GetCopyInfo(src) :
         /\ memory' = Written(memory, target, dst, Content(memory, target, from))
         /\ loadStoreInfo' = AddCopyInfo(loadStoreInfo, dst, from)
  BY DEF CopyMemory
<1>2. /\ from \in Structures /\ from.size = dst.size
      /\ Content(memory, target, from) = Content(memory, target, src)
  BY CopySource
<1>3. dst \in Operands /\ from \in Operands
  BY <1>2 DEF Structures
<1>4. MemCopy(dst, src)
  BY <1>1, <1>2 DEF CopyMemory, MemCopy
<1>5. Content(memory, target, from) \in [0..(dst.size - 1) -> Values]
  BY <1>2, <1>3, ContentType
<1>6. /\ memory' \in [Cells -> Values]
      /\ Content(memory', target, dst) = Content(memory, target, from)
      /\ \A cell \in Cells \ Region(target, dst) : memory'[cell] = memory[cell]
  BY <1>1, <1>3, <1>5, WrittenFacts
<1>7. Content(memory', target, dst) = Content(memory', target, from)
  <2>1. CASE Home(target, dst) = Home(target, from) /\ First(target, dst) = First(target, from)
    BY <2>1, <1>2 DEF Content
  <2>2. CASE Region(target, dst) \cap Region(target, from) = {}
    <3>1. Content(memory', target, from) = Content(memory, target, from)
      BY <2>2, <1>3, <1>6, ContentKept, OperandFacts
    <3> QED
      BY <3>1, <1>6
  <2> QED
    BY <1>2, <2>1, <2>2 DEF WellTyped, WholeStructures
<1>8. ASSUME NEW e \in loadStoreInfo' PROVE EntryOK(e) /\ True(e, memory')
  <2>1. CASE e = Entry("copy", dst, from, None) /\ dst.pointer = None
    <3>1. e.type = "copy" /\ e.at = dst /\ e.from = from
      BY <2>1 DEF Entry
    <3>2. \A u \in {dst, from} : u.pointer = None => u.container \notin Long
      BY <1>2, <1>3 DEF WellTyped, LongUnshared, Structures
    <3> QED
      BY <2>1, <3>1, <3>2, <1>2, <1>3, <1>7 DEF EntryOK, Uses, True
  <2>2. CASE /\ dst.pointer = None
             /\ e \in ClearLoadStoreInfo(loadStoreInfo, dst.container, dst.offset, dst.size)
    <3>1. EntryOK(e) /\ True(e, memory)
      BY <2>2, OnlyLess
    <3>2. Region(target, dst) = Span(dst.container, dst.offset, dst.size)
      BY <2>2 DEF Region, Home, First
    <3>3. \A u \in Uses(e) : Region(target, u) \cap Region(target, dst) = {}
      BY <2>2, <3>1, <3>2, <1>3, RangeForgotten, OperandFacts
    <3>4. \A u \in Uses(e) : Region(target, u) \subseteq Cells
      BY <3>1, OperandFacts DEF EntryOK
    <3> QED
      BY <3>1, <3>3, <3>4, <1>6, EntryKept
  <2>3. CASE /\ dst.pointer # None
             /\ e \in ClearLoadStoreInfoAliasing(loadStoreInfo, "copy", dst)
    <3>1. EntryOK(e) /\ True(e, memory) /\ e \in loadStoreInfo
      BY <2>3, OnlyLess
    <3>2. e.type = "load" /\ e.at.kind \in Scalars => NoAlias(e)
      BY <2>3, <3>1 DEF CopyMemory, WellTyped
    <3>3. \A u \in Uses(e) : Region(target, u) \cap Region(target, dst) = {}
      BY <2>3, <3>1, <3>2, <1>3, CopyForgotten
    <3>4. \A u \in Uses(e) : Region(target, u) \subseteq Cells
      BY <3>1, OperandFacts DEF EntryOK
    <3> QED
      BY <3>1, <3>3, <3>4, <1>6, EntryKept
  <2> QED
    BY <1>1, <2>1, <2>2, <2>3 DEF AddCopyInfo
<1>9. IInv'
  BY <1>6, <1>8, InvNext DEF CopyMemory, LastTrue
<1> QED
  BY <1>4, <1>9

\* What a call or a fill writes is forgotten.
LEMMA ForgetfulKept ==
    ASSUME IInv, NEW t, t \subseteq loadStoreInfo, NEW cmd, NEW e \in Forgetful(t, cmd), NEW m,
           \A u \in Uses(e) : \A cell \in Region(target, u) :
               cell \in Cells /\ cell[1] = u.container /\ cell[1] \notin Taken \union Global
                   => m[cell] = memory[cell]
    PROVE  EntryOK(e) /\ True(e, m)
<1> USE IInvParts
<1>1. e \in loadStoreInfo
  BY CallForgotten
<1>2. \A u \in Uses(e) : Region(target, u) \subseteq Cells
  BY <1>1, OperandFacts DEF EntryOK
<1> QED
  BY <1>1, <1>2, CallForgotten, EntryKept

LEMMA FillStep ==
    ASSUME IInv, NEW c \in Containers, NEW v \in Values, FillArray(c, v)
    PROVE  IInv' /\ SetRange(c, v)
<1> USE IInvParts
<1>1. SetRange(c, v)
  BY DEF FillArray, SetRange
<1>2. memory' \in [Cells -> Values]
  BY DEF FillArray
<1>3. ASSUME NEW e \in loadStoreInfo' PROVE EntryOK(e) /\ True(e, memory')
  <2>1. e \in Forgetful(loadStoreInfo, "fill")
    BY DEF FillArray, Forgetful
  <2>2. \A u \in Uses(e) : u.container # c
    BY <2>1, CallForgotten DEF FillArray, EntryOK
  <2>3. \A u \in Uses(e) : \A cell \in Region(target, u) :
          cell \in Cells /\ cell[1] = u.container => memory'[cell] = memory[cell]
    BY <2>2 DEF FillArray
  <2> QED
    BY <2>1, <2>3, ForgetfulKept
<1>4. IInv'
  BY <1>2, <1>3, InvNext DEF FillArray, LastTrue
<1> QED
  BY <1>1, <1>4

LEMMA PassedOnFacts ==
    ASSUME IInv, NEW arg \in AtMostOne
    PROVE  PassedOn(arg) = Passed(arg)
<1>1. \A op \in arg : op \in Structures
  BY DEF AtMostOne
<1>2. ASSUME NEW op \in arg, NEW s \in References(op)
      PROVE  Content(memory, target, s) = Content(memory, target, op)
  BY <1>1, CopySource DEF References
<1>3. \A op \in arg : References(op) # {}
  BY DEF References
<1> QED
  BY <1>2, <1>3 DEF PassedOn, Passed

LEMMA NotWritable ==
    ASSUME NEW pure, NEW result, NEW c \in Cells, c[1] \notin Taken \union Global,
           \A op \in result : c \notin Region(target, op)
    PROVE  c \in Cells \ Writable(pure, result)
BY DEF Writable

LEMMA CallStep ==
    ASSUME IInv, NEW pure \in BOOLEAN, NEW arg \in AtMostOne, NEW result \in AtMostOne,
           CallFunction(pure, arg, result)
    PROVE  IInv' /\ Call(pure, arg, result)
<1> USE IInvParts
<1> DEFINE left == ClearResult(loadStoreInfo, result)
<1>1. /\ memory' \in [Cells -> Values]
      /\ \A cell \in Cells \ Writable(pure, result) : memory'[cell] = memory[cell]
  BY DEF CallFunction, Disturbed
<1>2. Call(pure, arg, result)
  BY <1>1, PassedOnFacts DEF CallFunction, Call
<1>3. \A op \in result : op \in Operands /\ op.pointer = None
  BY DEF AtMostOne, Structures
<1>4. ASSUME NEW e \in left, NEW u \in Uses(e), NEW op \in result
      PROVE  Region(target, u) \cap Region(target, op) = {}
  <2>1. e \in loadStoreInfo /\ e \in ClearLoadStoreInfo(loadStoreInfo, op.container, op.offset, op.size)
    BY DEF ClearResult
  <2>2. Region(target, op) = Span(op.container, op.offset, op.size)
    BY <1>3 DEF Region, Home, First
  <2> QED
    BY <2>1, <2>2, <1>3, RangeForgotten, OperandFacts
<1>5. ASSUME NEW e \in loadStoreInfo' PROVE EntryOK(e) /\ True(e, memory')
  <2>1. CASE pure
    <3>1. e \in left /\ e \in loadStoreInfo
      BY <2>1 DEF CallFunction, ClearResult
    <3>2. \A u \in Uses(e) : \A cell \in Region(target, u) : cell \in Cells \ Writable(pure, result)
      BY <2>1, <3>1, <1>4, OperandFacts DEF Writable, EntryOK
    <3> QED
      BY <3>1, <3>2, <1>1, EntryKept
  <2>2. CASE ~pure
    <3>1. e \in Forgetful(left, "call")
      BY <2>2 DEF CallFunction, Forgetful
    <3>2. left \subseteq loadStoreInfo /\ e \in left
      BY <3>1, CallForgotten DEF ClearResult
    <3>3. ASSUME NEW u \in Uses(e), NEW cell \in Region(target, u),
                 cell \in Cells, cell[1] \notin Taken \union Global
          PROVE  cell \in Cells \ Writable(pure, result)
      <4>1. \A op \in result : cell \notin Region(target, op)
        BY <3>2, <3>3, <1>4
      <4> QED
        BY <4>1, <3>3, NotWritable
    <3> QED
      BY <3>1, <3>2, <3>3, <1>1, ForgetfulKept
  <2> QED
    BY <2>1, <2>2
<1>6. IInv'
  BY <1>1, <1>5, InvNext DEF CallFunction, LastTrue
<1> QED
  BY <1>2, <1>6

LEMMA NextBlockStep ==
    ASSUME IInv, NEW arg \in AtMostOne, NextBlock(arg)
    PROVE  IInv' /\ EndBlock(arg)
<1>1. EndBlock(arg)
  BY PassedOnFacts DEF NextBlock, EndBlock
<1>2. IInv'
  BY DEF NextBlock, IInv, TypeOK, Remembered
<1> QED
  BY <1>1, <1>2

-------------------------------------------------------------------------------
LEMMA InitStep == InitLS => IInv /\ Init
BY DEF InitLS, Init, IInv, TypeOK, Remembered

LEMMA StepInv ==
    ASSUME IInv, WellTyped, [NextLS]_lsVars
    PROVE  IInv' /\ [Next]_vars
<1>1. ASSUME NEW op \in Operands, Reuse(op)
      PROVE  IInv' /\ Next
  BY <1>1, ReuseStep DEF Next
<1>2. ASSUME NEW op \in Operands, NEW fused \in BOOLEAN, LoadMemory(op, fused)
      PROVE  IInv' /\ Next
  BY <1>2, LoadMemoryStep DEF Next
<1>3. ASSUME NEW op \in Operands, NEW v \in [0..(op.size - 1) -> Values], StoreMemory(op, v)
      PROVE  IInv' /\ Next
  BY <1>3, StoreStep DEF Next
<1>4. ASSUME NEW dst \in Structures, NEW src \in Structures, dst.size = src.size,
             CopyMemory(dst, src)
      PROVE  IInv' /\ Next
  BY <1>4, CopyStep DEF Next
<1>5. ASSUME NEW c \in Containers, NEW v \in Values, FillArray(c, v)
      PROVE  IInv' /\ Next
  BY <1>5, FillStep DEF Next
<1>6. ASSUME NEW pure \in BOOLEAN, NEW arg \in AtMostOne, NEW result \in AtMostOne,
             CallFunction(pure, arg, result)
      PROVE  IInv' /\ Next
  BY <1>6, CallStep DEF Next
<1>7. ASSUME NEW arg \in AtMostOne, NextBlock(arg)
      PROVE  IInv' /\ Next
  BY <1>7, NextBlockStep DEF Next
<1>8. CASE UNCHANGED lsVars
  BY <1>8 DEF lsVars, vars, IInv, TypeOK, Remembered
<1>9. CASE NextLS
  BY <1>9, <1>1, <1>2, <1>3, <1>4, <1>5, <1>6, <1>7 DEF NextLS
<1> QED
  BY <1>8, <1>9

\* Whatever load and store propagation remembers of a block of a well-typed
\* program is what memory holds when the block runs.
THEOREM MemoryRemembered == ASSUME WellTyped PROVE SpecLS => []Remembered
<1>1. InitLS => IInv
  BY InitStep
<1>2. IInv /\ [NextLS]_lsVars => IInv'
  BY StepInv
<1>3. IInv => Remembered
  BY DEF IInv
<1> QED
  BY <1>1, <1>2, <1>3, PTL DEF SpecLS

\* Entries that store or copy are at known addresses, none in a long array.
THEOREM EntriesTyped == ASSUME WellTyped PROVE SpecLS => []TypeOK
<1>1. InitLS => IInv
  BY InitStep
<1>2. IInv /\ [NextLS]_lsVars => IInv'
  BY StepInv
<1>3. IInv => TypeOK
  BY DEF IInv
<1> QED
  BY <1>1, <1>2, <1>3, PTL DEF SpecLS

\* The block that load and store propagation leaves loads, stores, copies and
\* passes what the block does that it was given.
THEOREM LoadStoreImplements == ASSUME WellTyped PROVE SpecLS => Implements
<1>1. InitLS => IInv /\ Init
  BY InitStep
<1>2. IInv /\ [NextLS]_lsVars => IInv' /\ [Next]_vars
  BY StepInv
<1> QED
  BY <1>1, <1>2, PTL DEF SpecLS, Spec, Implements
===============================================================================
