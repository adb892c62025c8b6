------------------------------ MODULE LoadStore ------------------------------
(***************************************************************************)
(* Load and store propagation of the optimizer, over one basic block and   *)
(* after it the next: the walk that remembers what memory holds and reuses *)
(* it, the removal of a store that the next one overwrites, and the reuse  *)
(* of a value that the last instruction has stored.  What the optimizer    *)
(* decides depends on the instructions alone; the model walks the block    *)
(* and runs the optimized instructions at the same time, so that "value"   *)
(* of an entry stands for the SSA value the code keeps there.              *)
(*                                                                         *)
(* Left out: the types of the values (a value of another type and the same *)
(* size is only cast), entries dropped because their container is not read *)
(* any more, and the stores removed over the whole function.               *)
(***************************************************************************)
EXTENDS PlainBlock

CONSTANTS
    Known,       \* for a pointer that indexes an array at a known address, the
                 \* range it stays in: [container, offset, size]; or None
    Long,        \* containers that are arrays of more than 32 elements
    Scalars,     \* kinds of access that are not of structures
    Risks,       \* sequences that break the pass: "copies", "sizes"
    MaxEntries,  \* bound on the entries remembered
    MaxWritten   \* bound on the cells that one call writes

VARIABLES
    loadStoreInfo,  \* set of entries [type, at, from, value]
    last            \* the last access to memory, if it is a store

\* a pointer of known range stays in it (an index is checked before it is used)
ASSUME KnownAssumption ==
    \A t \in Targets, op \in Operands :
        op.pointer # None /\ Known[op.pointer] # None =>
            LET k == Known[op.pointer] IN
            /\ k.offset \in Nat /\ k.size \in Nat
            /\ Region(t, op) \subseteq Span(k.container, k.offset + op.offset, k.size - op.offset)
ASSUME KindAssumption ==
    \A op \in Operands : op.kind \in Scalars \union {"struct", "ref"}

lsVars == <<memory, target, done, loadStoreInfo, last>>

Entry(type, at, from, value) == [type |-> type, at |-> at, from |-> from, value |-> value]
NoStore == [op |-> None]

HasAddressTaken(c) == c \in Taken

\* the parts of memory an entry speaks about
Uses(e) == IF e.type = "copy" THEN {e.at, e.from} ELSE {e.at}
SameAddress(a, b) == /\ a.pointer = b.pointer /\ a.offset = b.offset
                     /\ a.pointer = None => a.container = b.container
SameAccess(a, b)  == SameAddress(a, b) /\ a.size = b.size

\* noLoadOrNoContainerAlias and noStoreOrNoContainerAlias
NoAlias(e) == \A u \in Uses(e) : u.pointer = None /\ ~HasAddressTaken(u.container)

-------------------------------------------------------------------------------
\* What a write forgets

\* "ref": the built-in structures, whose accesses are compared like scalars
IsLoadAliasedWithStore(load, cmd, store) ==
    IF cmd = "store" /\ load.kind = store.kind /\ load.kind \in Scalars \union {"ref"}
    THEN load.class = None \/ load.class # store.class \/ load.field = store.field
    ELSE \/ load.kind \in {"struct", "ref"}
         \/ cmd = "store" /\ store.kind \in {"struct", "ref"}

\* with op = None nothing is known of what was written
ClearLoadStoreInfoAliasing(t, cmd, op) ==
    {e \in t : \/ NoAlias(e)
               \/ op # None /\ e.type = "load" /\ ~IsLoadAliasedWithStore(e.at, cmd, op)}

ClearLoadStoreInfoGlobal(t) ==
    {e \in t : \A u \in Uses(e) : u.pointer = None => u.container \notin Global}

X_ClearLoadStoreInfo(t, c, first, size) ==
    {e \in t : \A u \in Uses(e) :
        IF u.pointer = None
        THEN u.container # c \/ first + size - 1 <= u.offset \/ u.offset + u.size <= first
        ELSE ~HasAddressTaken(c)}
ClearLoadStoreInfo(t, c, first, size) ==
    {e \in t : \A u \in Uses(e) :
        IF u.pointer = None
        THEN u.container # c \/ first + size <= u.offset \/ u.offset + u.size <= first
        ELSE ~HasAddressTaken(c)}

-------------------------------------------------------------------------------
\* What is remembered

AddLoadInfo(t, op, v) ==
    IF op.pointer = None /\ op.container \in Long
    THEN t ELSE t \union {Entry("load", op, None, v)}

AddStoreInfo(t, op, v) ==
    IF op.pointer = None
    THEN IF op.container \in Long THEN t
         ELSE ClearLoadStoreInfo(t, op.container, op.offset, op.size)
              \union {Entry("store", op, None, v)}
    ELSE LET k == Known[op.pointer] IN
         IF k = None THEN ClearLoadStoreInfoAliasing(t, "store", op)
         ELSE ClearLoadStoreInfo(t, k.container, k.offset + op.offset, k.size - op.offset)

AddCopyInfo(t, dst, src) ==
    IF dst.pointer = None
    THEN ClearLoadStoreInfo(t, dst.container, dst.offset, dst.size)
         \union {Entry("copy", dst, src, None)}
    ELSE ClearLoadStoreInfoAliasing(t, "copy", dst)

\* a part of a structure that was stored as one value
IsComponent(e, op) ==
    /\ e.type = "store" /\ op.pointer = None /\ e.at.container = op.container
    /\ e.at.offset <= op.offset /\ op.offset + op.size <= e.at.offset + e.at.size

Matches(op) == {e \in loadStoreInfo : e.type # "copy" /\ SameAccess(e.at, op)}
GetLoadStoreInfo(op) == Matches(op) \union {e \in loadStoreInfo : IsComponent(e, op)}
Reused(e, op) ==
    IF SameAccess(e.at, op) THEN e.value
    ELSE [k \in 0..(op.size - 1) |-> e.value[k + op.offset - e.at.offset]]

\* where a copy of this memory was made from
GetCopyInfo(op) ==
    LET copies == {e.from : e \in {c \in loadStoreInfo : c.type = "copy" /\ SameAccess(c.at, op)}}
    IN  IF copies = {} THEN {op} ELSE copies

-------------------------------------------------------------------------------
InitLS == Init /\ loadStoreInfo = {} /\ last = NoStore

Bounded == Cardinality(loadStoreInfo') <= MaxEntries

\* the load is not there any more
Reuse(op) ==
    /\ \E e \in GetLoadStoreInfo(op) : done' = <<"load", op, Reused(e, op)>>
    /\ UNCHANGED <<memory, target, loadStoreInfo, last>>

Value(op) == IF last # NoStore /\ SameAccess(last.op, op) THEN last.new
             ELSE Content(memory, target, op)

\* "fused": the load is part of an arithmetic instruction, and is not remembered
LoadMemory(op, fused) ==
    /\ Matches(op) = {} /\ (fused => op.kind \in Scalars)
    /\ LET v == IF fused THEN Content(memory, target, op) ELSE Value(op)
       IN  /\ done' = <<"load", op, v>>
           /\ loadStoreInfo' = IF fused THEN loadStoreInfo
                               ELSE AddLoadInfo(loadStoreInfo, op, v)
    /\ last' = NoStore /\ Bounded /\ UNCHANGED <<memory, target>>

\* the store before is removed when it has the same instruction and address
X_Overwrites(op) ==
    /\ last # NoStore /\ last.op.kind = op.kind /\ last.op.pointer = op.pointer
    /\ op.pointer = None => last.op.container = op.container
Overwrites(op) == last # NoStore /\ last.op.kind = op.kind /\ SameAddress(last.op, op)
Base(op) == IF Overwrites(op) THEN Written(memory, target, last.op, last.old) ELSE memory

StoreMemory(op, v) ==
    /\ "sizes" \in Risks \/ (Overwrites(op) => last.op.size = op.size)
    /\ memory' = Written(Base(op), target, op, v)
    /\ last' = [op |-> op, old |-> Content(Base(op), target, op), new |-> v]
    /\ loadStoreInfo' = AddStoreInfo(loadStoreInfo, op, v)
    /\ done' = <<"store", op, v>> /\ Bounded /\ UNCHANGED target

\* a structure too large for a register: the source of a copy of a copy is read
CopyMemory(dst, src) ==
    /\ \/ "copies" \in Risks \/ dst.pointer = None
       \/ \A e \in loadStoreInfo : e.type = "load" /\ e.at.kind \in Scalars => NoAlias(e)
    /\ \E from \in GetCopyInfo(src) :
         /\ memory' = Written(memory, target, dst, Content(memory, target, from))
         /\ loadStoreInfo' = AddCopyInfo(loadStoreInfo, dst, from)
    /\ done' = <<"copy", dst, src>> /\ last' = NoStore /\ Bounded /\ UNCHANGED target

\* made only where the array is defined, before the block uses it
FillArray(c, v) ==
    /\ \A e \in loadStoreInfo, u \in Operands : u \in Uses(e) => u.container # c
    /\ memory' = [cell \in Cells |-> IF cell[1] = c THEN v ELSE memory[cell]]
    /\ loadStoreInfo' =
         ClearLoadStoreInfoGlobal(ClearLoadStoreInfoAliasing(loadStoreInfo, "fill", None))
    /\ done' = <<"fill", c, v>> /\ last' = NoStore /\ UNCHANGED target

\* an argument by reference is replaced by the source of its copy, if that has
\* a known address
References(op) == LET from == {s \in GetCopyInfo(op) : s.pointer = None}
                  IN  IF from = {} THEN {op} ELSE from
PassedOn(arg) == {Content(memory, target, s) : s \in UNION {References(op) : op \in arg}}

Disturbed(cells) ==
    {[cell \in Cells |-> IF cell \in written THEN v ELSE memory[cell]] :
        v \in Values, written \in {s \in SUBSET cells : Cardinality(s) <= MaxWritten}}

ClearResult(t, result) ==
    {e \in t : \A op \in result : e \in ClearLoadStoreInfo(t, op.container, op.offset, op.size)}

\* pure: the function has the attribute NULLC_ATTRIBUTE_NO_MEMORY_WRITE
CallFunction(pure, arg, result) ==
    /\ done' = <<"call", arg, result, PassedOn(arg)>>
    /\ memory' \in Disturbed(Writable(pure, result))
    /\ LET left == ClearResult(loadStoreInfo, result)
       IN  loadStoreInfo' =
             IF pure THEN left
             ELSE ClearLoadStoreInfoGlobal(ClearLoadStoreInfoAliasing(left, "call", None))
    /\ last' = NoStore /\ UNCHANGED target

\* a return (or a jump, without argument); the next block starts with no entry
NextBlock(arg) ==
    /\ done' = <<"end", arg, PassedOn(arg)>>
    /\ target' \in Targets
    /\ loadStoreInfo' = {} /\ last' = NoStore /\ UNCHANGED memory

NextLS ==
    \/ \E op \in Operands :
         \/ Reuse(op)
         \/ \E fused \in BOOLEAN : LoadMemory(op, fused)
         \/ \E v \in [0..(op.size - 1) -> Values] : StoreMemory(op, v)
    \/ \E dst, src \in Structures :
         dst.size = src.size /\ CopyMemory(dst, src)
    \/ \E c \in Containers, v \in Values : FillArray(c, v)
    \/ \E pure \in BOOLEAN, arg, result \in AtMostOne : CallFunction(pure, arg, result)
    \/ \E arg \in AtMostOne : NextBlock(arg)

SpecLS == InitLS /\ [][NextLS]_lsVars

-------------------------------------------------------------------------------
\* What programs have to keep for the pass to be right.  The first two are not
\* promised by the language: see MCLoadStore and the README.

\* accesses that IsLoadAliasedWithStore tells apart are apart
StrictAliasing ==
    \A t \in Targets, l, s \in Operands :
        ~IsLoadAliasedWithStore(l, "store", s) => Region(t, l) \cap Region(t, s) = {}
\* nothing but scalar accesses at known addresses goes into long arrays
LongUnshared ==
    \A op \in Operands : op.pointer = None /\ op.container \in Long =>
        ~HasAddressTaken(op.container) /\ op.kind # "struct"
\* two structures of one size do not overlap in part
WholeStructures ==
    \A t \in Targets, a, b \in Structures :
        a.size = b.size => \/ Home(t, a) = Home(t, b) /\ First(t, a) = First(t, b)
                           \/ Region(t, a) \cap Region(t, b) = {}
WellTyped == StrictAliasing /\ LongUnshared /\ WholeStructures /\ Risks = {}

-------------------------------------------------------------------------------
\* The variables range over what the code keeps in them.  Entries that store or
\* copy are at known addresses, which GetCopyInfo and GetLoadStoreInfo rely on,
\* and no entry is at a known address in a long array (AddLoadInfo, AddStoreInfo).
TypeOK ==
    /\ memory \in [Cells -> Values] /\ target \in Targets
    /\ \A e \in loadStoreInfo :
         /\ \/ e.type = "load"
            \/ e.type = "store" /\ e.at.pointer = None
            \/ /\ e.type = "copy" /\ e.at.pointer = None /\ e.at.size = e.from.size
               /\ {e.at, e.from} \subseteq Structures
         /\ \A u \in Uses(e) : u \in Operands /\ (u.pointer = None => u.container \notin Long)
    /\ last = NoStore \/ last.op \in Operands

\* Whatever the walk remembers is what memory holds (AddLoadInfo, AddStoreInfo,
\* AddCopyInfo, and all that the Clear functions have left): the value of a load
\* or of a store is in memory, a copy is equal to its source, and the value of
\* the last store is still there.
Remembered ==
    /\ \A e \in loadStoreInfo :
         IF e.type = "copy"
         THEN Content(memory, target, e.at) = Content(memory, target, e.from)
         ELSE Content(memory, target, e.at) = e.value
    /\ last # NoStore =>
         /\ Content(memory, target, last.op) = last.new
         /\ last.old \in [0..(last.op.size - 1) -> Values]

\* The optimized block does what the block does: every load gives what memory
\* would hold without the optimization, every store, copy and call leaves the
\* same memory, every argument has the same content (RunLoadStorePropagation).
Implements == Spec
===============================================================================
