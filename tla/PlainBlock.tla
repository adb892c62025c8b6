------------------------------ MODULE PlainBlock ------------------------------
(***************************************************************************)
(* The memory instructions of a basic block, as they are written: a load   *)
(* gives what memory holds, a copy copies what its source holds, a call    *)
(* passes what its argument holds.  The optimizer must not change what is  *)
(* seen of them (module LoadStore).                                        *)
(***************************************************************************)
EXTENDS Integers, FiniteSets

CONSTANTS
    Containers, \* variables: locals, globals, temporaries
    Size,       \* their cells
    Values,     \* of a cell
    Taken,      \* containers that a pointer may point into
    Global,     \* containers that are global
    Pointers,   \* pointers that the block computes or loads
    Objects,    \* where each of them may point to: [container, offset]
    Operands,   \* what instructions access: [pointer, container, offset, size,
                \* kind, class, field], through a pointer or at a known address
    None

VARIABLES
    memory,     \* cell -> value
    target,     \* what the pointers of this block point to
    done        \* the last instruction, and what it took from memory

vars == <<memory, target, done>>

Cells   == UNION {{c} \X (0..(Size[c] - 1)) : c \in Containers}
Targets == {t \in [Pointers -> UNION {Objects[p] : p \in Pointers}] :
              \A p \in Pointers : t[p] \in Objects[p]}

Home(t, op)   == IF op.pointer = None THEN op.container ELSE t[op.pointer].container
First(t, op)  == IF op.pointer = None THEN op.offset ELSE t[op.pointer].offset + op.offset
Span(c, first, size) == {c} \X (first..(first + size - 1))
Region(t, op) == Span(Home(t, op), First(t, op), op.size)

Content(m, t, op) == [k \in 0..(op.size - 1) |-> m[<<Home(t, op), First(t, op) + k>>]]
Written(m, t, op, v) ==
    [cell \in Cells |-> IF cell \in Region(t, op) THEN v[cell[2] - First(t, op)] ELSE m[cell]]

\* What an operand accesses lies inside a container, and a pointer leads only to
\* containers whose address was taken.
ASSUME BlockAssumption ==
    /\ \A c \in Containers : Size[c] \in Nat
    /\ None \notin Pointers
    /\ \A p \in Pointers : \A o \in Objects[p] : o.container \in Taken /\ o.offset \in Nat
    /\ \A op \in Operands :
         /\ op.pointer = None \/ op.pointer \in Pointers
         /\ op.offset \in Nat /\ op.size \in Nat
    /\ \A t \in Targets, op \in Operands : Region(t, op) \subseteq Cells

Init ==
    /\ memory \in [Cells -> Values]
    /\ target \in Targets
    /\ done = <<"start">>

Load(op) ==
    /\ done' = <<"load", op, Content(memory, target, op)>>
    /\ UNCHANGED <<memory, target>>

Store(op, v) ==
    /\ done' = <<"store", op, v>>
    /\ memory' = Written(memory, target, op, v)
    /\ UNCHANGED target

MemCopy(dst, src) ==
    /\ done' = <<"copy", dst, src>>
    /\ memory' = Written(memory, target, dst, Content(memory, target, src))
    /\ UNCHANGED target

\* an array is filled with copies of one value where it is defined
SetRange(c, v) ==
    /\ done' = <<"fill", c, v>>
    /\ memory' = [cell \in Cells |-> IF cell[1] = c THEN v ELSE memory[cell]]
    /\ UNCHANGED target

\* what a call may write: its result, and all that it can reach
Writable(pure, result) ==
    (UNION {Region(target, op) : op \in result})
    \union {cell \in Cells : ~pure /\ cell[1] \in Taken \union Global}

Passed(arg) == {Content(memory, target, op) : op \in arg}

Call(pure, arg, result) ==
    /\ done' = <<"call", arg, result, Passed(arg)>>
    /\ memory' \in [Cells -> Values]
    /\ \A cell \in Cells \ Writable(pure, result) : memory'[cell] = memory[cell]
    /\ UNCHANGED target

\* a return, or a jump to a block with pointers of its own
EndBlock(arg) ==
    /\ done' = <<"end", arg, Passed(arg)>>
    /\ target' \in Targets
    /\ UNCHANGED memory

\* structures are passed and returned by reference to a variable, if they are
Structures == {op \in Operands : op.kind = "struct"}
AtMostOne  == {{}} \union {{op} : op \in {s \in Structures : s.pointer = None}}

Next ==
    \/ \E op \in Operands :
         Load(op) \/ \E v \in [0..(op.size - 1) -> Values] : Store(op, v)
    \/ \E dst, src \in Structures : dst.size = src.size /\ MemCopy(dst, src)
    \/ \E c \in Containers, v \in Values : SetRange(c, v)
    \/ \E pure \in BOOLEAN, arg, result \in AtMostOne : Call(pure, arg, result)
    \/ \E arg \in AtMostOne : EndBlock(arg)

Spec == Init /\ [][Next]_vars
==============================================================================
