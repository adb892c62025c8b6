----------------------------- MODULE MCLoadStore -----------------------------
EXTENDS LoadStore, TLC

\* x: a pair of ints whose address is taken; y: another; z: a global int.  p and q point to
\* x, and r to one of its cells, as an array.
CONSTANTS x, y, z, p, q, r, v0, v1, Pair

Op(ptr, c, off, size, kind, class, field) ==
    [pointer |-> ptr, container |-> c, offset |-> off, size |-> size,
     kind |-> kind, class |-> class, field |-> field]
Place(c, off) == [container |-> c, offset |-> off]

SmallSize    == (x :> 2) @@ (y :> 2) @@ (z :> 1)
SmallObjects == (p :> {Place(x, 0)}) @@ (q :> {Place(x, 0)})
                @@ (r :> {Place(x, 0), Place(x, 1)})
SmallKnown   == (p :> None) @@ (q :> None) @@ (r :> [container |-> x, offset |-> 0, size |-> 2])

SmallOperands ==
    { Op(None, x, 0, 1, "int", None, 0), Op(None, x, 0, 2, "struct", None, 0),
      Op(None, x, 1, 1, "int", None, 0),
      Op(None, y, 0, 1, "int", None, 0), Op(None, y, 0, 2, "struct", None, 0),
      Op(None, z, 0, 1, "int", None, 0),
      Op(p, None, 0, 1, "int", Pair, 0), Op(p, None, 0, 2, "struct", Pair, 0),
      Op(q, None, 1, 1, "int", Pair, 1),
      Op(r, None, 0, 1, "int", None, 0) }

\* the address of the second cell of x was found after its offset had been folded
FoldedOperands == SmallOperands \union { Op(None, x, 1, 1, "int", Pair, 0) }

\* a structure whose first member is a structure
NestedOperands == SmallOperands \union { Op(None, y, 0, 1, "struct", None, 0) }

\* no step reads what the last instruction was
Kept == <<memory, target, loadStoreInfo, last>>

Symmetry == Permutations(Values)
==============================================================================
