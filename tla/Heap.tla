-------------------------------- MODULE Heap --------------------------------
(***************************************************************************)
(* What the collector of NULLC/StdLib.cpp knows about a managed block: the *)
(* marker word in front of it, and the pointers that the type named by the *)
(* marker lets GC::CheckBasePointer (Executor_Common.cpp) find inside it.  *)
(*                                                                         *)
(* A block is the record                                                   *)
(*   shape  the bits AllocObject and AllocArray put in the marker and the  *)
(*          number of elements the allocating call asked for;              *)
(*   elems  for each element, the blocks its pointers lead to.             *)
(* A null pointer, a pointer to foreign memory and a pointer into the      *)
(* variable stack (the unmanageable range) lead nowhere and are left out.  *)
(***************************************************************************)
EXTENDS Naturals, FiniteSets, Sequences

CONSTANTS Blocks,   \* identities of the memory blocks of all pools
          Shapes    \* the kinds of allocation the program makes

(***************************************************************************)
(* array: OBJECT_ARRAY, the element count is stored in the block;          *)
(* fin:   OBJECT_FINALIZABLE, the type has a finalizer;                    *)
(* ptrs:  the type's subCat is not CAT_NONE;                               *)
(* len:   how many elements of the type the block was sized for.           *)
(***************************************************************************)
Shape == [array : BOOLEAN, fin : BOOLEAN, ptrs : BOOLEAN, len : Nat \ {0}]

ASSUME ShapesAssumption == Shapes \subseteq Shape /\ Shapes # {}

BlockImage == [shape : Shapes, elems : Seq(SUBSET Blocks)]

(* A block that is not in use: its marker is a link of the free list. *)
FreedImage == [shape |-> CHOOSE s \in Shapes : TRUE, elems |-> <<>>]

(* The memory image AllocObject hands out: memset to zero, no pointer set. *)
Fresh(s) == [shape |-> s, elems |-> [i \in 1..s.len |-> {}]]

(* The image after a store into element i. *)
WithElement(blk, i, S) == [shape |-> blk.shape, elems |-> [blk.elems EXCEPT ![i] = S]]

(* Heap h with the blocks in S freed. *)
Released(h, S) == [b \in Blocks |-> IF b \in S THEN FreedImage ELSE h[b]]

(* Every pointer the program can load from the block. *)
Contents(blk) == UNION {blk.elems[i] : i \in DOMAIN blk.elems}

(* The pointers of the first element. *)
First(blk) == UNION {blk.elems[i] : i \in DOMAIN blk.elems \cap {1}}

(* The pointers CheckBasePointer visits: CheckArrayElements over the stored
   count for a block marked OBJECT_ARRAY, CheckVariable of one element for
   any other, and nothing when the type holds no pointers.                 *)
Traced(blk) == IF ~blk.shape.ptrs THEN {}
               ELSE IF blk.shape.array THEN Contents(blk)
               ELSE First(blk)

(* References FinalizeObject queues for a block: one per stored element of
   an array, one for anything else.                                        *)
References(blk) == IF blk.shape.array THEN blk.shape.len ELSE 1

(* A block of several elements that does not carry OBJECT_ARRAY. *)
Untagged(s) == s.len > 1 /\ ~s.array
TaggedShapes == \A s \in Shapes : ~Untagged(s)

(* C is closed under the edges E. *)
ClosedUnder(C, E) == \A b \in C : E[b] \subseteq C

(* The blocks that a chain of edges reaches from S: the smallest closed set
   that includes S.                                                        *)
Reach(S, E) ==
    LET Closed == {C \in SUBSET Blocks : S \subseteq C /\ ClosedUnder(C, E)}
    IN {b \in Blocks : \A C \in Closed : b \in C}
=============================================================================
