------------------------------ MODULE Mutator -------------------------------
(***************************************************************************)
(* The running program as the collector sees it: it allocates blocks,      *)
(* stores pointers into the blocks it can reach, and changes the variables *)
(* and registers that hold its roots.  The program runs only between       *)
(* collections (nullc is single threaded and CollectMemory is a call), so  *)
(* a specification that EXTENDS this module guards these operations with   *)
(* its own phase.                                                          *)
(*                                                                         *)
(* Roots are kept by the way MarkUsedBlocks finds them:                    *)
(*   vars   global variables, locals of the frames and $context pointers,  *)
(*          scanned by their types;                                        *)
(*   regs   addresses in the register file that the program still uses;    *)
(*   stale  words of the scanned part of the register file that only look  *)
(*          like addresses: what earlier frames left behind.               *)
(***************************************************************************)
EXTENDS Heap

CONSTANTS MaxRoots,    \* bound: blocks named by vars, and by regs
          MaxStale,    \* bound: blocks named by stale
          MaxPointers  \* bound: blocks one element leads to

VARIABLES live,       \* blocks handed out by Alloc and not freed
          heap,       \* heap[b]: image of block b
          finalized,  \* blocks whose marker has OBJECT_FINALIZED
          vars, regs, stale

mutatorVars == <<live, heap, finalized, vars, regs, stale>>

UpTo(n, S) == {T \in SUBSET S : Cardinality(T) <= n}

MutatorInit ==
    /\ live = {}
    /\ heap = [b \in Blocks |-> FreedImage]
    /\ finalized = {}
    /\ vars = {} /\ regs = {} /\ stale = {}

ContentsGraph == [b \in Blocks |-> Contents(heap[b])]

(* Every block the program can get at; extra are roots it holds besides its
   variables and registers (objects handed to their finalizers).           *)
Accessible(extra) == Reach(vars \cup regs \cup extra, ContentsGraph)

(* AllocObject, AllocArray: a block that is not in use gets a new marker
   and zeroed contents; its address is returned in a register.             *)
Alloc(b, s) ==
    /\ b \notin live
    /\ Cardinality(regs \cup {b}) <= MaxRoots
    /\ live' = live \cup {b}
    /\ heap' = [heap EXCEPT ![b] = Fresh(s)]
    /\ regs' = regs \cup {b}
    /\ UNCHANGED <<finalized, vars, stale>>

(* A store through a pointer: element i of a block the program can reach
   gets pointers to blocks it can reach.                                   *)
Store(extra) ==
    \E b \in Accessible(extra) :
      \E i \in DOMAIN heap[b].elems, S \in UpTo(MaxPointers, Accessible(extra)) :
        /\ heap[b].shape.ptrs
        /\ heap' = [heap EXCEPT ![b] = WithElement(heap[b], i, S)]
        /\ UNCHANGED <<live, finalized, vars, regs, stale>>

(* Assignments to variables, and frames coming and going. *)
SetVars(extra) ==
    \E V \in UpTo(MaxRoots, Accessible(extra)) :
        /\ vars' = V
        /\ UNCHANGED <<live, heap, finalized, regs, stale>>

(* Instructions that load registers, calls and returns: registers in use
   hold accessible blocks, the rest of the register file holds anything.   *)
SetRegs(extra) ==
    \E R \in UpTo(MaxRoots, Accessible(extra)), T \in UpTo(MaxStale, Blocks) :
        /\ regs' = R
        /\ stale' = T
        /\ UNCHANGED <<live, heap, finalized, vars>>

Mutate(extra) ==
    \/ \E b \in Blocks, s \in Shapes : Alloc(b, s)
    \/ Store(extra)
    \/ SetVars(extra)
    \/ SetRegs(extra)
=============================================================================
