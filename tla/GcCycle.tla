------------------------------ MODULE GcCycle -------------------------------
(***************************************************************************)
(* NULLC::CollectMemory step by step (StdLib.cpp, Executor_Common.cpp):    *)
(*                                                                         *)
(*   idle      the program runs                                            *)
(*   vars      MarkUsedBlocks over globals, locals and $context            *)
(*   regs      MarkUsedBlocks over the words of the register file          *)
(*   trace     MarkPendingRoots                                            *)
(*   finalize  FinalizePending over the blocks CollectUnmarked found       *)
(*   retrace   MarkPendingRoots again, from the resurrected objects        *)
(*   free      FreePending                                                 *)
(*   callbacks nullcRunFunction("__finalizeObjects"): finalizers run       *)
(*                                                                         *)
(* Finalizers here start no collection of their own; GcFinalizers is about *)
(* those that do.                                                          *)
(***************************************************************************)
EXTENDS Mutator

VARIABLES phase,
          visible,     \* blocks whose marker has OBJECT_VISIBLE
          scan,        \* root words MarkUsedBlocks has still to look at
          curr, next,  \* GC::curr, GC::next: the two worklists
          toFinalize,  \* objectsToFinalize and blocksToFinalize: what is left
          toFree,      \* objectsToFree and blocksToFree: what is left
          queued       \* references to block b in finalizeList

cycleVars == <<phase, visible, scan, curr, next, toFinalize, toFree, queued>>
vars_ == <<mutatorVars, cycleVars>>

Queue == {b \in Blocks : queued[b] > 0}

Init ==
    /\ MutatorInit
    /\ phase = "idle"
    /\ visible = {} /\ scan = {}
    /\ curr = {} /\ next = {}
    /\ toFinalize = {} /\ toFree = {}
    /\ queued = [b \in Blocks |-> 0]

Run ==
    /\ phase \in {"idle", "callbacks"}
    /\ Mutate(IF phase = "callbacks" THEN Queue ELSE {})
    \* a new marker has no OBJECT_VISIBLE
    /\ visible' = visible \ (live' \ live)
    /\ UNCHANGED <<phase, scan, curr, next, toFinalize, toFree, queued>>

(* Plausible bugs (names in _): each replaces the definition after it. *)

(* The early return for blocks that are visible already is missing. *)
CheckPointers_again(S) ==
    /\ visible' = visible \cup S
    /\ next' = next \cup {b \in S : heap[b].shape.ptrs}

(* CheckPointer for each target in S: a block that is not visible becomes
   visible and, when its type holds pointers, waits in next.               *)
CheckPointers(S) ==
    /\ visible' = visible \cup S
    /\ next' = next \cup {b \in S \ visible : heap[b].shape.ptrs}

(* MarkMemory(0) clears every marker; MarkUsedBlocks empties both lists. *)
StartCollect ==
    /\ phase = "idle"
    /\ phase' = "vars"
    /\ visible' = {}
    /\ scan' = vars
    /\ curr' = {} /\ next' = {}
    /\ UNCHANGED <<mutatorVars, toFinalize, toFree, queued>>

MarkVariable ==
    /\ phase = "vars"
    /\ \E b \in scan :
          /\ CheckPointers({b})
          /\ scan' = scan \ {b}
    /\ UNCHANGED <<mutatorVars, phase, curr, toFinalize, toFree, queued>>

StartRegisters ==
    /\ phase = "vars" /\ scan = {}
    /\ phase' = "regs"
    /\ scan' = regs \cup stale
    /\ UNCHANGED <<mutatorVars, visible, curr, next, toFinalize, toFree, queued>>

(* One word of the register file: a freed block is a left-over and skipped,
   a block that is not visible yet becomes visible and its own pointers are
   checked at once (CheckBasePointer).                                     *)
MarkRegister ==
    /\ phase = "regs"
    /\ \E b \in scan :
          /\ scan' = scan \ {b}
          /\ IF b \in live \ visible
             THEN LET new == Traced(heap[b]) \ (visible \cup {b})
                  IN /\ visible' = visible \cup {b} \cup new
                     /\ next' = next \cup {c \in new : heap[c].shape.ptrs}
             ELSE UNCHANGED <<visible, next>>
    /\ UNCHANGED <<mutatorVars, phase, curr, toFinalize, toFree, queued>>

StartTrace ==
    /\ phase = "regs" /\ scan = {}
    /\ phase' = "trace"
    /\ UNCHANGED <<mutatorVars, visible, scan, curr, next, toFinalize, toFree, queued>>

(* MarkPendingRoots: the lists change places, then every block of curr is
   given to CheckBasePointer.                                              *)
SwapRoots ==
    /\ phase \in {"trace", "retrace"}
    /\ curr = {} /\ next # {}
    /\ curr' = next /\ next' = {}
    /\ UNCHANGED <<mutatorVars, phase, visible, scan, toFinalize, toFree, queued>>

TraceRoot ==
    /\ phase \in {"trace", "retrace"}
    /\ \E b \in curr :
          /\ CheckPointers(Traced(heap[b]))
          /\ curr' = curr \ {b}
    /\ UNCHANGED <<mutatorVars, phase, scan, toFinalize, toFree, queued>>

MarkingDone == curr = {} /\ next = {}

(* The finalizable blocks are freed with the others. *)
CollectUnmarked_nofin ==
    /\ phase = "trace" /\ MarkingDone
    /\ phase' = "finalize"
    /\ toFinalize' = {}
    /\ toFree' = live \ visible
    /\ UNCHANGED <<mutatorVars, visible, scan, curr, next, queued>>

(* Of the blocks in use that are not visible, those with a finalizer that
   has not been queued before are to be finalized, the others freed.       *)
CollectUnmarked ==
    /\ phase = "trace" /\ MarkingDone
    /\ phase' = "finalize"
    /\ LET unmarked == live \ visible
           fin == {b \in unmarked : heap[b].shape.fin /\ b \notin finalized}
       IN /\ toFinalize' = fin
          /\ toFree' = unmarked \ fin
    /\ UNCHANGED <<mutatorVars, visible, scan, curr, next, queued>>

(* An array is queued as one reference. *)
FinalizeBlock_first ==
    /\ phase = "finalize"
    /\ \E b \in toFinalize :
          LET new == Traced(heap[b]) \ (visible \cup {b})
          IN /\ visible' = visible \cup {b} \cup new
             /\ next' = next \cup {c \in new : heap[c].shape.ptrs}
             /\ toFinalize' = toFinalize \ {b}
             /\ finalized' = finalized \cup {b}
             /\ queued' = [queued EXCEPT ![b] = @ + 1]
    /\ UNCHANGED <<live, heap, vars, regs, stale, phase, scan, curr, toFree>>

(* The resurrected object is marked, what it leads to is not. *)
FinalizeBlock_shallow ==
    /\ phase = "finalize"
    /\ \E b \in toFinalize :
          /\ visible' = visible \cup {b}
          /\ toFinalize' = toFinalize \ {b}
          /\ finalized' = finalized \cup {b}
          /\ queued' = [queued EXCEPT ![b] = @ + References(heap[b])]
    /\ UNCHANGED <<live, heap, vars, regs, stale, phase, scan, curr, next, toFree>>

(* FinalizePending for one block: it stays in use, what it leads to is
   marked, and FinalizeObject queues a reference for each of its elements. *)
FinalizeBlock ==
    /\ phase = "finalize"
    /\ \E b \in toFinalize :
          LET new == Traced(heap[b]) \ (visible \cup {b})
          IN /\ visible' = visible \cup {b} \cup new
             /\ next' = next \cup {c \in new : heap[c].shape.ptrs}
             /\ toFinalize' = toFinalize \ {b}
             /\ finalized' = finalized \cup {b}
             /\ queued' = [queued EXCEPT ![b] = @ + References(heap[b])]
    /\ UNCHANGED <<live, heap, vars, regs, stale, phase, scan, curr, toFree>>

StartRetrace ==
    /\ phase = "finalize" /\ toFinalize = {}
    /\ phase' = "retrace"
    /\ UNCHANGED <<mutatorVars, visible, scan, curr, next, toFinalize, toFree, queued>>

StartFree ==
    /\ phase = "retrace" /\ MarkingDone
    /\ phase' = "free"
    /\ UNCHANGED <<mutatorVars, visible, scan, curr, next, toFinalize, toFree, queued>>

(* The flags are not tested again. *)
FreeBlock_unchecked ==
    /\ phase = "free"
    /\ \E b \in toFree :
          /\ toFree' = toFree \ {b}
          /\ live' = live \ {b}
          /\ heap' = Released(heap, {b})
          /\ finalized' = finalized \ {b}
    /\ UNCHANGED <<vars, regs, stale, phase, visible, scan, curr, next, toFinalize, queued>>

(* FreePending for one block: the flags are tested again, since a finalizer
   may keep the block.                                                     *)
FreeBlock ==
    /\ phase = "free"
    /\ \E b \in toFree :
          /\ toFree' = toFree \ {b}
          /\ LET freed == {b} \ visible
             IN /\ live' = live \ freed
                /\ heap' = Released(heap, freed)
                /\ finalized' = finalized \ freed
    /\ UNCHANGED <<vars, regs, stale, phase, visible, scan, curr, next, toFinalize, queued>>

RunFinalizers ==
    /\ phase = "free" /\ toFree = {}
    /\ phase' = "callbacks"
    /\ UNCHANGED <<mutatorVars, visible, scan, curr, next, toFinalize, toFree, queued>>

(* __finalizeObjects has returned: finalizeList.clear(). *)
EndCollect ==
    /\ phase = "callbacks"
    /\ phase' = "idle"
    /\ queued' = [b \in Blocks |-> 0]
    /\ UNCHANGED <<mutatorVars, visible, scan, curr, next, toFinalize, toFree>>

Collector ==
    \/ MarkVariable \/ StartRegisters \/ MarkRegister \/ StartTrace
    \/ SwapRoots \/ TraceRoot
    \/ CollectUnmarked \/ FinalizeBlock \/ StartRetrace
    \/ StartFree \/ FreeBlock \/ RunFinalizers

Next == Run \/ StartCollect \/ Collector \/ EndCollect

Spec == Init /\ [][Next]_vars_

(* CollectMemory is straight-line code: once started it is not suspended
   before it hands over to the finalizers.                                 *)
FairSpec == Spec /\ WF_vars_(Collector)
-----------------------------------------------------------------------------
(* Types, and the worklists stay inside what is marked. *)
TypeOK ==
    /\ live \subseteq Blocks
    /\ heap \in [Blocks -> BlockImage]
    /\ finalized \subseteq Blocks
    /\ vars \subseteq Blocks /\ regs \subseteq Blocks /\ stale \subseteq Blocks
    /\ phase \in {"idle", "vars", "regs", "trace", "finalize", "retrace",
                  "free", "callbacks"}
    /\ visible \subseteq Blocks /\ scan \subseteq Blocks
    /\ curr \subseteq visible /\ next \subseteq visible
    /\ toFinalize \subseteq Blocks /\ toFree \subseteq Blocks
    /\ queued \in [Blocks -> Nat]

(* What the program can still use: everything its variables, the registers
   in use and the objects waiting for their finalizer lead to.             *)
InUse == Accessible(Queue)

(* No pointer the program can follow leads to a freed block, whatever cycles
   of collection lie between the store and the load (CheckPointer asserts
   that it reached no freed pointer: PrintMarker).                         *)
NoDangling == InUse \subseteq live

(* FreePending never frees a block that the program, or a finalizer that is
   about to run, can still reach.                                          *)
FreesOnlyGarbage ==
    [][\A b \in live \ live' : b \notin InUse]_vars_

(* A block whose type has a finalizer is freed only by a collection after
   the one that queued its finalizer.                                      *)
FinalizedBeforeFreed ==
    [][\A b \in live \ live' :
          heap[b].shape.fin => b \in finalized /\ b \notin Queue]_vars_

(* One block's finalizer is queued by one collection only, and the whole
   array of references at once: FINALIZED is never lost while the block is
   in use, so no later collection queues it again.                         *)
QueuedOnce ==
    [][\A b \in Blocks : queued'[b] > queued[b] =>
          /\ b \in live \ finalized
          /\ b \in finalized']_vars_

(* A collection that starts ends by handing over to the finalizers. *)
CollectionEnds == phase = "vars" ~> phase = "callbacks"

(* GcSpec!Collect happens when FreePending starts: up to then the markers
   and the list of finalizers may change but nothing is decided, and after
   it every block that is not visible counts as freed.                     *)
Open == phase \in {"finalize", "retrace"}

Doomed == IF phase = "free" THEN toFree \ visible ELSE {}

Abstract == INSTANCE GcSpec WITH
    live <- live \ Doomed,
    heap <- Released(heap, Doomed),
    finalized <- (IF Open THEN finalized \ Queue ELSE finalized) \ Doomed,
    queued <- IF Open THEN [b \in Blocks |-> 0] ELSE queued,
    callbacks <- phase \in {"free", "callbacks"}

(* The algorithm implements its specification: marking from the roots, the
   resurrection of finalizable blocks and the second marking free exactly
   what GcSpec!Collect frees.                                              *)
Implements == Abstract!Spec
-----------------------------------------------------------------------------
(* The inductive invariant behind the properties, for programs that make no
   untagged allocation.                                                    *)

Marking == phase \in {"vars", "regs", "trace", "finalize", "retrace", "free"}

GraphClosed(C) == \A b \in C : Contents(heap[b]) \subseteq C

(* Images hold no more elements than they were sized for, and the collector
   sees every pointer in them.                                             *)
ImagesTraced ==
    \A b \in Blocks : /\ Len(heap[b].elems) <= heap[b].shape.len
                      /\ Contents(heap[b]) = Traced(heap[b])

(* The program holds no address of a freed block, in its roots or in a block
   in use; while blocks are being freed this is so of the visible ones.    *)
RootsLive == vars \cup regs \cup Queue \subseteq live
HeapClosed == phase # "free" => GraphClosed(live)

(* Three colours: a visible block (in V) outside the worklists (W) has been
   scanned, so what it leads to is visible.                                *)
ScannedBy(V, W) ==
    /\ V \subseteq live
    /\ \A b \in V \ W : Traced(heap[b]) \subseteq V

Scanned == Marking => ScannedBy(visible, curr \cup next)

(* Roots that are not waiting in scan are visible. *)
RootsMarked ==
    /\ phase = "vars" => vars \ scan \subseteq visible
    /\ phase = "regs" => vars \cup ((regs \cup (stale \cap live)) \ scan) \subseteq visible
    /\ phase \in {"trace", "finalize", "retrace", "free"} =>
          vars \cup regs \cup (stale \cap live) \subseteq visible

Worklists ==
    /\ phase \in {"vars", "regs", "finalize"} => curr = {}
    /\ phase \in {"idle", "free", "callbacks"} => MarkingDone
    /\ phase = "vars" => scan \subseteq vars
    /\ phase \notin {"vars", "regs"} => scan = {}

(* Every block in use that is not visible is to be finalized or freed, and
   no block is freed before its finalizer has been queued.                 *)
Sorted ==
    /\ phase = "finalize" => live \ visible \subseteq toFinalize \cup toFree
    /\ phase \in {"retrace", "free"} => live \ visible \subseteq toFree
    /\ toFinalize \cap finalized = {}
    /\ toFinalize \cup toFree \subseteq live
    /\ \A b \in toFree : heap[b].shape.fin => b \in finalized
    /\ phase # "finalize" => toFinalize = {}
    /\ phase \in {"idle", "vars", "regs", "trace", "callbacks"} => toFree = {}

(* Queued blocks stay visible until their finalizers run. *)
QueueKept ==
    /\ Queue \subseteq finalized
    /\ phase \in {"idle", "vars", "regs", "trace"} => Queue = {}
    /\ Marking => Queue \subseteq visible

IInv ==
    /\ TypeOK
    /\ ImagesTraced
    /\ RootsLive
    /\ HeapClosed
    /\ Scanned
    /\ RootsMarked
    /\ Worklists
    /\ Sorted
    /\ QueueKept
=============================================================================
