---------------------------- MODULE GcFinalizers ----------------------------
(***************************************************************************)
(* Finalizers, and the collections that run while finalizers run.          *)
(*                                                                         *)
(* CollectMemory (StdLib.cpp) ends with a call of __finalizeObjects, which *)
(* is nullc code: it asks for the list once (__getFinalizeList hands out   *)
(* the data pointer and the size of the native vector finalizeList) and    *)
(* calls the finalizer of each entry.  A finalizer is an ordinary program: *)
(* it allocates, stores, and may reach a collection, which pushes to the   *)
(* same vector, runs __finalizeObjects on all of it and clears it.         *)
(* nullcFinalize runs FinalizeMemory: every object is handed to its        *)
(* finalizer, nothing is freed.                                            *)
(*                                                                         *)
(* The marking is one step here (GcCycle refines it); the vector, its      *)
(* reallocations and the loops over it are modelled as they are.           *)
(***************************************************************************)
EXTENDS Mutator, SequencesExt

CONSTANTS Big,            \* blocks above 512 bytes, from alignedAlloc
          Chunk,          \* FastVector grows from nothing by this much (32)
          Nesting,        \* loops over the list that may be active at once
          FinalizersFail, \* whether a finalizer may end in an error
          None,           \* no block
          MaxRuns         \* bound: finalizer calls per object

ASSUME FinalizersAssumption ==
    /\ Big \subseteq Blocks /\ None \notin Blocks
    /\ FinalizersFail \in BOOLEAN
    /\ Chunk \in Nat \ {0} /\ Nesting \in Nat \ {0} /\ MaxRuns \in Nat \ {0}

VARIABLES data,      \* finalizeList.data: entries below max, some of them old
          count,     \* finalizeList.count
          buffer,    \* counts reallocations: which memory data points to
          loops,     \* active __finalizeObjects calls, innermost last
          toFree,    \* objectsToFree and blocksToFree, kept between calls
          runs,      \* finalizer calls each object has had
          skipped,   \* objects a failing finalizer left in the list
          ended,     \* nullcFinalize has been called
          freedTwice \* big blocks given to alignedDealloc more than once

listVars == <<data, count, buffer, loops>>
vars_ == <<mutatorVars, listVars, toFree, runs, skipped, ended, freedTwice>>

Running == {loops[k].cur : k \in DOMAIN loops} \ {None}

Roots == vars \cup regs \cup (stale \cap live) \cup Running

TracedGraph == [b \in Blocks |-> Traced(heap[b])]

Init ==
    /\ MutatorInit
    /\ data = <<>> /\ count = 0 /\ buffer = 0 /\ loops = <<>>
    /\ toFree = {} /\ runs = [b \in Blocks |-> 0] /\ skipped = {}
    /\ ended = FALSE /\ freedTwice = {}

(* The program runs, or the finalizer of the innermost loop does.  A host
   calls nullcFinalize last: from then on only finalizers run.             *)
Executing == IF loops = <<>> THEN ~ended ELSE Last(loops).cur # None

Run ==
    /\ Executing
    /\ Mutate(Running)
    /\ runs' = [b \in Blocks |-> IF b \in live' \ live THEN 0 ELSE runs[b]]
    /\ UNCHANGED <<listVars, toFree, skipped, ended, freedTwice>>

(* Plausible bugs (names in _): each replaces the definition after it. *)

(* FastVector grows by half only: an empty vector stays empty. *)
Grown_half(max) == max + (max \div 2)

(* FastVector::grow_no_destroy *)
Grown(max) == IF max + (max \div 2) > max THEN max + (max \div 2) ELSE max + Chunk

(* finalizeList.push_back; a full vector moves to new memory. *)
Push(v, b) ==
    IF v.count < Len(v.data)
    THEN [v EXCEPT !.data[v.count + 1] = b, !.count = @ + 1]
    ELSE LET max == Grown(Len(v.data))
         IN [data   |-> [i \in 1..max |-> IF i <= v.count THEN v.data[i]
                                          ELSE IF i = v.count + 1 THEN b ELSE None],
             count  |-> v.count + 1,
             buffer |-> v.buffer + 1]

(* The calls of push_back for the entries of s. *)
Pushed(v, s) ==
    LET after[n \in 0..Len(s)] == IF n = 0 THEN v ELSE Push(after[n - 1], s[n])
    IN after[Len(s)]

(* FinalizeObject for the blocks in order: one entry per array element. *)
Entries(b) == [i \in 1..References(heap[b]) |-> b]

(* The list is handed out before the blocks are queued. *)
QueueAndLoop_early(fin) ==
    \E order \in SetToSeqs(fin) :
        LET v == Pushed([data |-> data, count |-> count, buffer |-> buffer],
                        FlattenSeq([i \in DOMAIN order |-> Entries(order[i])]))
        IN /\ data' = v.data /\ count' = v.count /\ buffer' = v.buffer
           /\ loops' = Append(loops, [buffer |-> buffer, len |-> v.count,
                                      idx |-> 0, cur |-> None])

(* FinalizePending, then the call of __finalizeObjects: __getFinalizeList
   returns the vector as it is now.                                        *)
QueueAndLoop(fin) ==
    \E order \in SetToSeqs(fin) :
        LET v == Pushed([data |-> data, count |-> count, buffer |-> buffer],
                        FlattenSeq([i \in DOMAIN order |-> Entries(order[i])]))
        IN /\ data' = v.data /\ count' = v.count /\ buffer' = v.buffer
           /\ loops' = Append(loops, [buffer |-> v.buffer, len |-> v.count,
                                      idx |-> 0, cur |-> None])

Unfinalized(unmarked) ==
    {b \in unmarked : heap[b].shape.fin /\ b \notin finalized}

(* The list of blocks to free is not emptied. *)
CollectMemory_relist ==
    /\ Executing
    /\ Len(loops) < Nesting
    /\ LET marked == Reach(Roots, TracedGraph)
           fin == Unfinalized(live \ marked)
           kept == Reach(Roots \cup fin, TracedGraph)
           freed == (toFree \cup (live \ marked)) \ kept
       IN /\ QueueAndLoop(fin)
          /\ live' = live \ freed
          /\ heap' = Released(heap, freed)
          /\ finalized' = (finalized \cup fin) \ freed
          /\ freedTwice' = freedTwice \cup (Big \cap toFree \cap freed)
          /\ toFree' = toFree \cup freed
    /\ skipped' = skipped \cap live'
    /\ UNCHANGED <<vars, regs, stale, runs, ended>>

(* CollectMemory up to the call of __finalizeObjects.  FreePending goes
   through all of toFree, what an earlier FinalizeMemory left there too; the
   flag in a small freed block stops a second Free, a big block is gone.   *)
CollectMemory ==
    /\ Executing
    /\ Len(loops) < Nesting
    /\ LET marked == Reach(Roots, TracedGraph)
           fin == Unfinalized(live \ marked)
           kept == Reach(Roots \cup fin, TracedGraph)
           freed == (toFree \cup (live \ marked)) \ kept
       IN /\ QueueAndLoop(fin)
          /\ live' = live \ freed
          /\ heap' = Released(heap, freed)
          /\ finalized' = (finalized \cup fin) \ freed
          /\ freedTwice' = freedTwice \cup (Big \cap toFree \cap freed)
    /\ toFree' = {}
    /\ skipped' = skipped \cap live'
    /\ UNCHANGED <<vars, regs, stale, runs, ended>>

(* FinalizeMemory: no block is marked, none is freed, toFree stays. *)
FinalizeMemory ==
    /\ loops = <<>> /\ ~ended
    /\ LET fin == Unfinalized(live)
       IN /\ QueueAndLoop(fin)
          /\ finalized' = finalized \cup fin
          /\ toFree' = toFree \cup (live \ fin)
    /\ ended' = TRUE
    /\ UNCHANGED <<live, heap, vars, regs, stale, runs, skipped, freedTwice>>

(* for(i in l) i.finalize(): the entry is read from the memory l points to;
   memory the vector has left may hold anything.                           *)
CallFinalizer ==
    /\ loops # <<>>
    /\ LET top == Last(loops)
       IN /\ top.cur = None /\ top.idx < top.len
          /\ \E b \in (IF top.buffer = buffer THEN {data[top.idx + 1]} ELSE Blocks) :
                /\ b \in Blocks /\ runs[b] < MaxRuns
                /\ runs' = [runs EXCEPT ![b] = @ + 1]
                /\ loops' = [loops EXCEPT ![Len(loops)].cur = b]
    /\ UNCHANGED <<mutatorVars, data, count, buffer, toFree, skipped, ended, freedTwice>>

FinalizerReturns ==
    /\ loops # <<>>
    /\ Last(loops).cur # None
    /\ loops' = [loops EXCEPT ![Len(loops)].cur = None, ![Len(loops)].idx = @ + 1]
    /\ UNCHANGED <<mutatorVars, data, count, buffer, toFree, runs, skipped, ended, freedTwice>>

(* finalizeList.clear() is missing. *)
LoopEnds_keep ==
    /\ loops # <<>>
    /\ Last(loops).cur = None /\ Last(loops).idx = Last(loops).len
    /\ loops' = Front(loops)
    /\ UNCHANGED <<mutatorVars, data, count, buffer, toFree, runs, skipped, ended, freedTwice>>

(* The last entry is left out. *)
LoopEnds_last ==
    /\ loops # <<>>
    /\ Last(loops).cur = None /\ Last(loops).idx + 1 >= Last(loops).len
    /\ loops' = Front(loops)
    /\ count' = 0
    /\ UNCHANGED <<mutatorVars, data, buffer, toFree, runs, skipped, ended, freedTwice>>

(* __finalizeObjects returns, and CollectMemory or FinalizeMemory clears
   the list: the entries stay in memory.                                   *)
LoopEnds ==
    /\ loops # <<>>
    /\ Last(loops).cur = None /\ Last(loops).idx = Last(loops).len
    /\ loops' = Front(loops)
    /\ count' = 0
    /\ UNCHANGED <<mutatorVars, data, buffer, toFree, runs, skipped, ended, freedTwice>>

(* Entries an active loop has still to visit. *)
Pending(loop) == (loop.idx + IF loop.cur = None THEN 1 ELSE 2)..loop.len

(* A finalizer fails: Run leaves callContinue false, so that every nullc
   call below it stops as well and its frames are gone; each CollectMemory
   clears the list, whatever the loops had still to visit.  The host may
   call the program again.                                                 *)
FinalizerFails ==
    /\ FinalizersFail
    /\ loops # <<>>
    /\ Last(loops).cur # None
    /\ loops' = <<>>
    /\ count' = 0
    /\ regs' = {}
    /\ skipped' = skipped \cup {data[i] : i \in UNION {Pending(loops[k]) : k \in DOMAIN loops}}
    /\ UNCHANGED <<live, heap, finalized, vars, stale>>
    /\ UNCHANGED <<data, buffer, toFree, runs, ended, freedTwice>>

Next ==
    \/ Run \/ CollectMemory \/ FinalizeMemory
    \/ CallFinalizer \/ FinalizerReturns \/ LoopEnds \/ FinalizerFails

Spec == Init /\ [][Next]_vars_

-----------------------------------------------------------------------------
Entry == Blocks \cup {None}

(* The native vector of finalizers, the queues and the blocks keep their types. *)
TypeOK ==
    /\ live \subseteq Blocks /\ finalized \subseteq live
    /\ count <= Len(data)
    /\ \A i \in 1..count : data[i] \in Blocks
    /\ \A k \in DOMAIN loops : /\ loops[k].cur \in Entry
                               /\ loops[k].idx <= loops[k].len
    /\ Len(loops) <= Nesting
    /\ runs \in [Blocks -> 0..MaxRuns]

(* Every object whose finalizer is still to be called is in use, and the
   memory the loop reads is the vector's.                                  *)
PendingLive ==
    \A k \in DOMAIN loops : \A i \in Pending(loops[k]) :
        loops[k].buffer = buffer /\ data[i] \in live

(* A finalizer runs once per object (once per element of an array). *)
FinalizeOnce == \A b \in live : runs[b] <= References(heap[b])

(* An object with a finalizer is freed only after its finalizer was called,
   once for each element of an array, unless an earlier finalizer of the
   same collection failed: its error drops the rest of the list, and no
   later collection queues those objects again.                            *)
FinalizerCalled ==
    [][\A b \in live \ live' :
          heap[b].shape.fin /\ b \notin skipped => runs[b] >= References(heap[b])]_vars_

(* No memory goes back to the system twice: what FreePending freed is not on
   a list that a later collection goes through.                            *)
FreedOnce == freedTwice = {}
=============================================================================
