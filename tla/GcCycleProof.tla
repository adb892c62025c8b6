---------------------------- MODULE GcCycleProof ----------------------------
(***************************************************************************)
(* Proofs about GcCycle, for any set of blocks and every program whose     *)
(* allocations are tagged.  First, IInv is an inductive invariant: the     *)
(* collector marks enough.  Then, from "What is marked", the collector     *)
(* implements its specification: every behaviour of GcCycle is one of      *)
(* GcSpec; Exact says that it marks nothing else.                          *)
(***************************************************************************)
EXTENDS GcCycle, TLAPS

(* What is reached from S lies in every closed set that includes S. *)
LEMMA ReachInClosed ==
    ASSUME NEW S, NEW E, NEW C \in SUBSET Blocks, S \subseteq C, ClosedUnder(C, E)
    PROVE  Reach(S, E) \subseteq C
BY DEF Reach

(* The program can only get at blocks of a closed set that holds its roots. *)
LEMMA AccessibleInClosed ==
    ASSUME NEW X, NEW C \in SUBSET Blocks,
           vars \cup regs \cup X \subseteq C, GraphClosed(C)
    PROVE  Accessible(X) \subseteq C
<1>1. ClosedUnder(C, ContentsGraph)
  BY DEF GraphClosed, ClosedUnder, ContentsGraph
<1> QED
  BY <1>1, ReachInClosed DEF Accessible

LEMMA TracedInContents ==
    ASSUME NEW blk
    PROVE  Traced(blk) \subseteq Contents(blk)
BY DEF Traced, First, Contents

(* The image of a freed block and that of a fresh one hold no pointer. *)
LEMMA FreedImageFacts ==
    /\ FreedImage \in BlockImage
    /\ Len(FreedImage.elems) <= FreedImage.shape.len
    /\ Contents(FreedImage) = {}
    /\ Traced(FreedImage) = {}
<1>1. FreedImage.shape \in Shapes /\ FreedImage.elems = <<>>
  BY ShapesAssumption DEF FreedImage
<1>2. FreedImage.shape.len \in Nat
  BY <1>1, ShapesAssumption DEF Shape
<1>3. FreedImage \in BlockImage
  BY <1>1 DEF FreedImage, BlockImage
<1>4. Contents(FreedImage) = {}
  BY <1>1 DEF Contents
<1>5. Traced(FreedImage) = {}
  BY <1>4, TracedInContents
<1> QED
  BY <1>1, <1>2, <1>3, <1>4, <1>5

LEMMA FreshFacts ==
    ASSUME NEW s \in Shapes
    PROVE  /\ Fresh(s) \in BlockImage
           /\ Len(Fresh(s).elems) <= Fresh(s).shape.len
           /\ Contents(Fresh(s)) = {}
           /\ Traced(Fresh(s)) = {}
<1>1. s.len \in Nat \ {0}
  BY ShapesAssumption DEF Shape
<1>2. /\ Fresh(s).elems \in Seq(SUBSET Blocks)
      /\ Len(Fresh(s).elems) = s.len
      /\ Fresh(s).shape = s
  BY <1>1 DEF Fresh
<1>3. Fresh(s) \in BlockImage
  BY <1>2 DEF Fresh, BlockImage
<1>4. Contents(Fresh(s)) = {}
  BY <1>1 DEF Fresh, Contents
<1>5. Traced(Fresh(s)) = {}
  BY <1>4, TracedInContents
<1> QED
  BY <1>1, <1>2, <1>3, <1>4, <1>5

-----------------------------------------------------------------------------
(* A store keeps an image traced: an array is traced in all its elements and
   a block that is not an array has at most one.                           *)
LEMMA StoreFacts ==
    ASSUME TaggedShapes,
           NEW blk \in BlockImage, Len(blk.elems) <= blk.shape.len, blk.shape.ptrs,
           NEW i \in DOMAIN blk.elems, NEW S \in SUBSET Blocks,
           NEW new, new = WithElement(blk, i, S)
    PROVE  /\ new \in BlockImage
           /\ new.shape = blk.shape
           /\ Len(new.elems) <= new.shape.len
           /\ Contents(new) = Traced(new)
           /\ Contents(new) \subseteq Contents(blk) \cup S
<1>1. /\ new.shape = blk.shape
      /\ new.elems = [blk.elems EXCEPT ![i] = S]
      /\ new = [shape |-> new.shape, elems |-> new.elems]
  BY DEF WithElement
<1>2. /\ blk.elems \in Seq(SUBSET Blocks)
      /\ DOMAIN blk.elems = 1..Len(blk.elems)
      /\ blk.shape \in Shape
  BY ShapesAssumption DEF BlockImage
<1>3. /\ new.elems \in Seq(SUBSET Blocks)
      /\ Len(new.elems) = Len(blk.elems)
      /\ DOMAIN new.elems = DOMAIN blk.elems
  BY <1>1, <1>2
<1>4. new \in BlockImage
  BY <1>1, <1>3 DEF BlockImage
<1>5. Contents(new) = Traced(new)
  <2>1. CASE blk.shape.array
    BY <2>1, <1>1 DEF Traced
  <2>2. CASE ~blk.shape.array
    <3>1. blk.shape.len \in Nat \ {0} /\ ~(blk.shape.len > 1)
      BY <2>2, <1>2 DEF TaggedShapes, Untagged, BlockImage, Shape
    <3>2. DOMAIN new.elems \subseteq {1}
      BY <3>1, <1>2, <1>3
    <3> QED
      BY <2>2, <3>2, <1>1 DEF Traced, First, Contents
  <2> QED
    BY <2>1, <2>2
<1>6. Contents(new) \subseteq Contents(blk) \cup S
  BY <1>1, <1>2, <1>3 DEF Contents
<1> QED
  BY <1>1, <1>3, <1>4, <1>5, <1>6

-----------------------------------------------------------------------------
(* A block whose type holds no pointers need not be scanned. *)
LEMMA LeafTraced ==
    \A b \in Blocks : ~heap[b].shape.ptrs => Traced(heap[b]) = {}
BY DEF Traced

(* What a block in use leads to is in use. *)
LEMMA TracedLive ==
    ASSUME ImagesTraced, HeapClosed, phase # "free", live \subseteq Blocks
    PROVE  \A b \in live : Traced(heap[b]) \subseteq live
BY DEF ImagesTraced, HeapClosed, GraphClosed

LEMMA StartCollectInv ==
    ASSUME IInv, StartCollect
    PROVE  IInv'
<1>1. TypeOK'
  BY DEF StartCollect, mutatorVars, IInv, TypeOK
<1>2. ImagesTraced'
  BY DEF StartCollect, mutatorVars, IInv, ImagesTraced
<1>3. RootsLive'
  BY DEF StartCollect, mutatorVars, IInv, RootsLive, Queue
<1>4. HeapClosed'
  BY DEF StartCollect, mutatorVars, IInv, HeapClosed, GraphClosed
<1>5. Scanned'
  BY DEF StartCollect, mutatorVars, IInv, Scanned, ScannedBy, Marking
<1>6. RootsMarked'
  BY DEF StartCollect, mutatorVars, IInv, RootsMarked
<1>7. Worklists'
  BY DEF StartCollect, mutatorVars, IInv, Worklists, MarkingDone
<1>8. Sorted'
  BY DEF StartCollect, mutatorVars, IInv, Sorted
<1>9. QueueKept'
  BY DEF StartCollect, mutatorVars, IInv, QueueKept, Queue, Marking
<1> QED
  BY <1>1, <1>2, <1>3, <1>4, <1>5, <1>6, <1>7, <1>8, <1>9 DEF IInv

LEMMA MarkVariableInv ==
    ASSUME IInv, MarkVariable
    PROVE  IInv'
<1>1. TypeOK'
  BY DEF MarkVariable, CheckPointers, mutatorVars, IInv, TypeOK
<1>2. ImagesTraced'
  BY DEF MarkVariable, CheckPointers, mutatorVars, IInv, ImagesTraced
<1>3. RootsLive'
  BY DEF MarkVariable, CheckPointers, mutatorVars, IInv, RootsLive, Queue
<1>4. HeapClosed'
  BY DEF MarkVariable, CheckPointers, mutatorVars, IInv, HeapClosed,
         GraphClosed
<1>5. Scanned'
  <2> PICK b \in scan : CheckPointers({b}) /\ scan' = scan \ {b}
    BY DEF MarkVariable
  <2>1. {b} \in SUBSET live
    BY DEF MarkVariable, IInv, Worklists, RootsLive
  <2>2. ScannedBy(visible, curr \cup next)
    BY DEF MarkVariable, IInv, Scanned, Marking
  <2>3. ScannedBy(visible \cup {b}, curr' \cup next')
    BY <2>1, <2>2, LeafTraced DEF ScannedBy, CheckPointers, MarkVariable, IInv, TypeOK
  <2> QED
    BY <2>3 DEF Scanned, ScannedBy, MarkVariable, CheckPointers, mutatorVars
<1>6. RootsMarked'
  BY DEF MarkVariable, CheckPointers, mutatorVars, IInv, RootsMarked
<1>7. Worklists'
  BY DEF MarkVariable, CheckPointers, mutatorVars, IInv, Worklists,
         MarkingDone
<1>8. Sorted'
  BY DEF MarkVariable, CheckPointers, mutatorVars, IInv, Sorted
<1>9. QueueKept'
  BY DEF MarkVariable, CheckPointers, mutatorVars, IInv, QueueKept, Queue,
         Marking
<1> QED
  BY <1>1, <1>2, <1>3, <1>4, <1>5, <1>6, <1>7, <1>8, <1>9 DEF IInv

LEMMA StartRegistersInv ==
    ASSUME IInv, StartRegisters
    PROVE  IInv'
<1>1. TypeOK'
  BY DEF StartRegisters, mutatorVars, IInv, TypeOK
<1>2. ImagesTraced'
  BY DEF StartRegisters, mutatorVars, IInv, ImagesTraced
<1>3. RootsLive'
  BY DEF StartRegisters, mutatorVars, IInv, RootsLive, Queue
<1>4. HeapClosed'
  BY DEF StartRegisters, mutatorVars, IInv, HeapClosed, GraphClosed
<1>5. Scanned'
  BY DEF StartRegisters, mutatorVars, IInv, Scanned, ScannedBy, Marking
<1>6. RootsMarked'
  BY DEF StartRegisters, mutatorVars, IInv, RootsMarked
<1>7. Worklists'
  BY DEF StartRegisters, mutatorVars, IInv, Worklists, MarkingDone
<1>8. Sorted'
  BY DEF StartRegisters, mutatorVars, IInv, Sorted
<1>9. QueueKept'
  BY DEF StartRegisters, mutatorVars, IInv, QueueKept, Queue, Marking
<1> QED
  BY <1>1, <1>2, <1>3, <1>4, <1>5, <1>6, <1>7, <1>8, <1>9 DEF IInv

LEMMA MarkRegisterInv ==
    ASSUME IInv, MarkRegister
    PROVE  IInv'
<1>1. TypeOK'
  BY DEF MarkRegister, mutatorVars, IInv, TypeOK, ImagesTraced, RootsLive,
         HeapClosed, GraphClosed, Scanned, ScannedBy, Marking, RootsMarked,
         Worklists, MarkingDone, Sorted, QueueKept, Queue
<1>2. ImagesTraced'
  BY DEF MarkRegister, mutatorVars, IInv, ImagesTraced
<1>3. RootsLive'
  BY DEF MarkRegister, mutatorVars, IInv, RootsLive, Queue
<1>4. HeapClosed'
  BY DEF MarkRegister, mutatorVars, IInv, HeapClosed, GraphClosed
<1>5. Scanned'
  <2> PICK b \in scan :
        IF b \in live \ visible
        THEN LET new == Traced(heap[b]) \ (visible \cup {b})
             IN /\ visible' = visible \cup {b} \cup new
                /\ next' = next \cup {c \in new : heap[c].shape.ptrs}
        ELSE UNCHANGED <<visible, next>>
    BY DEF MarkRegister
  <2>1. ScannedBy(visible, curr \cup next)
    BY DEF MarkRegister, IInv, Scanned, Marking
  <2>2. CASE b \in live \ visible
    <3> DEFINE new == Traced(heap[b]) \ (visible \cup {b})
    <3>1. {b} \cup new \in SUBSET live
      BY <2>2, TracedLive DEF MarkRegister, IInv, TypeOK
    <3>2. Traced(heap[b]) \subseteq visible \cup ({b} \cup new)
      OBVIOUS
    <3>3. /\ visible' = visible \cup ({b} \cup new)
          /\ curr' \cup next' = (curr \cup next) \cup {c \in new : heap[c].shape.ptrs}
      BY <2>2 DEF MarkRegister
    <3>4. b \notin curr \cup next
      BY <2>2 DEF IInv, TypeOK
    <3>5. ScannedBy(visible \cup ({b} \cup new), curr' \cup next')
      <4> HIDE DEF new
      <4>1. (curr \cup next) \ {b} \subseteq curr' \cup next'
        BY <3>3
      <4>2. {c \in ({b} \cup new) \ visible : heap[c].shape.ptrs} \ {b}
               \subseteq curr' \cup next'
        BY <3>3
      <4> QED
        BY <2>1, <3>1, <3>2, <4>1, <4>2, LeafTraced DEF ScannedBy, IInv, TypeOK
    <3> QED
      BY <3>3, <3>5 DEF Scanned, ScannedBy, MarkRegister, mutatorVars
  <2>3. CASE b \notin live \ visible
    BY <2>1, <2>3 DEF Scanned, ScannedBy, MarkRegister, mutatorVars
  <2> QED
    BY <2>2, <2>3
<1>6. RootsMarked'
  BY DEF MarkRegister, mutatorVars, IInv, RootsMarked, RootsLive, Queue
<1>7. Worklists'
  BY DEF MarkRegister, mutatorVars, IInv, Worklists, MarkingDone
<1>8. Sorted'
  BY DEF MarkRegister, mutatorVars, IInv, Sorted
<1>9. QueueKept'
  BY DEF MarkRegister, mutatorVars, IInv, QueueKept, Queue, Marking
<1> QED
  BY <1>1, <1>2, <1>3, <1>4, <1>5, <1>6, <1>7, <1>8, <1>9 DEF IInv

LEMMA StartTraceInv ==
    ASSUME IInv, StartTrace
    PROVE  IInv'
<1>1. TypeOK'
  BY DEF StartTrace, mutatorVars, IInv, TypeOK
<1>2. ImagesTraced'
  BY DEF StartTrace, mutatorVars, IInv, ImagesTraced
<1>3. RootsLive'
  BY DEF StartTrace, mutatorVars, IInv, RootsLive, Queue
<1>4. HeapClosed'
  BY DEF StartTrace, mutatorVars, IInv, HeapClosed, GraphClosed
<1>5. Scanned'
  BY DEF StartTrace, mutatorVars, IInv, Scanned, ScannedBy, Marking
<1>6. RootsMarked'
  BY DEF StartTrace, mutatorVars, IInv, RootsMarked
<1>7. Worklists'
  BY DEF StartTrace, mutatorVars, IInv, Worklists, MarkingDone
<1>8. Sorted'
  BY DEF StartTrace, mutatorVars, IInv, Sorted
<1>9. QueueKept'
  BY DEF StartTrace, mutatorVars, IInv, QueueKept, Queue, Marking
<1> QED
  BY <1>1, <1>2, <1>3, <1>4, <1>5, <1>6, <1>7, <1>8, <1>9 DEF IInv

LEMMA SwapRootsInv ==
    ASSUME IInv, SwapRoots
    PROVE  IInv'
<1>1. TypeOK'
  BY DEF SwapRoots, mutatorVars, IInv, TypeOK
<1>2. ImagesTraced'
  BY DEF SwapRoots, mutatorVars, IInv, ImagesTraced
<1>3. RootsLive'
  BY DEF SwapRoots, mutatorVars, IInv, RootsLive, Queue
<1>4. HeapClosed'
  BY DEF SwapRoots, mutatorVars, IInv, HeapClosed, GraphClosed
<1>5. Scanned'
  BY DEF SwapRoots, mutatorVars, IInv, Scanned, ScannedBy, Marking
<1>6. RootsMarked'
  BY DEF SwapRoots, mutatorVars, IInv, RootsMarked
<1>7. Worklists'
  BY DEF SwapRoots, mutatorVars, IInv, Worklists, MarkingDone
<1>8. Sorted'
  BY DEF SwapRoots, mutatorVars, IInv, Sorted
<1>9. QueueKept'
  BY DEF SwapRoots, mutatorVars, IInv, QueueKept, Queue, Marking
<1> QED
  BY <1>1, <1>2, <1>3, <1>4, <1>5, <1>6, <1>7, <1>8, <1>9 DEF IInv

LEMMA TraceRootInv ==
    ASSUME IInv, TraceRoot
    PROVE  IInv'
<1>1. TypeOK'
  BY DEF TraceRoot, CheckPointers, mutatorVars, IInv, TypeOK, ImagesTraced,
         RootsLive, HeapClosed, GraphClosed, Scanned, ScannedBy, Marking,
         RootsMarked, Worklists, MarkingDone, Sorted, QueueKept, Queue
<1>2. ImagesTraced'
  BY DEF TraceRoot, CheckPointers, mutatorVars, IInv, ImagesTraced
<1>3. RootsLive'
  BY DEF TraceRoot, CheckPointers, mutatorVars, IInv, RootsLive, Queue
<1>4. HeapClosed'
  BY DEF TraceRoot, CheckPointers, mutatorVars, IInv, HeapClosed, GraphClosed
<1>5. Scanned'
  <2> PICK b \in curr : CheckPointers(Traced(heap[b])) /\ curr' = curr \ {b}
    BY DEF TraceRoot
  <2>1. ScannedBy(visible, curr \cup next)
    BY DEF TraceRoot, IInv, Scanned, Marking
  <2>2. b \in live
    BY <2>1 DEF IInv, TypeOK, ScannedBy
  <2>3. Traced(heap[b]) \in SUBSET live
    BY <2>2, TracedLive DEF TraceRoot, IInv, TypeOK
  <2>4. (curr \cup next) \ {b} \subseteq curr' \cup next'
    BY DEF CheckPointers
  <2>5. {c \in Traced(heap[b]) \ visible : heap[c].shape.ptrs} \ {b} \subseteq curr' \cup next'
    BY DEF CheckPointers
  <2>6. ScannedBy(visible \cup Traced(heap[b]), curr' \cup next')
    BY <2>1, <2>3, <2>4, <2>5, LeafTraced DEF ScannedBy, IInv, TypeOK
  <2> QED
    BY <2>6 DEF Scanned, ScannedBy, TraceRoot, CheckPointers, mutatorVars
<1>6. RootsMarked'
  BY DEF TraceRoot, CheckPointers, mutatorVars, IInv, RootsMarked
<1>7. Worklists'
  BY DEF TraceRoot, CheckPointers, mutatorVars, IInv, Worklists, MarkingDone
<1>8. Sorted'
  BY DEF TraceRoot, CheckPointers, mutatorVars, IInv, Sorted
<1>9. QueueKept'
  BY DEF TraceRoot, CheckPointers, mutatorVars, IInv, QueueKept, Queue,
         Marking
<1> QED
  BY <1>1, <1>2, <1>3, <1>4, <1>5, <1>6, <1>7, <1>8, <1>9 DEF IInv

LEMMA CollectUnmarkedInv ==
    ASSUME IInv, CollectUnmarked
    PROVE  IInv'
<1>1. TypeOK'
  BY DEF CollectUnmarked, MarkingDone, mutatorVars, IInv, TypeOK
<1>2. ImagesTraced'
  BY DEF CollectUnmarked, MarkingDone, mutatorVars, IInv, ImagesTraced
<1>3. RootsLive'
  BY DEF CollectUnmarked, MarkingDone, mutatorVars, IInv, RootsLive, Queue
<1>4. HeapClosed'
  BY DEF CollectUnmarked, MarkingDone, mutatorVars, IInv, HeapClosed,
         GraphClosed
<1>5. Scanned'
  BY DEF CollectUnmarked, MarkingDone, mutatorVars, IInv, Scanned, ScannedBy,
         Marking
<1>6. RootsMarked'
  BY DEF CollectUnmarked, MarkingDone, mutatorVars, IInv, RootsMarked
<1>7. Worklists'
  BY DEF CollectUnmarked, MarkingDone, mutatorVars, IInv, Worklists,
         MarkingDone
<1>8. Sorted'
  BY DEF CollectUnmarked, MarkingDone, mutatorVars, IInv, Sorted
<1>9. QueueKept'
  BY DEF CollectUnmarked, MarkingDone, mutatorVars, IInv, QueueKept, Queue,
         Marking
<1> QED
  BY <1>1, <1>2, <1>3, <1>4, <1>5, <1>6, <1>7, <1>8, <1>9 DEF IInv

LEMMA FinalizeBlockInv ==
    ASSUME IInv, FinalizeBlock
    PROVE  IInv'
<1>1. TypeOK'
  <2>1. \A b \in Blocks : References(heap[b]) \in Nat
    BY ShapesAssumption DEF IInv, TypeOK, BlockImage, Shape, References
  <2>2. \A b \in toFinalize : b \in Blocks /\ Traced(heap[b]) \subseteq Blocks
    BY TracedLive DEF FinalizeBlock, IInv, TypeOK, Sorted
  <2> QED
    BY <2>1, <2>2 DEF FinalizeBlock, IInv, TypeOK
<1>2. ImagesTraced'
  BY DEF FinalizeBlock, mutatorVars, IInv, ImagesTraced
<1>3. RootsLive'
  BY DEF FinalizeBlock, mutatorVars, IInv, RootsLive, Queue, Sorted
<1>4. HeapClosed'
  BY DEF FinalizeBlock, mutatorVars, IInv, HeapClosed, GraphClosed
<1>5. Scanned'
  <2> PICK b \in toFinalize :
        LET new == Traced(heap[b]) \ (visible \cup {b})
        IN /\ visible' = visible \cup {b} \cup new
           /\ next' = next \cup {c \in new : heap[c].shape.ptrs}
    BY DEF FinalizeBlock
  <2> DEFINE new == Traced(heap[b]) \ (visible \cup {b})
  <2>1. ScannedBy(visible, curr \cup next)
    BY DEF FinalizeBlock, IInv, Scanned, Marking
  <2>2. {b} \cup new \in SUBSET live
    BY TracedLive DEF FinalizeBlock, IInv, TypeOK, Sorted
  <2>3. Traced(heap[b]) \subseteq visible \cup ({b} \cup new)
    OBVIOUS
  <2>4. /\ visible' = visible \cup ({b} \cup new)
        /\ curr' \cup next' = (curr \cup next) \cup {c \in new : heap[c].shape.ptrs}
    BY DEF FinalizeBlock
  <2>5. ScannedBy(visible \cup ({b} \cup new), curr' \cup next')
    <3> HIDE DEF new
    <3>1. (curr \cup next) \ {b} \subseteq curr' \cup next'
      BY <2>4
    <3>2. {c \in ({b} \cup new) \ visible : heap[c].shape.ptrs} \ {b}
             \subseteq curr' \cup next'
      BY <2>4
    <3> QED
      BY <2>1, <2>2, <2>3, <3>1, <3>2, LeafTraced DEF ScannedBy, IInv, TypeOK
  <2> QED
    BY <2>4, <2>5 DEF Scanned, ScannedBy, FinalizeBlock
<1>6. RootsMarked'
  BY DEF FinalizeBlock, mutatorVars, IInv, RootsMarked
<1>7. Worklists'
  BY DEF FinalizeBlock, mutatorVars, IInv, Worklists, MarkingDone
<1>8. Sorted'
  BY DEF FinalizeBlock, mutatorVars, IInv, Sorted
<1>9. QueueKept'
  BY DEF FinalizeBlock, mutatorVars, IInv, QueueKept, Queue, Marking
<1> QED
  BY <1>1, <1>2, <1>3, <1>4, <1>5, <1>6, <1>7, <1>8, <1>9 DEF IInv

LEMMA StartRetraceInv ==
    ASSUME IInv, StartRetrace
    PROVE  IInv'
<1>1. TypeOK'
  BY DEF StartRetrace, mutatorVars, IInv, TypeOK
<1>2. ImagesTraced'
  BY DEF StartRetrace, mutatorVars, IInv, ImagesTraced
<1>3. RootsLive'
  BY DEF StartRetrace, mutatorVars, IInv, RootsLive, Queue
<1>4. HeapClosed'
  BY DEF StartRetrace, mutatorVars, IInv, HeapClosed, GraphClosed
<1>5. Scanned'
  BY DEF StartRetrace, mutatorVars, IInv, Scanned, ScannedBy, Marking
<1>6. RootsMarked'
  BY DEF StartRetrace, mutatorVars, IInv, RootsMarked
<1>7. Worklists'
  BY DEF StartRetrace, mutatorVars, IInv, Worklists, MarkingDone
<1>8. Sorted'
  BY DEF StartRetrace, mutatorVars, IInv, Sorted
<1>9. QueueKept'
  BY DEF StartRetrace, mutatorVars, IInv, QueueKept, Queue, Marking
<1> QED
  BY <1>1, <1>2, <1>3, <1>4, <1>5, <1>6, <1>7, <1>8, <1>9 DEF IInv

LEMMA StartFreeInv ==
    ASSUME IInv, StartFree
    PROVE  IInv'
<1>1. TypeOK'
  BY DEF StartFree, MarkingDone, mutatorVars, IInv, TypeOK
<1>2. ImagesTraced'
  BY DEF StartFree, MarkingDone, mutatorVars, IInv, ImagesTraced
<1>3. RootsLive'
  BY DEF StartFree, MarkingDone, mutatorVars, IInv, RootsLive, Queue
<1>4. HeapClosed'
  BY DEF StartFree, MarkingDone, mutatorVars, IInv, HeapClosed, GraphClosed
<1>5. Scanned'
  BY DEF StartFree, MarkingDone, mutatorVars, IInv, Scanned, ScannedBy,
         Marking
<1>6. RootsMarked'
  BY DEF StartFree, MarkingDone, mutatorVars, IInv, RootsMarked
<1>7. Worklists'
  BY DEF StartFree, MarkingDone, mutatorVars, IInv, Worklists, MarkingDone
<1>8. Sorted'
  BY DEF StartFree, MarkingDone, mutatorVars, IInv, Sorted
<1>9. QueueKept'
  BY DEF StartFree, MarkingDone, mutatorVars, IInv, QueueKept, Queue, Marking
<1> QED
  BY <1>1, <1>2, <1>3, <1>4, <1>5, <1>6, <1>7, <1>8, <1>9 DEF IInv

LEMMA RunFinalizersInv ==
    ASSUME IInv, RunFinalizers
    PROVE  IInv'
<1>1. TypeOK'
  BY DEF RunFinalizers, mutatorVars, IInv, TypeOK
<1>2. ImagesTraced'
  BY DEF RunFinalizers, mutatorVars, IInv, ImagesTraced
<1>3. RootsLive'
  BY DEF RunFinalizers, mutatorVars, IInv, RootsLive, Queue
<1>4. HeapClosed'
  BY DEF RunFinalizers, mutatorVars, IInv, HeapClosed, GraphClosed, TypeOK,
         ImagesTraced, RootsLive, Scanned, ScannedBy, Marking, RootsMarked,
         Worklists, MarkingDone, Sorted, QueueKept, Queue
<1>5. Scanned'
  BY DEF RunFinalizers, mutatorVars, IInv, Scanned, ScannedBy, Marking
<1>6. RootsMarked'
  BY DEF RunFinalizers, mutatorVars, IInv, RootsMarked
<1>7. Worklists'
  BY DEF RunFinalizers, mutatorVars, IInv, Worklists, MarkingDone
<1>8. Sorted'
  BY DEF RunFinalizers, mutatorVars, IInv, Sorted
<1>9. QueueKept'
  BY DEF RunFinalizers, mutatorVars, IInv, QueueKept, Queue, Marking
<1> QED
  BY <1>1, <1>2, <1>3, <1>4, <1>5, <1>6, <1>7, <1>8, <1>9 DEF IInv

LEMMA EndCollectInv ==
    ASSUME IInv, EndCollect
    PROVE  IInv'
<1>1. TypeOK'
  BY DEF EndCollect, mutatorVars, IInv, TypeOK
<1>2. ImagesTraced'
  BY DEF EndCollect, mutatorVars, IInv, ImagesTraced
<1>3. RootsLive'
  BY DEF EndCollect, mutatorVars, IInv, RootsLive, Queue
<1>4. HeapClosed'
  BY DEF EndCollect, mutatorVars, IInv, HeapClosed, GraphClosed
<1>5. Scanned'
  BY DEF EndCollect, mutatorVars, IInv, Scanned, ScannedBy, Marking
<1>6. RootsMarked'
  BY DEF EndCollect, mutatorVars, IInv, RootsMarked
<1>7. Worklists'
  BY DEF EndCollect, mutatorVars, IInv, Worklists, MarkingDone
<1>8. Sorted'
  BY DEF EndCollect, mutatorVars, IInv, Sorted
<1>9. QueueKept'
  BY DEF EndCollect, mutatorVars, IInv, QueueKept, Queue, Marking
<1> QED
  BY <1>1, <1>2, <1>3, <1>4, <1>5, <1>6, <1>7, <1>8, <1>9 DEF IInv

LEMMA FreeBlockInv ==
    ASSUME IInv, FreeBlock
    PROVE  IInv'
<1> PICK b \in toFree :
      /\ toFree' = toFree \ {b}
      /\ live' = live \ ({b} \ visible)
      /\ heap' = Released(heap, {b} \ visible)
      /\ finalized' = finalized \ ({b} \ visible)
  BY DEF FreeBlock
<1>1. \A c \in Blocks : heap'[c] = IF c \in {b} \ visible THEN FreedImage ELSE heap[c]
  BY DEF Released
<1>2. \A c \in visible : heap'[c] = heap[c]
  BY <1>1 DEF IInv, TypeOK
<1>3. vars \cup regs \cup Queue \subseteq visible
  BY DEF FreeBlock, IInv, RootsMarked, QueueKept, Marking
<1>4. TypeOK'
  <2>1. heap' \in [Blocks -> BlockImage]
    BY FreedImageFacts DEF Released, IInv, TypeOK
  <2> QED
    BY <2>1 DEF FreeBlock, IInv, TypeOK
<1>5. ImagesTraced'
  BY <1>1, FreedImageFacts DEF IInv, ImagesTraced
<1>6. RootsLive'
  BY <1>3 DEF FreeBlock, IInv, RootsLive, Queue
<1>7. HeapClosed'
  BY DEF FreeBlock, HeapClosed
<1>8. Scanned'
  BY <1>2 DEF FreeBlock, IInv, Scanned, ScannedBy, Marking
<1>9. RootsMarked'
  BY DEF FreeBlock, IInv, RootsMarked
<1>10. Worklists'
  BY DEF FreeBlock, IInv, Worklists, MarkingDone
<1>11. Sorted'
  BY <1>1 DEF FreeBlock, IInv, TypeOK, Sorted
<1>12. QueueKept'
  BY <1>3 DEF FreeBlock, IInv, QueueKept, Queue, Marking
<1> QED
  BY <1>4, <1>5, <1>6, <1>7, <1>8, <1>9, <1>10, <1>11, <1>12 DEF IInv

-----------------------------------------------------------------------------
(* Between collections the program reaches only blocks in use. *)
LEMMA AccessibleLive ==
    ASSUME IInv, phase # "free", NEW X \in SUBSET Queue
    PROVE  Accessible(X) \subseteq live
BY AccessibleInClosed DEF IInv, TypeOK, RootsLive, HeapClosed

(* What a program step has to preserve while no collection is under way. *)
LEMMA RunKeeps ==
    ASSUME IInv, phase \in {"idle", "callbacks"},
           visible' = visible \ (live' \ live),
           UNCHANGED <<phase, scan, curr, next, toFinalize, toFree, queued, finalized>>,
           live \subseteq live', live' \subseteq Blocks,
           heap' \in [Blocks -> BlockImage],
           vars' \subseteq live', regs' \subseteq live', stale' \subseteq Blocks,
           ImagesTraced', GraphClosed(live)'
    PROVE  IInv'
<1>1. TypeOK'
  BY DEF IInv, TypeOK, Worklists, MarkingDone
<1>2. RootsLive'
  BY DEF IInv, RootsLive, Queue
<1>3. HeapClosed'
  BY DEF HeapClosed
<1>4. Scanned' /\ RootsMarked'
  BY DEF Scanned, RootsMarked, Marking
<1>5. Worklists' /\ QueueKept'
  BY DEF IInv, Worklists, MarkingDone, QueueKept, Queue, Marking
<1>6. Sorted'
  BY DEF IInv, Sorted
<1> QED
  BY <1>1, <1>2, <1>3, <1>4, <1>5, <1>6 DEF IInv

LEMMA AllocInv ==
    ASSUME IInv, phase \in {"idle", "callbacks"},
           visible' = visible \ (live' \ live),
           UNCHANGED <<phase, scan, curr, next, toFinalize, toFree, queued>>,
           NEW b \in Blocks, NEW s \in Shapes, Alloc(b, s)
    PROVE  IInv'
<1>1. \A c \in Blocks : heap'[c] = IF c = b THEN Fresh(s) ELSE heap[c]
  BY DEF Alloc, IInv, TypeOK
<1>2. heap' \in [Blocks -> BlockImage]
  BY FreshFacts DEF Alloc, IInv, TypeOK
<1>3. ImagesTraced'
  BY <1>1, FreshFacts DEF IInv, ImagesTraced
<1>4. GraphClosed(live)'
  BY <1>1, FreshFacts DEF Alloc, GraphClosed, IInv, TypeOK, HeapClosed
<1>5. vars' \subseteq live' /\ regs' \subseteq live' /\ stale' \subseteq Blocks
  BY DEF Alloc, IInv, TypeOK, RootsLive
<1> QED
  BY <1>2, <1>3, <1>4, <1>5, RunKeeps DEF Alloc, IInv, TypeOK

LEMMA StoreInv ==
    ASSUME TaggedShapes, IInv, phase \in {"idle", "callbacks"},
           visible' = visible \ (live' \ live),
           UNCHANGED <<phase, scan, curr, next, toFinalize, toFree, queued>>,
           NEW X \in SUBSET Queue, Store(X)
    PROVE  IInv'
<1> PICK b \in Accessible(X) :
      \E i \in DOMAIN heap[b].elems, S \in UpTo(MaxPointers, Accessible(X)) :
        /\ heap[b].shape.ptrs
        /\ heap' = [heap EXCEPT ![b] = WithElement(heap[b], i, S)]
        /\ UNCHANGED <<live, finalized, vars, regs, stale>>
  BY DEF Store
<1> PICK i \in DOMAIN heap[b].elems, S \in UpTo(MaxPointers, Accessible(X)) :
        /\ heap[b].shape.ptrs
        /\ heap' = [heap EXCEPT ![b] = WithElement(heap[b], i, S)]
        /\ UNCHANGED <<live, finalized, vars, regs, stale>>
  OBVIOUS
<1> DEFINE new == WithElement(heap[b], i, S)
<1>1. S \subseteq live /\ b \in live
  BY AccessibleLive DEF UpTo
<1>2. b \in Blocks /\ S \in SUBSET Blocks /\ heap[b] \in BlockImage
  BY <1>1 DEF IInv, TypeOK
<1>3. Len(heap[b].elems) <= heap[b].shape.len
  BY <1>2 DEF IInv, ImagesTraced
<1>4. /\ new \in BlockImage
      /\ new.shape = heap[b].shape
      /\ Len(new.elems) <= new.shape.len
      /\ Contents(new) = Traced(new)
      /\ Contents(new) \subseteq Contents(heap[b]) \cup S
  BY <1>2, <1>3, StoreFacts
<1> HIDE DEF new
<1>5. \A c \in Blocks : heap'[c] = IF c = b THEN new ELSE heap[c]
  BY DEF new, IInv, TypeOK
<1>6. heap' \in [Blocks -> BlockImage]
  BY <1>4 DEF new, IInv, TypeOK
<1>7. ImagesTraced'
  BY <1>4, <1>5 DEF IInv, ImagesTraced
<1>8. GraphClosed(live)'
  BY <1>1, <1>4, <1>5 DEF GraphClosed, IInv, TypeOK, HeapClosed
<1> QED
  BY <1>6, <1>7, <1>8, RunKeeps DEF IInv, TypeOK, RootsLive

LEMMA SetRootsInv ==
    ASSUME IInv, phase \in {"idle", "callbacks"},
           visible' = visible \ (live' \ live),
           UNCHANGED <<phase, scan, curr, next, toFinalize, toFree, queued>>,
           NEW X \in SUBSET Queue, SetVars(X) \/ SetRegs(X)
    PROVE  IInv'
<1>1. /\ UNCHANGED <<live, heap, finalized>>
      /\ vars' \subseteq live' /\ regs' \subseteq live' /\ stale' \subseteq Blocks
  BY AccessibleLive DEF SetVars, SetRegs, UpTo, IInv, TypeOK, RootsLive
<1>2. ImagesTraced' /\ GraphClosed(live)'
  BY <1>1 DEF IInv, ImagesTraced, HeapClosed, GraphClosed
<1> QED
  BY <1>1, <1>2, RunKeeps DEF IInv, TypeOK

LEMMA RunInv ==
    ASSUME TaggedShapes, IInv, Run
    PROVE  IInv'
<1> DEFINE X == IF phase = "callbacks" THEN Queue ELSE {}
<1>1. X \in SUBSET Queue
  OBVIOUS
<1>2. /\ phase \in {"idle", "callbacks"}
      /\ visible' = visible \ (live' \ live)
      /\ UNCHANGED <<phase, scan, curr, next, toFinalize, toFree, queued>>
      /\ Mutate(X)
  BY DEF Run
<1> HIDE DEF X
<1> QED
  BY <1>1, <1>2, AllocInv, StoreInv, SetRootsInv DEF Mutate

-----------------------------------------------------------------------------
LEMMA InitInv == Init => IInv
<1> SUFFICES ASSUME Init PROVE IInv
  OBVIOUS
<1> USE DEF Init, MutatorInit
<1>1. Queue = {}
  BY DEF Queue
<1>2. TypeOK
  BY FreedImageFacts DEF TypeOK
<1>3. ImagesTraced
  BY FreedImageFacts DEF ImagesTraced
<1>4. RootsLive /\ HeapClosed /\ QueueKept
  BY <1>1 DEF RootsLive, HeapClosed, GraphClosed, QueueKept, Marking
<1>5. Scanned /\ RootsMarked /\ Worklists /\ Sorted
  BY DEF Scanned, RootsMarked, Marking, Worklists, MarkingDone, Sorted
<1> QED
  BY <1>2, <1>3, <1>4, <1>5 DEF IInv

LEMMA NextInv ==
    ASSUME TaggedShapes, IInv, [Next]_vars_
    PROVE  IInv'
<1>1. CASE Run
  BY <1>1, RunInv
<1>2. CASE StartCollect
  BY <1>2, StartCollectInv
<1>3. CASE Collector
  BY <1>3, MarkVariableInv, StartRegistersInv, MarkRegisterInv, StartTraceInv,
     SwapRootsInv, TraceRootInv, CollectUnmarkedInv, FinalizeBlockInv,
     StartRetraceInv, StartFreeInv, FreeBlockInv, RunFinalizersInv
     DEF Collector
<1>4. CASE EndCollect
  BY <1>4, EndCollectInv
<1>5. CASE UNCHANGED vars_
  BY <1>5 DEF vars_, cycleVars, mutatorVars, IInv, TypeOK, ImagesTraced,
     RootsLive, HeapClosed, GraphClosed, Scanned, ScannedBy, RootsMarked,
     Worklists, MarkingDone, Sorted, QueueKept, Queue, Marking
<1> QED
  BY <1>1, <1>2, <1>3, <1>4, <1>5 DEF Next

(* The invariant of the collector holds in every state of every program that
   makes no untagged allocation (AllocObject and AllocArray, not the copies
   of ExecCheckedReturn, CopyArray and AutoArray).                         *)
THEOREM CycleInvariant == TaggedShapes => (Spec => []IInv)
<1> SUFFICES ASSUME TaggedShapes PROVE Spec => []IInv
  OBVIOUS
<1>1. IInv /\ [Next]_vars_ => IInv'
  BY NextInv
<1> QED
  BY <1>1, InitInv, PTL DEF Spec

(* TypeOK, as a part of the invariant. *)
THEOREM CycleTypes == TaggedShapes => (Spec => []TypeOK)
<1> SUFFICES ASSUME TaggedShapes PROVE Spec => []TypeOK
  OBVIOUS
<1>1. IInv => TypeOK
  BY DEF IInv
<1> QED
  BY <1>1, CycleInvariant, PTL

(* While blocks are being freed the program can only get at visible ones. *)
LEMMA InUseVisible ==
    ASSUME IInv, phase = "free"
    PROVE  InUse \subseteq visible
<1>1. vars \cup regs \cup Queue \subseteq visible
  BY DEF IInv, RootsMarked, QueueKept, Marking
<1>2. GraphClosed(visible)
  BY DEF IInv, TypeOK, ImagesTraced, Scanned, ScannedBy, Marking, Worklists,
         MarkingDone, GraphClosed
<1> QED
  BY <1>1, <1>2, AccessibleInClosed DEF InUse, IInv, TypeOK

(* Memory safety: what the program can reach is never freed memory. *)
THEOREM MemorySafety == TaggedShapes => (Spec => []NoDangling)
<1> SUFFICES ASSUME TaggedShapes PROVE Spec => []NoDangling
  OBVIOUS
<1>1. IInv => NoDangling
  <2> SUFFICES ASSUME IInv PROVE NoDangling
    OBVIOUS
  <2>1. CASE phase = "free"
    BY <2>1, InUseVisible DEF NoDangling, IInv, Scanned, ScannedBy, Marking
  <2>2. CASE phase # "free"
    BY <2>2, AccessibleLive DEF NoDangling, InUse
  <2> QED
    BY <2>1, <2>2
<1> QED
  BY <1>1, CycleInvariant, PTL

(* Only FreePending takes blocks out of use. *)
LEMMA OnlyFreeBlockFrees ==
    ASSUME IInv, [Next]_vars_, NEW b \in live \ live'
    PROVE  phase = "free" /\ b \in toFree \ visible
<1>1. CASE FreeBlock
  BY <1>1 DEF FreeBlock
<1>2. CASE Run
  BY <1>2 DEF Run, Mutate, Alloc, Store, SetVars, SetRegs
<1>3. CASE StartCollect \/ EndCollect \/ UNCHANGED vars_
  BY <1>3 DEF StartCollect, EndCollect, vars_, mutatorVars
<1>4. CASE Collector /\ ~FreeBlock
  BY <1>4 DEF Collector, MarkVariable, StartRegisters, MarkRegister, StartTrace,
     SwapRoots, TraceRoot, CollectUnmarked, FinalizeBlock, StartRetrace,
     StartFree, RunFinalizers, mutatorVars
<1> QED
  BY <1>1, <1>2, <1>3, <1>4 DEF Next

(* FreePending frees nothing that is still in use. *)
THEOREM FreesGarbage == TaggedShapes => (Spec => FreesOnlyGarbage)
<1> SUFFICES ASSUME TaggedShapes PROVE Spec => FreesOnlyGarbage
  OBVIOUS
<1>1. IInv /\ [Next]_vars_ => [\A b \in live \ live' : b \notin InUse]_vars_
  BY OnlyFreeBlockFrees, InUseVisible
<1> QED
  BY <1>1, CycleInvariant, PTL DEF Spec, FreesOnlyGarbage

(* No object is freed before a collection has queued its finalizer. *)
THEOREM FinalizersFirst == TaggedShapes => (Spec => FinalizedBeforeFreed)
<1> SUFFICES ASSUME TaggedShapes PROVE Spec => FinalizedBeforeFreed
  OBVIOUS
<1>1. IInv /\ [Next]_vars_ =>
        [\A b \in live \ live' :
            heap[b].shape.fin => b \in finalized /\ b \notin Queue]_vars_
  BY OnlyFreeBlockFrees DEF IInv, Sorted, QueueKept, Marking
<1> QED
  BY <1>1, CycleInvariant, PTL DEF Spec, FinalizedBeforeFreed

(* Only FinalizePending adds to the list of finalizers. *)
LEMMA OnlyFinalizeBlockQueues ==
    ASSUME IInv, [Next]_vars_, NEW b \in Blocks, queued'[b] > queued[b]
    PROVE  FinalizeBlock
<1>1. queued[b] \in Nat
  BY DEF IInv, TypeOK
<1>2. ~EndCollect
  BY <1>1 DEF EndCollect
<1>3. queued' # queued
  BY <1>1
<1> QED
  BY <1>2, <1>3 DEF Next, Run, StartCollect, Collector, MarkVariable,
     StartRegisters, MarkRegister, StartTrace, SwapRoots, TraceRoot,
     CollectUnmarked, StartRetrace, StartFree, FreeBlock, RunFinalizers,
     vars_, cycleVars

(* One collection only queues the finalizer of a block. *)
THEOREM FinalizersOnce == TaggedShapes => (Spec => QueuedOnce)
<1> SUFFICES ASSUME TaggedShapes PROVE Spec => QueuedOnce
  OBVIOUS
<1>1. ASSUME IInv, [Next]_vars_, NEW b \in Blocks, queued'[b] > queued[b]
      PROVE  b \in live \ finalized /\ b \in finalized'
  <2>1. PICK c \in toFinalize : /\ finalized' = finalized \cup {c}
                                /\ queued' = [queued EXCEPT ![c] = @ + References(heap[c])]
    BY <1>1, OnlyFinalizeBlockQueues DEF FinalizeBlock
  <2>2. queued \in [Blocks -> Nat]
    BY <1>1 DEF IInv, TypeOK
  <2>3. b = c
    BY <1>1, <2>1, <2>2
  <2> QED
    BY <1>1, <2>1, <2>3 DEF IInv, Sorted
<1>2. IInv /\ [Next]_vars_ =>
        [\A b \in Blocks : queued'[b] > queued[b] =>
            /\ b \in live \ finalized
            /\ b \in finalized']_vars_
  BY <1>1
<1> QED
  BY <1>2, CycleInvariant, PTL DEF Spec, QueuedOnce

-----------------------------------------------------------------------------
(* What is marked, and what the specification finds. *)

Graph == [b \in Blocks |-> Traced(heap[b])]

RootWords == vars \cup regs \cup (stale \cap live)

(* The blocks to be finalized, as GcSpec finds them. *)
Unfinalized ==
    {b \in live \ Reach(RootWords, Graph) :
        heap[b].shape.fin /\ b \notin finalized \ Queue}

Needed == Reach(RootWords \cup Unfinalized, Graph)

(* Marked blocks are reached from the roots and, once FinalizePending has
   begun, from the blocks to be finalized; these are on the list or queued
   with one reference for each element.                                    *)
Exact ==
    /\ finalized \subseteq live
    /\ phase = "regs" => scan \subseteq regs \cup stale
    /\ phase \in {"vars", "regs", "trace"} => visible \subseteq Reach(RootWords, Graph)
    /\ Open => /\ visible \subseteq Needed
               /\ Unfinalized = toFinalize \cup Queue
               /\ \A b \in Queue : queued[b] = References(heap[b])

-----------------------------------------------------------------------------
(* Facts about Reach. *)

LEMMA ReachIncludes ==
    ASSUME NEW S \in SUBSET Blocks, NEW E
    PROVE  S \subseteq Reach(S, E)
BY DEF Reach

LEMMA ReachSteps ==
    ASSUME NEW S, NEW E, NEW b \in Reach(S, E), E[b] \subseteq Blocks
    PROVE  E[b] \subseteq Reach(S, E)
BY DEF Reach, ClosedUnder

LEMMA ReachGrows ==
    ASSUME NEW S, NEW T, NEW E, S \subseteq T
    PROVE  Reach(S, E) \subseteq Reach(T, E)
BY DEF Reach

LEMMA ReachBlocks ==
    ASSUME NEW S, NEW E
    PROVE  Reach(S, E) \subseteq Blocks
BY DEF Reach

(* What a block that was reached leads to is reached. *)
LEMMA GraphSteps ==
    ASSUME IInv, phase # "free", NEW S, NEW b \in Reach(S, Graph), b \in live
    PROVE  Traced(heap[b]) \subseteq Reach(S, Graph)
<1>1. b \in Blocks /\ Graph[b] = Traced(heap[b])
  BY ReachBlocks DEF Graph
<1>2. Traced(heap[b]) \subseteq Blocks
  BY TracedLive DEF IInv, TypeOK
<1> QED
  BY <1>1, <1>2, ReachSteps

-----------------------------------------------------------------------------
(* Every action keeps Exact. *)

(* The marking actions change neither the heap nor the roots. *)
LEMMA SameGraph ==
    ASSUME UNCHANGED <<live, heap, vars, regs, stale>>
    PROVE  RootWords' = RootWords /\ Graph' = Graph
BY DEF RootWords, Graph

LEMMA InitExact == Init => Exact
BY DEF Init, MutatorInit, Exact, Open

LEMMA StartCollectExact ==
    ASSUME IInv, Exact, StartCollect
    PROVE  Exact'
BY DEF StartCollect, mutatorVars, Exact, Open

LEMMA MarkVariableExact ==
    ASSUME IInv, Exact, MarkVariable
    PROVE  Exact'
<1>1. RootWords' = RootWords /\ Graph' = Graph
  BY SameGraph DEF MarkVariable, mutatorVars
<1>2. RootWords \subseteq Reach(RootWords, Graph)
  BY ReachIncludes DEF RootWords, IInv, TypeOK
<1>3. scan \subseteq RootWords
  BY DEF MarkVariable, IInv, Worklists, RootWords
<1>4. visible' \subseteq Reach(RootWords, Graph)
  BY <1>2, <1>3 DEF MarkVariable, CheckPointers, Exact
<1> QED
  BY <1>1, <1>4 DEF MarkVariable, mutatorVars, Exact, Open

LEMMA StartRegistersExact ==
    ASSUME IInv, Exact, StartRegisters
    PROVE  Exact'
<1>1. RootWords' = RootWords /\ Graph' = Graph
  BY SameGraph DEF StartRegisters, mutatorVars
<1> QED
  BY <1>1 DEF StartRegisters, mutatorVars, Exact, Open

LEMMA MarkRegisterExact ==
    ASSUME IInv, Exact, MarkRegister
    PROVE  Exact'
<1>1. RootWords' = RootWords /\ Graph' = Graph
  BY SameGraph DEF MarkRegister, mutatorVars
<1>2. RootWords \subseteq Reach(RootWords, Graph)
  BY ReachIncludes DEF RootWords, IInv, TypeOK
<1>3. scan \cap live \subseteq RootWords
  BY DEF MarkRegister, Exact, RootWords
<1>4. \A b \in scan \cap live : Traced(heap[b]) \subseteq Reach(RootWords, Graph)
  BY <1>2, <1>3, GraphSteps DEF MarkRegister
<1>5. visible' \subseteq Reach(RootWords, Graph)
  BY <1>2, <1>3, <1>4 DEF MarkRegister, Exact
<1> QED
  BY <1>1, <1>5 DEF MarkRegister, mutatorVars, Exact, Open

LEMMA StartTraceExact ==
    ASSUME IInv, Exact, StartTrace
    PROVE  Exact'
<1>1. RootWords' = RootWords /\ Graph' = Graph
  BY SameGraph DEF StartTrace, mutatorVars
<1> QED
  BY <1>1 DEF StartTrace, mutatorVars, Exact, Open

(* A step of MarkPendingRoots in either of its calls. *)
LEMMA TraceExact ==
    ASSUME IInv, Exact, phase \in {"trace", "retrace"},
           UNCHANGED <<mutatorVars, phase, toFinalize, queued>>,
           NEW b \in visible, visible' \subseteq visible \cup Traced(heap[b])
    PROVE  Exact'
<1>1. /\ RootWords' = RootWords /\ Graph' = Graph
      /\ Unfinalized' = Unfinalized /\ Needed' = Needed
      /\ Queue' = Queue
  BY SameGraph DEF mutatorVars, Unfinalized, Needed, Queue, RootWords, Graph
<1>2. b \in live
  BY DEF IInv, Scanned, ScannedBy, Marking
<1>3. CASE phase = "trace"
  <2>1. visible' \subseteq Reach(RootWords, Graph)
    BY <1>2, <1>3, GraphSteps DEF Exact
  <2> QED
    BY <1>1, <1>3, <2>1 DEF mutatorVars, Exact, Open
<1>4. CASE phase = "retrace"
  <2>1. visible' \subseteq Needed
    BY <1>2, <1>4, GraphSteps DEF Exact, Open, Needed
  <2> QED
    BY <1>1, <1>4, <2>1 DEF mutatorVars, Exact, Open
<1> QED
  BY <1>3, <1>4

LEMMA SwapRootsExact ==
    ASSUME IInv, Exact, SwapRoots
    PROVE  Exact'
<1>1. PICK b \in visible : b \in next
  BY DEF SwapRoots, IInv, TypeOK
<1> QED
  BY <1>1, TraceExact DEF SwapRoots

LEMMA TraceRootExact ==
    ASSUME IInv, Exact, TraceRoot
    PROVE  Exact'
<1>1. PICK b \in curr : CheckPointers(Traced(heap[b]))
  BY DEF TraceRoot
<1>2. b \in visible /\ visible' = visible \cup Traced(heap[b])
  BY <1>1 DEF CheckPointers, IInv, TypeOK
<1> QED
  BY <1>2, TraceExact DEF TraceRoot

(* When the worklists are empty the visible blocks are the reached ones. *)
LEMMA MarkedClosed ==
    ASSUME IInv, Marking, MarkingDone, NEW S \in SUBSET visible
    PROVE  Reach(S, Graph) \subseteq visible
<1>1. ClosedUnder(visible, Graph)
  BY DEF IInv, TypeOK, Scanned, ScannedBy, MarkingDone, ClosedUnder, Graph
<1> QED
  BY <1>1, ReachInClosed DEF IInv, TypeOK

LEMMA CollectUnmarkedExact ==
    ASSUME IInv, Exact, CollectUnmarked
    PROVE  Exact'
<1>1. RootWords' = RootWords /\ Graph' = Graph /\ Queue' = Queue
  BY SameGraph DEF CollectUnmarked, mutatorVars, Queue
<1>2. Queue = {}
  BY DEF CollectUnmarked, IInv, QueueKept
<1>3. Reach(RootWords, Graph) = visible
  <2>1. RootWords \in SUBSET visible
    BY DEF CollectUnmarked, IInv, RootsMarked, RootWords
  <2> QED
    BY <2>1, MarkedClosed DEF CollectUnmarked, Marking, Exact
<1>4. toFinalize' = Unfinalized'
  BY <1>1, <1>2, <1>3 DEF CollectUnmarked, mutatorVars, Unfinalized
<1>5. visible' \subseteq Needed'
  <2>1. Reach(RootWords', Graph') \subseteq Needed'
    BY ReachGrows DEF Needed
  <2> QED
    BY <1>1, <1>3, <2>1 DEF CollectUnmarked
<1> QED
  BY <1>1, <1>2, <1>4, <1>5 DEF CollectUnmarked, mutatorVars, Exact, Open

LEMMA FinalizeBlockExact ==
    ASSUME IInv, Exact, FinalizeBlock
    PROVE  Exact'
<1>1. PICK b \in toFinalize :
        /\ visible' = visible \cup {b} \cup (Traced(heap[b]) \ (visible \cup {b}))
        /\ toFinalize' = toFinalize \ {b}
        /\ finalized' = finalized \cup {b}
        /\ queued' = [queued EXCEPT ![b] = @ + References(heap[b])]
  BY DEF FinalizeBlock
<1>2. /\ phase = "finalize" /\ phase' = "finalize"
      /\ UNCHANGED <<live, heap, vars, regs, stale>>
  BY DEF FinalizeBlock
<1>3. b \in live /\ b \in Blocks /\ b \notin finalized /\ b \notin Queue
  BY DEF IInv, TypeOK, Sorted, QueueKept
<1>4. \A c \in Blocks : References(heap[c]) \in Nat \ {0}
  BY ShapesAssumption DEF IInv, TypeOK, BlockImage, Shape, References
<1>5. queued[b] = 0 /\ queued \in [Blocks -> Nat]
  BY <1>3 DEF IInv, TypeOK, Queue
<1>6. /\ queued'[b] = References(heap[b])
      /\ \A c \in Blocks \ {b} : queued'[c] = queued[c]
  BY <1>1, <1>3, <1>4, <1>5
<1>7. Queue' = Queue \cup {b}
  BY <1>3, <1>4, <1>6 DEF Queue
<1>8. RootWords' = RootWords /\ Graph' = Graph
  BY <1>2, SameGraph
<1>9. finalized' \ Queue' = finalized \ Queue
  BY <1>1, <1>3, <1>7
<1>10. Unfinalized' = Unfinalized /\ Needed' = Needed
  BY <1>2, <1>8, <1>9 DEF Unfinalized, Needed
<1>11. Unfinalized' = toFinalize' \cup Queue'
  BY <1>1, <1>2, <1>7, <1>10 DEF Exact, Open
<1>12. visible' \subseteq Needed'
  <2>1. RootWords \cup Unfinalized \in SUBSET Blocks
    BY DEF RootWords, Unfinalized, IInv, TypeOK
  <2>2. b \in Needed
    BY <1>2, <2>1, ReachIncludes DEF Needed, Exact, Open
  <2>3. Traced(heap[b]) \subseteq Needed
    BY <1>2, <1>3, <2>2, GraphSteps DEF Needed
  <2> QED
    BY <1>1, <1>2, <1>10, <2>2, <2>3 DEF Exact, Open
<1>13. \A c \in Queue' : queued'[c] = References(heap'[c])
  BY <1>2, <1>6, <1>7 DEF Exact, Open, Queue
<1> QED
  BY <1>1, <1>2, <1>3, <1>11, <1>12, <1>13 DEF Exact, Open

LEMMA StartRetraceExact ==
    ASSUME IInv, Exact, StartRetrace
    PROVE  Exact'
<1>1. /\ RootWords' = RootWords /\ Graph' = Graph /\ Queue' = Queue
      /\ Unfinalized' = Unfinalized /\ Needed' = Needed
  BY SameGraph DEF StartRetrace, mutatorVars, Queue, Unfinalized, Needed, RootWords, Graph
<1> QED
  BY <1>1 DEF StartRetrace, mutatorVars, Exact, Open

LEMMA RestExact ==
    ASSUME IInv, Exact,
           Run \/ StartFree \/ FreeBlock \/ RunFinalizers \/ EndCollect \/ UNCHANGED vars_
    PROVE  Exact'
<1>1. CASE Run
  BY <1>1 DEF Run, Mutate, Alloc, Store, SetVars, SetRegs, Exact, Open
<1>2. CASE StartFree
  BY <1>2 DEF StartFree, mutatorVars, Exact, Open
<1>3. CASE FreeBlock
  BY <1>3 DEF FreeBlock, Exact, Open
<1>4. CASE RunFinalizers
  BY <1>4 DEF RunFinalizers, mutatorVars, Exact, Open
<1>5. CASE EndCollect
  BY <1>5 DEF EndCollect, mutatorVars, Exact, Open
<1>6. CASE UNCHANGED vars_
  BY <1>6 DEF vars_, mutatorVars, cycleVars, Exact, Open, RootWords, Graph,
              Unfinalized, Needed, Queue
<1> QED
  BY <1>1, <1>2, <1>3, <1>4, <1>5, <1>6

LEMMA NextExact ==
    ASSUME IInv, Exact, [Next]_vars_
    PROVE  Exact'
BY StartCollectExact, MarkVariableExact, StartRegistersExact, MarkRegisterExact,
   StartTraceExact, SwapRootsExact, TraceRootExact, CollectUnmarkedExact,
   FinalizeBlockExact, StartRetraceExact, RestExact DEF Next, Collector

-----------------------------------------------------------------------------
(* The operators of Heap and Mutator that GcSpec uses are those used here. *)
LEMMA SameReach ==
    ASSUME NEW S, NEW E
    PROVE  Abstract!Reach(S, E) = Reach(S, E)
BY DEF Abstract!Reach, Abstract!ClosedUnder, Reach, ClosedUnder

LEMMA SameReleased ==
    ASSUME NEW h, NEW S
    PROVE  Abstract!Released(h, S) = Released(h, S)
BY DEF Abstract!Released, Released, Abstract!FreedImage, FreedImage

LEMMA SameImages ==
    ASSUME NEW blk
    PROVE  /\ Abstract!Traced(blk) = Traced(blk)
           /\ Abstract!Contents(blk) = Contents(blk)
           /\ Abstract!References(blk) = References(blk)
BY DEF Abstract!Traced, Traced, Abstract!First, First, Abstract!Contents, Contents,
       Abstract!References, References

LEMMA SameCardinality ==
    ASSUME NEW S
    PROVE  Abstract!Cardinality(S) = Cardinality(S)
BY DEF Abstract!Cardinality, Cardinality

LEMMA SameUpTo ==
    ASSUME NEW n, NEW S
    PROVE  Abstract!UpTo(n, S) = UpTo(n, S)
BY SameCardinality DEF Abstract!UpTo, UpTo

-----------------------------------------------------------------------------
(* Unless blocks are being freed, GcSpec sees the state as it is. *)
LEMMA ClosedView ==
    ASSUME TypeOK, phase # "free"
    PROVE  /\ live \ Doomed = live
           /\ Released(heap, Doomed) = heap
           /\ finalized \ Doomed = finalized
BY DEF TypeOK, Doomed, Released

LEMMA ClosedViewNext ==
    ASSUME TypeOK', phase' # "free"
    PROVE  /\ live' \ Doomed' = live'
           /\ Released(heap', Doomed') = heap'
           /\ finalized' \ Doomed' = finalized'
BY DEF TypeOK, Doomed, Released

LEMMA InitAbstract == Init /\ TypeOK => Abstract!Init
<1> SUFFICES ASSUME Init, TypeOK PROVE Abstract!Init
  OBVIOUS
<1>1. phase = "idle"
  BY DEF Init
<1> QED
  BY <1>1, ClosedView DEF Init, MutatorInit, Abstract!Init, Abstract!MutatorInit, Open,
     FreedImage, Abstract!FreedImage

(* Marking decides nothing. *)
LEMMA MarkStutters ==
    ASSUME TypeOK, TypeOK', phase # "free", phase' # "free",
           phase # "callbacks", phase' # "callbacks",
           UNCHANGED <<mutatorVars, queued>>,
           Open => Open', Open' => Open \/ Queue = {}
    PROVE  UNCHANGED Abstract!specVars
<1>1. Released(heap, Doomed)' = Released(heap, Doomed)
  BY ClosedView, ClosedViewNext DEF mutatorVars
<1> QED
  BY <1>1, ClosedView, ClosedViewNext
     DEF Abstract!specVars, Abstract!mutatorVars, mutatorVars, Queue, TypeOK

LEMMA SameAccessible ==
    ASSUME TypeOK, phase # "free", NEW X
    PROVE  Abstract!Accessible(X) = Accessible(X)
<1>1. Abstract!ContentsGraph = ContentsGraph
  BY ClosedView, SameImages DEF Abstract!ContentsGraph, ContentsGraph
<1> QED
  BY <1>1, SameReach DEF Abstract!Accessible, Accessible

(* The program runs alike in both specifications. *)
LEMMA RunSteps ==
    ASSUME TypeOK, TypeOK', Run
    PROVE  Abstract!Run
<1>1. phase # "free" /\ phase' # "free" /\ ~Open /\ ~Open'
  BY DEF Run, Open
<1>2. /\ live \ Doomed = live /\ (live \ Doomed)' = live'
      /\ Released(heap, Doomed) = heap /\ Released(heap, Doomed)' = heap'
      /\ (IF Open THEN finalized \ Queue ELSE finalized) \ Doomed = finalized
      /\ ((IF Open THEN finalized \ Queue ELSE finalized) \ Doomed)' = finalized'
      /\ (IF Open THEN [b \in Blocks |-> 0] ELSE queued) = queued
      /\ (IF Open THEN [b \in Blocks |-> 0] ELSE queued)' = queued'
  BY <1>1, ClosedView, ClosedViewNext
<1> DEFINE extra == IF phase = "callbacks" THEN Queue ELSE {}
<1>3. (IF phase \in {"free", "callbacks"} THEN Abstract!Queue ELSE {}) = extra
  BY <1>1 DEF Abstract!Queue, Queue
<1>4. Mutate(extra) /\ UNCHANGED <<phase, queued>>
  BY DEF Run
<1> HIDE DEF extra
<1>5. Abstract!Mutate(extra)
  <2>1. CASE \E b \in Blocks, s \in Shapes : Alloc(b, s)
    <3>1. PICK b \in Blocks, s \in Shapes : Alloc(b, s)
      BY <2>1
    <3>2. Abstract!Alloc(b, s)
      BY <1>2, <3>1, SameCardinality DEF Alloc, Abstract!Alloc, Fresh, Abstract!Fresh
    <3> QED
      BY <3>2 DEF Abstract!Mutate
  <2>2. CASE Store(extra)
    <3>1. Abstract!Store(extra)
      BY <1>1, <1>2, <2>2, SameAccessible, SameUpTo DEF Store, Abstract!Store,
         WithElement, Abstract!WithElement
    <3> QED
      BY <3>1 DEF Abstract!Mutate
  <2>3. CASE SetVars(extra)
    <3>1. Abstract!SetVars(extra)
      BY <1>1, <1>2, <2>3, SameAccessible, SameUpTo DEF SetVars, Abstract!SetVars
    <3> QED
      BY <3>1 DEF Abstract!Mutate
  <2>4. CASE SetRegs(extra)
    <3>1. Abstract!SetRegs(extra)
      BY <1>1, <1>2, <2>4, SameAccessible, SameUpTo DEF SetRegs, Abstract!SetRegs
    <3> QED
      BY <3>1 DEF Abstract!Mutate
  <2> QED
    BY <1>4, <2>1, <2>2, <2>3, <2>4 DEF Mutate
<1> QED
  BY <1>2, <1>3, <1>4, <1>5 DEF Abstract!Run

LEMMA EndCollectSteps ==
    ASSUME TypeOK, TypeOK', EndCollect
    PROVE  Abstract!EndCallbacks
<1>1. /\ phase = "callbacks" /\ phase' = "idle" /\ ~Open /\ ~Open'
  BY DEF EndCollect, Open
<1>2. Released(heap, Doomed)' = Released(heap, Doomed)
  BY <1>1, ClosedView, ClosedViewNext DEF mutatorVars, EndCollect
<1> QED
  BY <1>1, <1>2, ClosedView, ClosedViewNext
     DEF EndCollect, mutatorVars, Abstract!EndCallbacks, Abstract!mutatorVars

(* Queueing a finalizer shows only when the collection is decided. *)
LEMMA FinalizeBlockStutters ==
    ASSUME IInv, TypeOK', FinalizeBlock
    PROVE  UNCHANGED Abstract!specVars
<1>1. /\ phase = "finalize" /\ phase' = "finalize" /\ Open /\ Open'
  BY DEF FinalizeBlock, Open
<1>2. finalized' \ Queue' = finalized \ Queue
  <2>1. PICK b \in toFinalize :
           /\ finalized' = finalized \cup {b}
           /\ queued' = [queued EXCEPT ![b] = @ + References(heap[b])]
    BY DEF FinalizeBlock
  <2>2. b \in Blocks /\ b \notin finalized
    BY DEF IInv, TypeOK, Sorted
  <2>3. References(heap[b]) \in Nat \ {0}
    BY <2>2, ShapesAssumption DEF IInv, TypeOK, BlockImage, Shape, References
  <2>4. queued \in [Blocks -> Nat]
    BY DEF IInv, TypeOK
  <2>5. Queue' = Queue \cup {b}
    BY <2>1, <2>2, <2>3, <2>4 DEF Queue
  <2> QED
    BY <2>1, <2>2, <2>5
<1>3. UNCHANGED <<live, heap, vars, regs, stale>>
  BY DEF FinalizeBlock
<1>4. /\ Doomed = {} /\ Doomed' = {}
      /\ Released(heap, Doomed)' = Released(heap, Doomed)
  BY <1>1, <1>3 DEF Doomed, Released
<1> QED
  BY <1>1, <1>2, <1>3, <1>4 DEF Abstract!specVars, Abstract!mutatorVars

(* The block that is freed was doomed, and counted as freed. *)
LEMMA FreeBlockStutters ==
    ASSUME IInv, FreeBlock
    PROVE  UNCHANGED Abstract!specVars
<1>1. PICK b \in toFree :
        /\ toFree' = toFree \ {b}
        /\ live' = live \ ({b} \ visible)
        /\ heap' = Released(heap, {b} \ visible)
        /\ finalized' = finalized \ ({b} \ visible)
  BY DEF FreeBlock
<1>2. /\ phase = "free" /\ phase' = "free" /\ ~Open /\ ~Open'
      /\ UNCHANGED <<vars, regs, stale, queued, visible>>
  BY DEF FreeBlock, Open
<1>3. /\ Doomed = toFree \ visible
      /\ Doomed' = Doomed \ {b}
  BY <1>1, <1>2 DEF Doomed
<1>4. /\ (live \ Doomed)' = live \ Doomed
      /\ (finalized \ Doomed)' = finalized \ Doomed
  BY <1>1, <1>3
<1>5. Released(heap, Doomed)' = Released(heap, Doomed)
  <2>1. heap' = [c \in Blocks |-> IF c \in {b} \ visible THEN FreedImage ELSE heap[c]]
    BY <1>1 DEF Released
  <2>2. \A c \in Blocks : (IF c \in Doomed' THEN FreedImage ELSE heap'[c])
                            = IF c \in Doomed THEN FreedImage ELSE heap[c]
    BY <1>3, <2>1
  <2> QED
    BY <2>2 DEF Released
<1> QED
  BY <1>2, <1>4, <1>5 DEF Abstract!specVars, Abstract!mutatorVars

LEMMA RunFinalizersStutters ==
    ASSUME TypeOK, TypeOK', RunFinalizers
    PROVE  UNCHANGED Abstract!specVars
<1>1. /\ ~Open /\ ~Open' /\ phase = "free" /\ phase' = "callbacks"
      /\ UNCHANGED <<mutatorVars, queued>>
  BY DEF RunFinalizers, Open
<1>2. Doomed = {} /\ Doomed' = {}
  BY DEF RunFinalizers, Doomed
<1>3. Released(heap, Doomed)' = Released(heap, Doomed)
  BY <1>1, <1>2 DEF Released, mutatorVars
<1> QED
  BY <1>1, <1>2, <1>3 DEF mutatorVars, Abstract!specVars, Abstract!mutatorVars

(* The decision: what is visible is what GcSpec keeps, and the blocks in the
   queue are those it finds to be finalized.                              *)
LEMMA StartFreeSteps ==
    ASSUME IInv, Exact, TypeOK', StartFree
    PROVE  Abstract!Collect
<1>1. /\ phase = "retrace" /\ phase' = "free" /\ Open /\ ~Open' /\ MarkingDone /\ Marking
      /\ UNCHANGED <<mutatorVars, visible, toFree, queued>>
      /\ TypeOK /\ phase # "free" /\ toFinalize = {}
  BY DEF StartFree, Open, Marking, IInv, Sorted
<1>2. /\ live \ Doomed = live
      /\ Released(heap, Doomed) = heap
      /\ (IF Open THEN finalized \ Queue ELSE finalized) \ Doomed = finalized \ Queue
      /\ (IF Open THEN [b \in Blocks |-> 0] ELSE queued) = [b \in Blocks |-> 0]
  BY <1>1, ClosedView DEF TypeOK
<1>3. /\ Abstract!Roots = RootWords
      /\ Abstract!TracedGraph = Graph
  BY <1>2, SameImages DEF Abstract!Roots, RootWords, Abstract!TracedGraph, Graph
<1>4. Abstract!Unfinalized = Unfinalized
  BY <1>2, <1>3, SameReach DEF Abstract!Unfinalized, Unfinalized
<1>5. Abstract!Kept = Needed
  BY <1>3, <1>4, SameReach DEF Abstract!Kept, Needed
<1>6. Unfinalized = Queue
  BY <1>1 DEF Exact
<1>7. Needed = visible
  <2>1. RootWords \cup Unfinalized \in SUBSET visible
    BY <1>1, <1>6 DEF IInv, RootsMarked, QueueKept, RootWords
  <2> QED
    BY <1>1, <2>1, MarkedClosed DEF Needed, Exact
<1>8. Doomed' = live \ visible
  BY <1>1 DEF Doomed, mutatorVars, IInv, Sorted
<1>9. finalized \subseteq live /\ Queue \subseteq finalized /\ Queue \subseteq visible
  BY <1>1 DEF Exact, IInv, QueueKept
<1>10. (live \ Doomed)' = live \cap visible
  BY <1>1, <1>8 DEF mutatorVars
<1>11. Released(heap, Doomed)' = Abstract!Released(heap, live \ visible)
  BY <1>1, <1>8, SameReleased DEF mutatorVars, Released
<1>12. ((IF Open THEN finalized \ Queue ELSE finalized) \ Doomed)'
       = ((finalized \ Queue) \cup Queue) \cap visible
  BY <1>1, <1>8, <1>9 DEF mutatorVars
<1>13. queued = [b \in Blocks |-> IF b \in Queue THEN References(heap[b]) ELSE 0]
  BY <1>1 DEF TypeOK, Exact, Queue
<1>14. (IF Open THEN [b \in Blocks |-> 0] ELSE queued)' = queued
  BY <1>1
<1> QED
  BY <1>1, <1>2, <1>4, <1>5, <1>6, <1>7, <1>10, <1>11, <1>12, <1>13, <1>14, SameImages
     DEF Abstract!Collect, mutatorVars

LEMMA StepAbstract ==
    ASSUME IInv, IInv', Exact, [Next]_vars_
    PROVE  [Abstract!Next]_(Abstract!specVars)
<1> TypeOK /\ TypeOK'
  BY DEF IInv
<1>1. CASE Run
  BY <1>1, RunSteps DEF Abstract!Next
<1>2. CASE StartFree
  BY <1>2, StartFreeSteps DEF Abstract!Next
<1>3. CASE EndCollect
  BY <1>3, EndCollectSteps DEF Abstract!Next
<1>4. CASE FinalizeBlock
  BY <1>4, FinalizeBlockStutters
<1>5. CASE FreeBlock
  BY <1>5, FreeBlockStutters
<1>6. CASE RunFinalizers
  BY <1>6, RunFinalizersStutters
<1>7. CASE \/ StartCollect \/ MarkVariable \/ StartRegisters \/ MarkRegister
           \/ StartTrace \/ SwapRoots \/ TraceRoot \/ CollectUnmarked \/ StartRetrace
  <2>1. /\ phase \notin {"free", "callbacks"} /\ phase' \notin {"free", "callbacks"}
        /\ UNCHANGED <<mutatorVars, queued>>
    BY <1>7 DEF StartCollect, MarkVariable, StartRegisters, MarkRegister,
         StartTrace, SwapRoots, TraceRoot, CollectUnmarked, StartRetrace
  <2>2. Open => Open'
    BY <1>7 DEF StartCollect, MarkVariable, StartRegisters, MarkRegister,
         StartTrace, SwapRoots, TraceRoot, CollectUnmarked, StartRetrace, Open
  <2>3. ~Open => Queue = {}
    BY <2>1 DEF Open, IInv, QueueKept, TypeOK
  <2> QED
    BY <2>1, <2>2, <2>3, MarkStutters
<1>8. CASE UNCHANGED vars_
  BY <1>8 DEF vars_, mutatorVars, cycleVars, Abstract!specVars, Abstract!mutatorVars,
              Open, Doomed, Released, Queue
<1> QED
  BY <1>1, <1>2, <1>3, <1>4, <1>5, <1>6, <1>7, <1>8 DEF Next, Collector

-----------------------------------------------------------------------------
(* Marking, FinalizePending, the second marking and FreePending together
   free exactly the blocks that GcSpec!Collect frees: those that no variable,
   register word or object to be finalized leads to, none that is needed and
   none left out; and they queue each finalizer it queues, once.          *)
THEOREM CycleImplements == TaggedShapes => (Spec => Implements)
<1> SUFFICES ASSUME TaggedShapes PROVE Spec => Implements
  OBVIOUS
<1>1. Spec => []IInv
  BY CycleInvariant
<1>2. Init /\ IInv => Abstract!Init /\ Exact
  BY InitAbstract, InitExact DEF IInv
<1>3. IInv /\ Exact /\ [Next]_vars_ => Exact'
  BY NextExact
<1>4. IInv /\ IInv' /\ Exact /\ [Next]_vars_ => [Abstract!Next]_(Abstract!specVars)
  BY StepAbstract
<1> QED
  BY <1>1, <1>2, <1>3, <1>4, PTL DEF Spec, Implements, Abstract!Spec
=============================================================================
