----------------------------- MODULE ObjectPools ------------------------------
(***************************************************************************)
(* The memory under the garbage collector (NULLC/StdLib.cpp): AllocObject, *)
(* the ObjectBlockPools of small blocks, the tree of big blocks, the limits*)
(* that start a collection, and the lookups GetBasePointer that lead from  *)
(* any address back to the block it lies in.                               *)
(*                                                                         *)
(* Addresses are numbers of bytes.  A page of a pool is                    *)
(*     padding, count blocks of elem bytes, next                           *)
(* and a block starts with its marker.  A big block is                     *)
(*     size, marker, data.                                                 *)
(* Which objects are garbage is GcCycle's matter: any set of them is here. *)
(***************************************************************************)
EXTENDS Integers, FiniteSets, SequencesExt

CONSTANTS Pools,       \* pool 1, 2, ... : [elem: block size, count: blocks in a page]
          Slots,       \* addresses the system's allocator can give out
          Room,        \* bound: no page or big block is longer
          Sizes,       \* object sizes that programs ask for
          BaseMinimum, \* collectableMinimum at the start (1 Mb)
          Limit,       \* globalMemoryLimit at the start
          Limits,      \* limits a host may set later
          Grain        \* programs take addresses of parts this far apart

MarkerSize == 8    \* sizeof(markerType), 64-bit build
SizeField  == 4    \* the size in front of a big block
Padding    == 16 - MarkerSize
Null       == 0

PageBytes(p) == Padding + Pools[p].elem * Pools[p].count + 8

ASSUME PoolsAssumption ==
    /\ Pools \in Seq([elem : Nat \ {0}, count : Nat \ {0}]) /\ Room \in Nat
    /\ \A p, q \in DOMAIN Pools : p < q => Pools[p].elem < Pools[q].elem
    /\ \A p \in DOMAIN Pools : PageBytes(p) <= Room
    /\ \A n \in Sizes : n \in Nat /\ SizeField + MarkerSize + n <= Room
    /\ \A a \in Slots : a \in Nat /\ a % 16 = 0 /\ a > 16
    /\ \A a, b \in Slots : a < b => a + Room + 16 < b   \* malloc's own words
    /\ BaseMinimum \in Nat /\ Limit \in Nat /\ Limits \subseteq Nat
    /\ Grain \in Nat \ {0}

VARIABLES mem,      \* pools, bigBlocks and the counters: see Memory
          objects,  \* blocks in use: the pointer handed out, the size asked for
          limit,    \* globalMemoryLimit
          enabled   \* collectionEnabled

vars == <<mem, objects, limit, enabled>>

(***************************************************************************)
(* pages:  activePages, the newest first;                                  *)
(* last:   lastNum, how many blocks of the newest page were handed out;    *)
(* sorted: sortedPages;                                                    *)
(* free:   freeBlocks, the list of freed blocks.                           *)
(***************************************************************************)
EmptyPool(p) == [pages |-> <<>>, last |-> Pools[p].count, sorted |-> <<>>, free |-> <<>>]

(***************************************************************************)
(* pools;                                                                  *)
(* big:     the bigBlocks, by start and size header;                       *)
(* used:    usedMemory;                                                    *)
(* minimum: collectableMinimum.                                            *)
(***************************************************************************)
EmptyMemory(min) == [pools |-> [p \in DOMAIN Pools |-> EmptyPool(p)],
                     big |-> {}, used |-> 0, minimum |-> min]

Init ==
    /\ mem = EmptyMemory(BaseMinimum)
    /\ objects = {}
    /\ limit = Limit
    /\ enabled = TRUE

-----------------------------------------------------------------------------
(* Allocation. *)

(* The pool for that many bytes, marker included; 0 for big blocks. *)
PoolFor(bytes) ==
    LET fit == {p \in DOMAIN Pools : bytes <= Pools[p].elem}
    IN IF fit = {} THEN 0 ELSE CHOOSE p \in fit : \A q \in fit : p <= q

(* NULLC::alignedAlloc: memory that is in use nowhere else. *)
FreeSlots(m) ==
    Slots \ ((UNION {ToSet(m.pools[p].pages) : p \in DOMAIN Pools})
             \cup {r.slot : r \in m.big})

Block(p, page, i) == page + Padding + (i - 1) * Pools[p].elem

(* Plausible bugs (names in _): each replaces the definition after it. *)

(* The page goes to the end of sortedPages. *)
Insert_last(pages, page) == Append(pages, page)

(* The new page bubbles down from the end of sortedPages, behind the pages
   that are smaller.                                                       *)
Insert(pages, page) ==
    InsertAt(pages, Cardinality({k \in DOMAIN pages : pages[k] < page}) + 1, page)

(* The blocks of the newest page are counted one too far. *)
Taken_over(pool, p, slot) ==
    IF pool.free # <<>>
    THEN [block |-> Head(pool.free), pool |-> [pool EXCEPT !.free = Tail(@)]]
    ELSE IF pool.pages = <<>> \/ pool.last = Pools[p].count + 1
    THEN [block |-> Block(p, slot, 1),
          pool  |-> [pool EXCEPT !.pages = <<slot>> \o @, !.last = 1,
                                 !.sorted = Insert(@, slot)]]
    ELSE [block |-> Block(p, Head(pool.pages), pool.last + 1),
          pool  |-> [pool EXCEPT !.last = @ + 1]]

(* The block stays in the free list. *)
Taken_shared(pool, p, slot) ==
    IF pool.free # <<>>
    THEN [block |-> Head(pool.free), pool |-> pool]
    ELSE IF pool.last = Pools[p].count
    THEN [block |-> Block(p, slot, 1),
          pool  |-> [pool EXCEPT !.pages = <<slot>> \o @, !.last = 1,
                                 !.sorted = Insert(@, slot)]]
    ELSE [block |-> Block(p, Head(pool.pages), pool.last + 1),
          pool  |-> [pool EXCEPT !.last = @ + 1]]

(* ObjectBlockPool::Alloc: a freed block, the first block of a new page, or
   the next block of the newest page.                                      *)
Taken(pool, p, slot) ==
    IF pool.free # <<>>
    THEN [block |-> Head(pool.free), pool |-> [pool EXCEPT !.free = Tail(@)]]
    ELSE IF pool.last = Pools[p].count
    THEN [block |-> Block(p, slot, 1),
          pool  |-> [pool EXCEPT !.pages = <<slot>> \o @, !.last = 1,
                                 !.sorted = Insert(@, slot)]]
    ELSE [block |-> Block(p, Head(pool.pages), pool.last + 1),
          pool  |-> [pool EXCEPT !.last = @ + 1]]

(* What usedMemory counts for an allocation. *)
RealSize(bytes) == IF PoolFor(bytes) = 0 THEN bytes ELSE Pools[PoolFor(bytes)].elem

(* A big block is placed so that its data, behind size and marker, is
   aligned to 16 bytes.                                                    *)
BigBlock(slot, bytes) ==
    [slot |-> slot, start |-> slot + 16 - SizeField - MarkerSize, size |-> bytes]

BigData(r) == r.start + SizeField + MarkerSize

(* The two results of AllocObject past its limits: the memory afterwards
   and the pointer.                                                        *)
Allocated(m, bytes, slot) ==
    LET p == PoolFor(bytes)
        r == BigBlock(slot, bytes)
        t == Taken(m.pools[p], p, slot)
    IN IF p = 0
       THEN [mem |-> [m EXCEPT !.big = @ \cup {r}, !.used = @ + RealSize(bytes)],
             ptr |-> BigData(r)]
       ELSE [mem |-> [m EXCEPT !.pools[p] = t.pool, !.used = @ + RealSize(bytes)],
             ptr |-> t.block + MarkerSize]

-----------------------------------------------------------------------------
(* Collection. *)

(* How many blocks of page k were handed out. *)
Out(pool, p, k) == IF k = 1 THEN pool.last ELSE Pools[p].count

(* The blocks of a pool in the order of CollectUnmarked. *)
Carved(pool, p) ==
    FlattenSeq([k \in DOMAIN pool.pages |->
        [i \in 1..Out(pool, p, k) |-> Block(p, pool.pages[k], i)]])

(* The entries of s that are in S. *)
Only(s, S) ==
    LET upto[n \in 0..Len(s)] ==
            IF n = 0 THEN <<>>
            ELSE IF s[n] \in S THEN Append(upto[n - 1], s[n]) ELSE upto[n - 1]
    IN upto[Len(s)]

(* The blocks that are garbage and not on the free list. *)
FreedOf(pool, p, G) ==
    Only(Carved(pool, p), {o.ptr - MarkerSize : o \in G} \ ToSet(pool.free))

(* The list of this collection replaces the blocks freed before. *)
Swept_forget(m, G) ==
    LET gone == [p \in DOMAIN Pools |-> FreedOf(m.pools[p], p, G)]
        lost == {r \in m.big : BigData(r) \in {o.ptr : o \in G}}
    IN [m EXCEPT
          !.pools = [p \in DOMAIN Pools |->
                       [m.pools[p] EXCEPT !.free = IF gone[p] = <<>> THEN @
                                                   ELSE Reverse(gone[p])]],
          !.big = @ \ lost,
          !.used = @ - FoldFunction(+, 0, [p \in DOMAIN Pools |-> Len(gone[p]) * Pools[p].elem])
                     - FoldFunction(+, 0, [r \in lost |-> r.size])]

(* FreePending for the garbage G: big blocks leave the tree, small ones are
   pushed to the free list of their pool in the order they were found.     *)
Swept(m, G) ==
    LET gone == [p \in DOMAIN Pools |-> FreedOf(m.pools[p], p, G)]
        lost == {r \in m.big : BigData(r) \in {o.ptr : o \in G}}
    IN [m EXCEPT
          !.pools = [p \in DOMAIN Pools |->
                       [m.pools[p] EXCEPT !.free = Reverse(gone[p]) \o @]],
          !.big = @ \ lost,
          !.used = @ - FoldFunction(+, 0, [p \in DOMAIN Pools |-> Len(gone[p]) * Pools[p].elem])
                     - FoldFunction(+, 0, [r \in lost |-> r.size])]

(* CollectMemory: the threshold doubles when two thirds of it stay in use. *)
Collected(m, G) ==
    IF ~enabled THEN m
    ELSE LET s == Swept(m, G)
         IN [s EXCEPT !.minimum = IF s.used + s.used \div 2 >= @ THEN 2 * @ ELSE @]

(* Whether AllocObject collects before it looks for a block. *)
MustCollect(bytes) == mem.used + bytes > limit \/ mem.used + bytes > mem.minimum

(* The second look at the limit is missing. *)
Fits_unchecked(m, bytes) == TRUE

(* After the collection the limit counts once more; without one it did. *)
Fits(m, bytes) == m.used + bytes <= limit

Garbage == IF enabled THEN SUBSET objects ELSE {{}}

(* NULLC::AllocObject, with the garbage G that a collection finds.  If the
   memory does not fit an error is thrown and the collection stays done.   *)
AllocObject ==
    \E n \in Sizes, G \in Garbage :
        LET bytes == n + MarkerSize
            m == IF MustCollect(bytes) THEN Collected(mem, G) ELSE mem
            kept == IF MustCollect(bytes) THEN objects \ G ELSE objects
        IN /\ MustCollect(bytes) \/ G = {}
           /\ IF Fits(m, bytes)
              THEN \E slot \in FreeSlots(m) :
                     LET a == Allocated(m, bytes, slot)
                     IN /\ mem' = a.mem
                        /\ objects' = kept \cup {[ptr |-> a.ptr, size |-> n]}
              ELSE mem' = m /\ objects' = kept
           /\ UNCHANGED <<limit, enabled>>

(* GC.CollectMemory, called by the program. *)
CollectMemory ==
    \E G \in Garbage :
        /\ mem' = Collected(mem, G)
        /\ objects' = objects \ G
        /\ UNCHANGED <<limit, enabled>>

SetCollectMemory ==
    /\ enabled' \in BOOLEAN
    /\ UNCHANGED <<mem, objects, limit>>

(* SetGlobalLimit *)
SetGlobalLimit ==
    \E n \in Limits :
        /\ limit' = n
        /\ mem' = [mem EXCEPT !.minimum = IF n < BaseMinimum THEN n ELSE BaseMinimum]
        /\ UNCHANGED <<objects, enabled>>

(* ClearMemory, when a program is unloaded: collectableMinimum stays. *)
ClearMemory ==
    /\ mem' = EmptyMemory(mem.minimum)
    /\ objects' = {}
    /\ enabled' = TRUE
    /\ UNCHANGED limit

Next == AllocObject \/ CollectMemory \/ SetCollectMemory \/ SetGlobalLimit \/ ClearMemory

Spec == Init /\ [][Next]_vars

(* Bound for TLC: how far the threshold may double. *)
MinimumBound == mem.minimum <= 8 * BaseMinimum

-----------------------------------------------------------------------------
(* From an address to its block. *)

(* The binary search of GetBasePointer over the pages s, counted from 0 as
   in the code; -1 stands for the search that never ends, when the address
   is that of the page it looks at.                                        *)
Search(s, a) ==
    LET At == 0..Len(s)
        f[w \in [lower : At, upper : At, at : At]] ==
            LET mid == (w.lower + w.upper) \div 2
            IN IF w.upper - w.lower <= 1 THEN w.at
               ELSE IF a < s[mid + 1] THEN f[[lower |-> w.lower, upper |-> mid, at |-> mid]]
               ELSE IF a > s[mid + 1] THEN f[[lower |-> mid, upper |-> w.upper, at |-> mid]]
               ELSE -1
    IN f[[lower |-> 0, upper |-> Len(s) - 1, at |-> 0]]

(* ObjectBlockPool::GetBasePointer *)
PoolBase(p, a) ==
    LET s == mem.pools[p].sorted
        at == Search(s, a)
        page == IF a < s[at + 1] THEN s[at]
                ELSE IF a > s[at + 1] + PageBytes(p) THEN s[at + 2]
                ELSE s[at + 1]
        from == a - (page + Padding)
    IN IF s = <<>> \/ a < s[1] \/ a > s[Len(s)] + PageBytes(p) THEN Null
       ELSE IF at = -1 \/ from < 0 \/ from > Pools[p].elem * Pools[p].count THEN Null
       ELSE page + Padding + (from \div Pools[p].elem) * Pools[p].elem + MarkerSize

(* bigBlocks.find(Range(a, a)) and the look at the size after it. *)
BigBase(a) ==
    LET hit == {r \in mem.big : r.start <= a /\ a <= r.start + r.size + SizeField}
    IN IF \E r \in hit : a <= r.start + r.size
       THEN BigData(CHOOSE r \in hit : a <= r.start + r.size)
       ELSE Null

(* NULLC::GetBasePointer: the pools from small to large, then the tree. *)
GetBasePointer(a) ==
    LET in == {p \in DOMAIN Pools : PoolBase(p, a) # Null}
    IN IF in = {} THEN BigBase(a)
       ELSE PoolBase(CHOOSE p \in in : \A q \in in : p <= q, a)

-----------------------------------------------------------------------------
Memory == [pools : Seq([pages : Seq(Slots), last : Nat, sorted : Seq(Slots), free : Seq(Nat)]),
           big : SUBSET [slot : Slots, start : Nat, size : Nat],
           used : Nat, minimum : Nat]

(* Pools, big blocks and counters keep their types; no page hands out more
   blocks than it has.                                                     *)
TypeOK ==
    /\ mem \in Memory
    /\ \A p \in DOMAIN Pools : mem.pools[p].last <= Pools[p].count
    /\ \A o \in objects : o.ptr \in Nat /\ o.size \in Sizes
    /\ limit \in Nat /\ enabled \in BOOLEAN

(* The bytes of an object, its marker included. *)
Bytes(o) == (o.ptr - MarkerSize)..(o.ptr + o.size - 1)

(* No byte belongs to two objects, whatever was freed and handed out again,
   and none to a block on a free list.                                     *)
NoOverlap ==
    /\ \A o, q \in objects : o # q => Bytes(o) \cap Bytes(q) = {}
    /\ \A o \in objects, p \in DOMAIN Pools :
          o.ptr - MarkerSize \notin ToSet(mem.pools[p].free)

(* No block is lost: each block that a page gave out is in use or on the
   free list of its pool, and there once.                                  *)
BlocksAccounted ==
    \A p \in DOMAIN Pools :
        LET pool == mem.pools[p]
        IN /\ IsInjective(pool.free)
           /\ ToSet(Carved(pool, p)) =
                ToSet(pool.free) \cup {o.ptr - MarkerSize : o \in
                    {q \in objects : PoolFor(q.size + MarkerSize) = p}}

(* usedMemory is what the objects in use take: the limits act on the truth. *)
UsedExact ==
    mem.used = FoldFunction(+, 0, [o \in objects |-> RealSize(o.size + MarkerSize)])

(* Neither a block nor a byte gets lost in the accounts of the allocator,
   through any sequence of allocations, collections and limits.            *)
Accounted == BlocksAccounted /\ UsedExact

(* Every address of a part of an object leads back to the object, so that
   marking through any pointer marks the block that holds the object.      *)
LookupExact ==
    \A o \in objects :
        /\ GetBasePointer(o.ptr) = o.ptr
        /\ \A k \in 0..(o.size - 1) :
              k % Grain = 0 => GetBasePointer(o.ptr + k) = o.ptr

(* An allocation takes usedMemory past the limit by no more than what the
   block is larger than what was asked for.                                *)
LimitKept ==
    [][mem'.used > mem.used =>
          \E o \in objects' \ objects :
              mem'.used <= limit + RealSize(o.size + MarkerSize) - (o.size + MarkerSize)]_vars
=============================================================================
