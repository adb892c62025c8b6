---------------------------- MODULE ClosuresProof -----------------------------
(***************************************************************************)
(* Proofs about Closures, for every program text, any number of contexts   *)
(* and function objects and any depth of calls, for programs that do       *)
(* nothing the lists cannot keep.                                          *)
(*                                                                         *)
(* The invariant says that a list is sorted by the depth of the calls its  *)
(* nodes come from, so that looking at its head is enough.                 *)
(***************************************************************************)
EXTENDS Closures, TLAPS, SequenceTheorems, WellFoundedInduction

Orderly == Unordered = {}

-------------------------------------------------------------------------------
(* The invariant.                                                          *)

Activation == [at : Scopes, ctx : Contexts \union {None}]

InCoroutine(s) == \E r \in Encl[s] : Kind[r] = "coroutine"

Frames ==
    /\ stack \in Seq(Activation) /\ D <= MaxDepth
    /\ suspended \in [Contexts -> Scopes \union {None}]
    /\ \A d, e \in 1..D : stack[d].ctx = stack[e].ctx => d = e \/ stack[d].ctx = None
    /\ \A d \in 1..D : stack[d].ctx # None <=> InCoroutine(stack[d].at)
    /\ \A c \in Contexts : suspended[c] # None => InCoroutine(suspended[c])

Distinct ==
    \A v, w \in Captured : \A j \in DOMAIN lists[v], k \in DOMAIN lists[w] :
        lists[v][j].id = lists[w][k].id => v = w /\ j = k

IInv ==
    /\ Frames
    /\ lists \in [Captured -> Seq(Nodes)] /\ Distinct
    /\ turns \subseteq LiveAddresses /\ copies = {}
    /\ Attached /\ Ordered

-------------------------------------------------------------------------------
(* The text of the program.                                                *)

LEMMA TreeFacts ==
    /\ \A s \in Scopes :
         /\ Encl[s] \subseteq Scopes /\ s \in Encl[s]
         /\ \A a \in Encl[s] : Encl[a] \subseteq Encl[s]
         /\ \A a, b \in Encl[s] : a \in Encl[b] \/ b \in Encl[a]
         /\ Kind[s] \in {"function", "coroutine"} <=> s \in Roots
    /\ \A s \in Roots : s \in Scopes /\ Encl[s] = {s}
    /\ \A s \in Scopes : s \notin Roots =>
         Parent[s] \in Scopes /\ Encl[s] = Encl[Parent[s]] \union {s} /\ s \notin Encl[Parent[s]]
    /\ Captured \subseteq Scopes /\ MaxDepth \in Nat /\ None \notin Scopes /\ None \notin Contexts
    /\ Body \in [Contexts -> Coroutine]
<1>1. ScopeTree /\ Captured \subseteq Scopes /\ MaxDepth \in Nat /\ None \notin Scopes
      /\ None \notin Contexts /\ Body \in [Contexts -> Coroutine]
  BY ClosuresAssumption DEF ScopeTree
<1>2. \A s \in Scopes :
         /\ Encl[s] \subseteq Scopes /\ s \in Encl[s]
         /\ \A a \in Encl[s] : Encl[a] \subseteq Encl[s]
         /\ \A a, b \in Encl[s] : a \in Encl[b] \/ b \in Encl[a]
         /\ Kind[s] \in {"function", "coroutine"} <=> s \in Roots
  <2> SUFFICES ASSUME NEW s \in Scopes
               PROVE  /\ Encl[s] \subseteq Scopes /\ s \in Encl[s]
                      /\ \A a \in Encl[s] : Encl[a] \subseteq Encl[s]
                      /\ \A a, b \in Encl[s] : a \in Encl[b] \/ b \in Encl[a]
                      /\ Kind[s] \in {"function", "coroutine"} <=> s \in Roots
    OBVIOUS
  <2>1. Encl \in [Scopes -> SUBSET Scopes]
    BY <1>1 DEF ScopeTree
  <2>2. Encl[s] \subseteq Scopes
    BY <2>1
  <2>3. s \in Encl[s]
    BY <1>1 DEF ScopeTree
  <2> QED
    BY <1>1, <2>2, <2>3 DEF ScopeTree
<1>3. \A s \in Roots : s \in Scopes /\ Encl[s] = {s}
  BY <1>1 DEF ScopeTree, Roots
<1>4. \A s \in Scopes : s \notin Roots =>
         Parent[s] \in Scopes /\ Encl[s] = Encl[Parent[s]] \union {s} /\ s \notin Encl[Parent[s]]
  BY <1>1 DEF ScopeTree, Roots
<1> QED
  BY <1>1, <1>2, <1>3, <1>4

\* the scopes of a function are in a coroutine or not together
LEMMA SameFunction ==
    ASSUME NEW s \in Scopes, NEW a \in Encl[s]
    PROVE  InCoroutine(a) <=> InCoroutine(s)
<1>1. a \in Scopes /\ Encl[a] \subseteq Encl[s]
  BY TreeFacts
<1>2. ASSUME NEW r \in Encl[s], Kind[r] = "coroutine"
      PROVE  r \in Encl[a]
  <2>1. r \in Scopes /\ r \in Roots
    BY <1>2, TreeFacts
  <2>2. a \in Encl[r] \/ r \in Encl[a]
    BY TreeFacts
  <2> QED
    BY <1>1, <2>1, <2>2, TreeFacts
<1> QED
  BY <1>1, <1>2 DEF InCoroutine

-------------------------------------------------------------------------------
(* Which variables exist.                                                  *)

AddressIn(st, d, s) ==
    IF st[d].ctx # None /\ s \notin Roots THEN InContext(st[d].ctx, s) ELSE OnStack(d, s)

InFrame(st, d, a) == \E s \in Encl[st[d].at] : a = AddressIn(st, d, s)

InWaiting(st, sus, c, a) ==
    /\ \A d \in 1..Len(st) : st[d].ctx # c
    /\ sus[c] # None /\ \E s \in Encl[sus[c]] \ Roots : a = InContext(c, s)

LiveIn(st, sus, a) ==
    \/ \E d \in 1..Len(st) : InFrame(st, d, a)
    \/ \E c \in Contexts : InWaiting(st, sus, c, a)

LEMMA LiveMeans == \A a : a \in LiveAddresses <=> LiveIn(stack, suspended, a)
<1>1. \A d, s : AddressAt(d, s) = AddressIn(stack, d, s)
  BY DEF AddressAt, AddressIn
<1>2. \A a : a \in UNION {{AddressAt(d, s) : s \in Encl[stack[d].at]} : d \in 1..D}
              <=> \E d \in 1..Len(stack) : InFrame(stack, d, a)
  BY <1>1 DEF InFrame, D
<1>3. \A c : c \in Waiting <=> /\ c \in Contexts /\ suspended[c] # None
                               /\ \A d \in 1..Len(stack) : stack[d].ctx # c
  BY DEF Waiting, Running, D
<1>4. \A a : a \in UNION {{InContext(c, s) : s \in Encl[suspended[c]] \ Roots} : c \in Waiting}
              <=> \E c \in Contexts : InWaiting(stack, suspended, c, a)
  BY <1>3 DEF InWaiting
<1> QED
  BY <1>2, <1>4 DEF LiveAddresses, LiveIn

LEMMA LiveNext == \A a : a \in LiveAddresses' <=> LiveIn(stack', suspended', a)
<1>1. (\A a : a \in LiveAddresses <=> LiveIn(stack, suspended, a))'
  BY LiveMeans, PTL
<1> QED
  BY <1>1 DEF LiveIn, InFrame, InWaiting, AddressIn

\* where a variable is follows from the function it is in
LEMMA LiveFacts ==
    Frames => \A a \in LiveAddresses :
        /\ a \in Addresses /\ a.var \in Scopes /\ a.seg \in {"stack", "context"}
        /\ a.seg = "context" <=> InCoroutine(a.var) /\ a.var \notin Roots
        /\ a.seg = "stack" => a.at \in 1..D /\ a = OnStack(a.at, a.var)
        /\ a.seg = "context" => a.at \in Contexts /\ a = InContext(a.at, a.var)
<1> SUFFICES ASSUME Frames, NEW a \in LiveAddresses
             PROVE  /\ a \in Addresses /\ a.var \in Scopes /\ a.seg \in {"stack", "context"}
                    /\ a.seg = "context" <=> InCoroutine(a.var) /\ a.var \notin Roots
                    /\ a.seg = "stack" => a.at \in 1..D /\ a = OnStack(a.at, a.var)
                    /\ a.seg = "context" => a.at \in Contexts /\ a = InContext(a.at, a.var)
  OBVIOUS
<1>1. D = Len(stack) /\ D \in Nat /\ MaxDepth \in Nat /\ D <= MaxDepth
  BY LenProperties, TreeFacts DEF Frames, D
<1>2. LiveIn(stack, suspended, a)
  BY LiveMeans
<1>3. ASSUME NEW d \in 1..D, NEW s \in Encl[stack[d].at], a = AddressIn(stack, d, s)
      PROVE  s \in Scopes /\ stack[d] \in Activation
             /\ (stack[d].ctx # None <=> InCoroutine(s))
  <2>1. stack[d] \in Activation
    BY <1>1, ElementOfSeq DEF Frames
  <2>2. stack[d].at \in Scopes
    BY <2>1 DEF Activation
  <2>3. s \in Scopes
    BY <2>2, TreeFacts
  <2>4. InCoroutine(s) <=> InCoroutine(stack[d].at)
    BY <2>2, SameFunction
  <2> QED
    BY <2>1, <2>3, <2>4 DEF Frames
<1>4. CASE \E d \in 1..D : InFrame(stack, d, a)
  <2>0. PICK d \in 1..D : InFrame(stack, d, a)
    BY <1>4
  <2>1. PICK s \in Encl[stack[d].at] : a = AddressIn(stack, d, s)
    BY <2>0 DEF InFrame
  <2>2. s \in Scopes /\ stack[d] \in Activation /\ (stack[d].ctx # None <=> InCoroutine(s))
    BY <1>3, <2>1
  <2>3. CASE stack[d].ctx # None /\ s \notin Roots
    <3>1. a = InContext(stack[d].ctx, s) /\ stack[d].ctx \in Contexts
      BY <2>1, <2>2, <2>3 DEF AddressIn, Activation
    <3> QED
      BY <2>2, <2>3, <3>1 DEF InContext, Addresses
  <2>4. CASE ~(stack[d].ctx # None /\ s \notin Roots)
    <3>1. a = OnStack(d, s) /\ d \in 1..MaxDepth
      BY <1>1, <2>1, <2>4 DEF AddressIn
    <3> QED
      BY <2>2, <2>4, <3>1 DEF OnStack, Addresses
  <2> QED
    BY <2>3, <2>4
<1>5. CASE \E c \in Contexts : InWaiting(stack, suspended, c, a)
  <2>1. PICK c \in Contexts : suspended[c] # None /\ \E s \in Encl[suspended[c]] \ Roots : a = InContext(c, s)
    BY <1>5 DEF InWaiting
  <2>2. PICK s \in Encl[suspended[c]] \ Roots : a = InContext(c, s)
    BY <2>1
  <2>3. suspended[c] \in Scopes /\ InCoroutine(suspended[c])
    BY <2>1 DEF Frames
  <2>4. s \in Scopes /\ InCoroutine(s)
    BY <2>3, TreeFacts, SameFunction
  <2> QED
    BY <2>2, <2>4 DEF InContext, Addresses
<1> QED
  BY <1>1, <1>2, <1>4, <1>5 DEF LiveIn

-------------------------------------------------------------------------------
(* NULLC::CloseUpvalue.                                                    *)

\* what is taken from the head of a list whose nodes for a come first
LEMMA CloseExact ==
    ASSUME NEW list \in Seq(Nodes), NEW a,
           \A j, k \in 1..Len(list) : j < k /\ list[k].target = a => list[j].target = a
    PROVE  \E m \in 0..Len(list) :
             /\ CloseUpvalue(list, a) \in Seq(Nodes)
             /\ Len(CloseUpvalue(list, a)) = Len(list) - m
             /\ \A i \in 1..(Len(list) - m) : CloseUpvalue(list, a)[i] = list[i + m]
             /\ \A k \in 1..Len(list) : list[k].target = a <=> k <= m
<1> DEFINE Stops == {n \in Nat : n <= Len(list) /\ (n < Len(list) => list[n + 1].target # a)}
           m == Matching(list, a)
<1>1. Len(list) \in Nat /\ Len(list) \in Stops
  BY LenProperties
<1>2. \E n \in Stops : \A x \in Stops : ~(x < n)
  <2>1. PICK n \in Stops : \A x \in Stops : ~(<<x, n>> \in OpToRel(<, Nat))
    BY <1>1, NatLessThanWellFounded, WFMin
  <2>2. \A x \in Stops : x < n => <<x, n>> \in OpToRel(<, Nat)
    BY DEF OpToRel
  <2> QED
    BY <2>1, <2>2
<1>3. PICK n \in Stops : \A x \in Stops : ~(x < n)
  BY <1>2
<1>4. \A k \in 1..n : list[k].target = a
  <2> SUFFICES ASSUME NEW k \in 1..n, list[k].target # a PROVE FALSE
    OBVIOUS
  <2>1. k - 1 \in Nat /\ k - 1 < n /\ (k - 1) + 1 = k /\ n \in Nat /\ n <= Len(list)
    BY <1>1
  <2>2. k - 1 \in Stops
    BY <1>1, <2>1
  <2> QED
    BY <1>3, <2>1, <2>2
<1>5. n \in 0..Len(list) /\ (n < Len(list) => list[n + 1].target # a)
  BY <1>1
<1> HIDE DEF Stops
<1>6. /\ m \in 0..Len(list) /\ \A k \in 1..m : list[k].target = a
      /\ m < Len(list) => list[m + 1].target # a
  BY <1>4, <1>5 DEF Matching
<1> HIDE DEF m
<1>7. \A k \in 1..Len(list) : list[k].target = a <=> k <= m
  <2> SUFFICES ASSUME NEW k \in 1..Len(list) PROVE list[k].target = a <=> k <= m
    OBVIOUS
  <2>1. CASE k <= m
    BY <1>1, <1>6, <2>1
  <2>2. CASE k = m + 1
    BY <1>1, <1>6, <2>2
  <2>3. CASE k > m + 1
    <3>1. m + 1 \in 1..Len(list) /\ m + 1 < k
      BY <1>1, <1>6, <2>3
    <3> QED
      BY <1>1, <1>6, <2>3, <3>1
  <2> QED
    BY <1>1, <1>6, <2>1, <2>2, <2>3
<1>8. /\ CloseUpvalue(list, a) = SubSeq(list, m + 1, Len(list))
      /\ m + 1 \in Int /\ Len(list) \in Int
      /\ \A i \in (m + 1)..Len(list) : list[i] \in Nodes
  BY <1>1, <1>6, ElementOfSeq DEF CloseUpvalue, m
<1>9. /\ CloseUpvalue(list, a) \in Seq(Nodes)
      /\ Len(CloseUpvalue(list, a)) = IF m + 1 <= Len(list) THEN Len(list) - (m + 1) + 1 ELSE 0
      /\ \A i \in 1..(Len(list) - (m + 1) + 1) : CloseUpvalue(list, a)[i] = list[(m + 1) + i - 1]
  BY <1>8, SubSeqProperties
<1>10. /\ Len(CloseUpvalue(list, a)) = Len(list) - m
       /\ \A i \in 1..(Len(list) - m) : CloseUpvalue(list, a)[i] = list[i + m]
  BY <1>1, <1>6, <1>9
<1> QED
  BY <1>6, <1>7, <1>9, <1>10
LEMMA RangeMeans ==
    ASSUME NEW q \in Seq(Nodes)
    PROVE  /\ DOMAIN q = 1..Len(q) /\ Len(q) \in Nat
           /\ \A n : n \in Range(q) <=> \E j \in 1..Len(q) : n = q[j]
           /\ \A j \in 1..Len(q) : q[j] \in Nodes
BY LenProperties, ElementOfSeq DEF Range

LEMMA ListFacts ==
    ASSUME IInv, NEW v \in Captured
    PROVE  /\ lists[v] \in Seq(Nodes)
           /\ \A n \in Range(lists[v]) :
                /\ n \in Nodes /\ n.target \in Open /\ n.target \in LiveAddresses
                /\ n.target.var = v /\ n.odd = (n.target \in turns)
                /\ n.target.seg \in {"stack", "context"}
<1>1. lists[v] \in Seq(Nodes)
  BY DEF IInv
<1>2. ASSUME NEW n \in Range(lists[v])
      PROVE  /\ n \in Nodes /\ n.target \in Open /\ n.target \in LiveAddresses
             /\ n.target.var = v /\ n.odd = (n.target \in turns)
             /\ n.target.seg \in {"stack", "context"}
  <2>1. n \in Nodes
    BY <1>1, RangeMeans
  <2>2. n.target \in LiveAddresses /\ n.target.var = v /\ n.odd = (n.target \in turns)
    BY DEF IInv, Attached
  <2>3. n.target \in Targets(v)
    BY DEF Targets
  <2>4. n.target \in Open
    BY <2>3 DEF Open
  <2>5. n.target.seg \in {"stack", "context"}
    BY <2>2, LiveFacts DEF IInv
  <2> QED
    BY <2>1, <2>2, <2>4, <2>5
<1> QED
  BY <1>1, <1>2

\* when nothing ends, what nodes point to goes on
LEMMA StillLive == IInv => Open \subseteq LiveAddresses
<1> SUFFICES ASSUME IInv, NEW a \in Open PROVE a \in LiveAddresses
  OBVIOUS
<1>1. PICK v \in Captured : a \in Targets(v)
  BY DEF Open
<1> QED
  BY <1>1, ListFacts DEF Targets

\* the addresses of the innermost activation
LEMMA AddressFacts ==
    ASSUME Frames, D > 0
    PROVE  /\ D = Len(stack) /\ D \in Nat /\ D \in 1..D /\ Top \in Activation /\ At \in Scopes
           /\ stack[D] = Top
           /\ \A s : Address(s) = IF Top.ctx # None /\ s \notin Roots
                                  THEN InContext(Top.ctx, s) ELSE OnStack(D, s)
           /\ \A s : Address(s).var = s
           /\ \A s \in Encl[At] : Address(s) \in LiveAddresses
<1>1. D = Len(stack) /\ D \in Nat /\ D \in 1..D /\ stack[D] = Top
  BY LenProperties DEF Frames, D, Top
<1>2. Top \in Activation /\ At \in Scopes
  <2>1. Top \in Activation
    BY <1>1, ElementOfSeq DEF Frames
  <2> QED
    BY <2>1 DEF At, Activation
<1>3. \A s : Address(s) = IF Top.ctx # None /\ s \notin Roots
                          THEN InContext(Top.ctx, s) ELSE OnStack(D, s)
  BY DEF Address, AddressAt, Top
<1>4. \A s : Address(s).var = s
  BY <1>3 DEF InContext, OnStack
<1>5. \A s \in Encl[At] : Address(s) \in LiveAddresses
  <2>1. \A s \in Encl[At] : InFrame(stack, D, Address(s))
    BY <1>1, <1>3 DEF InFrame, AddressIn, At
  <2> QED
    BY <1>1, <2>1, LiveMeans DEF LiveIn
<1> QED
  BY <1>1, <1>2, <1>3, <1>4, <1>5

-------------------------------------------------------------------------------
(* Steps of Lexical.                                                       *)

AllVars == {Variable(a, odd) : a \in Addresses, odd \in BOOLEAN}

LiveVars == {Variable(a, a \in turns) : a \in LiveAddresses}

Seen(n) == [id |-> n.id, variable |-> Variable(n.target, n.odd)]

OpenVars == {Seen(n) : n \in {m \in UNION {Range(lists[v]) : v \in Captured} : m.target.seg # "copy"}}

LEMMA SharesMeans ==
    /\ Shares!Pass <=> /\ LiveVars' \in SUBSET AllVars
                       /\ OpenVars' = {x \in OpenVars : x.variable \in LiveVars'}
    /\ Shares!Init <=> LiveVars = {} /\ OpenVars = {}
    /\ Shares!Capture <=> /\ LiveVars' = LiveVars
                          /\ \E id \in Ids, v \in LiveVars :
                               /\ \A x \in OpenVars : x.id # id
                               /\ OpenVars' = OpenVars \union {[id |-> id, variable |-> v]}
BY DEF Shares!Pass, Shares!Init, Shares!Capture, AllVars, LiveVars, OpenVars, Seen

LEMMA OpenMeans == IInv => \A x : x \in OpenVars <=> \E v \in Captured : \E n \in Range(lists[v]) : x = Seen(n)
<1> SUFFICES ASSUME IInv, NEW x
             PROVE  x \in OpenVars <=> \E v \in Captured : \E n \in Range(lists[v]) : x = Seen(n)
  OBVIOUS
<1>1. \A v \in Captured : \A n \in Range(lists[v]) : n.target.seg # "copy"
  BY ListFacts
<1> QED
  BY <1>1 DEF OpenVars

LEMMA OpenNext ==
    IInv' => \A x : x \in OpenVars' <=> \E v \in Captured : \E n \in Range(lists'[v]) : x = Seen(n)
<1>1. (IInv => \A x : x \in OpenVars <=> \E v \in Captured : \E n \in Range(lists[v]) : x = Seen(n))'
  BY OpenMeans, PTL
<1> QED
  BY <1>1 DEF Seen, Variable

LEMMA LiveTyped == IInv => LiveVars \in SUBSET AllVars
<1> SUFFICES ASSUME IInv, NEW a \in LiveAddresses
             PROVE  Variable(a, a \in turns) \in AllVars
  BY DEF LiveVars
<1>1. a \in Addresses
  BY LiveFacts DEF IInv
<1>2. (a \in turns) \in BOOLEAN
  OBVIOUS
<1>3. \A odd \in BOOLEAN : Variable(a, odd) \in AllVars
  BY <1>1 DEF AllVars
<1> QED
  BY <1>2, <1>3, Zenon

\* variables begin and end, and what still shares one is what did before
LEMMA PassStep ==
    ASSUME IInv, IInv',
           \A v \in Captured : \A n \in Range(lists'[v]) : n \in Range(lists[v]),
           \A v \in Captured : \A n \in Range(lists[v]) :
               Variable(n.target, n.odd) \in LiveVars' => n \in Range(lists'[v])
    PROVE  Shares!Pass
<1>1. LiveVars' \in SUBSET AllVars
  <2>1. (IInv => LiveVars \in SUBSET AllVars)'
    BY LiveTyped, PTL
  <2> QED
    BY <2>1 DEF AllVars, Addresses
<1>2. \A v \in Captured : \A n \in Range(lists'[v]) : Variable(n.target, n.odd) \in LiveVars'
  <2> SUFFICES ASSUME NEW v \in Captured, NEW n \in Range(lists'[v])
               PROVE  Variable(n.target, n.odd) \in LiveVars'
    OBVIOUS
  <2>1. n.target \in LiveAddresses' /\ n.odd = (n.target \in turns')
    BY DEF IInv, Attached
  <2>2. LiveVars' = {Variable(a, a \in turns') : a \in LiveAddresses'}
    BY DEF LiveVars, Variable
  <2>3. Variable(n.target, n.odd) = Variable(n.target, n.target \in turns')
    BY <2>1
  <2>4. Variable(n.target, n.target \in turns') \in LiveVars'
    BY <2>1, <2>2
  <2> QED
    BY <2>3, <2>4
<1>3. \A n : Seen(n).variable = Variable(n.target, n.odd)
  BY DEF Seen
<1>4. ASSUME NEW x PROVE x \in OpenVars' <=> x \in OpenVars /\ x.variable \in LiveVars'
  <2>1. ASSUME x \in OpenVars'
        PROVE  x \in OpenVars /\ x.variable \in LiveVars'
    <3>1. PICK v \in Captured : \E n \in Range(lists'[v]) : x = Seen(n)
      BY <2>1, OpenNext
    <3>2. PICK n \in Range(lists'[v]) : x = Seen(n)
      BY <3>1
    <3>3. n \in Range(lists[v])
      BY <3>2
    <3> QED
      BY <1>2, <1>3, <3>2, <3>3, OpenMeans
  <2>2. ASSUME x \in OpenVars, x.variable \in LiveVars'
        PROVE  x \in OpenVars'
    <3>1. PICK v \in Captured : \E n \in Range(lists[v]) : x = Seen(n)
      BY <2>2, OpenMeans
    <3>2. PICK n \in Range(lists[v]) : x = Seen(n)
      BY <3>1
    <3>3. n \in Range(lists'[v])
      BY <1>3, <2>2, <3>2
    <3> QED
      BY <3>2, <3>3, OpenNext
  <2> QED
    BY <2>1, <2>2
<1> QED
  BY <1>1, <1>4, SharesMeans

\* the lists stay as they are, and so does what their nodes point to
LEMMA ListsKept ==
    ASSUME IInv, UNCHANGED <<lists, copies>>, Frames', turns' \subseteq LiveAddresses',
           \A a \in Open : a \in LiveAddresses' /\ (a \in turns' <=> a \in turns)
    PROVE  IInv' /\ Shares!Pass
<1>1. Attached'
  <2>1. ASSUME NEW v \in Captured, NEW n \in Range(lists[v])
        PROVE  n.target \in LiveAddresses' /\ n.target.var = v /\ n.odd = (n.target \in turns')
    BY ListFacts
  <2> QED
    BY <2>1 DEF Attached
<1>2. IInv'
  BY <1>1 DEF IInv, Distinct, Ordered
<1>3. \A v \in Captured : Range(lists'[v]) = Range(lists[v])
  OBVIOUS
<1> QED
  BY <1>2, <1>3, PassStep
-------------------------------------------------------------------------------
(* Closing variables.                                                      *)

\* nodes for the innermost call's variable are in front of all others
LEMMA NodesInFront ==
    ASSUME IInv, D > 0, NEW v \in Captured
    PROVE  \A j, k \in 1..Len(lists[v]) :
             j < k /\ lists[v][k].target = Address(v) => lists[v][j].target = Address(v)
<1> SUFFICES ASSUME NEW j \in 1..Len(lists[v]), NEW k \in 1..Len(lists[v]), j < k,
                    lists[v][k].target = Address(v), lists[v][j].target # Address(v)
             PROVE  FALSE
  OBVIOUS
<1>1. DOMAIN lists[v] = 1..Len(lists[v]) /\ lists[v][j] \in Range(lists[v])
  BY ListFacts, RangeMeans
<1>2. /\ lists[v][j].target.seg = "stack" /\ lists[v][k].target.seg = "stack"
      /\ lists[v][j].target.at > lists[v][k].target.at
  BY <1>1 DEF IInv, Ordered
<1>3. lists[v][k].target.at = D
  BY <1>2, AddressFacts DEF IInv, InContext, OnStack
<1>4. lists[v][j].target.at \in 1..D /\ D \in Nat
  BY <1>1, <1>2, ListFacts, LiveFacts, AddressFacts DEF IInv
<1> QED
  BY <1>2, <1>3, <1>4

\* the first m nodes of v's list are taken out
Dropped(v, m) ==
    /\ m \in 0..Len(lists[v])
    /\ lists'[v] \in Seq(Nodes) /\ Len(lists'[v]) = Len(lists[v]) - m
    /\ \A i \in 1..Len(lists'[v]) : lists'[v][i] = lists[v][i + m]

LEMMA DroppedFacts ==
    ASSUME NEW v \in Captured, NEW m, Dropped(v, m), lists[v] \in Seq(Nodes),
           NEW j \in DOMAIN lists'[v]
    PROVE  /\ j \in Nat /\ m \in Nat /\ j + m \in DOMAIN lists[v]
           /\ lists'[v][j] = lists[v][j + m]
<1>1. /\ Len(lists[v]) \in Nat /\ DOMAIN lists[v] = 1..Len(lists[v])
      /\ DOMAIN lists'[v] = 1..Len(lists'[v])
  BY RangeMeans DEF Dropped
<1>2. /\ m \in Nat /\ m <= Len(lists[v]) /\ Len(lists'[v]) = Len(lists[v]) - m
      /\ j \in Nat /\ 1 <= j /\ j <= Len(lists'[v])
  BY <1>1 DEF Dropped
<1>3. j + m \in 1..Len(lists[v])
  BY <1>1, <1>2
<1>4. lists'[v][j] = lists[v][j + m]
  BY <1>1 DEF Dropped
<1> QED
  BY <1>1, <1>2, <1>3, <1>4

LEMMA ListsClosed ==
    ASSUME IInv, Orderly, D > 0, NEW gone, CloseScopes(gone),
           Frames', turns' \subseteq LiveAddresses',
           \A a \in Open : (\E s \in gone : a = Address(s)) \/ (a \in LiveAddresses' /\ (a \in turns' <=> a \in turns)),
           \A s \in gone : Address(s) \in LiveAddresses' =>
               ~(Address(s) \in turns' <=> Address(s) \in turns)
    PROVE  IInv' /\ Shares!Pass
<1> DEFINE closed(v, n) == v \in gone /\ n.target = Address(v)
<1>0. \A v \in Captured : lists[v] \in Seq(Nodes) /\ Len(lists[v]) \in Nat
                          /\ DOMAIN lists[v] = 1..Len(lists[v])
  BY ListFacts, RangeMeans
<1>1. \A v \in Captured : \E m : Dropped(v, m) /\ \A k \in 1..Len(lists[v]) : closed(v, lists[v][k]) <=> k <= m
  <2> SUFFICES ASSUME NEW v \in Captured
               PROVE  \E m : Dropped(v, m) /\ \A k \in 1..Len(lists[v]) : closed(v, lists[v][k]) <=> k <= m
    OBVIOUS
  <2>1. CASE v \in gone
    <3>1. lists'[v] = CloseUpvalue(lists[v], Address(v))
      BY <2>1 DEF CloseScopes
    <3>2. PICK m \in 0..Len(lists[v]) :
             /\ CloseUpvalue(lists[v], Address(v)) \in Seq(Nodes)
             /\ Len(CloseUpvalue(lists[v], Address(v))) = Len(lists[v]) - m
             /\ \A i \in 1..(Len(lists[v]) - m) : CloseUpvalue(lists[v], Address(v))[i] = lists[v][i + m]
             /\ \A k \in 1..Len(lists[v]) : lists[v][k].target = Address(v) <=> k <= m
      <4>1. \A j, k \in 1..Len(lists[v]) :
              j < k /\ lists[v][k].target = Address(v) => lists[v][j].target = Address(v)
        BY NodesInFront
      <4> HIDE DEF closed
      <4> QED
        BY <1>0, <4>1, CloseExact
    <3>3. Dropped(v, m)
      BY <3>1, <3>2 DEF Dropped
    <3> QED
      BY <2>1, <3>2, <3>3
  <2>2. CASE v \notin gone
    <3>1. lists'[v] = lists[v]
      BY <2>2 DEF CloseScopes
    <3>2. Dropped(v, 0)
      BY <1>0, <3>1 DEF Dropped
    <3>3. \A k \in 1..Len(lists[v]) : ~(k <= 0)
      BY <1>0
    <3> QED
      BY <2>2, <3>2, <3>3
  <2> QED
    BY <2>1, <2>2
<1>2. lists' \in [Captured -> Seq(Nodes)]
  <2>1. \A v \in Captured : lists'[v] \in Seq(Nodes)
    BY <1>1 DEF Dropped
  <2> QED
    BY <2>1 DEF CloseScopes
<1>3. \A v \in Captured : \A n :
        n \in Range(lists'[v]) <=> n \in Range(lists[v]) /\ ~closed(v, n)
  <2> SUFFICES ASSUME NEW v \in Captured, NEW n
               PROVE  n \in Range(lists'[v]) <=> n \in Range(lists[v]) /\ ~closed(v, n)
    OBVIOUS
  <2>1. PICK m : Dropped(v, m) /\ \A k \in 1..Len(lists[v]) : closed(v, lists[v][k]) <=> k <= m
    BY <1>1
  <2> HIDE DEF closed
  <2>2. /\ n \in Range(lists[v]) <=> \E k \in 1..Len(lists[v]) : n = lists[v][k]
        /\ n \in Range(lists'[v]) <=> \E i \in 1..Len(lists'[v]) : n = lists'[v][i]
    BY <1>0, <1>2, RangeMeans
  <2>3. m \in Nat /\ m <= Len(lists[v]) /\ Len(lists[v]) \in Nat /\ Len(lists'[v]) = Len(lists[v]) - m
    BY <1>0, <2>1 DEF Dropped
  <2>4. ASSUME NEW i \in 1..Len(lists'[v])
        PROVE  i + m \in 1..Len(lists[v]) /\ lists'[v][i] = lists[v][i + m] /\ ~closed(v, lists[v][i + m])
    <3>1. i + m \in 1..Len(lists[v]) /\ ~(i + m <= m)
      BY <2>3
    <3> QED
      BY <2>1, <3>1 DEF Dropped
  <2>5. ASSUME NEW k \in 1..Len(lists[v]), ~closed(v, lists[v][k])
        PROVE  k - m \in 1..Len(lists'[v]) /\ lists'[v][k - m] = lists[v][k]
    <3>1. ~(k <= m)
      BY <2>1, <2>5
    <3>2. k - m \in 1..Len(lists'[v]) /\ (k - m) + m = k
      BY <2>3, <3>1
    <3> QED
      BY <2>1, <3>2 DEF Dropped
  <2> QED
    BY <2>2, <2>4, <2>5
<1>4. Attached'
  <2> SUFFICES ASSUME NEW v \in Captured, NEW n \in Range(lists'[v])
               PROVE  n.target \in LiveAddresses' /\ n.target.var = v /\ n.odd = (n.target \in turns')
    BY DEF Attached
  <2>1. n \in Range(lists[v]) /\ ~(v \in gone /\ n.target = Address(v))
    BY <1>3
  <2>2. n.target \in Open /\ n.target.var = v /\ n.odd = (n.target \in turns)
    BY <2>1, ListFacts
  <2>3. \A s : n.target = Address(s) => s = v
    BY <2>2, AddressFacts DEF IInv
  <2>4. n.target \in LiveAddresses' /\ (n.target \in turns' <=> n.target \in turns)
    BY <2>1, <2>2, <2>3
  <2> QED
    BY <2>2, <2>4
<1> HIDE DEF closed
<1>5. Distinct'
  <2> SUFFICES ASSUME NEW v \in Captured, NEW w \in Captured,
                      NEW j \in DOMAIN lists'[v], NEW k \in DOMAIN lists'[w],
                      lists'[v][j].id = lists'[w][k].id
               PROVE  v = w /\ j = k
    BY DEF Distinct
  <2>1. PICK m : Dropped(v, m) /\ (v = w => Dropped(w, m))
    BY <1>1
  <2>2. PICK n : Dropped(w, n) /\ (v = w => n = m)
    BY <1>1, <2>1
  <2>4. /\ j + m \in DOMAIN lists[v] /\ lists'[v][j] = lists[v][j + m]
        /\ k + n \in DOMAIN lists[w] /\ lists'[w][k] = lists[w][k + n]
    BY <1>0, <2>1, <2>2, DroppedFacts
  <2>5. v = w /\ j + m = k + n
    BY <2>4 DEF IInv, Distinct
  <2>6. m \in Nat /\ n \in Nat /\ j \in Nat /\ k \in Nat
    BY <1>0, <2>1, <2>2, DroppedFacts
  <2> QED
    BY <2>2, <2>5, <2>6
<1>6. Ordered'
  <2> SUFFICES ASSUME NEW v \in Captured, NEW j \in DOMAIN lists'[v], NEW k \in DOMAIN lists'[v], j < k,
                      NEW near, near = lists'[v][j].target, NEW far, far = lists'[v][k].target
               PROVE  near = far \/ (near.seg = "stack" /\ far.seg = "stack" /\ near.at > far.at)
    BY DEF Ordered
  <2>1. PICK m : Dropped(v, m)
    BY <1>1
  <2>3. /\ j + m \in DOMAIN lists[v] /\ lists'[v][j] = lists[v][j + m]
        /\ k + m \in DOMAIN lists[v] /\ lists'[v][k] = lists[v][k + m]
        /\ j \in Nat /\ k \in Nat /\ m \in Nat
    BY <1>0, <2>1, DroppedFacts
  <2>4. j + m < k + m
    BY <2>3
  <2> QED
    BY <2>3, <2>4 DEF IInv, Ordered
<1>7. copies' = {}
  BY DEF CloseScopes, IInv, Orderly
<1>8. IInv'
  BY <1>2, <1>4, <1>5, <1>6, <1>7 DEF IInv
<1>9. \A v \in Captured : \A n \in Range(lists[v]) :
        Variable(n.target, n.odd) \in LiveVars' => n \in Range(lists'[v])
  <2> SUFFICES ASSUME NEW v \in Captured, NEW n \in Range(lists[v]), n \notin Range(lists'[v]),
                      Variable(n.target, n.odd) \in LiveVars'
               PROVE  FALSE
    OBVIOUS
  <2>1. v \in gone /\ n.target = Address(v)
    BY <1>3 DEF closed
  <2>2. PICK a \in LiveAddresses' : Variable(n.target, n.odd) = Variable(a, a \in turns')
    BY DEF LiveVars, Variable
  <2>3. a = n.target /\ (a \in turns') = n.odd
    BY <2>2 DEF Variable
  <2>4. n.odd = (n.target \in turns)
    BY ListFacts
  <2>5. a \in turns' <=> a \in turns
    BY <2>3, <2>4
  <2> QED
    BY <2>1, <2>3, <2>5
<1> QED
  BY <1>3, <1>8, <1>9, PassStep
-------------------------------------------------------------------------------
(* Moving in a function.                                                   *)

\* the variables that exist change with the scopes of the innermost activation
LEMMA GotoLive ==
    ASSUME Frames, D > 0, NEW s \in Scopes, InCoroutine(s) <=> InCoroutine(At), Goto(s)
    PROVE  /\ Frames'
           /\ \A a : a \in LiveAddresses' <=>
                \/ a \in LiveAddresses /\ \A t \in Encl[At] : a # Address(t)
                \/ \E t \in Encl[s] : a = Address(t)
<1>1. /\ D = Len(stack) /\ D \in Nat /\ D \in 1..D /\ stack[D] = Top /\ Top \in Activation
      /\ stack \in Seq(Activation)
  BY AddressFacts DEF Frames
<1>2. /\ stack' = [stack EXCEPT ![D] = [Top EXCEPT !.at = s]] /\ suspended' = suspended
      /\ [Top EXCEPT !.at = s] \in Activation
  BY <1>1 DEF Goto, Activation
<1>3. /\ stack' \in Seq(Activation) /\ Len(stack') = D
      /\ \A d \in 1..D : stack'[d] = IF d = D THEN [Top EXCEPT !.at = s] ELSE stack[d]
  BY <1>1, <1>2, ExceptSeq
<1>4. /\ stack'[D].at = s /\ D' = D
      /\ \A d \in 1..D : stack'[d].ctx = stack[d].ctx
      /\ \A d \in 1..D : d # D => stack'[d] = stack[d]
  BY <1>1, <1>3 DEF Activation, D
<1>5. Frames'
  <2>1. \A d \in 1..D : stack'[d].ctx # None <=> InCoroutine(stack'[d].at)
    BY <1>1, <1>4 DEF Frames, At
  <2> QED
    BY <1>2, <1>3, <1>4, <2>1 DEF Frames, InCoroutine
<1>6. \A d \in 1..D : \A t : AddressIn(stack', d, t) = AddressIn(stack, d, t)
  BY <1>4 DEF AddressIn
<1>7. \A t : AddressIn(stack, D, t) = Address(t)
  BY <1>1, AddressFacts DEF AddressIn
<1>8. \A a : InFrame(stack', D, a) <=> \E t \in Encl[s] : a = Address(t)
  BY <1>1, <1>4, <1>6, <1>7 DEF InFrame
<1>9. \A a : InFrame(stack, D, a) <=> \E t \in Encl[At] : a = Address(t)
  BY <1>1, <1>7 DEF InFrame, At
<1>10. \A d \in 1..D : d # D => \A a : InFrame(stack', d, a) <=> InFrame(stack, d, a)
  BY <1>4, <1>6 DEF InFrame
<1>11. \A c, a : InWaiting(stack', suspended', c, a) <=> InWaiting(stack, suspended, c, a)
  BY <1>1, <1>2, <1>3, <1>4 DEF InWaiting
<1>12. \A d \in 1..D : d # D => \A a : InFrame(stack, d, a) => \A t \in Encl[At] : a # Address(t)
  <2> SUFFICES ASSUME NEW d \in 1..D, d # D, NEW u, NEW t, AddressIn(stack, d, u) = Address(t)
               PROVE  FALSE
    BY DEF InFrame
  <2>1. \/ AddressIn(stack, d, u) = OnStack(d, u)
        \/ stack[d].ctx # None /\ AddressIn(stack, d, u) = InContext(stack[d].ctx, u)
    BY DEF AddressIn
  <2>2. \/ Address(t) = OnStack(D, t)
        \/ stack[D].ctx # None /\ Address(t) = InContext(stack[D].ctx, t)
    BY <1>1, AddressFacts
  <2>3. stack[d].ctx = stack[D].ctx => stack[d].ctx = None
    BY <1>1 DEF Frames
  <2> QED
    BY <2>1, <2>2, <2>3 DEF OnStack, InContext
<1>13. \A c, a : InWaiting(stack, suspended, c, a) => \A t \in Encl[At] : a # Address(t)
  <2> SUFFICES ASSUME NEW c, NEW u, NEW t, \A d \in 1..Len(stack) : stack[d].ctx # c,
                      InContext(c, u) = Address(t)
               PROVE  FALSE
    BY DEF InWaiting
  <2>1. \/ Address(t) = OnStack(D, t) \/ Address(t) = InContext(stack[D].ctx, t)
    BY <1>1, AddressFacts
  <2> QED
    BY <1>1, <2>1 DEF OnStack, InContext
<1>14. ASSUME NEW a
       PROVE  a \in LiveAddresses' <=>
                \/ a \in LiveAddresses /\ \A t \in Encl[At] : a # Address(t)
                \/ \E t \in Encl[s] : a = Address(t)
  <2>1. a \in LiveAddresses' <=> \/ \E d \in 1..D : InFrame(stack', d, a)
                                 \/ \E c \in Contexts : InWaiting(stack', suspended', c, a)
    BY <1>3, LiveNext DEF LiveIn
  <2>2. a \in LiveAddresses <=> \/ \E d \in 1..D : InFrame(stack, d, a)
                                \/ \E c \in Contexts : InWaiting(stack, suspended, c, a)
    BY <1>1, LiveMeans DEF LiveIn
  <2> QED
    BY <1>1, <1>8, <1>9, <1>10, <1>11, <1>12, <1>13, <2>1, <2>2
<1> QED
  BY <1>5, <1>14

LEMMA RenewMeans ==
    ASSUME NEW loops, Renew(loops)
    PROVE  /\ turns' \subseteq LiveAddresses'
           /\ \A a \in LiveAddresses' :
                /\ (\E l \in loops : a = Address(l)) => (a \in turns' <=> a \notin turns)
                /\ (\A l \in loops : a # Address(l)) => (a \in turns' <=> a \in turns)
<1> DEFINE again == {Address(l) : l \in loops}
<1>1. turns' = ((turns \ again) \union (again \ turns)) \intersect LiveAddresses'
  BY DEF Renew
<1>2. \A a : a \in again <=> \E l \in loops : a = Address(l)
  OBVIOUS
<1> HIDE DEF again
<1>3. turns' \subseteq LiveAddresses'
  BY <1>1
<1>4. ASSUME NEW a \in LiveAddresses', \E l \in loops : a = Address(l)
      PROVE  a \in turns' <=> a \notin turns
  <2>1. a \in again
    BY <1>2, <1>4
  <2> QED
    BY <1>1, <2>1
<1>5. ASSUME NEW a \in LiveAddresses', \A l \in loops : a # Address(l)
      PROVE  a \in turns' <=> a \in turns
  <2>1. a \notin again
    BY <1>2, <1>5
  <2> QED
    BY <1>1, <2>1
<1> QED
  BY <1>3, <1>4, <1>5

\* a jump to a scope around, with all the variables closed that end
LEMMA JumpStep ==
    ASSUME IInv, Orderly, D > 0, NEW s \in Encl[At], NEW gone \in SUBSET Encl[At],
           NEW loops \in SUBSET gone, Goto(s), CloseScopes(gone), Renew(loops),
           \A t \in Encl[At] : t \in gone \/ t \in Encl[s] \/ Address(t) \notin Open,
           \A t \in gone : t \in loops \/ t \notin Encl[s]
    PROVE  IInv' /\ Shares!Pass
<1>1. /\ At \in Scopes /\ s \in Scopes /\ Encl[s] \subseteq Encl[At]
      /\ InCoroutine(s) <=> InCoroutine(At)
  BY AddressFacts, TreeFacts, SameFunction DEF IInv
<1>2. /\ Frames'
      /\ \A a : a \in LiveAddresses' <=>
           \/ a \in LiveAddresses /\ \A t \in Encl[At] : a # Address(t)
           \/ \E t \in Encl[s] : a = Address(t)
  BY <1>1, GotoLive DEF IInv
<1>3. \A t, u : Address(t) = Address(u) => t = u
  BY AddressFacts DEF IInv
<1>4. /\ turns' \subseteq LiveAddresses'
      /\ \A a \in LiveAddresses' :
           /\ (\E l \in loops : a = Address(l)) => (a \in turns' <=> a \notin turns)
           /\ (\A l \in loops : a # Address(l)) => (a \in turns' <=> a \in turns)
  BY RenewMeans
<1>5. \A a \in Open : (\E t \in gone : a = Address(t)) \/ (a \in LiveAddresses' /\ (a \in turns' <=> a \in turns))
  <2> SUFFICES ASSUME NEW a \in Open, \A t \in gone : a # Address(t)
               PROVE  a \in LiveAddresses' /\ (a \in turns' <=> a \in turns)
    OBVIOUS
  <2>1. a \in LiveAddresses
    BY StillLive
  <2>2. a \in LiveAddresses'
    BY <1>2, <2>1
  <2> QED
    BY <1>4, <2>2
<1>6. \A t \in gone : Address(t) \in LiveAddresses' =>
        ~(Address(t) \in turns' <=> Address(t) \in turns)
  <2> SUFFICES ASSUME NEW t \in gone, Address(t) \in LiveAddresses'
               PROVE  ~(Address(t) \in turns' <=> Address(t) \in turns)
    OBVIOUS
  <2>1. t \in Encl[s]
    BY <1>2, <1>3
  <2>2. t \in loops
    BY <2>1
  <2> QED
    BY <1>4, <2>2
<1> QED
  BY <1>2, <1>4, <1>5, <1>6, ListsClosed

LEMMA EnterStep ==
    ASSUME IInv, NEW s \in Scopes, Enter(s)
    PROVE  IInv' /\ Shares!Pass
<1>1. D > 0 /\ Parent[s] = At /\ Goto(s) /\ UNCHANGED <<lists, turns, copies>>
  BY DEF Enter
<1>2. At \in Scopes /\ s \notin Roots /\ Encl[s] = Encl[At] \union {s}
  BY <1>1, AddressFacts, TreeFacts DEF IInv, Roots
<1>3. At \in Encl[s] /\ (InCoroutine(s) <=> InCoroutine(At))
  BY <1>2, TreeFacts, SameFunction
<1>4. /\ Frames'
      /\ \A a : a \in LiveAddresses' <=>
           \/ a \in LiveAddresses /\ \A t \in Encl[At] : a # Address(t)
           \/ \E t \in Encl[s] : a = Address(t)
  BY <1>1, <1>3, GotoLive DEF IInv
<1>5. LiveAddresses \subseteq LiveAddresses'
  BY <1>2, <1>4
<1> QED
  BY <1>1, <1>4, <1>5, StillLive, ListsKept DEF IInv

LEMMA EndBlockStep ==
    ASSUME IInv, Orderly, EndBlock
    PROVE  IInv' /\ Shares!Pass
<1> DEFINE s == Parent[At]
           gone == {At} \union Iterated(s)
<1>1. D > 0 /\ Kind[At] = "block" /\ CloseScopes(gone) /\ Goto(s) /\ Renew(Iterated(s))
  BY DEF EndBlock
<1>2. At \in Scopes /\ At \notin Roots
  BY <1>1, AddressFacts, TreeFacts DEF IInv
<1>3. s \in Scopes /\ Encl[At] = Encl[s] \union {At} /\ At \notin Encl[s] /\ s \in Encl[s]
  BY <1>2, TreeFacts
<1>4. gone \in SUBSET Encl[At] /\ Iterated(s) \in SUBSET gone /\ s \in Encl[At]
  BY <1>2, <1>3, TreeFacts DEF Iterated
<1>5. \A t \in Encl[At] : t \in gone \/ t \in Encl[s]
  BY <1>3
<1>6. \A t \in gone : t \in Iterated(s) \/ t \notin Encl[s]
  BY <1>3
<1> HIDE DEF gone, s
<1> QED
  BY <1>1, <1>4, <1>5, <1>6, JumpStep

LEMMA EndLoopStep ==
    ASSUME IInv, Orderly, EndLoop
    PROVE  IInv' /\ Shares!Pass
<1> DEFINE s == Parent[At]
           gone == Iterated(s)
<1>1. /\ D > 0 /\ At \in Breakable /\ CloseScopes(gone) /\ Goto(s) /\ Renew(gone)
      /\ Address(At) \notin Open
  BY DEF EndLoop, Orderly
<1>2. At \in Scopes /\ At \notin Roots
  BY <1>1, AddressFacts, TreeFacts DEF IInv, Breakable
<1>3. s \in Scopes /\ Encl[At] = Encl[s] \union {At} /\ At \notin Encl[s] /\ s \in Encl[s]
  BY <1>2, TreeFacts
<1>4. gone \in SUBSET Encl[At] /\ gone \in SUBSET gone /\ s \in Encl[At]
  BY <1>2, <1>3, TreeFacts DEF Iterated
<1>5. \A t \in Encl[At] : t \in gone \/ t \in Encl[s] \/ Address(t) \notin Open
  BY <1>1, <1>3
<1> HIDE DEF gone, s
<1> QED
  BY <1>1, <1>4, <1>5, JumpStep

LEMMA DepthFacts ==
    ASSUME NEW s \in Scopes, NEW l \in Encl[s]
    PROVE  /\ l \in Scopes /\ BreakDepth[s] \in Nat /\ BreakDepth[l] \in Nat
           /\ ContinueDepth[s] \in Nat /\ ContinueDepth[l] \in Nat
           /\ \A t \in Encl[s] : t \in Encl[l] \/ (l \in Encl[t] /\ t \in Scopes)
           /\ \A t \in Encl[s] : l \in Encl[t] => BreakDepth[l] <= BreakDepth[t]
                                                  /\ ContinueDepth[l] <= ContinueDepth[t]
           /\ \A t \in Encl[l] : t # l => /\ l \in Breakable => BreakDepth[t] < BreakDepth[l]
                                          /\ l \in Loops => ContinueDepth[t] < ContinueDepth[l]
           /\ \A t \in Encl[s] : BreakDepth[t] \in Nat /\ ContinueDepth[t] \in Nat
<1>1. l \in Scopes /\ Encl[s] \subseteq Scopes /\ Encl[l] \subseteq Scopes
  BY TreeFacts
<1>2. \A t \in Encl[s] : t \in Encl[l] \/ l \in Encl[t]
  BY TreeFacts
<1> QED
  BY <1>1, <1>2, ClosuresAssumption DEF LoopDepths

LEMMA BreakStep ==
    ASSUME IInv, Orderly, NEW depth \in Nat, Break(depth)
    PROVE  IInv' /\ Shares!Pass
<1>1. PICK l \in Encl[At] \intersect Breakable :
         /\ D > 0 /\ BreakDepth[l] = BreakDepth[At] + 1 - depth
         /\ CloseScopes({s \in Encl[At] : BreakDepth[s] + depth > BreakDepth[At]}
                          \union Iterated(Parent[l]))
         /\ Goto(Parent[l])
         /\ Renew(Iterated(Parent[l]))
  BY DEF Break
<1> DEFINE s == Parent[l]
           gone == {t \in Encl[At] : BreakDepth[t] + depth > BreakDepth[At]} \union Iterated(s)
<1>2. At \in Scopes /\ l \in Scopes /\ l \notin Roots /\ Encl[l] \subseteq Encl[At]
  BY <1>1, AddressFacts, TreeFacts DEF IInv, Breakable
<1>3. s \in Scopes /\ Encl[l] = Encl[s] \union {l} /\ l \notin Encl[s] /\ s \in Encl[s]
  BY <1>2, TreeFacts
<1>4. gone \in SUBSET Encl[At] /\ Iterated(s) \in SUBSET gone /\ s \in Encl[At]
  BY <1>2, <1>3 DEF Iterated
<1>5. \A t \in Encl[At] : t \in gone \/ t \in Encl[s]
  <2> SUFFICES ASSUME NEW t \in Encl[At], t \notin Encl[s] PROVE t \in gone
    OBVIOUS
  <2>1. l \in Encl[t] /\ BreakDepth[t] \in Nat
    BY <1>1, <1>2, <1>3, TreeFacts, DepthFacts
  <2>2. BreakDepth[l] <= BreakDepth[t] /\ BreakDepth[l] \in Nat /\ BreakDepth[At] \in Nat
    BY <1>1, <1>2, <2>1, DepthFacts
  <2>3. BreakDepth[t] + depth > BreakDepth[At]
    BY <1>1, <2>1, <2>2
  <2> QED
    BY <2>3
<1>6. \A t \in gone : t \in Iterated(s) \/ t \notin Encl[s]
  <2> SUFFICES ASSUME NEW t \in Encl[s], BreakDepth[t] + depth > BreakDepth[At] PROVE FALSE
    OBVIOUS
  <2>1. t \in Encl[l] /\ t # l /\ t \in Encl[At]
    BY <1>2, <1>3
  <2>2. BreakDepth[t] < BreakDepth[l] /\ BreakDepth[t] \in Nat /\ BreakDepth[At] \in Nat
    BY <1>1, <1>2, <2>1, DepthFacts
  <2> QED
    BY <1>1, <2>2
<1>7. CloseScopes(gone) /\ Goto(s) /\ Renew(Iterated(s)) /\ D > 0
  BY <1>1
<1> HIDE DEF gone, s
<1> QED
  BY <1>4, <1>5, <1>6, <1>7, JumpStep

LEMMA ContinueStep ==
    ASSUME IInv, Orderly, NEW depth \in Nat, Continue(depth)
    PROVE  IInv' /\ Shares!Pass
<1>1. PICK l \in Encl[At] \intersect Loops :
         /\ D > 0 /\ ContinueDepth[l] = ContinueDepth[At] + 1 - depth
         /\ CloseScopes({s \in Encl[At] : ContinueDepth[s] + depth > ContinueDepth[At]})
         /\ Goto(l)
         /\ Renew({l})
  BY DEF Continue
<1> DEFINE gone == {t \in Encl[At] : ContinueDepth[t] + depth > ContinueDepth[At]}
<1>2. /\ At \in Scopes /\ l \in Scopes /\ Encl[l] \subseteq Encl[At]
      /\ ContinueDepth[At] \in Nat /\ ContinueDepth[l] \in Nat
  BY <1>1, AddressFacts, TreeFacts, DepthFacts DEF IInv
<1>3. gone \in SUBSET Encl[At] /\ {l} \in SUBSET gone /\ l \in Encl[At]
  BY <1>1, <1>2
<1>4. \A t \in Encl[At] : t \in gone \/ t \in Encl[l]
  <2> SUFFICES ASSUME NEW t \in Encl[At], t \notin Encl[l] PROVE t \in gone
    OBVIOUS
  <2>1. l \in Encl[t] /\ ContinueDepth[t] \in Nat
    BY <1>1, <1>2, DepthFacts
  <2>2. ContinueDepth[l] <= ContinueDepth[t]
    BY <1>1, <1>2, <2>1, DepthFacts
  <2> QED
    BY <1>1, <1>2, <2>1, <2>2
<1>5. \A t \in gone : t \in {l} \/ t \notin Encl[l]
  <2> SUFFICES ASSUME NEW t \in Encl[l], t # l, ContinueDepth[t] + depth > ContinueDepth[At] PROVE FALSE
    OBVIOUS
  <2>1. ContinueDepth[t] < ContinueDepth[l] /\ ContinueDepth[t] \in Nat
    BY <1>1, <1>2, DepthFacts
  <2> QED
    BY <1>1, <1>2, <2>1
<1>6. CloseScopes(gone) /\ Goto(l) /\ Renew({l}) /\ D > 0
  BY <1>1
<1> HIDE DEF gone
<1> QED
  BY <1>3, <1>4, <1>5, <1>6, JumpStep

-------------------------------------------------------------------------------
(* Calls.                                                                  *)

\* an activation on top of the others: nothing ends
LEMMA PushStep ==
    ASSUME IInv, D < MaxDepth, NEW fr \in Activation, stack' = Append(stack, fr),
           UNCHANGED <<suspended, lists, turns, copies>>,
           fr.ctx # None <=> InCoroutine(fr.at),
           fr.ctx # None => ~Running(fr.ctx) /\ (suspended[fr.ctx] # None => fr.at = suspended[fr.ctx])
    PROVE  IInv' /\ Shares!Pass
<1>1. D = Len(stack) /\ D \in Nat /\ stack \in Seq(Activation) /\ MaxDepth \in Nat
  BY LenProperties, TreeFacts DEF IInv, Frames, D
<1>2. /\ stack' \in Seq(Activation) /\ Len(stack') = D + 1 /\ stack'[D + 1] = fr
      /\ \A d \in 1..D : stack'[d] = stack[d]
  BY <1>1, AppendProperties
<1>3. \A d \in 1..(D + 1) : d \in 1..D \/ d = D + 1
  BY <1>1
<1>4. \A d \in 1..D : fr.ctx # None => stack[d].ctx # fr.ctx
  BY DEF Running
<1>5. Frames'
  <2>1. D' = D + 1
    BY <1>2 DEF D
  <2>2. \A d \in 1..(D + 1) : stack'[d].ctx # None <=> InCoroutine(stack'[d].at)
    BY <1>2, <1>3 DEF IInv, Frames
  <2>3. \A d, e \in 1..(D + 1) : stack'[d].ctx = stack'[e].ctx => d = e \/ stack'[d].ctx = None
    BY <1>2, <1>3, <1>4 DEF IInv, Frames
  <2>4. D + 1 <= MaxDepth
    BY <1>1
  <2>5. stack' \in Seq(Activation) /\ suspended' = suspended
    BY <1>2
  <2> QED
    BY <2>1, <2>2, <2>3, <2>4, <2>5 DEF IInv, Frames, InCoroutine
<1>6. ASSUME NEW a, NEW d \in 1..D, InFrame(stack, d, a)
      PROVE  d \in 1..(D + 1) /\ InFrame(stack', d, a)
  BY <1>1, <1>2, <1>6 DEF InFrame, AddressIn
<1>7. ASSUME NEW a, NEW c \in Contexts, InWaiting(stack, suspended, c, a)
      PROVE  InWaiting(stack', suspended', c, a) \/ InFrame(stack', D + 1, a)
  <2>1. CASE fr.ctx = c
    <3>1. c # None /\ suspended[c] # None
      BY <1>7, TreeFacts DEF InWaiting
    <3>2. fr.at = suspended[c]
      BY <2>1, <3>1
    <3>3. PICK s \in Encl[suspended[c]] \ Roots : a = InContext(c, s)
      BY <1>7 DEF InWaiting
    <3>4. a = AddressIn(stack', D + 1, s)
      BY <1>2, <2>1, <3>1, <3>3 DEF AddressIn
    <3> QED
      BY <1>2, <3>2, <3>3, <3>4 DEF InFrame
  <2>2. CASE fr.ctx # c
    <3>1. \A d \in 1..(D + 1) : stack'[d].ctx # c
      BY <1>1, <1>2, <1>3, <1>7, <2>2 DEF InWaiting
    <3> QED
      BY <1>2, <1>7, <3>1 DEF InWaiting
  <2> QED
    BY <2>1, <2>2
<1>8. LiveAddresses \subseteq LiveAddresses'
  <2> SUFFICES ASSUME NEW a \in LiveAddresses PROVE a \in LiveAddresses'
    OBVIOUS
  <2>1. LiveIn(stack, suspended, a)
    BY LiveMeans
  <2>2. LiveIn(stack', suspended', a)
    BY <1>1, <1>2, <1>6, <1>7, <2>1 DEF LiveIn
  <2> QED
    BY <2>2, LiveNext
<1> QED
  BY <1>5, <1>8, StillLive, ListsKept DEF IInv

LEMMA CallStep ==
    ASSUME IInv, NEW f \in Roots, Call(f)
    PROVE  IInv' /\ Shares!Pass
<1> DEFINE fr == [at |-> f, ctx |-> None]
<1>1. D < MaxDepth /\ Kind[f] = "function" /\ stack' = Append(stack, fr)
      /\ UNCHANGED <<suspended, lists, turns, copies>>
  BY DEF Call
<1>2. f \in Scopes /\ Encl[f] = {f}
  BY TreeFacts
<1>3. fr \in Activation /\ fr.ctx = None /\ ~InCoroutine(fr.at)
  BY <1>1, <1>2 DEF Activation, InCoroutine
<1> HIDE DEF fr
<1> QED
  BY <1>1, <1>3, PushStep

LEMMA ResumeStep ==
    ASSUME IInv, NEW c \in Contexts, Resume(c)
    PROVE  IInv' /\ Shares!Pass
<1> DEFINE s == IF suspended[c] = None THEN Body[c] ELSE suspended[c]
           fr == [at |-> s, ctx |-> c]
<1>1. /\ D < MaxDepth /\ ~Running(c) /\ stack' = Append(stack, fr)
      /\ UNCHANGED <<suspended, lists, turns, copies>>
  BY DEF Resume
<1>2. s \in Scopes /\ InCoroutine(s)
  <2>1. CASE suspended[c] = None
    <3>1. Body[c] \in Roots /\ Kind[Body[c]] = "coroutine"
      BY TreeFacts DEF Coroutine
    <3> QED
      BY <2>1, <3>1, TreeFacts DEF InCoroutine
  <2>2. CASE suspended[c] # None
    BY <2>2 DEF IInv, Frames
  <2> QED
    BY <2>1, <2>2
<1>3. fr \in Activation /\ fr.ctx = c /\ fr.at = s /\ c # None
  BY <1>2, TreeFacts DEF Activation
<1>4. suspended[c] # None => fr.at = suspended[c]
  OBVIOUS
<1> HIDE DEF fr, s
<1> QED
  BY <1>1, <1>2, <1>3, <1>4, PushStep

-------------------------------------------------------------------------------
(* Returns.                                                                *)

LEMMA CutFacts ==
    ASSUME Frames, NEW d \in 0..(D - 1), stack' = SubSeq(stack, 1, d)
    PROVE  /\ D = Len(stack) /\ D \in Nat /\ D' = d /\ Len(stack') = d /\ stack' \in Seq(Activation)
           /\ 1..d \subseteq 1..D /\ \A e \in 1..d : stack'[e] = stack[e] /\ e \in Nat /\ e < D
<1>1. D = Len(stack) /\ D \in Nat /\ stack \in Seq(Activation)
  BY LenProperties DEF Frames, D
<1>2. \A e \in 1..d : e \in 1..D /\ e \in Nat /\ e < D /\ 1 + e - 1 = e
  BY <1>1
<1>3. \A e \in 1..d : stack[e] \in Activation
  BY <1>1, <1>2, ElementOfSeq
<1>4. /\ stack' \in Seq(Activation)
      /\ Len(stack') = IF 1 <= d THEN d - 1 + 1 ELSE 0
      /\ \A e \in 1..(d - 1 + 1) : stack'[e] = stack[1 + e - 1]
  BY <1>1, <1>3, SubSeqProperties
<1>5. d \in Nat /\ d - 1 + 1 = d /\ (~(1 <= d) => d = 0)
  BY <1>1
<1> QED
  BY <1>1, <1>2, <1>4, <1>5 DEF D

LEMMA CutFrames ==
    ASSUME Frames, NEW d \in 0..(D - 1), stack' = SubSeq(stack, 1, d),
           suspended' \in [Contexts -> Scopes \union {None}],
           \A c \in Contexts : suspended'[c] # None => InCoroutine(suspended'[c])
    PROVE  Frames'
<1>1. /\ D \in Nat /\ D' = d /\ Len(stack') = d /\ stack' \in Seq(Activation)
      /\ 1..d \subseteq 1..D /\ \A e \in 1..d : stack'[e] = stack[e]
  BY CutFacts
<1>2. d <= MaxDepth
  BY <1>1, TreeFacts DEF Frames
<1>3. \A e, g \in 1..d : stack'[e].ctx = stack'[g].ctx => e = g \/ stack'[e].ctx = None
  BY <1>1 DEF Frames
<1>4. \A e \in 1..d : stack'[e].ctx # None <=> InCoroutine(stack'[e].at)
  BY <1>1 DEF Frames
<1> QED
  BY <1>1, <1>2, <1>3, <1>4 DEF Frames, InCoroutine

\* what exists after the innermost activation is gone
LEMMA PopLive ==
    ASSUME Frames, D > 0, Pop, NEW c, c = Top.ctx,
           suspended' \in [Contexts -> Scopes \union {None}],
           \A b \in Contexts : b # c => suspended'[b] = suspended[b],
           \A b \in Contexts : suspended'[b] # None => InCoroutine(suspended'[b])
    PROVE  /\ Frames'
           /\ \A a \in LiveAddresses : a \in LiveAddresses' \/ \E s \in Encl[At] : a = Address(s)
           /\ \A a \in LiveAddresses' :
                \/ \A s : a # Address(s)
                \/ c \in Contexts /\ suspended'[c] # None /\ a.seg = "context"
           /\ c \in Contexts /\ suspended'[c] # None =>
                \A s \in Encl[suspended'[c]] \ Roots : InContext(c, s) \in LiveAddresses'
<1>0. /\ D = Len(stack) /\ D \in Nat /\ D \in 1..D /\ stack[D] = Top
      /\ D - 1 \in 0..(D - 1) /\ stack' = SubSeq(stack, 1, D - 1)
  BY AddressFacts DEF Pop
<1>1. /\ Len(stack') = D - 1 /\ 1..(D - 1) \subseteq 1..D
      /\ \A e \in 1..(D - 1) : stack'[e] = stack[e] /\ e \in Nat /\ e < D
  BY <1>0, CutFacts
<1>2. Frames'
  BY <1>0, CutFrames
<1>3. \A e \in 1..(D - 1) : stack[e].ctx = c => c = None
  BY <1>0, <1>1 DEF Frames
<1>4. \A e \in 1..(D - 1) : \A s : AddressIn(stack', e, s) = AddressIn(stack, e, s)
  BY <1>1 DEF AddressIn
<1>5. \A e \in 1..(D - 1) : \A a : InFrame(stack', e, a) <=> InFrame(stack, e, a)
  BY <1>1, <1>4 DEF InFrame
<1>6. \A a : InFrame(stack, D, a) => \E s \in Encl[At] : a = Address(s)
  BY <1>0, AddressFacts DEF InFrame, AddressIn, At
<1>7. \A b \in Contexts : b # c => \A a : InWaiting(stack, suspended, b, a) => InWaiting(stack', suspended', b, a)
  BY <1>0, <1>1 DEF InWaiting
<1>8. \A a : ~InWaiting(stack, suspended, c, a)
  BY <1>0 DEF InWaiting
<1>9. ASSUME NEW a \in LiveAddresses
      PROVE  a \in LiveAddresses' \/ \E s \in Encl[At] : a = Address(s)
  <2>1. LiveIn(stack, suspended, a)
    BY LiveMeans
  <2>2. \A d \in 1..D : d \in 1..(D - 1) \/ d = D
    BY <1>0
  <2>3. CASE \E d \in 1..D : InFrame(stack, d, a)
    <3>1. PICK d \in 1..D : InFrame(stack, d, a)
      BY <2>3
    <3>2. CASE d = D
      BY <1>6, <3>1, <3>2
    <3>3. CASE d \in 1..(D - 1)
      <4>1. InFrame(stack', d, a)
        BY <1>5, <3>1, <3>3
      <4> QED
        BY <1>1, <3>3, <4>1, LiveNext DEF LiveIn
    <3> QED
      BY <2>2, <3>2, <3>3
  <2>4. CASE \E b \in Contexts : InWaiting(stack, suspended, b, a)
    <3>1. \E b \in Contexts : InWaiting(stack', suspended', b, a)
      BY <1>7, <1>8, <2>4
    <3> QED
      BY <3>1, LiveNext DEF LiveIn
  <2> QED
    BY <1>0, <2>1, <2>3, <2>4 DEF LiveIn
<1>10. ASSUME NEW a \in LiveAddresses', NEW s, a = Address(s)
       PROVE  c \in Contexts /\ suspended'[c] # None /\ a.seg = "context"
  <2>1. \/ a = OnStack(D, s)
        \/ c # None /\ a = InContext(c, s)
    BY <1>10, AddressFacts
  <2>2. LiveIn(stack', suspended', a)
    BY LiveNext
  <2>3. ASSUME NEW d \in 1..Len(stack'), InFrame(stack', d, a)
        PROVE  FALSE
    <3>1. d \in 1..(D - 1) /\ d \in Nat /\ d < D /\ stack'[d] = stack[d] /\ (stack[d].ctx = c => c = None)
      BY <1>1, <1>3
    <3>2. PICK t : a = AddressIn(stack', d, t)
      BY <2>3 DEF InFrame
    <3>3. a = OnStack(d, t) \/ (stack[d].ctx # None /\ a = InContext(stack[d].ctx, t))
      BY <3>1, <3>2 DEF AddressIn
    <3> QED
      BY <1>0, <2>1, <3>1, <3>3 DEF OnStack, InContext
  <2>4. PICK b \in Contexts : InWaiting(stack', suspended', b, a)
    BY <2>2, <2>3 DEF LiveIn
  <2>5. PICK t : a = InContext(b, t) /\ suspended'[b] # None
    BY <2>4 DEF InWaiting
  <2> QED
    BY <2>1, <2>5 DEF OnStack, InContext
<1>11. ASSUME c \in Contexts, suspended'[c] # None, NEW s \in Encl[suspended'[c]] \ Roots
       PROVE  InContext(c, s) \in LiveAddresses'
  <2>1. \A d \in 1..Len(stack') : stack'[d].ctx # c
    BY <1>1, <1>3, <1>11, TreeFacts
  <2>2. InWaiting(stack', suspended', c, InContext(c, s))
    BY <1>11, <2>1 DEF InWaiting
  <2> QED
    BY <1>11, <2>2, LiveNext DEF LiveIn
<1> QED
  BY <1>2, <1>9, <1>10, <1>11

\* a return closes what is left of the function, also what its context keeps
LEMMA ReturnStep ==
    ASSUME IInv, Orderly, Return
    PROVE  IInv' /\ Shares!Pass
<1> DEFINE c == Top.ctx
           gone == Encl[At]
<1>1. /\ D > 0 /\ CloseScopes(gone) /\ Pop /\ Renew({})
      /\ suspended' = [b \in Contexts |-> IF b = c THEN None ELSE suspended[b]]
  BY DEF Return
<1>2. /\ suspended' \in [Contexts -> Scopes \union {None}]
      /\ \A b \in Contexts : b # c => suspended'[b] = suspended[b]
      /\ \A b \in Contexts : suspended'[b] # None => InCoroutine(suspended'[b])
      /\ c \in Contexts => suspended'[c] = None
  BY <1>1 DEF IInv, Frames
<1> HIDE DEF c, gone
<1>3. /\ Frames'
      /\ \A a \in LiveAddresses : a \in LiveAddresses' \/ \E s \in Encl[At] : a = Address(s)
      /\ \A a \in LiveAddresses' : \A s : a # Address(s)
  <2>1. c = Top.ctx
    BY DEF c
  <2> QED
    BY <1>1, <1>2, <2>1, PopLive DEF IInv
<1>4. turns' \subseteq LiveAddresses' /\ \A a \in LiveAddresses' : a \in turns' <=> a \in turns
  BY <1>1, RenewMeans
<1>5. \A a \in Open : (\E s \in gone : a = Address(s))
                      \/ (a \in LiveAddresses' /\ (a \in turns' <=> a \in turns))
  BY <1>3, <1>4, StillLive DEF gone
<1>6. \A s \in gone : Address(s) \notin LiveAddresses'
  BY <1>3
<1> QED
  BY <1>1, <1>3, <1>4, <1>5, <1>6, ListsClosed

\* a yield closes the arguments, which are on the stack
LEMMA YieldStep ==
    ASSUME IInv, Orderly, Yield
    PROVE  IInv' /\ Shares!Pass
<1> DEFINE c == Top.ctx
           gone == Encl[At] \intersect Roots
<1>1. /\ D > 0 /\ c # None /\ CloseScopes(gone) /\ Pop /\ Renew({})
      /\ suspended' = [suspended EXCEPT ![c] = At]
  BY DEF Yield
<1>2. D \in 1..D /\ stack[D] = Top /\ At = Top.at /\ At \in Scopes /\ c \in Contexts
  BY <1>1, AddressFacts DEF IInv, Activation, At
<1>3. InCoroutine(At)
  BY <1>1, <1>2 DEF IInv, Frames
<1>4. /\ suspended' \in [Contexts -> Scopes \union {None}]
      /\ \A b \in Contexts : b # c => suspended'[b] = suspended[b]
      /\ \A b \in Contexts : suspended'[b] # None => InCoroutine(suspended'[b])
      /\ suspended'[c] = At /\ At # None
  BY <1>1, <1>2, <1>3, TreeFacts DEF IInv, Frames
<1>5. \A s : Address(s) = IF s \notin Roots THEN InContext(c, s) ELSE OnStack(D, s)
  BY <1>1, AddressFacts DEF IInv
<1> HIDE DEF c, gone
<1>6. /\ Frames'
      /\ \A a \in LiveAddresses : a \in LiveAddresses' \/ \E s \in Encl[At] : a = Address(s)
      /\ \A a \in LiveAddresses' : (\A s : a # Address(s)) \/ a.seg = "context"
      /\ \A s \in Encl[At] \ Roots : InContext(c, s) \in LiveAddresses'
  <2>1. c = Top.ctx
    BY DEF c
  <2> QED
    BY <1>1, <1>2, <1>4, <2>1, PopLive DEF IInv
<1>7. turns' \subseteq LiveAddresses' /\ \A a \in LiveAddresses' : a \in turns' <=> a \in turns
  BY <1>1, RenewMeans
<1>8. \A a \in Open : (\E s \in gone : a = Address(s))
                      \/ (a \in LiveAddresses' /\ (a \in turns' <=> a \in turns))
  <2> SUFFICES ASSUME NEW a \in Open, a \notin LiveAddresses'
               PROVE  \E s \in gone : a = Address(s)
    BY <1>7
  <2>1. PICK s \in Encl[At] : a = Address(s)
    BY <1>6, StillLive
  <2>2. s \in Roots
    BY <1>5, <1>6, <2>1
  <2> QED
    BY <2>1, <2>2 DEF gone
<1>9. \A s \in gone : Address(s) \notin LiveAddresses'
  <2> SUFFICES ASSUME NEW s \in gone, Address(s) \in LiveAddresses' PROVE FALSE
    OBVIOUS
  <2>1. Address(s).seg = "stack"
    BY <1>5 DEF gone, OnStack
  <2> QED
    BY <1>6, <2>1
<1> QED
  BY <1>1, <1>6, <1>7, <1>8, <1>9, ListsClosed

\* an error that passes no open node ends activations and nothing else
LEMMA ThrowStep ==
    ASSUME IInv, Orderly, Throw
    PROVE  IInv' /\ Shares!Pass
<1>1. /\ \E d \in 0..(D - 1) : stack' = SubSeq(stack, 1, d)
      /\ UNCHANGED <<suspended, lists, copies>>
      /\ Open \subseteq LiveAddresses' /\ Renew({})
  BY DEF Throw, Orderly
<1>2. PICK d \in 0..(D - 1) : stack' = SubSeq(stack, 1, d)
  BY <1>1
<1>3. Frames'
  BY <1>1, <1>2, CutFrames DEF IInv, Frames
<1>4. turns' \subseteq LiveAddresses' /\ \A a \in LiveAddresses' : a \in turns' <=> a \in turns
  BY <1>1, RenewMeans
<1> QED
  BY <1>1, <1>3, <1>4, ListsKept

-------------------------------------------------------------------------------
(* Making function objects.                                                *)

LEMMA LinkStep ==
    ASSUME IInv, NEW v \in Captured, NEW id \in Ids, id \notin Used,
           NEW a \in LiveAddresses, a.var = v, Link(v, id, a),
           UNCHANGED <<stack, suspended, turns, copies>>,
           \A n \in Range(lists[v]) :
               a = n.target \/ (a.seg = "stack" /\ n.target.seg = "stack" /\ a.at > n.target.at)
    PROVE  IInv' /\ Shares!Capture
<1> DEFINE new == [id |-> id, target |-> a, odd |-> a \in turns]
<1>1. /\ new \in Nodes /\ new.id = id /\ new.target = a /\ new.odd = (a \in turns)
      /\ lists' = [lists EXCEPT ![v] = <<new>> \o @]
  <2>1. a \in Addresses
    BY LiveFacts DEF IInv
  <2> QED
    BY <2>1 DEF Nodes, Link
<1> HIDE DEF new
<1>2. /\ LiveAddresses' = LiveAddresses /\ turns' = turns /\ copies' = copies
      /\ Frames' /\ lists \in [Captured -> Seq(Nodes)]
  BY DEF IInv, Frames, D, LiveAddresses, AddressAt, Waiting, Running
<1>3. \A w \in Captured : /\ lists[w] \in Seq(Nodes) /\ Len(lists[w]) \in Nat
                          /\ DOMAIN lists[w] = 1..Len(lists[w])
  BY ListFacts, RangeMeans
<1>4. /\ lists'[v] \in Seq(Nodes) /\ Len(lists'[v]) = 1 + Len(lists[v]) /\ lists'[v][1] = new
      /\ \A i \in 1..Len(lists'[v]) : i # 1 => i - 1 \in 1..Len(lists[v]) /\ lists'[v][i] = lists[v][i - 1]
      /\ DOMAIN lists'[v] = 1..Len(lists'[v])
  <2>1. <<new>> \in Seq(Nodes) /\ Len(<<new>>) = 1 /\ <<new>>[1] = new
    BY <1>1
  <2>2. lists'[v] = <<new>> \o lists[v]
    BY <1>1, <1>2
  <2>3. /\ lists'[v] \in Seq(Nodes) /\ Len(lists'[v]) = 1 + Len(lists[v])
        /\ \A i \in 1..(1 + Len(lists[v])) :
             lists'[v][i] = IF i <= 1 THEN <<new>>[i] ELSE lists[v][i - 1]
    BY <1>3, <2>1, <2>2, ConcatProperties
  <2>4. DOMAIN lists'[v] = 1..Len(lists'[v])
    BY <2>3, RangeMeans
  <2>5. lists'[v][1] = new
    BY <1>3, <2>1, <2>3
  <2>6. ASSUME NEW i \in 1..Len(lists'[v]), i # 1
        PROVE  i - 1 \in 1..Len(lists[v]) /\ lists'[v][i] = lists[v][i - 1]
    BY <1>3, <2>3, <2>6
  <2> QED
    BY <2>3, <2>4, <2>5, <2>6
<1>5. \A w \in Captured : w # v => lists'[w] = lists[w]
  BY <1>1, <1>2
<1>6. lists' \in [Captured -> Seq(Nodes)]
  BY <1>1, <1>2, <1>4, <1>5
<1>7. \A w \in Captured : \A n : n \in Range(lists'[w]) <=> n \in Range(lists[w]) \/ (w = v /\ n = new)
  <2> SUFFICES ASSUME NEW n
               PROVE  n \in Range(lists'[v]) <=> n \in Range(lists[v]) \/ n = new
    BY <1>5
  <2>1. /\ n \in Range(lists[v]) <=> \E j \in 1..Len(lists[v]) : n = lists[v][j]
        /\ n \in Range(lists'[v]) <=> \E i \in 1..Len(lists'[v]) : n = lists'[v][i]
    BY <1>3, <1>4, RangeMeans
  <2>2. 1 \in 1..Len(lists'[v])
    BY <1>3, <1>4
  <2>3. \A j \in 1..Len(lists[v]) : j + 1 \in 1..Len(lists'[v]) /\ lists'[v][j + 1] = lists[v][j]
    <3> SUFFICES ASSUME NEW j \in 1..Len(lists[v])
                 PROVE  j + 1 \in 1..Len(lists'[v]) /\ lists'[v][j + 1] = lists[v][j]
      OBVIOUS
    <3>1. j + 1 \in 1..Len(lists'[v]) /\ j + 1 # 1 /\ (j + 1) - 1 = j
      BY <1>3, <1>4
    <3> QED
      BY <1>4, <3>1
  <2> QED
    BY <1>4, <2>1, <2>2, <2>3
<1>8. \A w \in Captured : \A n \in Range(lists[w]) : n.id # id
  BY DEF Used
<1>9. Attached'
  <2> SUFFICES ASSUME NEW w \in Captured, NEW n \in Range(lists'[w])
               PROVE  n.target \in LiveAddresses /\ n.target.var = w /\ n.odd = (n.target \in turns)
    BY <1>2 DEF Attached
  <2>1. CASE n \in Range(lists[w])
    BY <2>1, ListFacts
  <2>2. CASE w = v /\ n = new
    BY <1>1, <2>2
  <2> QED
    BY <1>7, <2>1, <2>2
\* an element is the new node, or is where it was
<1>10. \A w \in Captured : \A j \in DOMAIN lists'[w] :
         \/ w = v /\ j = 1 /\ lists'[w][j] = new
         \/ /\ w = v => j - 1 \in DOMAIN lists[w] /\ lists'[w][j] = lists[w][j - 1] /\ j - 1 >= 1
            /\ w # v => j \in DOMAIN lists[w] /\ lists'[w][j] = lists[w][j]
  <2>1. ASSUME NEW j \in DOMAIN lists'[v], j # 1
        PROVE  j - 1 \in DOMAIN lists[v] /\ lists'[v][j] = lists[v][j - 1] /\ j - 1 >= 1
    <3>1. j - 1 \in 1..Len(lists[v]) /\ lists'[v][j] = lists[v][j - 1]
      BY <1>4, <2>1
    <3> QED
      BY <1>3, <3>1
  <2>2. ASSUME NEW w \in Captured, NEW j \in DOMAIN lists'[w], w # v
        PROVE  j \in DOMAIN lists[w] /\ lists'[w][j] = lists[w][j]
    BY <1>5, <2>2
  <2> QED
    BY <1>4, <2>1, <2>2
<1>11. \A w \in Captured : \A j \in DOMAIN lists[w] : lists[w][j] \in Range(lists[w])
  BY <1>3, RangeMeans
<1>12. Distinct'
  <2> SUFFICES ASSUME NEW w \in Captured, NEW x \in Captured,
                      NEW j \in DOMAIN lists'[w], NEW k \in DOMAIN lists'[x],
                      lists'[w][j].id = lists'[x][k].id
               PROVE  w = x /\ j = k
    BY DEF Distinct
  <2>1. j \in Nat /\ k \in Nat
    BY <1>3, <1>4, <1>5
  <2>2. CASE w = v /\ j = 1 /\ lists'[w][j] = new
    BY <1>1, <1>8, <1>10, <1>11, <2>2
  <2>3. CASE x = v /\ k = 1 /\ lists'[x][k] = new
    BY <1>1, <1>8, <1>10, <1>11, <2>3
  <2>4. CASE ~(w = v /\ j = 1 /\ lists'[w][j] = new) /\ ~(x = v /\ k = 1 /\ lists'[x][k] = new)
    <3>1. /\ w = v => j - 1 \in DOMAIN lists[w] /\ lists'[w][j] = lists[w][j - 1]
          /\ w # v => j \in DOMAIN lists[w] /\ lists'[w][j] = lists[w][j]
          /\ x = v => k - 1 \in DOMAIN lists[x] /\ lists'[x][k] = lists[x][k - 1]
          /\ x # v => k \in DOMAIN lists[x] /\ lists'[x][k] = lists[x][k]
      BY <1>10, <2>4
    <3>2. w = x /\ (w = v => j - 1 = k - 1) /\ (w # v => j = k)
      BY <3>1 DEF IInv, Distinct
    <3> QED
      BY <2>1, <3>2
  <2> QED
    BY <2>2, <2>3, <2>4
<1>13. Ordered'
  <2> SUFFICES ASSUME NEW w \in Captured, NEW j \in DOMAIN lists'[w], NEW k \in DOMAIN lists'[w], j < k,
                      NEW near, near = lists'[w][j].target, NEW far, far = lists'[w][k].target
               PROVE  near = far \/ (near.seg = "stack" /\ far.seg = "stack" /\ near.at > far.at)
    BY DEF Ordered
  <2>1. j \in Nat /\ k \in Nat /\ 1 <= j
    BY <1>3, <1>4, <1>5
  <2>2. CASE w # v
    BY <1>5, <2>2 DEF IInv, Ordered
  <2>3. CASE w = v
    <3>1. k # 1 /\ k - 1 \in DOMAIN lists[v] /\ far = lists[v][k - 1].target
      BY <1>3, <1>4, <2>1, <2>3
    <3>2. CASE j = 1
      <4>1. near = a
        BY <1>1, <1>4, <2>3, <3>2
      <4> QED
        BY <1>11, <3>1, <4>1
    <3>3. CASE j # 1
      <4>1. j - 1 \in DOMAIN lists[v] /\ near = lists[v][j - 1].target /\ j - 1 < k - 1
        BY <1>3, <1>4, <2>1, <2>3, <3>3
      <4> QED
        BY <3>1, <4>1 DEF IInv, Ordered
    <3> QED
      BY <3>2, <3>3
  <2> QED
    BY <2>2, <2>3
<1>14. IInv'
  BY <1>2, <1>6, <1>9, <1>12, <1>13 DEF IInv
<1>15. LiveVars' = LiveVars
  BY <1>2 DEF LiveVars, Variable
<1>16. Variable(a, new.odd) \in LiveVars
  <2>1. Variable(a, a \in turns) \in LiveVars
    BY DEF LiveVars
  <2> QED
    BY <1>1, <2>1
<1>17. Seen(new) = [id |-> id, variable |-> Variable(a, new.odd)]
  BY <1>1 DEF Seen
<1>18. \A x : x \in OpenVars' <=> x \in OpenVars \/ x = Seen(new)
  <2> SUFFICES ASSUME NEW x PROVE x \in OpenVars' <=> x \in OpenVars \/ x = Seen(new)
    OBVIOUS
  <2>1. x \in OpenVars <=> \E w \in Captured : \E n \in Range(lists[w]) : x = Seen(n)
    BY OpenMeans
  <2>2. x \in OpenVars' <=> \E w \in Captured : \E n \in Range(lists'[w]) : x = Seen(n)
    BY <1>14, OpenNext
  <2> QED
    BY <1>7, <2>1, <2>2
<1>19. \A x \in OpenVars : x.id # id
  <2> SUFFICES ASSUME NEW x \in OpenVars PROVE x.id # id
    OBVIOUS
  <2>1. PICK w \in Captured : \E n \in Range(lists[w]) : x = Seen(n)
    BY OpenMeans
  <2> QED
    BY <1>8, <2>1 DEF Seen
<1>20. OpenVars' = OpenVars \union {[id |-> id, variable |-> Variable(a, new.odd)]}
  BY <1>17, <1>18
<1> QED
  BY <1>14, <1>15, <1>16, <1>19, <1>20, SharesMeans

\* the nodes of the innermost call's variable go in front
LEMMA CaptureStep ==
    ASSUME IInv, Orderly, NEW v \in Captured, NEW id \in Ids, Capture(v, id)
    PROVE  IInv' /\ Shares!Capture
<1> DEFINE a == Address(v)
<1>1. /\ D > 0 /\ v \in Encl[At] /\ id \notin Used
      /\ a.seg = "stack" \/ \A n \in Range(lists[v]) : n.target = a
      /\ Link(v, id, a) /\ UNCHANGED <<stack, suspended, turns, copies>>
  BY DEF Capture, Orderly
<1>2. a \in LiveAddresses /\ a.var = v /\ D \in Nat
  BY <1>1, AddressFacts DEF IInv
<1>3. a.seg = "stack" => a = OnStack(D, v)
  BY <1>1, AddressFacts DEF IInv, InContext
<1> HIDE DEF a
<1>4. ASSUME NEW n \in Range(lists[v]), n.target # a
      PROVE  a.seg = "stack" /\ n.target.seg = "stack" /\ a.at > n.target.at
  <2>1. a.seg = "stack" /\ a.at = D
    BY <1>1, <1>3, <1>4 DEF OnStack
  <2>2. n.target \in LiveAddresses /\ n.target.var = v
    BY ListFacts
  <2>3. n.target.seg = "stack"
    BY <1>2, <2>1, <2>2, LiveFacts DEF IInv
  <2>4. n.target.at \in 1..D /\ n.target = OnStack(n.target.at, v)
    BY <2>2, <2>3, LiveFacts DEF IInv
  <2>5. n.target.at # D
    BY <1>3, <1>4, <2>1, <2>4
  <2> QED
    BY <1>2, <2>1, <2>3, <2>4, <2>5
<1> QED
  BY <1>1, <1>2, <1>4, LinkStep

\* so do the nodes of the functions inside a function that runs
LEMMA CaptureInnerStep ==
    ASSUME IInv, Orderly, NEW v \in Captured, NEW id \in Ids, CaptureInner(v, id)
    PROVE  IInv' /\ Shares!Capture
<1>1. PICK a \in Targets(v) \union {CopyOf(w) : w \in copies \intersect {v}} :
        lists[v] # <<>> /\ a = Head(lists[v]).target /\ Link(v, id, a)
  BY DEF CaptureInner, Orderly
<1>2. id \notin Used /\ UNCHANGED <<stack, suspended, turns, copies>>
  BY DEF CaptureInner
<1>3. lists[v] \in Seq(Nodes) /\ DOMAIN lists[v] = 1..Len(lists[v]) /\ Len(lists[v]) \in Nat
  BY ListFacts, RangeMeans
<1>4. 1 \in DOMAIN lists[v] /\ a = lists[v][1].target
  BY <1>1, <1>3, EmptySeq, HeadTailProperties
<1>5. lists[v][1] \in Range(lists[v])
  BY <1>3, <1>4, RangeMeans
<1>6. a \in LiveAddresses /\ a.var = v
  BY <1>4, <1>5, ListFacts
<1>7. ASSUME NEW n \in Range(lists[v])
      PROVE  a = n.target \/ (a.seg = "stack" /\ n.target.seg = "stack" /\ a.at > n.target.at)
  <2>1. PICK k \in DOMAIN lists[v] : n = lists[v][k]
    BY <1>3, RangeMeans
  <2>2. k = 1 \/ 1 < k
    BY <1>3
  <2> QED
    BY <1>4, <2>1, <2>2 DEF IInv, Ordered
<1> QED
  BY <1>1, <1>2, <1>6, <1>7, LinkStep

-------------------------------------------------------------------------------
(* The specification.                                                      *)

LEMMA InitStep == Init => IInv /\ Shares!Init
<1> SUFFICES ASSUME Init PROVE IInv /\ Shares!Init
  OBVIOUS
<1>1. D = 0 /\ stack = <<>> /\ stack \in Seq(Activation)
  BY EmptySeq DEF Init, D
<1>2. Frames
  BY <1>1, TreeFacts DEF Init, Frames
<1>3. /\ \A v \in Captured : lists[v] = <<>>
      /\ lists \in [Captured -> Seq(Nodes)]
  <2>1. <<>> \in Seq(Nodes)
    BY EmptySeq
  <2> QED
    BY <2>1 DEF Init
<1>4. \A v \in Captured : DOMAIN lists[v] = {} /\ Range(lists[v]) = {}
  BY <1>3 DEF Range
<1>5. LiveAddresses = {}
  <2>1. \A c \in Contexts : suspended[c] = None
    BY DEF Init
  <2>2. \A a : ~LiveIn(stack, suspended, a)
    BY <1>1, <2>1 DEF LiveIn, InWaiting
  <2> QED
    BY <2>2, LiveMeans
<1>6. IInv
  BY <1>2, <1>3, <1>4 DEF Init, IInv, Distinct, Attached, Ordered
<1>7. OpenVars = {}
  BY <1>4, <1>6, OpenMeans
<1> QED
  BY <1>5, <1>6, <1>7, SharesMeans DEF LiveVars

LEMMA NextStep ==
    IInv /\ Orderly /\ [Next]_vars =>
        IInv' /\ [Shares!Pass \/ Shares!Capture]_(Shares!vars)
<1> SUFFICES ASSUME IInv, Orderly, [Next]_vars
             PROVE  IInv' /\ [Shares!Pass \/ Shares!Capture]_(Shares!vars)
  OBVIOUS
<1>1. CASE \E f \in Roots : Call(f)
  BY <1>1, CallStep
<1>2. CASE \E c \in Contexts : Resume(c)
  BY <1>2, ResumeStep
<1>3. CASE \E s \in Scopes : Enter(s)
  BY <1>3, EnterStep
<1>4. CASE \E v \in Captured, id \in Ids : Capture(v, id)
  BY <1>4, CaptureStep
<1>5. CASE \E v \in Captured, id \in Ids : CaptureInner(v, id)
  BY <1>5, CaptureInnerStep
<1>6. CASE EndBlock
  BY <1>6, EndBlockStep
<1>7. CASE EndLoop
  BY <1>7, EndLoopStep
<1>8. CASE \E depth \in 1..Cardinality(Scopes) : Break(depth)
  BY <1>8, BreakStep
<1>9. CASE \E depth \in 1..Cardinality(Scopes) : Continue(depth)
  BY <1>9, ContinueStep
<1>10. CASE Return
  BY <1>10, ReturnStep
<1>11. CASE Yield
  BY <1>11, YieldStep
<1>12. CASE Throw
  BY <1>12, ThrowStep
<1>13. CASE UNCHANGED vars
  <2>1. UNCHANGED <<stack, suspended, lists, turns, copies>>
    BY <1>13 DEF vars
  <2>2. LiveAddresses' = LiveAddresses
    BY <2>1 DEF LiveAddresses, AddressAt, Waiting, Running, D
  <2>3. IInv'
    BY <2>1, <2>2 DEF IInv, Frames, Distinct, Attached, Ordered, D
  <2>4. LiveVars' = LiveVars /\ OpenVars' = OpenVars
    BY <2>1, <2>2 DEF LiveVars, OpenVars, Variable, Seen
  <2>5. Shares!vars = <<LiveVars, OpenVars>> /\ Shares!vars' = <<LiveVars', OpenVars'>>
    BY DEF Shares!vars, LiveVars, OpenVars, Seen, Variable
  <2> QED
    BY <2>3, <2>4, <2>5
<1> QED
  BY <1>1, <1>2, <1>3, <1>4, <1>5, <1>6, <1>7, <1>8, <1>9, <1>10, <1>11, <1>12, <1>13 DEF Next

\* Programs that do nothing the lists cannot keep stay in the invariant.
THEOREM Invariant == ASSUME Orderly PROVE Spec => []IInv
<1>1. Init => IInv
  BY InitStep
<1>2. IInv /\ [Next]_vars => IInv'
  BY NextStep
<1> QED
  BY <1>1, <1>2, PTL DEF Spec

\* Contexts, lists and values keep their types: every activation has a context
\* of its own, every function object is in one list once.
THEOREM Typed == ASSUME Orderly PROVE Spec => []TypeOK
<1>1. IInv => TypeOK
  BY DEF IInv, Frames, Distinct, TypeOK, Activation
<1> QED
  BY <1>1, Invariant, PTL

\* However scopes are entered and left, by jumps, returns, yields or errors, no
\* function keeps a pointer to a variable that ended or to one of a later call
\* or iteration (NULLC::CloseUpvalue reaches all it has to).
THEOREM NodesAttached == ASSUME Orderly PROVE Spec => []Attached
<1>1. IInv => Attached
  BY DEF IInv
<1> QED
  BY <1>1, Invariant, PTL

\* The list of a variable is sorted by the depth of its calls, which is why
\* NULLC::CloseUpvalue may stop at the first node that points elsewhere.
THEOREM ListsOrdered == ASSUME Orderly PROVE Spec => []Ordered
<1>1. IInv => Ordered
  BY DEF IInv
<1> QED
  BY <1>1, Invariant, PTL

\* Functions share a variable as long as it exists and not a step longer, for
\* every program text and any depth of calls: the lists refine Lexical.
THEOREM RefinesLexical == ASSUME Orderly PROVE Spec => SharedWhileLive
<1>1. Init => Shares!Init
  BY InitStep
<1>2. IInv /\ [Next]_vars => [Shares!Pass \/ Shares!Capture]_(Shares!vars)
  BY NextStep
<1>3. Spec => []IInv
  BY Invariant
<1> QED
  BY <1>1, <1>2, <1>3, PTL DEF Spec, SharedWhileLive, Shares!Spec
===============================================================================
