------------------------------- MODULE Closures -------------------------------
(***************************************************************************)
(* Local functions and the variables they capture.                         *)
(*                                                                         *)
(* For each variable that is captured anywhere the compiler makes a global *)
(* variable, the head of a list (GetFunctionUpvalue).  A function object   *)
(* holds a node per variable: a pointer to the variable, the next node,    *)
(* and room for a copy.  Making the object puts the node at the head.      *)
(* Where the variable's scope ends the compiler places __closeUpvalue,     *)
(* which takes nodes from the head as long as they point to the variable,  *)
(* and redirects each of them to its copy.                                 *)
(*                                                                         *)
(* The text of the program is a tree of scopes with a variable in each:    *)
(* the argument of a function, the variable of a for, of a block, of a     *)
(* switch.  Locals of a coroutine live in its context on the heap, and its *)
(* arguments on the stack.                                                 *)
(***************************************************************************)
EXTENDS Naturals, Sequences, FiniteSets, Functions

CONSTANTS
    None,
    Scopes,         \* of the program text; each stands for its variable too
    Kind,           \* "function", "coroutine", "for", "block", "switch"
    Parent,         \* the scope a scope is in, None for a function's
    Encl,           \* a scope and those around it in its function
    BreakDepth,     \* loops and switches around, as the compiler counts them
    ContinueDepth,  \* loops around
    Captured,       \* variables with usedAsExternal
    Contexts,       \* of coroutines
    Body,           \* the coroutine of a context
    Ids,            \* function objects with a node in a list
    MaxDepth,       \* bound: activations
    Unordered       \* what programs may do beyond what the lists can keep:
                    \*  "inner": a local function of a local function captures
                    \*     a variable that ended or that a later call hides
                    \*  "error": an error passes functions with open nodes
                    \*  "end": a for or a switch ends, other than by break,
                    \*     with open nodes of its variable
                    \*  "overlap": two contexts of a coroutine have open nodes
                    \*     of one variable

VARIABLES
    stack,      \* activations, innermost last
    suspended,  \* where a context goes on ($jmpOffset), None: at the start
    lists,      \* per captured variable, the list of its open nodes
    turns,      \* history: the for variables in an odd iteration
    copies      \* history: variables a function object may have a copy of, as
                \* far as Unordered asks for it

vars == <<stack, suspended, lists, turns, copies>>

Roots     == {s \in Scopes : Parent[s] = None}
Breakable == {s \in Scopes : Kind[s] \in {"for", "switch"}}
Loops     == {s \in Scopes : Kind[s] = "for"}
Coroutine == {r \in Roots : Kind[r] = "coroutine"}

ScopeTree ==
    /\ Kind \in [Scopes -> {"function", "coroutine", "for", "block", "switch"}]
    /\ Parent \in [Scopes -> Scopes \union {None}] /\ None \notin Scopes
    /\ Encl \in [Scopes -> SUBSET Scopes]
    /\ \A s \in Scopes :
         /\ s \in Roots <=> Kind[s] \in {"function", "coroutine"}
         /\ Encl[s] = IF s \in Roots THEN {s} ELSE Encl[Parent[s]] \union {s}
         /\ s \notin Roots => s \notin Encl[Parent[s]]
         /\ \A a \in Encl[s] : Encl[a] \subseteq Encl[s]
         /\ \A a, b \in Encl[s] :
              /\ a \in Encl[b] \/ b \in Encl[a]
              /\ a \in Encl[b] /\ b \in Encl[a] => a = b

LoopDepths ==
    /\ BreakDepth \in [Scopes -> Nat] /\ ContinueDepth \in [Scopes -> Nat]
    /\ \A s \in Scopes : \A a \in Encl[s] :
         /\ BreakDepth[a] <= BreakDepth[s]
         /\ a # s /\ s \in Breakable => BreakDepth[a] < BreakDepth[s]
         /\ ContinueDepth[a] <= ContinueDepth[s]
         /\ a # s /\ s \in Loops => ContinueDepth[a] < ContinueDepth[s]

ASSUME ClosuresAssumption ==
    /\ ScopeTree /\ LoopDepths
    /\ Captured \subseteq Scopes
    /\ Body \in [Contexts -> Coroutine] /\ None \notin Contexts
    /\ MaxDepth \in Nat
    /\ Unordered \subseteq {"inner", "error", "end", "overlap"}

D   == Len(stack)
Top == stack[D]
At  == Top.at

OnStack(d, s)   == [seg |-> "stack", at |-> d, var |-> s]
InContext(c, s) == [seg |-> "context", at |-> c, var |-> s]
CopyOf(s)       == [seg |-> "copy", at |-> None, var |-> s]

AddressAt_caller(d, s) == OnStack(d - 1, s)

\* CreateVariableAccess: what a coroutine keeps between yields is in its
\* context; arguments are on the stack in any case
AddressAt(d, s) ==
    IF stack[d].ctx # None /\ s \notin Roots THEN InContext(stack[d].ctx, s) ELSE OnStack(d, s)
Address(s) == AddressAt(D, s)

Running(c) == \E d \in 1..D : stack[d].ctx = c

\* the variables that exist: of the active scopes, and of suspended coroutines
Waiting == {c \in Contexts : ~Running(c) /\ suspended[c] # None}

LiveAddresses ==
    (UNION {{AddressAt(d, s) : s \in Encl[stack[d].at]} : d \in 1..D})
    \union (UNION {{InContext(c, s) : s \in Encl[suspended[c]] \ Roots} : c \in Waiting})

Targets(v) == {node.target : node \in Range(lists[v])}
Open       == UNION {Targets(v) : v \in Captured}
Used       == UNION {{node.id : node \in Range(lists[v])} : v \in Captured}

Init ==
    /\ stack = <<>>
    /\ suspended = [c \in Contexts |-> None]
    /\ lists = [v \in Captured |-> <<>>]
    /\ turns = {} /\ copies = {}
-----------------------------------------------------------------------------
(***************************************************************************)
(* NULLC::CloseUpvalue, and the calls of it that ClosePendingUpvalues      *)
(* places for the variables of a set of scopes.                            *)
(***************************************************************************)
Matching(list, a) ==
    CHOOSE n \in 0..Len(list) :
        /\ \A k \in 1..n : list[k].target = a
        /\ n < Len(list) => list[n + 1].target # a

CloseUpvalue(list, a) == SubSeq(list, Matching(list, a) + 1, Len(list))

CloseScopes(scopes) ==
    /\ lists' = [v \in Captured |->
                   IF v \in scopes THEN CloseUpvalue(lists[v], Address(v)) ELSE lists[v]]
    /\ copies' = copies \union {v \in Captured : "inner" \in Unordered /\ lists'[v] # lists[v]}

\* the next iteration of these loops has variables of its own
Renew(loops) ==
    LET again == {Address(l) : l \in loops}
    IN  turns' = ((turns \ again) \union (again \ turns)) \intersect LiveAddresses'

Goto(s) == stack' = [stack EXCEPT ![D].at = s] /\ UNCHANGED suspended

\* the body of a for is followed by what closes the variable of the for
Iterated(s) == {s} \intersect Loops
-----------------------------------------------------------------------------
Call(f) ==
    /\ D < MaxDepth /\ Kind[f] = "function"
    /\ stack' = Append(stack, [at |-> f, ctx |-> None])
    /\ UNCHANGED <<suspended, lists, turns, copies>>

\* a call of a coroutine goes on behind its last yield
Resume(c) ==
    /\ D < MaxDepth /\ ~Running(c)
    /\ stack' = Append(stack, [at  |-> IF suspended[c] = None THEN Body[c] ELSE suspended[c],
                               ctx |-> c])
    /\ UNCHANGED <<suspended, lists, turns, copies>>

Enter(s) ==
    /\ D > 0 /\ Parent[s] = At
    /\ Goto(s)
    /\ UNCHANGED <<lists, turns, copies>>

Link_last(v, id, target) ==
    lists' = [lists EXCEPT ![v] =
                @ \o <<[id |-> id, target |-> target, odd |-> target \in turns]>>]

\* CreateFunctionContextVariableDefinition
Link(v, id, target) ==
    lists' = [lists EXCEPT ![v] =
                <<[id |-> id, target |-> target, odd |-> target \in turns]>> \o @]

Capture(v, id) ==
    /\ D > 0 /\ v \in Encl[At] /\ id \notin Used
    /\ \/ "overlap" \in Unordered
       \/ Address(v).seg = "stack"
       \/ \A node \in Range(lists[v]) : node.target = Address(v)
    /\ Link(v, id, Address(v))
    /\ UNCHANGED <<stack, suspended, turns, copies>>

\* in a local function the captured variable is what the node of that function
\* points to: the variable, or the copy when that has ended
CaptureInner(v, id) ==
    /\ D > 0 /\ id \notin Used
    /\ \E target \in Targets(v) \union {CopyOf(w) : w \in copies \intersect {v}} :
         /\ "inner" \in Unordered \/ (lists[v] # <<>> /\ target = Head(lists[v]).target)
         /\ Link(v, id, target)
    /\ UNCHANGED <<stack, suspended, turns, copies>>

EndBlock ==
    /\ D > 0 /\ Kind[At] = "block"
    /\ CloseScopes({At} \union Iterated(Parent[At]))
    /\ Goto(Parent[At])
    /\ Renew(Iterated(Parent[At]))

\* the condition of a for fails, or the last case of a switch is done
EndLoop ==
    /\ D > 0 /\ At \in Breakable
    /\ "end" \in Unordered \/ Address(At) \notin Open
    /\ CloseScopes(Iterated(Parent[At]))
    /\ Goto(Parent[At])
    /\ Renew(Iterated(Parent[At]))

Break_inner(depth) ==
    /\ D > 0
    /\ \E l \in Encl[At] \intersect Breakable :
         /\ BreakDepth[l] = BreakDepth[At] + 1 - depth
         /\ CloseScopes({s \in Encl[At] : BreakDepth[s] + depth > BreakDepth[At] + 1}
                          \union Iterated(Parent[l]))
         /\ Goto(Parent[l])
         /\ Renew(Iterated(Parent[l]))

Break(depth) ==
    /\ D > 0
    /\ \E l \in Encl[At] \intersect Breakable :
         /\ BreakDepth[l] = BreakDepth[At] + 1 - depth
         /\ CloseScopes({s \in Encl[At] : BreakDepth[s] + depth > BreakDepth[At]}
                          \union Iterated(Parent[l]))
         /\ Goto(Parent[l])
         /\ Renew(Iterated(Parent[l]))

Continue(depth) ==
    /\ D > 0
    /\ \E l \in Encl[At] \intersect Loops :
         /\ ContinueDepth[l] = ContinueDepth[At] + 1 - depth
         /\ CloseScopes({s \in Encl[At] : ContinueDepth[s] + depth > ContinueDepth[At]})
         /\ Goto(l)
         /\ Renew({l})

Pop == stack' = SubSeq(stack, 1, D - 1)

Return ==
    /\ D > 0
    /\ CloseScopes(Encl[At])
    /\ Pop
    /\ suspended' = [c \in Contexts |-> IF c = Top.ctx THEN None ELSE suspended[c]]
    /\ Renew({})

Yield_open ==
    /\ D > 0 /\ Top.ctx # None
    /\ CloseScopes({})
    /\ Pop
    /\ suspended' = [suspended EXCEPT ![Top.ctx] = At]
    /\ Renew({})

Yield ==
    /\ D > 0 /\ Top.ctx # None
    /\ CloseScopes(Encl[At] \intersect Roots)
    /\ Pop
    /\ suspended' = [suspended EXCEPT ![Top.ctx] = At]
    /\ Renew({})

\* Stop and Resume: an error goes to a try below, past the code that closes
Throw ==
    /\ \E d \in 0..(D - 1) : stack' = SubSeq(stack, 1, d)
    /\ UNCHANGED <<suspended, lists, copies>>
    /\ "error" \in Unordered \/ Open \subseteq LiveAddresses'
    /\ Renew({})

Next ==
    \/ \E f \in Roots : Call(f)
    \/ \E c \in Contexts : Resume(c)
    \/ \E s \in Scopes : Enter(s)
    \/ \E v \in Captured, id \in Ids : Capture(v, id) \/ CaptureInner(v, id)
    \/ EndBlock \/ EndLoop
    \/ \E depth \in 1..Cardinality(Scopes) : Break(depth) \/ Continue(depth)
    \/ Return \/ Yield \/ Throw

Spec == Init /\ [][Next]_vars
-----------------------------------------------------------------------------
Addresses ==
    {OnStack(d, s) : d \in 1..MaxDepth, s \in Scopes}
    \union {InContext(c, s) : c \in Contexts, s \in Scopes}
    \union {CopyOf(s) : s \in Scopes}
Nodes == [id : Ids, target : Addresses, odd : BOOLEAN]

\* Contexts, lists and values keep their types; nodes refer to variables that exist.
TypeOK ==
    /\ stack \in Seq([at : Scopes, ctx : Contexts \union {None}]) /\ D <= MaxDepth
    /\ suspended \in [Contexts -> Scopes \union {None}]
    /\ lists \in [Captured -> Seq(Nodes)]
    /\ turns \subseteq LiveAddresses /\ copies \subseteq Captured
    /\ \A v, w \in Captured : \A j \in DOMAIN lists[v], k \in DOMAIN lists[w] :
         lists[v][j].id = lists[w][k].id => v = w /\ j = k
    /\ \A d, e \in 1..D : stack[d].ctx = stack[e].ctx => d = e \/ stack[d].ctx = None

(***************************************************************************)
(* A node that is still in a list points to a variable that exists, the    *)
(* very one it captured: no function keeps a pointer to a frame that is    *)
(* gone or to the variable of a later call or iteration.                   *)
(***************************************************************************)
Attached ==
    \A v \in Captured : \A node \in Range(lists[v]) :
        /\ node.target \in LiveAddresses /\ node.target.var = v
        /\ node.odd = (node.target \in turns)

(***************************************************************************)
(* Why looking at the head of the list is enough: the nodes of a variable  *)
(* are in front of those of the same variable in calls further out.        *)
(***************************************************************************)
Ordered ==
    \A v \in Captured : \A j, k \in DOMAIN lists[v] :
        j < k => LET near == lists[v][j].target
                     far  == lists[v][k].target
                 IN  near = far \/ (near.seg = "stack" /\ far.seg = "stack" /\ near.at > far.at)

(***************************************************************************)
(* Local functions share a variable as long as it exists and keep a copy   *)
(* each from then on, whichever way its scope is left.                     *)
(***************************************************************************)
Variable(a, odd) == [address |-> a, odd |-> odd]

Shares == INSTANCE Lexical WITH
    Instances <- {Variable(a, odd) : a \in Addresses, odd \in BOOLEAN},
    Functions <- Ids,
    live <- {Variable(a, a \in turns) : a \in LiveAddresses},
    open <- {[id |-> node.id, variable |-> Variable(node.target, node.odd)] :
               node \in {n \in UNION {Range(lists[v]) : v \in Captured} : n.target.seg # "copy"}}

SharedWhileLive == Shares!Spec
==============================================================================
