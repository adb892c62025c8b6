------------------------------- MODULE Lexical --------------------------------
(***************************************************************************)
(* What closures promise: a local variable is shared by the functions that *)
(* captured it for as long as it exists, and at the moment it ends each of *)
(* them gets a copy of its own.                                            *)
(***************************************************************************)
CONSTANTS Instances, Functions

VARIABLES live, \* the variables that exist
          open  \* which function object shares which variable

Init == live = {} /\ open = {}

\* variables begin and end, and those that end are taken out of all sharing
Pass ==
    /\ live' \in SUBSET Instances
    /\ open' = {node \in open : node.variable \in live'}

Capture ==
    /\ UNCHANGED live
    /\ \E id \in Functions, v \in live :
         /\ \A node \in open : node.id # id
         /\ open' = open \union {[id |-> id, variable |-> v]}

vars == <<live, open>>

Spec == Init /\ [][Pass \/ Capture]_vars
==============================================================================
