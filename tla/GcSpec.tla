------------------------------- MODULE GcSpec -------------------------------
(***************************************************************************)
(* What NULLC::CollectMemory promises, in one step: the blocks no root     *)
(* leads to are freed, except those that must be finalized first and what  *)
(* these lead to; a finalizer is queued once for every such object.        *)
(* GcCycle is the collector's algorithm, and implements this module.       *)
(***************************************************************************)
EXTENDS Mutator

VARIABLES queued,    \* references to block b in finalizeList
          callbacks  \* __finalizeObjects runs the queued finalizers

specVars == <<mutatorVars, queued, callbacks>>

Queue == {b \in Blocks : queued[b] > 0}

(* Root words that lead to a block in use. *)
Roots == vars \cup regs \cup (stale \cap live)

TracedGraph == [b \in Blocks |-> Traced(heap[b])]

(* Blocks that no root leads to and whose finalizer has not been queued. *)
Unfinalized ==
    {b \in live \ Reach(Roots, TracedGraph) :
        heap[b].shape.fin /\ b \notin finalized}

Kept == Reach(Roots \cup Unfinalized, TracedGraph)

Init ==
    /\ MutatorInit
    /\ queued = [b \in Blocks |-> 0]
    /\ callbacks = FALSE

Run ==
    /\ Mutate(IF callbacks THEN Queue ELSE {})
    /\ UNCHANGED <<queued, callbacks>>

Collect ==
    /\ ~callbacks
    /\ live' = live \cap Kept
    /\ heap' = Released(heap, live \ Kept)
    /\ finalized' = (finalized \cup Unfinalized) \cap Kept
    /\ queued' = [b \in Blocks |-> IF b \in Unfinalized
                                   THEN References(heap[b]) ELSE queued[b]]
    /\ callbacks' = TRUE
    /\ UNCHANGED <<vars, regs, stale>>

EndCallbacks ==
    /\ callbacks
    /\ callbacks' = FALSE
    /\ queued' = [b \in Blocks |-> 0]
    /\ UNCHANGED mutatorVars

Next == Run \/ Collect \/ EndCallbacks

Spec == Init /\ [][Next]_specVars
=============================================================================
