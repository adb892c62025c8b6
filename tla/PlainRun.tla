------------------------------ MODULE PlainRun -------------------------------
(***************************************************************************)
(* What a run of the register VM does when nobody debugs it: the program   *)
(* is a fixed sequence of instructions, a position is a number, and each   *)
(* step executes the instruction at the position.  Breakpoints must not    *)
(* show in it (module Breakpoints).                                        *)
(***************************************************************************)
EXTENDS Integers, Sequences

CONSTANTS Program,  \* the linked code: [op, kind, arg]
          MaxDepth  \* bound: return addresses in callStack

VARIABLES
    at,     \* the next instruction; 1 when a native function or the host runs
    stack,  \* callStack: positions to return to
    finals, \* callStack.size() when each Run that has not ended began
    flag,   \* what conditional jumps test
    phase   \* "idle", "run", or "native" in a native function

vars == <<at, stack, finals, flag, phase>>

Entries == {Program[i].arg : i \in {j \in DOMAIN Program : Program[j].op = "call"}}
Final   == finals[Len(finals)]
Up      == SubSeq(stack, 1, Len(stack) - 1)

Init == at = 1 /\ stack = <<>> /\ finals = <<>> /\ flag = FALSE /\ phase = "idle"

Start ==
    /\ phase = "idle"
    /\ phase' = "run" /\ at' = 1 /\ stack' = <<>> /\ finals' = <<0>> /\ UNCHANGED flag

Goto(i) == at' = i /\ UNCHANGED <<stack, finals, flag, phase>>

Compute ==
    /\ Program[at].op = "op"
    /\ flag' \in BOOLEAN /\ at' = at + 1
    /\ UNCHANGED <<stack, finals, phase>>

Jump ==
    \/ Program[at].op = "jmp" /\ Goto(Program[at].arg)
    \/ Program[at].op = "jz"  /\ Goto(IF flag THEN at + 1 ELSE Program[at].arg)

\* a call leaves the position of the instruction after it
Call ==
    /\ Program[at].op \in {"call", "callx"}
    /\ Len(stack) < MaxDepth
    /\ stack' = Append(stack, at + 1)
    /\ IF Program[at].op = "call"
       THEN at' = Program[at].arg /\ UNCHANGED phase
       ELSE phase' = "native" /\ at' = 1
    /\ UNCHANGED <<finals, flag>>

\* back to the caller, or out of Run
Return ==
    /\ Program[at].op = "ret"
    /\ IF Len(stack) # Final
       THEN at' = stack[Len(stack)] /\ stack' = Up /\ UNCHANGED <<finals, phase>>
       ELSE /\ finals' = SubSeq(finals, 1, Len(finals) - 1)
            /\ phase' = IF Len(finals) = 1 THEN "idle" ELSE "native"
            /\ at' = 1
            /\ UNCHANGED stack
    /\ UNCHANGED flag

CallBack(f) ==
    /\ phase = "native" /\ Len(stack) < MaxDepth
    /\ phase' = "run" /\ at' = f /\ finals' = Append(finals, Len(stack))
    /\ UNCHANGED <<stack, flag>>

NativeReturns ==
    /\ phase = "native"
    /\ phase' = "run" /\ at' = stack[Len(stack)] /\ stack' = Up
    /\ UNCHANGED <<finals, flag>>

\* the debugger stops the program
Stop ==
    /\ phase = "run"
    /\ phase' = "idle" /\ at' = 1 /\ stack' = <<>> /\ finals' = <<>>
    /\ UNCHANGED flag

Next ==
    \/ Start \/ NativeReturns \/ Stop
    \/ phase = "run" /\ (Compute \/ Jump \/ Call \/ Return)
    \/ \E f \in Entries : CallBack(f)

Spec == Init /\ [][Next]_vars
==============================================================================
