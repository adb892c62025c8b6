----------------------------- MODULE Breakpoints ------------------------------
(***************************************************************************)
(* Breakpoints of the register VM (Executor_RegVm.cpp).                    *)
(*                                                                         *)
(* A breakpoint is a nop patched over an instruction; the instruction it   *)
(* replaces goes to breakCode.  When a lasting breakpoint has been         *)
(* signalled the VM goes on in breakCode: at the copy, then at a second    *)
(* nop that leads back into the code.  A one-time breakpoint puts the      *)
(* instruction back first.  To step, the VM places a one-time breakpoint   *)
(* where the program will go next.                                         *)
(*                                                                         *)
(* breakCode is a vector on the heap, and the instruction pointers of      *)
(* frames that called a function from a copy refer to its cells.  When it  *)
(* grows it moves.  ClearBreakpoints sets its count to 0 and leaves the    *)
(* cells as they are.                                                      *)
(***************************************************************************)
EXTENDS Integers, Sequences

CONSTANTS
    Program,    \* the code as linked: [op, kind, arg], kind "none"
    Increment,  \* what an empty vector grows by (32)
    MaxDepth,   \* bound: return addresses
    MaxBreaks,  \* bound: cells of breakCode in use
    Polite      \* the debugger removes lasting breakpoints only, and clears
                \* them when no program runs

Positions == DOMAIN Program
Ops       == {"op", "jmp", "jz", "call", "callx", "ret"}
Instr     == [op : Ops, kind : {"none"}, arg : Nat]
Kinds     == {"signal", "once", "return"}
Patch     == [op : {"nop"}, kind : Kinds, arg : Nat]

ASSUME BreakpointsAssumption ==
    /\ Program \in Seq(Instr)
    /\ Program # <<>>
    /\ \A i \in Positions :
           Program[i].op \in {"jmp", "jz", "call"} => Program[i].arg \in Positions
    /\ Program[Len(Program)].op = "ret"
    /\ Increment \in Nat \ {0} /\ MaxDepth \in Nat /\ MaxBreaks \in Nat
    /\ Polite \in BOOLEAN

VARIABLES
    code,       \* exRegVmCode, with its patches
    breakCode,  \* [cells, count, max, moved]: the vector, how often it moved
    ip,         \* instruction of the innermost RunCode; the first of the code
                \* when no RunCode is innermost
    callStack,  \* return addresses, which are also where the RunCodes of the
                \* callers go on
    finals,     \* lastFinalReturn of each Run that has not ended
    flag,       \* the register that conditional jumps test
    mode,       \* "idle", "run", "native", or "break": in breakFunction
    hit,        \* while there: ExecNop's copy of the nop
    goal        \* history: what the last step command asked for

machine == <<callStack, finals, flag>>
vars    == <<code, breakCode, ip, machine, mode, hit, goal>>

Nop(kind, arg) == [op |-> "nop", kind |-> kind, arg |-> arg]
InCode(i)      == [seg |-> "code", age |-> 0, pos |-> i]
InBreak(i, b)  == [seg |-> "break", age |-> b.moved, pos |-> i]
After(p)       == [p EXCEPT !.pos = @ + 1]
NoGoal         == [kind |-> "none", depth |-> 0, fresh |-> FALSE]
NoHit          == Nop("return", 0)

Entries == {Program[i].arg : i \in {j \in Positions : Program[j].op = "call"}}
Depth   == Len(callStack)
Final   == finals[Len(finals)]
AtFinal == Depth = Final
Caller  == callStack[Depth]
Up      == SubSeq(callStack, 1, Depth - 1)

\* the cell a pointer refers to is still a cell of breakCode
InUse(p) == p.age = breakCode.moved /\ p.pos \in 1..breakCode.count

Read(p) == IF p.seg = "code" THEN code[p.pos] ELSE breakCode.cells[p.pos]
Cmd     == Read(ip)

\* what GetCallStackAddress reports for a return address
Address(p) == IF p.seg = "break" /\ InUse(p) THEN breakCode.cells[p.pos].arg ELSE p.pos

\* the instruction of the program a pointer stands for: a copy in breakCode is
\* followed by the nop that leads behind the original
Where(p) ==
    IF p.seg = "code" THEN p.pos
    ELSE IF Read(p).op = "nop" THEN Read(p).arg ELSE Read(After(p)).arg - 1

(***************************************************************************)
(* FastVector::push_back: over what a clear left in the cell, and with a   *)
(* move when the vector is full.                                           *)
(***************************************************************************)
Grown(b) == IF b.max + b.max \div 2 > b.count THEN b.max + b.max \div 2 ELSE b.count + Increment

Push_gap(b, c) ==
    [cells |-> Append(b.cells, c), count |-> b.count + 2, max |-> b.max, moved |-> b.moved]

Push(b, c) ==
    [cells |-> IF b.count < Len(b.cells)
               THEN [b.cells EXCEPT ![b.count + 1] = c] ELSE Append(b.cells, c),
     count |-> b.count + 1,
     max   |-> IF b.count = b.max THEN Grown(b) ELSE b.max,
     moved |-> IF b.count = b.max THEN b.moved + 1 ELSE b.moved]

Init ==
    /\ code = Program
    /\ breakCode = [cells |-> <<>>, count |-> 0, max |-> 0, moved |-> 0]
    /\ ip = InCode(1) /\ callStack = <<>> /\ finals = <<>> /\ flag = FALSE
    /\ mode = "idle" /\ hit = NoHit /\ goal = NoGoal
-----------------------------------------------------------------------------
(***************************************************************************)
(* RunCode, one instruction at a time.  A copy in breakCode is executed    *)
(* like the original: jumps and calls lead into the code, and the next     *)
(* instruction is the next cell.                                           *)
(***************************************************************************)
Executed == goal' = [goal EXCEPT !.fresh = FALSE]

Start ==
    /\ mode = "idle"
    /\ mode' = "run" /\ ip' = InCode(1) /\ callStack' = <<>> /\ finals' = <<0>>
    /\ UNCHANGED <<code, breakCode, flag, hit, goal>>

Compute ==
    /\ Cmd.op = "op"
    /\ flag' \in BOOLEAN /\ ip' = After(ip) /\ Executed
    /\ UNCHANGED <<code, breakCode, callStack, finals, mode, hit>>

Jump ==
    /\ \/ Cmd.op = "jmp" /\ ip' = InCode(Cmd.arg)
       \/ Cmd.op = "jz"  /\ ip' = IF flag THEN After(ip) ELSE InCode(Cmd.arg)
    /\ Executed
    /\ UNCHANGED <<code, breakCode, machine, mode, hit>>

\* ExecCall: an external function returns to the same frame
Call ==
    /\ Cmd.op \in {"call", "callx"}
    /\ Depth < MaxDepth
    /\ callStack' = Append(callStack, After(ip))
    /\ IF Cmd.op = "call"
       THEN ip' = InCode(Cmd.arg) /\ UNCHANGED mode
       ELSE mode' = "native" /\ ip' = InCode(1)
    /\ Executed
    /\ UNCHANGED <<code, breakCode, finals, flag, hit>>

\* ExecReturn: to the caller, or out of Run
Return ==
    /\ Cmd.op = "ret"
    /\ IF ~AtFinal
       THEN ip' = Caller /\ callStack' = Up /\ Executed /\ UNCHANGED <<finals, mode>>
       ELSE /\ finals' = SubSeq(finals, 1, Len(finals) - 1)
            /\ mode' = IF Len(finals) = 1 THEN "idle" ELSE "native"
            /\ goal' = IF goal.depth < Depth THEN goal ELSE NoGoal
            /\ ip' = InCode(1) /\ UNCHANGED callStack
    /\ UNCHANGED <<code, breakCode, flag, hit>>

\* the nop behind a copy
LeaveBreakCode ==
    /\ Cmd.op = "nop" /\ Cmd.kind = "return"
    /\ ip' = InCode(Cmd.arg)
    /\ UNCHANGED <<code, breakCode, machine, mode, hit, goal>>

\* a native function runs a function (nullcCallFunction, Run)
CallBack(f) ==
    /\ mode = "native" /\ Depth < MaxDepth
    /\ mode' = "run" /\ ip' = InCode(f) /\ finals' = Append(finals, Depth)
    /\ UNCHANGED <<code, breakCode, callStack, flag, hit, goal>>

NativeReturns ==
    /\ mode = "native"
    /\ mode' = "run" /\ ip' = Caller /\ callStack' = Up
    /\ UNCHANGED <<code, breakCode, finals, flag, hit, goal>>
-----------------------------------------------------------------------------
(***************************************************************************)
(* ExecNop: breakFunction is called, and its answer decides.               *)
(***************************************************************************)
Hit ==
    /\ Cmd.op = "nop" /\ Cmd.kind \in {"signal", "once"}
    /\ mode' = "break" /\ hit' = Cmd /\ goal' = NoGoal
    /\ UNCHANGED <<code, breakCode, ip, machine>>

\* where the program goes when it has executed orig, as ExecNop predicts it;
\* each later condition takes precedence over those before it
NextCommand(orig, response) ==
    IF response = "out" /\ ~AtFinal THEN Caller
    ELSE IF response = "into" /\ orig.op = "call" THEN InCode(orig.arg)
    ELSE IF orig.op = "ret" /\ ~AtFinal THEN Caller
    ELSE IF orig.op = "jmp" \/ (orig.op = "jz" /\ ~flag) THEN InCode(orig.arg)
    ELSE After(ip)

\* a return address in breakCode stands for the instruction it leads to
StepTarget_direct(orig, response) == NextCommand(orig, response)
StepTarget(orig, response) ==
    LET next == NextCommand(orig, response) IN
    IF Read(next).op = "nop" /\ Read(next).kind = "return"
    THEN InCode(Read(next).arg) ELSE next

\* ExecNop resumes: an instruction under a one-time breakpoint is put back
Resumed_restore(once, placed, grown) ==
    code' = [placed EXCEPT ![ip.pos] = grown.cells[hit.arg]] /\ UNCHANGED ip

Resumed(once, placed, grown) ==
    IF once
    THEN code' = [placed EXCEPT ![ip.pos] = grown.cells[hit.arg]] /\ UNCHANGED ip
    ELSE code' = placed /\ ip' = InBreak(hit.arg, grown)

\* "proceed" and the step commands, at a lasting and at a one-time breakpoint
Respond(response) ==
    LET orig   == breakCode.cells[hit.arg]
        target == StepTarget(orig, response)
        place  == response # "proceed" /\ Read(target).op # "nop"
        grown  == IF place THEN Push(breakCode, Read(target)) ELSE breakCode
        placed == IF place THEN [code EXCEPT ![target.pos] = Nop("once", grown.count)] ELSE code
    IN  /\ mode = "break" /\ mode' = "run"
        /\ grown.count <= MaxBreaks
        /\ breakCode' = grown
        /\ Resumed(hit.kind = "once", placed, grown)
        /\ hit' = NoHit
        /\ goal' = IF response = "proceed" THEN NoGoal
                   ELSE [kind  |-> IF (response = "out" /\ AtFinal) \/ (response = "into" /\ orig.op = "callx")
                                   THEN "over" ELSE response,
                         depth |-> Depth, fresh |-> TRUE]
        /\ UNCHANGED machine

Stop ==
    /\ mode = "break"
    /\ mode' = "idle" /\ callStack' = <<>> /\ finals' = <<>> /\ hit' = NoHit /\ goal' = NoGoal
    /\ ip' = InCode(1)
    /\ UNCHANGED <<code, breakCode, flag>>
-----------------------------------------------------------------------------
(***************************************************************************)
(* The debugger's calls, which come from the host, from breakFunction or   *)
(* from a native function.                                                 *)
(***************************************************************************)
AddBreakpoint_bare(i, oneHit) ==
    /\ code[i].op # "nop"
    /\ LET copy == Push(breakCode, code[i]) IN
       /\ breakCode' = copy
       /\ breakCode'.count <= MaxBreaks
       /\ code' = [code EXCEPT ![i] = Nop(IF oneHit THEN "once" ELSE "signal", copy.count)]
    /\ UNCHANGED <<ip, machine, mode, hit, goal>>

AddBreakpoint_shared(i, oneHit) ==
    /\ code[i].op # "nop"
    /\ LET b1 == Push(breakCode, code[i]) IN
       /\ breakCode' = Push(b1, Nop("return", i))
       /\ breakCode'.count <= MaxBreaks
       /\ code' = [code EXCEPT ![i] = Nop(IF oneHit THEN "once" ELSE "signal", b1.count)]
    /\ UNCHANGED <<ip, machine, mode, hit, goal>>

AddBreakpoint(i, oneHit) ==
    /\ code[i].op # "nop"
    /\ LET copy == Push(breakCode, code[i]) IN
       /\ breakCode' = IF oneHit THEN copy ELSE Push(copy, Nop("return", i + 1))
       /\ breakCode'.count <= MaxBreaks
       /\ code' = [code EXCEPT ![i] = Nop(IF oneHit THEN "once" ELSE "signal", copy.count)]
    /\ UNCHANGED <<ip, machine, mode, hit, goal>>

RemoveBreakpoint(i) ==
    /\ code[i].op = "nop"
    /\ Polite => code[i].kind = "signal"
    /\ code' = [code EXCEPT ![i] = breakCode.cells[code[i].arg]]
    /\ goal' = NoGoal
    /\ UNCHANGED <<breakCode, ip, machine, mode, hit>>

ClearBreakpoints_lasting ==
    /\ Polite => mode = "idle"
    /\ code' = [i \in Positions |->
                  IF code[i].op = "nop" /\ code[i].kind = "signal"
                  THEN breakCode.cells[code[i].arg] ELSE code[i]]
    /\ breakCode' = [breakCode EXCEPT !.count = 0]
    /\ goal' = NoGoal
    /\ UNCHANGED <<ip, machine, mode, hit>>

ClearBreakpoints ==
    /\ Polite => mode = "idle"
    /\ code' = [i \in Positions |->
                  IF code[i].op = "nop" THEN breakCode.cells[code[i].arg] ELSE code[i]]
    /\ breakCode' = [breakCode EXCEPT !.count = 0]
    /\ goal' = NoGoal
    /\ UNCHANGED <<ip, machine, mode, hit>>

Execute == mode = "run" /\ (Compute \/ Jump \/ Call \/ Return \/ LeaveBreakCode \/ Hit)

Debug ==
    \/ \E r \in {"proceed", "over", "into", "out"} : Respond(r)
    \/ Stop
    \/ \E i \in Positions : (\E oneHit \in BOOLEAN : AddBreakpoint(i, oneHit)) \/ RemoveBreakpoint(i)
    \/ ClearBreakpoints

Next ==
    \/ Start \/ NativeReturns \/ Execute \/ Debug
    \/ \E f \in Entries : CallBack(f)

Spec == Init /\ [][Next]_vars
-----------------------------------------------------------------------------
Vector == [cells : Seq(Instr \union Patch), count : Nat, max : Nat, moved : Nat]
Pointer == [seg : {"code", "break"}, age : Nat, pos : Nat]

\* Instructions and nops in code, cells and pointers keep their types, and the
\* cells in use are cells of the vector.
TypeOK ==
    /\ code \in [Positions -> Instr \union Patch]
    /\ breakCode \in Vector /\ breakCode.count <= Len(breakCode.cells)
    /\ ip \in Pointer /\ callStack \in Seq(Pointer) /\ finals \in Seq(Nat)
    /\ flag \in BOOLEAN /\ mode \in {"idle", "run", "native", "break"}
    /\ hit \in Patch
    /\ goal \in [kind : {"none", "over", "into", "out"}, depth : Nat, fresh : BOOLEAN]

(***************************************************************************)
(* Whatever was patched, and however often, each instruction of the        *)
(* program can be put back: it is in its place, or its breakpoint refers   *)
(* to a copy of it.                                                        *)
(***************************************************************************)
Recoverable ==
    \A i \in Positions :
        \/ code[i] = Program[i]
        \/ /\ code[i].op = "nop" /\ code[i].kind \in {"signal", "once"}
           /\ code[i].arg \in 1..breakCode.count
           /\ breakCode.cells[code[i].arg] = Program[i]

(***************************************************************************)
(* A frame that goes on in breakCode finds its cell there, and in it the   *)
(* way back into the code, which GetCallStackAddress asserts.              *)
(***************************************************************************)
FramesValid ==
    \A k \in 1..Depth :
        callStack[k].seg = "break" =>
            InUse(callStack[k]) /\ Read(callStack[k]).op = "nop" /\ Read(callStack[k]).kind = "return"

(***************************************************************************)
(* A step command stops the program where it asks to: at the next          *)
(* instruction, at the next one that is not in a deeper call, or in the    *)
(* caller; unless the code that was stepped returned to a native function. *)
(***************************************************************************)
Stopping(p) ==
    LET there == IF Read(p).op = "nop" /\ Read(p).kind = "return" THEN InCode(Read(p).arg) ELSE p
    IN  Read(there).op = "nop"

StepStops ==
    mode = "run" /\ ~goal.fresh =>
        /\ goal.kind = "into" => Stopping(ip)
        /\ goal.kind = "over" /\ Depth <= goal.depth => Stopping(ip)
        /\ goal.kind = "out" /\ Depth < goal.depth => Stopping(ip)

(***************************************************************************)
(* A lasting breakpoint stays until the debugger takes it away: neither    *)
(* running, nor stopping, nor stepping loses it.                           *)
(***************************************************************************)
Lasting(c) == {i \in Positions : c[i].op = "nop" /\ c[i].kind = "signal"}

BreakpointsLast ==
    [][(mode # mode' \/ ip # ip') => Lasting(code) \subseteq Lasting(code')]_vars

(***************************************************************************)
(* Debugging does not change the program: seen through the addresses the   *)
(* VM reports, a run with breakpoints is a run of the program.             *)
(***************************************************************************)
Plain == INSTANCE PlainRun WITH
    at    <- Where(ip),
    stack <- [k \in 1..Depth |-> Address(callStack[k])],
    phase <- IF mode = "break" THEN "run" ELSE mode

Transparent == Plain!Spec
==============================================================================
