----------------------------- MODULE RegVmCalls -------------------------------
(***************************************************************************)
(* Calls, returns and errors of the register VM (Executor_RegVm.cpp).      *)
(*                                                                         *)
(* The VM keeps its own stacks (callStack, dataStack and the register      *)
(* file), while the calls themselves nest on the native stack:             *)
(* ExecCall -> RunCode -> ExecCall for code, and ExecCall -> native        *)
(* function -> nullcCallFunction -> Run -> RunCode when a native function  *)
(* calls back.  A collection is such a call too: it runs                   *)
(* __finalizeObjects.  An error returns through all of these frames; only  *)
(* Run and std.error's try put the stacks of the VM right again.           *)
(*                                                                         *)
(* The contents of the stacks are left out, their sizes are kept; data     *)
(* sizes count frames, register sizes count registers.                     *)
(***************************************************************************)
EXTENDS Integers, FiniteSets, SequencesExt

CONSTANTS
    Functions,   \* nullc functions: [data: frame size, regs: registers]
    Globals,     \* size of the global variables
    GlobalRegs,  \* registers of the global code (256)
    DataMax,     \* dataStack.max
    RegMax,      \* registers in the register file (32768)
    MaxFrames,   \* bound: native frames
    QuietErrors, \* no collection starts between an error and its handling
    Patient      \* a native function calls back again after a failed call

Function == [data : Nat, regs : Nat]

(* What a native function takes, and the global code, which is none of the
   functions.                                                              *)
Nothing == [data |-> 0, regs |-> 0]
Global  == [data |-> 0, regs |-> GlobalRegs]

ASSUME CallsAssumption ==
    /\ Functions \subseteq Function \ {Global}
    /\ Globals <= DataMax
    /\ Globals \in Nat /\ GlobalRegs \in Nat /\ DataMax \in Nat /\ RegMax \in Nat
    /\ MaxFrames \in Nat /\ QuietErrors \in BOOLEAN /\ Patient \in BOOLEAN

VARIABLES
    calls,        \* callStack.size()
    final,        \* lastFinalReturn: callStack.size() when the last Run started
    data,         \* dataStack.size()
    regs,         \* regFileLastTop
    codeRunning, callContinue,
    errorDepth,   \* execErrorFinalReturnDepth
    frames,       \* the frames on the native stack, innermost last
    ret           \* how the body of the innermost frame ended, or "none"

vm   == <<calls, final, data, regs, codeRunning, callContinue, errorDepth>>
vars == <<vm, frames, ret>>

(***************************************************************************)
(* kind:   "run" for Run, "call" for an ExecCall of nullc code, or the     *)
(*         native function that ExecCall or Run called;                    *)
(* fn:     what the frame takes of the data stack and the register file;   *)
(* pushed: ExecCall pushed a return address for it;                        *)
(* final, data, regs: values it keeps in local variables;                  *)
(* failed: a call the native function made ended in an error.              *)
(***************************************************************************)
Natives == {"alloc", "callback", "try", "throw"}

Frame(kind, fn, pushed) ==
    [kind |-> kind, fn |-> fn, pushed |-> pushed,
     final |-> final, data |-> data, regs |-> regs, failed |-> FALSE]

Top == Last(frames)

Code == frames # <<>> /\ ret = "none" /\ Top.kind \in {"run", "call"}

Native(kind) == frames # <<>> /\ ret = "none" /\ Top.kind = kind

Init ==
    /\ calls = 0 /\ final = 0 /\ data = Globals /\ regs = 0
    /\ codeRunning = FALSE /\ callContinue = TRUE /\ errorDepth = 0
    /\ frames = <<>> /\ ret = "none"

-----------------------------------------------------------------------------
(* Whether Run starts from empty stacks (InitExecution). *)
Fresh(fn) == ~codeRunning \/ fn = Global

(* ExecutorRegVm::Run up to RunCode: a function that has no room for its
   frame fails before it starts.                                           *)
StartRun(fn) ==
    LET fresh == Fresh(fn)
        depth == IF fresh THEN 0 ELSE calls
        used  == IF fresh THEN Globals ELSE data
        file  == IF fresh THEN 0 ELSE regs
        fits  == fn = Global \/ used + fn.data < DataMax
    IN /\ Len(frames) < MaxFrames
       /\ frames' = Append(frames,
             [kind |-> "run", fn |-> fn, pushed |-> FALSE, failed |-> FALSE,
              final |-> IF fresh THEN 0 ELSE final, data |-> used, regs |-> file])
       /\ final' = depth
       /\ errorDepth' = IF fresh THEN 0 ELSE errorDepth
       /\ IF fits
          THEN /\ calls' = depth
               /\ data' = used + fn.data
               /\ regs' = file + fn.regs
               /\ codeRunning' = TRUE
               /\ callContinue' = (fresh \/ callContinue)
               /\ ret' = "none"
          ELSE /\ calls' = depth + 1
               /\ data' = used
               /\ regs' = file
               /\ codeRunning' = FALSE /\ callContinue' = FALSE
               /\ ret' = "error"

(* nullcRun and nullcRunFunction, called by the host. *)
HostRun ==
    /\ frames = <<>>
    /\ \E fn \in Functions \cup {Global} : StartRun(fn)

(* nullcRunFunction of a native function: Run calls it and has no code. *)
HostRunNative ==
    /\ frames = <<>>
    /\ MaxFrames > 1
    /\ \E kind \in Natives :
        LET fresh == ~codeRunning
            run == [kind |-> "run", fn |-> Nothing, pushed |-> FALSE, failed |-> FALSE,
                    final |-> IF fresh THEN 0 ELSE final,
                    data |-> IF fresh THEN Globals ELSE data,
                    regs |-> IF fresh THEN 0 ELSE regs]
        IN /\ calls' = (IF fresh THEN 0 ELSE calls)
           /\ final' = calls'
           /\ data' = run.data /\ regs' = run.regs
           /\ codeRunning' = TRUE
           /\ callContinue' = (fresh \/ callContinue)
           /\ errorDepth' = (IF fresh THEN 0 ELSE errorDepth)
           /\ frames' = <<run, [run EXCEPT !.kind = kind, !.final = final']>>
    /\ UNCHANGED ret

(* Plausible bugs (names in _): each replaces the definition after it. *)

(* The frames are left as they are when an error returns through Run. *)
FinishRun_keep ==
    /\ frames # <<>> /\ ret # "none" /\ Top.kind = "run"
    /\ frames' = Front(frames)
    /\ final' = Top.final
    /\ IF ret = "error"
       THEN /\ errorDepth' = final
            /\ codeRunning' = FALSE /\ callContinue' = FALSE
            /\ UNCHANGED <<data, regs>>
       ELSE /\ data' = Top.data /\ regs' = Top.regs
            /\ UNCHANGED <<errorDepth, codeRunning, callContinue>>
    /\ ret' = IF Len(frames) = 1 THEN "none" ELSE ret
    /\ UNCHANGED calls

(* Run after RunCode: its frames are dropped, and an error is handed on. *)
FinishRun ==
    /\ frames # <<>> /\ ret # "none" /\ Top.kind = "run"
    /\ frames' = Front(frames)
    /\ data' = Top.data /\ regs' = Top.regs
    /\ final' = Top.final
    /\ IF ret = "error"
       THEN /\ errorDepth' = final
            /\ codeRunning' = FALSE /\ callContinue' = FALSE
       ELSE UNCHANGED <<errorDepth, codeRunning, callContinue>>
    /\ ret' = IF Len(frames) = 1 THEN "none" ELSE ret
    /\ UNCHANGED calls

-----------------------------------------------------------------------------
(* ExecutorRegVm::ExecCall of a nullc function. *)
CallFunction ==
    /\ Code
    /\ \E fn \in Functions :
        /\ calls' = calls + 1
        /\ IF data + fn.data >= DataMax
           THEN /\ codeRunning' = FALSE /\ callContinue' = FALSE
                /\ ret' = "error"
                /\ UNCHANGED <<data, regs, frames>>
           ELSE IF regs + fn.regs >= RegMax
           THEN /\ codeRunning' = FALSE /\ callContinue' = FALSE
                /\ regs' = regs + fn.regs
                /\ ret' = "error"
                /\ UNCHANGED <<data, frames>>
           ELSE /\ Len(frames) < MaxFrames
                /\ frames' = Append(frames, Frame("call", fn, TRUE))
                /\ data' = data + fn.data
                /\ regs' = regs + fn.regs
                /\ UNCHANGED <<codeRunning, callContinue, ret>>
    /\ UNCHANGED <<final, errorDepth>>

(* ExecCall after RunCode: an error is handed to the code that called. *)
FinishCall ==
    /\ frames # <<>> /\ ret # "none" /\ Top.kind = "call"
    /\ frames' = Front(frames)
    /\ IF ret = "error"
       THEN UNCHANGED <<data, regs, ret>>
       ELSE /\ data' = Top.data /\ regs' = Top.regs
            /\ ret' = "none"
    /\ UNCHANGED <<calls, final, codeRunning, callContinue, errorDepth>>

(* A return at the depth of the last Run keeps its entry: < for ==. *)
Return_under ==
    /\ Code
    /\ IF calls < final
       THEN /\ codeRunning' = (codeRunning /\ final # 0)
            /\ UNCHANGED calls
       ELSE /\ calls' = calls - 1
            /\ UNCHANGED codeRunning
    /\ ret' = "ok"
    /\ UNCHANGED <<final, data, regs, callContinue, errorDepth, frames>>

(* ExecReturn: the return address is dropped, unless Run started the code. *)
Return ==
    /\ Code
    /\ IF calls = final
       THEN /\ codeRunning' = (codeRunning /\ final # 0)
            /\ UNCHANGED calls
       ELSE /\ calls' = calls - 1
            /\ UNCHANGED codeRunning
    /\ ret' = "ok"
    /\ UNCHANGED <<final, data, regs, callContinue, errorDepth, frames>>

(* ExecReturn at the end of code without a return: the end of the global
   code, or of a function that has to return a value.  "void" is a RunCode
   of a function that returned nothing.                                    *)
FallOff ==
    /\ Code
    /\ calls' = calls + 1
    /\ codeRunning' = FALSE
    /\ IF calls # 0
       THEN callContinue' = FALSE /\ ret' = "error"
       ELSE /\ ret' = IF Top.fn = Global THEN "ok" ELSE "void"
            /\ UNCHANGED callContinue
    /\ UNCHANGED <<final, data, regs, errorDepth, frames>>

(* ExecError: an instruction fails. *)
InstructionFails ==
    /\ Code
    /\ calls' = calls + 1
    /\ codeRunning' = FALSE /\ callContinue' = FALSE
    /\ ret' = "error"
    /\ UNCHANGED <<final, data, regs, errorDepth, frames>>

-----------------------------------------------------------------------------
(* Native functions. *)

(* ExecCall of a native function. *)
CallNative ==
    /\ Code
    /\ Len(frames) < MaxFrames
    /\ calls' = calls + 1
    /\ \E kind \in Natives : frames' = Append(frames, Frame(kind, Nothing, TRUE))
    /\ UNCHANGED <<final, data, regs, codeRunning, callContinue, errorDepth, ret>>

(* ExecCall does not look at callContinue. *)
LeaveNative_on ==
    /\ frames' = Front(frames)
    /\ IF Top.pushed
       THEN /\ calls' = calls - 1 /\ ret' = "none"
       ELSE /\ ret' = (IF callContinue THEN "ok" ELSE "error") /\ UNCHANGED calls
    /\ UNCHANGED <<final, data, regs, codeRunning, callContinue, errorDepth>>

(* ExecCall, or Run, after the native function. *)
LeaveNative ==
    /\ frames' = Front(frames)
    /\ IF ~Top.pushed
       THEN /\ ret' = IF callContinue THEN "ok" ELSE "error"
            /\ UNCHANGED calls
       ELSE IF callContinue
       THEN /\ calls' = calls - 1 /\ ret' = "none"
       ELSE /\ ret' = "error" /\ UNCHANGED calls
    /\ UNCHANGED <<final, data, regs, codeRunning, callContinue, errorDepth>>

(* AllocObject reaches a limit: CollectMemory runs __finalizeObjects. *)
Collect ==
    /\ \E kind \in Natives : Native(kind)
    /\ codeRunning \/ ~QuietErrors
    /\ Top.kind \in {"try", "throw"} => Top.failed
    /\ \E fn \in Functions : StartRun(fn)

(* A native function calls a function it was given. *)
CallBack ==
    /\ Native("callback") \/ Native("try")
    /\ Top.failed => Patient /\ Top.kind = "callback"
    /\ \E fn \in Functions : StartRun(fn)

(* nullcCallFunction returns to the native function; CollectMemory does not
   look at the result.                                                     *)
CallReturns ==
    /\ frames # <<>> /\ ret # "none" /\ Top.kind \in Natives
    /\ frames' = [frames EXCEPT ![Len(frames)].failed = @ \/ (ret = "error" /\ Top.kind # "alloc")]
    /\ ret' = "none"
    /\ UNCHANGED vm

(* throw: the error is set, then the error object is copied when it lies on
   the stack.                                                              *)
Throw ==
    /\ Native("throw") /\ ~Top.failed
    /\ codeRunning' = FALSE /\ callContinue' = FALSE
    /\ frames' = [frames EXCEPT ![Len(frames)].failed = TRUE]
    /\ UNCHANGED <<calls, final, data, regs, errorDepth, ret>>

(* try after a failed call, its message allocated: ExecutorRegVm::Resume. *)
Recover ==
    /\ Native("try") /\ Top.failed
    /\ calls' = errorDepth
    /\ codeRunning' = TRUE /\ callContinue' = TRUE
    /\ frames' = [frames EXCEPT ![Len(frames)].failed = FALSE]
    /\ UNCHANGED <<final, data, regs, errorDepth, ret>>

NativeReturns ==
    /\ \E kind \in Natives : Native(kind)
    /\ Top.kind = "try" => ~Top.failed
    /\ Top.kind = "throw" => Top.failed
    /\ LeaveNative

Next ==
    \/ HostRun \/ HostRunNative \/ FinishRun
    \/ CallFunction \/ FinishCall \/ Return \/ FallOff \/ InstructionFails
    \/ CallNative \/ Collect \/ CallBack \/ CallReturns \/ Throw
    \/ Recover \/ NativeReturns

Spec == Init /\ [][Next]_vars
-----------------------------------------------------------------------------
(* The stacks, the frames and the flags of the executor keep their types. *)
TypeOK ==
    /\ calls \in Nat /\ final \in Nat /\ errorDepth \in Nat
    /\ data \in Globals..DataMax /\ regs \in Nat
    /\ codeRunning \in BOOLEAN /\ callContinue \in BOOLEAN
    /\ ret \in {"none", "ok", "error", "void"}

(* Return addresses that ExecCall pushed for the k outermost frames. *)
Pushed(k) == Cardinality({j \in 1..k : frames[j].pushed})

(* The innermost Run is frame r. *)
LastRun(r) == frames[r].kind = "run" /\ \A k \in (r + 1)..Len(frames) : frames[k].kind # "run"

(* Data and registers of frame k begin where those of the frame below end. *)
Above(k) == IF k = Len(frames) THEN [data |-> data, regs |-> regs]
            ELSE [data |-> frames[k + 1].data, regs |-> frames[k + 1].regs]

(* Code runs only while the VM says so: a Run that starts now knows that it
   is not the outermost one.                                               *)
CodeIsRunning == Code => codeRunning /\ callContinue

(* The stacks of the VM belong to the frames that are running: as many
   return addresses as ExecCall pushed, and the data and registers of each
   frame once.                                                             *)
StacksMatch ==
    /\ calls = Pushed(Len(frames))
    /\ \A r \in DOMAIN frames : LastRun(r) => final = Pushed(r - 1)
    /\ frames # <<>> => Head(frames).data = Globals /\ Head(frames).regs = 0
    /\ \A k \in DOMAIN frames :
         Above(k) = [data |-> frames[k].data + frames[k].fn.data,
                     regs |-> frames[k].regs + frames[k].fn.regs]

(* Code and native functions find the stacks so whenever they run and no
   error is on its way, and code runs only with codeRunning set.           *)
Balanced ==
    /\ CodeIsRunning
    /\ frames # <<>> /\ ret = "none" /\ codeRunning /\ ~Top.failed => StacksMatch

(* An error in a function that a native function called stops the code that
   called the native function.                                             *)
ErrorsPropagate ==
    [][Len(frames') < Len(frames) /\ Top.kind \in {"callback", "throw"} /\ Top.failed
          => ret' = "error"]_vars
=============================================================================
