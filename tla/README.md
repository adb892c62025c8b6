# nullc: TLA+ models, checks and proofs

nullc is a C-like language for embedding: a compiler (lexer, parser, type
analysis, SSA optimizer, register VM code generator), a linker, a register VM
with native callbacks, a mark-and-sweep garbage collector with finalizers, and a
remote debugger. This directory models the parts of it whose correctness depends
on the order of many steps: the memory manager, calls, errors and breakpoints of
the VM, the lists behind closures, the linker, the threads of the debugger, and
the one pass of the optimizer that remembers what memory holds. Paths below are
relative to the root of the repository; `NULLC/` is the directory of the
library.

## 1. Inventory

| Component | Source | State it keeps | Operations |
|---|---|---|---|
| Collector | `NULLC/StdLib.cpp`, `NULLC/Executor_Common.cpp` | markers of all blocks, root lists `rootsA`/`rootsB`, lists of blocks to finalize and to free | `CollectMemory` = `MarkMemory`, `MarkUsedBlocks`, `MarkPendingRoots`, `CollectUnmarked`, `FinalizePending`, `FreePending` |
| Finalization | `StdLib.cpp`, the base module in `Compiler.cpp` | `finalizeList`, a native vector that nullc code reads | `FinalizeObject`, `GetFinalizationList`, `__finalizeObjects`, `FinalizeMemory` |
| Object memory | `StdLib.cpp` | seven pools (`ObjectBlockPool`), the tree `bigBlocks`, `usedMemory`, `collectableMinimum`, `globalMemoryLimit` | `AllocObject`, `AllocArray`, free and reuse, `GetBasePointer`, `SetGlobalLimit`, `ClearMemory` |
| Register VM | `Executor_RegVm.cpp` | `callStack`, `dataStack`, the register file, `lastFinalReturn`, `codeRunning`, `callContinue`, the error | `Run`, `RunCode`, `ExecCall`, `ExecReturn`, `Stop`, `Resume` |
| Native functions | `nullc.cpp`, `includes/*.cpp` | none of their own in `error.cpp` | `nullcCallFunction`, `throw`, `try` |
| Breakpoints | `Executor_RegVm.cpp`, `nullc_debug.h` | `breakCode`, patched instructions | add, remove, clear, hit, step over, into and out |
| Remote debugger | `nullc_remote.h`, `nullc_ide/main.cpp` | a socket, one message, three events; in the client a second thread on the same socket | commands from another thread while the program runs or is stopped |
| Linker | `Linker.cpp`, `includes/dynamic.cpp` | tables of types, variables, functions, modules; the code and its old buffers | `LinkCode` (recursive over imports), `CleanCode`, redirection by a running program |
| Module cache | `BinaryCache.cpp`, imports in `ExpressionTree.cpp` | bytecode and lexemes by name, the last bytecode | put, find, remove; what an import depends on |
| Closures, coroutines | `ExpressionTree.cpp`, `StdLib.cpp` | a list of open nodes for each captured variable; the context of a coroutine | capture, `CloseUpvalue`, yield and resume |
| Optimizer | `InstructionTreeVm*.cpp` | SSA instructions, users, dominators; `loadStoreInfo` in load and store propagation | phi placement, peephole, inlining, dead code, load and store propagation |
| Code generation | `InstructionTreeRegVm*.cpp` | live registers, constants | lowering, register allocation |
| Containers | `Array.h`, `Tree.h`, `HashMap.h`, `DenseMap.h`, `Pool.h` | | insert, erase, find, grow |
| Public API | `nullc.h`, `nullc.cpp` | `initialized`, the executors, the last error | init, build, link, run, redirect, clean, terminate |
| Front end | `Lexer.cpp`, `ParseTree.cpp`, `ExpressionTree.cpp`, `TypeTree.cpp` | trees of one compilation | functions of the source text |
| Other back ends | x86 JIT, LLVM, translation to C++, two evaluators | | |

How they interact. A program allocates; `AllocObject` compares `usedMemory`
with the threshold and calls `CollectMemory`, which reads the roots from the
stacks of the executor, marks through the type tables of the linker, asks
`GetBasePointer` for the block an address lies in, and ends by calling back into
the executor (`nullcRunFunction("__finalizeObjects")`) to run finalizers. These
are programs again: they allocate and may collect. Native functions called by
the VM call back into it (`nullcCallFunction`), and `std.dynamic` compiles and
links while its caller runs. So all of this is one thread, and everything hard
about it is re-entrance: a collection in the middle of a program, a program in
the middle of a collection's last step, a run of the VM inside a native function
inside a run of the VM, a link under active functions, and an error that unwinds
through all of them. The remote debugger is the exception: its dispatcher and its
command thread run beside the program and share one message with it.

What makes each part correct:

- collector: what the program can reach is never freed; what it cannot reach,
  and no finalizer needs, is freed; finalizable objects live until their
  finalizer has been queued, once;
- finalization: every finalizer runs, once, on an object that is in use;
- object memory: no two objects share a byte, none is lost, the limits hold, and
  every address inside an object leads back to it;
- VM: while code runs, the stacks belong to exactly the frames that are
  running; an error in a callback stops the code that caused it; only `try`
  stops an error;
- breakpoints: the program behaves as it does without them, every patched
  instruction can be put back, steps stop where the user expects;
- closures: local functions share a variable while it lives and have a copy each
  afterwards, whichever way its scope was left;
- linker: linked code calls the functions and uses the globals it was compiled
  against, active code is neither freed nor confused with other code, a link
  that fails takes nothing away;
- remote debugger: the program obeys the answer to its own stop, no message is
  lost or read twice, every stop is shown, nothing stays stopped for ever;
- optimizer: the block that is left does what the block did.

The hazards these properties are for are listed, each at its line, in
`PROJECT.json`.

## 2. Modules

```
Heap -- Mutator -- GcSpec                what a collection promises, in one step
          |   \--- GcCycle (implements GcSpec) -- GcCycleProof
          |            \-- MCGcCycle
          \------- GcFinalizers -- MCGcFinalizers
                       \------- GcFinalizersProof
ObjectPools -- MCObjectPools
          \------- ObjectPoolsProof
RegVmCalls  -- MCRegVmCalls
          \------- RegVmCallsProof
PlainRun    <- Breakpoints (implements PlainRun) -- MCBreakpoints
                   \-- DebuggingProof
Lexical     <- Closures (implements Lexical) -- MCClosures
                   \-- ClosuresProof
Linker      -- MCLinker
          \------- LinkerProof
RemoteDebug -- MCRemoteDebug
          \------- DebuggingProof
PlainBlock  -- LoadStore (implements PlainBlock) -- MCLoadStore
                   \-- LoadStoreProof
```

`--` is EXTENDS, `<-` an INSTANCE with a refinement mapping. `DebuggingProof` extends
Breakpoints and RemoteDebug, so what both have is called `Remote...` in RemoteDebug
(`RemoteInit`, `RemoteNext`, `RemoteSpec`, `RemoteTypeOK`).

### Memory

**Heap** is a block as the collector knows it. The marker gives its shape: is it
an array (`OBJECT_ARRAY`), has its type a finalizer (`OBJECT_FINALIZABLE`), does
the type hold pointers at all, and for how many elements the block was sized.
`Contents` is every pointer a program can load from the block, `Traced` every
pointer `GC::CheckBasePointer` visits. They differ, in the code as here, for a
block of several elements that is not marked as an array.

**Mutator** is the program: it allocates, stores pointers through pointers it
has, changes variables and registers. Its roots are kept by the way
`MarkUsedBlocks` finds them: `vars` (globals, locals, contexts, by type), `regs`
(registers in use) and `stale` (words in the scanned part of the register file
that only look like addresses).

**GcCycle** is `CollectMemory` with one action per block. Each loop of the code
is a phase; the blocks of a loop are taken in any order, which covers the order
of pools, pages and the tree.

| Action | Code |
|---|---|
| `StartCollect` | `MarkMemory(0)`, the two root lists emptied |
| `MarkVariable`, `StartRegisters`, `MarkRegister` | `GC::MarkUsedBlocks` over variables by type, then over the words of the register file |
| `StartTrace`, `SwapRoots`, `TraceRoot` | `GC::MarkPendingRoots` |
| `CollectUnmarked` | `NULLC::CollectUnmarked`, `ObjectBlockPool::CollectUnmarked` |
| `FinalizeBlock`, `StartRetrace` | `FinalizePending`: keep the object, mark what it holds, queue its references, then `MarkPendingRoots` once more |
| `StartFree`, `FreeBlock` | `FreePending`, which tests the flags again |
| `RunFinalizers`, `EndCollect` | the call of `__finalizeObjects`, `finalizeList.clear()` |
| `Run` | the program, and the finalizers while `callbacks` |

**GcSpec** says what all of it is for: one action `Collect` frees what neither
the roots nor the objects that must be finalized lead to.

**GcFinalizers** keeps the marking in one step and models what GcCycle leaves
out: the list as a `FastVector` with capacity, growth and reallocation; the
loop of `__finalizeObjects` over the pointer it was given; finalizers as
programs that allocate, store and collect; finalizers that fail (`skipped` are
the objects behind a failing one in its list, which the code drops);
`FinalizeMemory` at the end of a session, which fills the lists of a collection
and frees nothing.

**ObjectPools** has addresses in bytes. A page is padding, blocks and a link; a
big block is a size, a marker and data. `AllocObject` chooses the pool, takes a
freed block, the next block of the newest page, or a new page at any address the
system gives out; `CollectMemory` frees any set of objects (which ones is
GcCycle's matter); `GetBasePointer` is the code's own search: the binary search
over the sorted pages of each pool, then the range lookup. What the code does with
loops is written with recursive functions, so that it can be reasoned about: `Search`
is a function of the window the loop has narrowed (`lower`, `upper`, `at`), and `Only`
takes from the blocks of a pool, in the order `CollectUnmarked` visits them, those that
`FreePending` then frees.

### The VM

**RegVmCalls** has the sizes of the VM's stacks and the frames of the native
stack: `run` (a `Run` started by the host or by a native function), `call` (an
`ExecCall` of code) and four kinds of native function: one that allocates, one
that calls back, `try` and `throw`. Each frame keeps what the C++ function keeps
in its local variables (`prevDataSize`, `prevRegFileLastTop`,
`prevLastFinalReturn`), and each way out of it restores what the code restores
there and nothing else.

| Action | Code |
|---|---|
| `HostRun`, `HostRunNative`, `FinishRun` | `ExecutorRegVm::Run`, `InitExecution` |
| `CallFunction`, `FinishCall`, `CallNative`, `NativeReturns` | `ExecCall` |
| `Return`, `FallOff` | `ExecReturn` |
| `InstructionFails` | `ExecError`, `Stop(const char*)` |
| `CallBack`, `CallReturns` | `nullcCallFunction` in a native function |
| `Collect` | an allocation in a native function that reaches `CollectMemory`, whose last step is a `Run` |
| `Throw`, `Recover` | `Stop`, `Resume`, as `throw` and `try` use them |

**PlainRun** executes a program of jumps, calls and returns, with native
functions that call back. **Breakpoints** executes the same program while a
debugger patches it. `code` is `exRegVmCode` with its patches, `breakCode` the
vector of replaced instructions: its cells beyond the count keep what a clear
left there, and `moved` counts its reallocations, so that a pointer into an old
buffer can be told. An instruction pointer is a segment, the age of the buffer
and a position.

| Action | Code (`Executor_RegVm.cpp`) |
|---|---|
| `Compute`, `Jump`, `Call`, `Return`, `CallBack`, `NativeReturns` | `RunCode`, `ExecCall`, `ExecReturn`, `Run` |
| `Hit`, `LeaveBreakCode`, `Respond`, `Stop` | `ExecNop`: the call of `breakFunction` and each of its answers; the prediction of the next instruction |
| `AddBreakpoint`, `RemoveBreakpoint`, `ClearBreakpoints` | the functions of these names |

### Closures

**Lexical** is two sentences: functions share a variable while it exists; when
it ends they stop sharing it. **Closures** is the implementation: for each
captured variable a list of nodes, one per function object, in the order they
were made; a stack of activations, contexts of suspended coroutines; and an
action for each way to leave a scope.

| Action | Code |
|---|---|
| `Call`, `Enter`, `Resume` | function entry, block entry, the call of a coroutine |
| `Capture`, `CaptureInner` | `CreateFunctionContextVariableDefinition`, for a local of the function, or for what an enclosing local function captured |
| `EndBlock`, `EndLoop`, `Break`, `Continue`, `Return`, `Yield` | the `CloseUpvalue` calls the compiler puts there (`ClosePendingUpvalues` and the scopes it names) |
| `Throw` | an error, which closes nothing |

The mapping to Lexical tells one iteration of a loop from the next by `odd`,
the parity of the iteration (`turns`): with one address per variable, a node that
is left over from an earlier iteration would look right without it.

### Modules and links

**Linker** is the cache, the linker's tables and as much of the VM as a link
can disturb. A bytecode is its source and the modules it was compiled against; an
entry of its table of functions is a function of one of those modules or its own
(`Table`, `Meant`). What was linked is a unit: the bytecode, where its functions,
globals and code are, and what the entries of its table were resolved to (`FuncRemap`).
A link is a stack of `LinkCode` calls.

| Action | Code |
|---|---|
| `LoadModuleBySource`, `Build`, `Link`, `RemoveModule`, `Clean` | `nullc.cpp`, `BinaryCache.cpp` |
| `LinkLoaded`, `LinkNested`, `LinkLast` | the loop of `LinkCode` over imports |
| `LinkTypeClash`, `LinkRedefined`, `LinkModule`, `LinkProgram` | the rest of `LinkCode`, to its errors or its end |
| `Override` | `includes/dynamic.cpp`: build, link, redirect |
| `Run`, `Call`, `Return` | `RunCode`, as far as return addresses into the code go |

### Remote debugger

**RemoteDebug** has four threads of the two processes and the network between
them. Server: the dispatcher, which receives a message, raises the event of the
thread it is for and waits for `processed`; the command thread; the program,
which reports a stop (three messages) and waits. Client: the window, which asks
and waits for a reply, and the pipe thread, which follows stops. `Lossy` makes
events condition variables (the POSIX build), otherwise they are flags that are
polled. `Slow` lets a receive of the client time out although the reply will
come. Each thread's program counter is a variable; actions are grouped by thread
(`Dispatch`, `Serve`, `Pause`, `Window`, `Pipe`).

### Optimizer

**PlainBlock** is a basic block of memory instructions as written: `done` is the
last instruction and what it took from memory. **LoadStore** is the same block
after `RunLoadStorePropagation` and the removal of overwritten stores. The pass
walks a block and decides from the instructions alone, so the model walks and
runs at once: `loadStoreInfo` maps accesses to the values memory is believed to
hold, and a load that finds its access there takes the value from it.

| Action | Code (`InstructionTreeVm.cpp`) |
|---|---|
| `Reuse` | `GetLoadStoreInfo`, and the replacement of the load |
| `LoadMemory`, `StoreMemory`, `CopyMemory` | the cases of `RunLoadStorePropagation`: `AddLoadInfo`, `AddStoreInfo`, `AddCopyInfo` and what they make forget; for stores also the removal of the one before (`Overwrites`) |
| `FillArray`, `CallFunction` | `VM_INST_SET_RANGE` and calls, which forget by alias and by global |
| `NextBlock` | the end of a block: nothing is remembered beyond it |

`last` is the store of the instruction before, which the peephole pass compares
with the next one. The operands of an instance are the accesses a block may make:
a pointer or a known address, an offset, a size, a kind, a class and a field.

Definitions like `Push_gap`, `Yield_open` or `X_Overwrites` (a suffix, or the
prefix `X_`) are plausible bugs: a test dropped, a list not cleared, an off-by-one. No
specification uses them: each is there to be put in place of the definition that
follows it, to see that the property it is for does fail.

## 3. What the runs check

Every passing run is complete: TLC visits every reachable state of the instance
(in ObjectPools, up to the bound on the threshold).

| Run | Instance | What it shows |
|---|---|---|
| `gc_cycle` | 2 blocks of any of four shapes (plain, finalizable, without pointers, an array of two finalizable objects), one variable, one register, one stale word | `NoDangling`, `FinalizedBeforeFreed`; the inductive invariant `IInv`; `Implements`: GcCycle implements GcSpec; `CollectionEnds` |
| `gc_finalizers` | 2 blocks, plain, finalizable and arrays; a vector that grows by 2; finalizers that do anything but collect, and may fail | `PendingLive`, `FinalizeOnce`, `FreedOnce`, `FinalizerCalled` |
| `object_pools` | pages of one and of two blocks, big blocks, a limit and a lower one | `NoOverlap`, `Accounted`, `LookupExact`, `LimitKept` |
| `regvm_calls` | 2 functions, 9 native frames, small stacks | `Balanced`, `ErrorsPropagate` |
| `breakpoints` | 7 instructions with a loop, a call, a native function that calls back; 4 cells of `breakCode` | `Recoverable`, `FramesValid`, `StepStops`, `BreakpointsLast`, `Transparent`: Breakpoints implements PlainRun |
| `closures` | `f(x) { for { block { switch } } }` and a coroutine of a block, two contexts, two function objects, three activations | `Attached`, `Ordered`, `SharedWhileLive`: Closures implements Lexical |
| `linker` | a chain of two modules, three programs and a function for override; 4 units, 2 active functions | `Resolved`, `OneDefinition`, `CodeAlive`, `LinkAdds` |
| `remote` | 8 messages of the client, 3 stops, receives that time out | `Obeys`, `Delivered`, `StopsShown`, `Continued`, `Released` |
| `load_store` | a pair whose address is taken, one whose address is not, a global; three pointers; 10 accesses; 2 entries | `Remembered`, `Implements`: LoadStore implements PlainBlock |

Bounds. In the collector a block, and one that leads to it, are what a dangling
reference takes; the array holds two references, so one block stands for several
objects. `MaxRoots`, `MaxPointers`, `MaxStale` bound how many blocks a kind of
root or one element names; `MaxRuns` bounds how often one finalizer may be called
and is larger than the number the property allows. The vector of finalizers has
its growth increment cut from 32 to 2 so that it grows. Pages have one or two
blocks instead of 64 KB: enough for a partly used newest page, full pages behind
it and a free list across pages. `collectableMinimum` may double three times
(`MinimumBound`). In RegVmCalls the stacks are small enough that both overflows
happen, and nine native frames are two levels of callback with calls in between;
`MaxFrames` bounds the nesting only. `MaxBreaks` is two lasting breakpoints, or
one and the two steps that can be pending beside it; `Increment` has the value of
the code, so the vector moves when it is first used and then no more. Three
activations are a caller, a recursive call or a resumed coroutine, and one
between; two function objects are what it takes for an order in a list. Four
units are a chain of two modules, a program, and a program or an override after
it. `MaxSent` is what a client needs to attach, place a breakpoint, answer a stop,
leave and come back. Two entries in LoadStore are the one that is used and one
that is to be forgotten, or a copy and the store that spoils it; a call writes one
cell (`MaxWritten`), since each cell is stale or not by itself; 5 cells and two
values. The proof of section 5 needs none of these bounds.

Reductions. Blocks, function objects and values are interchangeable, hence the
symmetry; it is not used with liveness. `VIEW Kept` of `load_store` leaves `done`
out of the state: no action reads it, and a step is checked against PlainBlock
when it is taken.

`CHECK_DEADLOCK FALSE` is set where the system may stop: after `nullcFinalize` has
run the last finalizer (GcFinalizers), when the bound on units is reached and
nothing runs (Linker), when the server has ended and the client has left
(RemoteDebug).

Fairness. `CollectionEnds` assumes weak fairness of the collector's actions from
the first marking to the hand-over to the finalizers. `CollectMemory` up to
there is straight-line C++ on one thread: it waits for nothing and nothing else
runs. No fairness is assumed of the program, or of finalizers, which may run for
ever. RemoteDebug assumes weak fairness for each thread: an operating system runs
every thread that can run, and a thread that waits for an event polls a flag
(`Await`), so a step that is enabled stays enabled until it is taken. None is
assumed of the user (`Press`, `AskData`, `Leave`) or of the program reaching a
breakpoint (`Break`).

## 4. What the code does not keep

Three runs end in a counterexample; each was reproduced with the program built
from the source.

- `closures_inner` (`SharedWhileLive`, `Unordered = {"inner"}`): `CloseUpvalue`
  (`StdLib.cpp:1620`) looks at the head of the list only. A local function inside
  a local function puts its node for an older variable in front of nodes of a newer
  one, so that the newer one ends unnoticed and its nodes keep pointing into a dead
  frame. `LanguageEN.html:1004` promises the copy.
- `linker_moved` (`FramesFound`): a program that links while it runs may move its
  own code. `Linker.cpp:459` keeps the old buffer ("Code might be executing at
  the moment"), but `GetCallStackAddress` (`Executor_RegVm.cpp:1762`) subtracts the
  start of the new one from the return addresses of frames that are in the old.
- `load_store_copies` (`Implements`, `Risks = {"copies"}`): a copy of a structure
  of more than 64 bytes through a pointer makes no scalar load stale
  (`InstructionTreeVm.cpp:1339`); the comment at line 1299 says that such a write
  can overwrite other types. `v1 = p.a; *q = *r; v2 = p.a` with `p == q` gives `v2`
  the old value.

The other instances below are not runs; each is the passing run with one constant
changed, and TLC finds the property named violated. The passing runs, and where
said the proofs, assume that the constant is as they have it.

| Module | Constant | Violated | The code |
|---|---|---|---|
| GcCycle | a shape `[array FALSE, fin FALSE, ptrs TRUE, len 2]` | `NoDangling` | `ExecCheckedReturn` (`Executor_RegVm.cpp:1674`) and `CopyArray` (`StdLib.cpp:880`) copy an array into a block that is not marked as one, so only its first element is traced. The proofs assume `TaggedShapes` |
| GcFinalizers | `Nesting = 2` | `FinalizeOnce`, `PendingLive`, `FreedOnce` | a finalizer that reaches a collection runs the whole list again, while the vector the outer loop reads may move; a collection inside `nullcFinalize` goes through lists that were not emptied (`StdLib.cpp:776`, `:790`) |
| GcFinalizers | `FinalizersFail = TRUE`, with objects in `skipped` | the exception in `FinalizerCalled` | one failing finalizer drops the others of its collection |
| ObjectPools | 0 in `Sizes` | `LookupExact` | an instance of a class without members is one past its block (`StdLib.cpp:431`) |
| ObjectPools | `Grain = 1` | `LookupExact` | the last three bytes of a big block are outside the range of the lookup |
| RegVmCalls | `QuietErrors = FALSE` | `Balanced` | between an error and its handling by `try`, `codeRunning` is false; a collection there starts a `Run` that takes itself for the outermost one and empties the stacks (`Executor_RegVm.cpp:166`) |
| RegVmCalls | `Patient = TRUE` | `Balanced` | a native function that calls back again after a failed call loses the error (the tree walk of `includes/pugi.cpp`) |
| Breakpoints | `MaxBreaks > Increment` | `FramesValid` | the 33rd cell moves `breakCode` under suspended frames (`Executor_RegVm.cpp:1317`) |
| Breakpoints | `Polite = FALSE` | every property of the run | breakpoints cleared, or one-time ones removed, while a frame returns into `breakCode` (assertions at `Executor_RegVm.cpp:1757`, `Array.h:127`) |
| Closures | `"error"`, `"end"` or `"overlap"` in `Unordered` | `SharedWhileLive` | an error passes functions with open nodes and nothing closes them; the variable of a `for` or `switch` is closed by `break` only, not at its end; two contexts of one coroutine share a list out of order |
| Linker | `"last"` in `Risks` | `Resolved` | `__last` is taken to be what was linked last (`Linker.cpp:216`): `import std.dynamic; import __last;` calls wrong functions |
| Linker | `"replaced"`, `Texts <- VersionTexts`, `Overriding = {}` | `Resolved` | a module is replaced between compiling and linking an importer; it is looked up by name only |
| Linker | `"failed"` | `CodeAlive` | a link that failed left code without relocation (`Linker.cpp:596`), which can be run |
| Linker | `"globals"` | `FramesFound` | globals linked by a running program overlap its frames (`Executor_Common.cpp:1047`) |
| RemoteDebug | `"overlap"` in `Rash` | `Obeys` | `processed` is set before the answer is read (`nullc_remote.h:360`, `:370`): a message that follows at once takes its place, which the comment at line 169 excludes |
| RemoteDebug | `"leave"` | `Obeys`, `Delivered`, `StopsShown`, `Released` | the client goes between the stop and the wait: the program is not released (`nullc_remote.h:544`) |
| RemoteDebug | `"browse"`, `"press"` | `StopsShown`, `Obeys` | a stop that arrives while the window waits for a reply is read as that reply |
| RemoteDebug | `Lossy = TRUE` | `Continued`, `Released` | a signal that comes before the wait is lost |
| LoadStore | `Risks = {"sizes"}`, `Operands <- NestedOperands` | `Implements` | a store is removed when the next has the same instruction and address, though it may be of a smaller structure (`InstructionTreeVm.cpp:5574`): `x = u; x.i = t;` loses the rest of `u` |
| LoadStore | `Long = {x}` | `Implements` | stores into arrays of more than 32 elements forget nothing (`InstructionTreeVm.cpp:1494`) |
| LoadStore | `Operands <- FoldedOperands` | `Implements` | an offset folded into a known address (`:1094`) makes two accesses of one member look like different fields (`:1244`) |

Met on the way, and visible in the models or the code but without a property of
their own: a step command at the last instruction of the code reads past it
(`Executor_RegVm.cpp:1286`); a step is lost at a one-time breakpoint that stands where
the step should place one: ExecNop finds a nop there (`:1314`) and then takes it away
(`:1326`). That happens at a jump to itself, and in recursive functions: stepping out of,
or over the return of, a call to an instruction that runs again in the caller. TLC
finds it for `StepStops` with a program like that of the run whose function calls
itself (`call 3, ret, op, jz 6, call 3, ret, ret`, one-time breakpoint on 6, step out);
`AddBreakpoint` is refused where the nop of a step stands (`:1805`);
`RemoveBreakpoint` accepts the index one past the code (`:1833`); a function run by
the host that has to return a value and does not ends without an error (`FallOff`);
an override with a local function redirects to the local one (`dynamic.cpp:72`);
`nullcRemoveModule` looks a module up by a name it is not stored under when the
name has dots (`nullc.cpp:499`); a class with the same size is accepted as the same
class (`nullc.h:191` promises an error); `nullcLoadModuleBySource` clears the linker
even while a program runs (`nullc.cpp:450`).

## 5. What is proved

`GcCycleProof` proves about GcCycle, for any set of blocks, any shapes with
`TaggedShapes`, and any number of variables, registers and pointers:

| Theorem | Property |
|---|---|
| `CycleInvariant` | `IInv`, the inductive invariant |
| `CycleTypes` | `TypeOK` |
| `MemorySafety` | `NoDangling` |
| `FreesGarbage` | `FreesOnlyGarbage` |
| `FinalizersFirst` | `FinalizedBeforeFreed` |
| `FinalizersOnce` | `QueuedOnce` |
| `CycleImplements` | `Implements`: GcCycle implements GcSpec |

Assumptions: `ShapesAssumption` (shapes are shapes, and there is one), which TLC
evaluates in each run, and the hypothesis `TaggedShapes` of each theorem.

The argument. `NoDangling` is not inductive: it says nothing of the state in the
middle of marking. `IInv` is the three-colour invariant of a marking collector
in nine parts:

- `ImagesTraced`: in a tagged heap the collector sees every pointer of a block
  (this is where `TaggedShapes` is used, and nowhere else);
- `RootsLive`, `HeapClosed`: roots lead to blocks in use, and blocks in use to
  blocks in use. The second is suspended while blocks are freed one by one,
  since garbage may point to garbage already freed; by then `Scanned` says it of
  the marked blocks;
- `Scanned`: a marked block outside the worklists has all it leads to marked;
- `RootsMarked`: roots that are not waiting in `scan` are marked;
- `Worklists`: which lists are empty in which phase;
- `Sorted`: every block in use that is not marked is on a list, and a
  finalizable block is on the list to be freed only when it has been finalized;
- `QueueKept`: queued objects stay marked until their finalizers have run.

When the worklists are empty `Scanned` makes the set of marked blocks closed, and
`RootsMarked` puts the roots in it; `Reach` is the smallest such set, so what the
program can reach is marked, and `FreeBlock` frees only what is not. The proof
that a step preserves the invariant has one lemma per action (or per group of
actions that leave the markers alone) and one step per part that the action can
disturb. The action properties follow from the invariant and the action that
frees, or queues, a block.

The second part of the module proves the other half. `IInv` says that the collector marks
enough; it would hold of a collector that marks everything and frees nothing.
`Exact` says that it marks nothing else: up to `CollectUnmarked` the marked
blocks are reached from the roots, and after it from the roots and the blocks to
be finalized (`Needed`), which are those still on the list and those queued,
with one reference for each of their elements. With both, the marked blocks are
`Needed` itself when `FreePending` starts. That is where the refinement mapping
lets `GcSpec!Collect` happen: before it finalizers that were queued are hidden
(`Open`), after it blocks that are still to be freed count as freed (`Doomed`), so
each other step of the collector is a stutter of GcSpec, one lemma for each kind,
and the program's steps and the end of the finalizers are steps of the same name.

`LoadStoreProof` proves about LoadStore, for any containers, pointers, values and
accesses, any number of entries and any size of a call's effect:

| Theorem | Property |
|---|---|
| `MemoryRemembered` | `Remembered` |
| `EntriesTyped` | `TypeOK` |
| `LoadStoreImplements` | `Implements`: LoadStore implements PlainBlock |

Assumptions: `BlockAssumption` (accesses lie inside their containers, pointers
lead to containers whose address was taken), `KnownAssumption` (a pointer of known
range stays in it) and `KindAssumption`, which TLC evaluates in the run; and the
hypothesis `WellTyped` of each theorem: accesses that `IsLoadAliasedWithStore`
tells apart do not overlap, long arrays are not reached by pointers, structures of
one size do not overlap in part, and none of the `Risks`. These are what the pass
relies on and the language does not promise: section 4 has, for each of the first
two and the last, a program that breaks it.

The argument. Nothing but `TypeOK /\ Remembered` is needed for an inductive
invariant. What an action writes is a set of cells; what it leaves remembered must
not be about them. For each way to forget there is one lemma that says so:
`RangeForgotten` (`ClearLoadStoreInfo`: what survives a write at a known address
does not touch it, or is reached through a pointer and the container is not taken),
`AliasesForgotten` (a store through an unknown pointer: `StrictAliasing`),
`CopyForgotten`, `CallForgotten`, `NoAliasApart` (what no pointer can reach). Then
`EntryKept` carries an entry over the step, and what the step adds is true because
it was just read or written. A removed store (`Overwrites`) needs more: the memory
before it can be restored from `last.old`, and writing twice in one place is
writing once (`WrittenTwice`). For the refinement each step takes the step of the
same kind in PlainBlock; a load that is reused gives the right value because of
`Remembered`, a copy or an argument that is read from the source of a copy
(`CopySource`, `PassedOnFacts`) because source and copy are equal.

`DebuggingProof` proves about Breakpoints, for every program, any depth of calls
and callbacks and any sequence of the debugger's calls:

| Theorem | Property |
|---|---|
| `InstructionsKept` | `Recoverable` |
| `ReturnsFound` | `FramesValid` |
| `LastingKept` | `BreakpointsLast` |
| `DebuggingIsTransparent` | `Transparent`: Breakpoints implements PlainRun |
| `StepsStop` | `StepStops`, for programs with `Layered(rank)` |
| `Typed` | `TypeOK`, for programs with `Flows(R)` |

Assumptions: `BreakpointsAssumption` (jumps and calls lead into the program, and its
last instruction is a `ret`), which TLC evaluates in the run; and the hypothesis
`Tame` of each theorem: `breakCode` does not outgrow its first buffer
(`MaxBreaks <= Increment`; the 33rd cell moves it), and the debugger takes away
lasting breakpoints only and clears them when no program runs (`Polite`). Section 4
has what happens without either.

The argument. `Where` and `Address`, which map the state to PlainRun, read cells of
`breakCode`, so an invariant must say what those cells are. `Resumes(b, p, i)`: the
address `p` is instruction `i` in its place, or a cell of the vector `b` that holds
the nop back to it. `StandsFor` adds the copy of `i` in front of such a nop, where an
instruction pointer may be but no return address. `IInv` has six parts: `Shape` (the
types, and a vector that has its cells), `CodeKept` (each instruction is in its place
or its nop refers to a copy), `FramesKept` and `PointerKept` (each return address
`Resumes` an instruction, the instruction pointer `StandsFor` one), `HitKept` (the nop
that stopped the program is still a good one, and a one-time nop is still in its place)
and `RunsKept` (`finals` grows, and no run returns past its start). The debugger only
adds cells, and puts back what `CodeKept` says is there, so `Extended` and the lemma
`ExtendedKeeps` carry every part over its calls; the steps of the VM leave cells and
code alone, and one lemma per action moves the pointer (`PointerRead`, `StackPushed`,
`StackPopped`) and takes the step of PlainRun. `LastingKept` follows action by action:
only `Respond` changes the code while the program moves, and it puts back nothing but
the one-time breakpoint it stands at.

`StepsStop` has the hypothesis `Layered(rank)`: functions can be ranked so that each
calls functions of higher ranks only, that is, there is no recursion (a native function
may call any), and no jump leads to itself. The program of the run has such a rank,
0 for the global code and 1 for its function; section 4 has what happens in the others.
Its invariant is stated in the terms of PlainRun. `Ordered(rank)`: each frame of a Run
is of a higher rank than its caller, so a return address is never the instruction the
program has stopped at (`CallerElsewhere`), which is the one nop ExecNop takes away.
`Aimed`: before the step has begun (`Ready`), a nop stands where the program goes next
(`Predicted`: what ExecNop computes is `Ahead`, what PlainRun does); afterwards
(`UnderWay`) the program is at a nop, or is deeper than the step and a nop stands at the
return address of the frame to come back to (`Level`). `MarkedStops` says that at a nop
the VM can only leave `breakCode` or stop.

`Typed` has the hypothesis `Flows(R)`: a set of instructions that the program does not
leave lacks the last one, the `ret` that `InitExecution` adds. A program whose global
code has a return is of that kind; in one that comes to the added `ret`, a step there
reads the instruction behind it (`Executor_RegVm.cpp:1286`), of which the model says
nothing. The set of the run is its first six instructions. `Within(R)` keeps the program
in it, and `Cells` says that the vector holds instructions and nops.

`ClosuresProof` proves about Closures, for every program text, any number of
contexts and function objects and any depth of calls:

| Theorem | Property |
|---|---|
| `Typed` | `TypeOK` |
| `NodesAttached` | `Attached` |
| `ListsOrdered` | `Ordered` |
| `RefinesLexical` | `SharedWhileLive`: Closures implements Lexical |

Assumptions: `ClosuresAssumption` (scopes are trees, one for each function, and loops
are counted as `ExpressionContext` counts them), which TLC evaluates in the runs; and
the hypothesis `Orderly` of each theorem: the program does none of what `Unordered`
names, for each of which section 4 has what goes wrong.

The argument. `CloseUpvalue` takes nodes from the head of a list and stops at the first
that points elsewhere. That it has then taken all nodes of the variable does not follow
from `Attached`: it needs `Ordered`, that nodes of inner calls are in front of those of
outer ones and nodes in a context have the list for themselves. `IInv` is both, with
`Frames` (an activation has a context exactly when it is in a coroutine, and no two have
the same) and `Distinct`. `CloseExact` computes what is taken from a list whose nodes for
one address come first, and `NodesInFront` shows that those of the innermost call do.
The actions are then of four kinds, with a lemma each: nothing ends (`PushStep`,
`EnterStep`: `ListsKept`), a jump within a function (`JumpStep`), an activation that goes
(`PopLive`), a new node (`LinkStep`). Each of `EndBlock`, `EndLoop`, `Break` and `Continue`
is a `JumpStep` once the scopes it closes are shown to be those it leaves, which for the
last two is a matter of the depths the compiler counts (`DepthFacts`). Pass of Lexical
follows from `IInv` before and after (`PassStep`).

`RegVmCallsProof` proves about RegVmCalls, for any functions, any sizes of the stacks
and any depth of calls, callbacks and collections:

| Theorem | Property |
|---|---|
| `Invariant` | `IInv`, the inductive invariant |
| `Typed` | `TypeOK` |
| `StacksBalanced` | `Balanced` |
| `ErrorsHandedOn` | `ErrorsPropagate` |

Assumptions: `CallsAssumption` (sizes are numbers, the globals fit, and the frame that
stands for the global code is not also a function), which TLC evaluates in the run; and
the hypothesis `Careful` of each theorem: no collection between an error and its
handling, and no further call of a native function after a failed one. Section 4 has
what happens without either.

The argument. `Balanced` speaks of states without an error on its way, and an error
leaves `calls`, `data` and `regs` wherever they were. What lasts through an error is
what the frames keep. `Built` says it: each frame starts in data and registers where the
one below ends, a `run` stands on a native function and keeps the final return of the
`run` before it, a `call` has pushed an address, and `final` is the number of addresses
pushed outside the last `run` (`Finals`). `Pushing`, `Popping` and `Marking` carry
`Built` over the three things that happen to the frames. The other parts of `IInv` say
when the variables agree with the frames: in code that runs (`InCode`) and in a native
function (`InNative`), with `Recorded` for the way of `try` back: after an error
`errorDepth` is the number of addresses under the native function, so that `Resume`
finds `calls` right. `InCode` also says that code which was left with `codeRunning` off
and no error was run by the host's first call, which is why a native function that finds
`callContinue` on and `codeRunning` off has an empty VM beneath it (`FromEmpty`), and a
`Run` it starts may begin from nothing.

`GcFinalizersProof` proves about GcFinalizers, for any finite set of blocks, any shapes,
any growth of the vector and finalizers that fail or do not:

| Theorem | Property |
|---|---|
| `Invariant` | `IInv`, the inductive invariant |
| `Typed` | `TypeOK` |
| `PendingObjectsLive` | `PendingLive` |
| `FinalizersRunOnce` | `FinalizeOnce` |
| `BlocksFreedOnce` | `FreedOnce` |
| `FinalizedBeforeFreed` | `FinalizerCalled` |

Assumptions: `FinalizersAssumption` and `ShapesAssumption`, which TLC evaluates in the
run; and the hypothesis `OneLoop` of each theorem: finalizers do not reach a collection
(`Nesting = 1`), and blocks are finitely many, since a list is made of those that are
unreachable. Section 4 has what happens to a list when a finalizer collects.

The argument. `FinalizeOnce` counts calls, and nothing in the code counts them: the
program is told once per entry, and an array has as many entries as elements. What makes
it true is that the entries of an object are pushed one after the other, so that the loop
has passed as many of them as the finalizer has run. `RunKept` says that of each object:
`Lies(b, lo)`, its entries are those behind `lo`, and `runs` is the number of them the
loop has passed (`CallsOf`); once it has left the list it has had all its calls, or an
error dropped it (`skipped`). The other parts are `ListKept` (entries up to `count` are
queued objects), `LoopKept` (there is a loop exactly while the list is in use, and it
reads the vector's memory) and `Freeing` (only `FinalizeMemory` leaves blocks on the list
of blocks to free, and no collection follows it).

That the list has this form after `FinalizePending` is about two recursive functions:
`FlattenSeq` of the entries (`ListHolds`: one stretch per block) and `Pushed` (`PushedTakes`:
growing or not, the vector holds what was pushed). Both are shown by induction over how
many entries were added, with `SetInduction`, which is about a set of numbers rather than
a predicate. The rest has one lemma per action; `QueueKeeps` is what `CollectMemory` and
`FinalizeMemory` share, and `ClearStep` what an end and a failure of the loop share.

`ObjectPoolsProof` proves about ObjectPools, for any number of pools with blocks and
pages of any size, any addresses the system gives out, and any sequence of allocations,
collections and limits:

| Theorem | Property |
|---|---|
| `Invariant` | `IInv`, the inductive invariant |
| `Typed` | `TypeOK` |
| `BytesApart` | `NoOverlap` |
| `NothingLost` | `Accounted` |
| `LimitObeyed` | `LimitKept` |
| `PagesInOrder` | `SortedIn(mem)`, the second inductive invariant |
| `LookupsExact` | `LookupExact` |

Assumptions: `PoolsAssumption` (the pools grow, pages and big blocks fit into `Room`,
and what the system gives out is aligned and lies apart), which TLC evaluates in the
run. Only `LookupsExact` has a hypothesis, `WholeParts`: no object is empty, and programs
address parts of objects that are at least as long as the size in front of a big block.
Section 4 has what the lookup does without either.

The argument. `IInv` is `Sound(mem, objects)`, and `Sound(m, O)` speaks of any memory and
any set of objects, so that an allocation that collects first is two applications of it.
It says of each pool (`PoolKept`) that the blocks its pages gave out are those of its
objects and those on the free list, and the latter are there once; that the pages of
different pools and the big blocks lie at different addresses (`PagesApart`); that big
blocks and big objects belong to each other (`BigKept`); and that `usedMemory` is the sum
over the objects. Why bytes are apart is then a matter of numbers: all that an object
takes is in the zone of one page or one big block (`InZone`, `ZonesApart`), and within a
page blocks have different numbers (`BlocksApart`). There is one lemma for each source of a
block (`TakenFreed`, `TakenNext`, `TakenPage`).

`usedMemory` is hard because the code never adds up: `AllocObject` adds what it takes and
`FreePending` subtracts what each pool gave back and each big block had. That this is the
sum over the garbage is `Balanced`, an induction over the garbage, one object at a time
(`BalanceMore`). The library has no facts about `FoldFunction`, so the module starts with
them: a sum does not depend on the order in which the fold picks its elements (`IterSwap`,
`IterAgree`), and grows by what is added (`TotalMore`). In the same way `CarvedLists` and
`OnlyLists` say what `FlattenSeq` and `Only` contain, each entry once.

For the lookup, `InsertSorted` is the insertion of `Alloc`: with pages in order the number
of smaller ones is the position of the new one. `SearchEnds` is the loop invariant of the
binary search (`Around`), `PageLanded` what the code after the loop makes of where it ended
(the page it looks at, the one before or the one behind), and `PageFound` that this is the
page of the address if the pool has that page. If it has not, the distance to any page is
too large (`PoolMiss`), so that the first pool that answers is the right one.

`DebuggingProof` proves as well, in its second part, about RemoteDebug, for flags and
condition variables, for receives that time out or do not, and for any number of
messages and stops:

| Theorem | Property |
|---|---|
| `RemoteTyped` | the types of the state (`RemoteTypeOK`, without any hypothesis) |
| `OneMessage` | `RemoteInv`, the inductive invariant |
| `AnswerObeyed` | `Obeys` |
| `MessageDelivered` | `Delivered` |

Assumptions: `RemoteDebugAssumption`, which TLC evaluates in the runs; and the hypothesis
`Calm` of the last three: the user does none of what `Rash` names, each of which is in
section 4 with what it breaks.

The argument. `breakInst` is one message for three threads, so what must be shown is
that at most one message is under way and that everybody agrees whose turn it is. `Phase`
says where it is: with nobody (`Free`), raised (`Raising`), at the command thread
(`Serving`), at the stopped program (`Continuing`), done but not noticed (`Finishing`), or
left behind by a client that went (`LetGo`). Each phase says where the dispatcher, the
command thread and the program stand, which events are up and what the connection may
hold (`Fits`, `LastOf`): the proof would fail without the last, as a second message that
arrives while one is under way is where a state is overwritten. `Buttons` and `Events` tie
the window of the client, and the events, to that. There is one lemma per group of actions
(of one thread), and each goes from one phase to the next or stays.

`LinkerProof` proves about Linker, for any texts, any number of modules, programs and
units, and any depth of calls:

| Theorem | Property |
|---|---|
| `LinkerTyped` | `TypeOK` |
| `LinkerResolves` | `Resolved` |
| `LinkerDefinesOnce` | `OneDefinition` |
| `LinkerKeepsCode` | `CodeAlive` |
| `LinkerAdds` | `LinkAdds` |

Assumptions: `LinkerAssumption` (a text imports a module once and has a name for a plain
function once; what override compiles is one function that is not generic), which TLC
evaluates in the runs; and the hypothesis `WithCare` of each theorem: the host does none
of `"last"`, `"replaced"` and `"failed"`. A running program may link globals: that breaks
`FramesFound` and nothing else. Section 4 has what the other three break.

The argument. The linker never records what a name stands for: when a unit is fixed,
function k of a module is looked for at the place of whatever was linked under the
module's name, and that place was computed from the end of the list. So the invariant
ties three things together that no single call of the code sees: what a bytecode was
compiled against, what the cache has, and what the linker has. `Caches` says that
whatever is held (in the cache, by the host, as the last code) was compiled against what
the cache has under that name now, or the cache has nothing under it (`Fits`). `Current`
says the same of what is linked. `Links` says it of the links under way: each `LinkCode`
on the stack links what the one below it was compiled against, and the imports it has
passed are linked. Then `Placed` (function k of a unit is the k-th from its first) is
enough for the entries of the table (`CallsNew`), and `GlobalsResolved` for the globals.

That the place taken from the ends of the lists is that of the unit linked just before is
`Ends`: nothing comes behind the last unit but after a link that failed, and then no link
follows. `Registered` is therefore right for a module (`LinkModuleStep`). For `__last`
(`LinkLastStep`) nothing in the code makes it right; it is what `LastFits` asks of the
host, and `Lasts` keeps through the links before it.

`CodeAlive` is about code that may be entered through any chain of calls, from buffers
that have moved. `Reached` is the set of units whose code is in the buffer the VM runs in;
`Active` says that it is closed under the calls of its units, and that the frames are in
it. When a link moves the code, the unit it adds is not in `Reached`. The only step that
lets older units call it is the redirection of an override, in `LinkProgram`, and that step
also takes the VM to the new buffer; modules linked on the way and links that fail do
neither (`AddingActive`). `BodiesFixed` keeps redirected calls out of code that a failed
link left.

`LinkModule`, `LinkProgram` and `LinkRedefined` add a unit each, with functions that are
cut off, redirected or neither; `Adding...` are lemmas about a step that adds a unit and
a list of functions, whatever they are, and the actions are instances of them
(`ModuleAdds`, `ProgramAdds`, `RedefinedAdds`). `Deps` of the compiler is a recursive
function and a `FlattenSeq`: `DepsFacts` shows by induction over the names that are added
(`SetInduction`, `Recursion`, `FlattenIn`) that the list has the imports in front and
what the cache has under each name.

The proof changed the model in two places where it was obscure. An entry of the table was
a number, found by a fold over the lengths of the imports; it is the pair of module and
function now. And where the functions of a unit begin is recorded (`first`), since
"linked from that bytecode" alone does not tell two units of one program apart.

Model-checked only: liveness (`CollectionEnds`, and `StopsShown`, `Continued`,
`Released` of RemoteDebug), which is out of the provers' reach. `FramesFound` of Linker is
not proved because it does not hold (run `linker_moved`), nor `SharedWhileLive` and
`Implements` of the instances in the other two runs that end in a counterexample.

## 6. Not modelled

- Lexer, parser, type analysis, the two evaluators, translation to C++: functions
  of their input, with thousands of cases and no state that outlives a call. A
  model of them would repeat the grammar and the rules of the language.
- Register VM code generation: one instruction at a time; what its register
  allocation keeps apart is dataflow over whole functions.
- The passes of the optimizer other than load and store propagation: rewriting
  of one instruction at a time, or computations on the graph of a function.
- x86 JIT and LLVM: machine code and signal handlers of a platform. Their calls
  and errors follow those of the register VM.
- The bindings in `includes/` other than `throw`, `try` and `std.dynamic`; the
  tools and tests.
- In modelled components: contents of blocks other than pointers, instructions
  that compute, `SetStackSize`, the AVL tree of big blocks (a set here), timing
  counters; debug symbols and locals in the linker; search paths, typedefs and
  namespaces in imports; what stops and replies of the debugger contain; in the
  optimizer the types of values and stores removed over a whole function.

Most of the repository's lines are of the first four kinds, which is why the share
of its lines that the models stand for is small.

## 7. What could come next

1. A proof of `FramesFound` of Linker for code that does not move (`MayMove` of `FALSE`)
   and programs that link no globals; `QueuedOnce` and `NoDangling` carried over to
   GcFinalizers.
2. `Dominators` and phi placement of the SSA form against the definition of
   dominance; register allocation against liveness of values.
3. `TreeSet` (AVL) behind `big` in ObjectPools, `HashMaps`, `TypedPool`.
4. Composition: ObjectPools under GcCycle (the blocks of one are the objects of
   the other), RegVmCalls with GcFinalizers (a failing finalizer inside an error).
