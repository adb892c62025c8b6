---------------------------- MODULE DebuggingProof ----------------------------
(***************************************************************************)
(* Proofs about debugging: Breakpoints, what the register VM does to the   *)
(* code, and after it RemoteDebug, the messages between the server and the *)
(* client.  Neither part uses the other.                                   *)
(*                                                                         *)
(* Breakpoints: for every program and any number of breakpoints that fit   *)
(* in the first buffer of breakCode (it moves when it outgrows it), with a *)
(* debugger that takes away lasting breakpoints only and clears them when  *)
(* no program runs.                                                        *)
(*                                                                         *)
(* The invariant says what each instruction pointer stands for: an         *)
(* instruction in its place, a copy of it in breakCode in front of the way *)
(* back, or the way back.                                                  *)
(*                                                                         *)
(* That steps stop is proved for programs without recursion, and types for *)
(* programs that do not come to the last instruction.                      *)
(***************************************************************************)
EXTENDS Breakpoints, RemoteDebug, TLAPS, SequenceTheorems

Tame == Polite /\ MaxBreaks <= Increment

-------------------------------------------------------------------------------
(* The vector b and a pointer into it.                                     *)

IsCopy(b, k, i) ==
    /\ k \in 1..b.count /\ k + 1 \in 1..b.count
    /\ b.cells[k] = Program[i] /\ b.cells[k + 1] = Nop("return", i + 1)
IsBack(b, k, i) == k \in 1..b.count /\ b.cells[k] = Nop("return", i)

\* where a frame goes on: instruction i, or the nop that leads to it
Resumes(b, p, i) == p = InCode(i) \/ \E k \in Nat : p = InBreak(k, b) /\ IsBack(b, k, i)
StandsFor(b, p, i) == Resumes(b, p, i) \/ \E k \in Nat : p = InBreak(k, b) /\ IsCopy(b, k, i)

\* what stands in the place of instruction i
Patched(b, c, i) ==
    /\ c = Nop(c.kind, c.arg) /\ c.arg \in 1..b.count
    /\ \/ c.kind = "signal" /\ IsCopy(b, c.arg, i)
       \/ c.kind = "once" /\ b.cells[c.arg] = Program[i]

VectorOf(S) == [cells : Seq(S), count : Nat, max : {0, Increment}, moved : Nat]
Usable(b) == b.count <= Len(b.cells) /\ b.count <= b.max

\* b2 is b with more in it
Extended(b, b2) ==
    /\ b.count <= b2.count
    /\ \A k \in 1..b.count : b2.cells[k] = b.cells[k]
    /\ b.count > 0 => b2.moved = b.moved

-------------------------------------------------------------------------------
(* The invariant.                                                          *)

Shape ==
    /\ \E S : breakCode \in VectorOf(S)
    /\ Usable(breakCode)
    /\ code \in [Positions -> Instr \union Patch]
    /\ callStack \in Seq(Pointer) /\ finals \in Seq(Nat) /\ flag \in BOOLEAN

CodeKept ==
    \A i \in Positions : code[i] = Program[i] \/ Patched(breakCode, code[i], i)

FramesKept ==
    \A d \in 1..Depth : \E i \in Positions : Resumes(breakCode, callStack[d], i)

PointerKept ==
    /\ mode \in {"run", "break"} => \E i \in Positions : StandsFor(breakCode, ip, i)
    /\ mode \in {"idle", "native"} => ip = InCode(1)

HitKept ==
    mode = "break" =>
        \E i \in Positions :
            /\ ip = InCode(i) /\ Patched(breakCode, hit, i)
            /\ hit.kind = "once" => code[i] = hit

Increasing(f) == \A j, k \in DOMAIN f : j < k => f[j] < f[k]

RunsKept ==
    /\ mode \in {"idle", "run", "native", "break"}
    /\ mode = "idle" <=> finals = <<>>
    /\ mode = "idle" => callStack = <<>>
    /\ mode # "idle" => finals[1] = 0 /\ Final <= Depth
    /\ mode = "native" => Final < Depth
    /\ Increasing(finals)

IInv == Shape /\ CodeKept /\ FramesKept /\ PointerKept /\ HitKept /\ RunsKept

-------------------------------------------------------------------------------
(* Programs.                                                               *)

LEMMA ProgramFacts ==
    /\ Len(Program) \in Nat \ {0} /\ Positions = 1..Len(Program)
    /\ \A i \in Positions :
         /\ Program[i] \in Instr /\ i \in Nat
         /\ Program[i].op # "nop"
         /\ Program[i].op \in {"jmp", "jz", "call"} => Program[i].arg \in Positions
         /\ Program[i].op # "ret" => i + 1 \in Positions
    /\ Entries \subseteq Positions
<1>1. Len(Program) \in Nat \ {0} /\ Positions = 1..Len(Program)
  BY BreakpointsAssumption, EmptySeq, LenProperties DEF Positions
<1>2. \A i \in Positions : Program[i] \in Instr
  BY <1>1, BreakpointsAssumption, ElementOfSeq
<1>3. \A i \in Positions : Program[i].op # "nop"
  BY <1>2 DEF Instr, Ops
<1> QED
  BY <1>1, <1>2, <1>3, BreakpointsAssumption DEF Entries, Positions

-------------------------------------------------------------------------------
(* FastVector::push_back.                                                  *)

LEMMA PushFacts ==
    ASSUME Tame, NEW S, NEW b \in VectorOf(S), Usable(b), NEW c, Push(b, c).count <= MaxBreaks
    PROVE  /\ Push(b, c) \in VectorOf(S \union {c})
           /\ Usable(Push(b, c)) /\ Extended(b, Push(b, c))
           /\ Push(b, c).count = b.count + 1 /\ Push(b, c).cells[b.count + 1] = c
<1> DEFINE T == S \union {c}
           b2 == Push(b, c)
<1>1. /\ b.cells \in Seq(S) /\ b.count \in Nat /\ b.max \in {0, Increment} /\ b.moved \in Nat
      /\ Len(b.cells) \in Nat /\ Increment \in Nat \ {0} /\ MaxBreaks \in Nat
      /\ MaxBreaks <= Increment
  BY LenProperties, BreakpointsAssumption DEF VectorOf, Tame
<1>2. b.cells \in Seq(T) /\ c \in T
  BY <1>1, SeqMonotonic
<1>3. b2.count = b.count + 1 /\ b.count < Increment
  BY <1>1 DEF Push
<1>4. /\ b2.cells \in Seq(T) /\ Len(b2.cells) >= b.count + 1
      /\ b2.cells[b.count + 1] = c
      /\ \A k \in 1..b.count : b2.cells[k] = b.cells[k]
  <2>1. CASE b.count < Len(b.cells)
    <3>1. b2.cells = [b.cells EXCEPT ![b.count + 1] = c] /\ b.count + 1 \in 1..Len(b.cells)
      BY <2>1, <1>1 DEF Push
    <3> QED
      BY <3>1, <1>1, <1>2, ExceptSeq
  <2>2. CASE b.count = Len(b.cells)
    <3>1. b2.cells = Append(b.cells, c)
      BY <2>2, <1>1 DEF Push
    <3>2. /\ Append(b.cells, c) \in Seq(T) /\ Len(Append(b.cells, c)) = b.count + 1
          /\ Append(b.cells, c)[b.count + 1] = c
          /\ \A k \in 1..b.count : Append(b.cells, c)[k] = b.cells[k]
      BY <2>2, <1>1, <1>2
    <3> QED
      BY <3>1, <3>2, <1>1
  <2> QED
    BY <2>1, <2>2, <1>1 DEF Usable
<1>5. /\ b2.max = Increment /\ b2.moved \in Nat
      /\ b.count > 0 => b2.moved = b.moved
  <2>1. CASE b.count = b.max
    BY <2>1, <1>1, <1>3 DEF Push, Grown
  <2>2. CASE b.count # b.max
    BY <2>2, <1>1 DEF Push, Usable
  <2> QED
    BY <2>1, <2>2
<1>6. b2 = [cells |-> b2.cells, count |-> b2.count, max |-> b2.max, moved |-> b2.moved]
  BY DEF Push
<1> HIDE DEF b2, T
<1>7. b2 \in VectorOf(T)
  BY <1>1, <1>3, <1>4, <1>5, <1>6 DEF VectorOf
<1>8. Usable(b2) /\ Extended(b, b2)
  BY <1>1, <1>3, <1>4, <1>5 DEF Usable, Extended
<1> QED
  BY <1>3, <1>4, <1>7, <1>8 DEF b2, T

\* what pointers and patches stand for does not change when cells are added
LEMMA ExtendedKeeps ==
    ASSUME NEW b, NEW b2, Extended(b, b2), b.count \in Nat, b2.count \in Nat,
           NEW i \in Positions
    PROVE  /\ \A k : IsCopy(b, k, i) => IsCopy(b2, k, i)
           /\ \A k : IsBack(b, k, i) => IsBack(b2, k, i)
           /\ \A p : Resumes(b, p, i) => Resumes(b2, p, i)
           /\ \A p : StandsFor(b, p, i) => StandsFor(b2, p, i)
           /\ \A c : Patched(b, c, i) => Patched(b2, c, i)
<1>1. \A k : IsCopy(b, k, i) => IsCopy(b2, k, i)
  BY DEF IsCopy, Extended
<1>2. \A k : IsBack(b, k, i) => IsBack(b2, k, i)
  BY DEF IsBack, Extended
<1>3. \A k : k \in 1..b.count => InBreak(k, b) = InBreak(k, b2)
  BY DEF InBreak, Extended
<1>4. \A p : Resumes(b, p, i) => Resumes(b2, p, i)
  BY <1>2, <1>3 DEF Resumes, IsBack
<1>5. \A p : StandsFor(b, p, i) => StandsFor(b2, p, i)
  BY <1>1, <1>3, <1>4 DEF StandsFor, IsCopy
<1>6. \A c : Patched(b, c, i) => Patched(b2, c, i)
  BY <1>1 DEF Patched, Extended
<1> QED
  BY <1>1, <1>2, <1>4, <1>5, <1>6

-------------------------------------------------------------------------------
(* What pointers stand for.                                                *)

LEMMA PointerRead ==
    ASSUME IInv, NEW i \in Positions, StandsFor(breakCode, ip, i)
    PROVE  /\ Where(ip) = i
           /\ Cmd.op # "nop" =>
                /\ Cmd = Program[i]
                /\ Cmd.op # "ret" => Resumes(breakCode, After(ip), i + 1)
           /\ Cmd.op = "nop" /\ Cmd.kind = "return" => Cmd.arg = i
           /\ Cmd.op = "nop" /\ Cmd.kind # "return" =>
                ip = InCode(i) /\ Cmd = code[i] /\ Patched(breakCode, Cmd, i)
<1>0. /\ i \in Nat /\ Program[i].op # "nop" /\ breakCode.count \in Nat
      /\ code[i] = Program[i] \/ Patched(breakCode, code[i], i)
  BY ProgramFacts DEF IInv, Shape, VectorOf, CodeKept
<1>1. CASE ip = InCode(i)
  <2>1. Where(ip) = i /\ Cmd = code[i] /\ After(ip) = InCode(i + 1)
    BY <1>1 DEF InCode, Where, Cmd, Read, After
  <2>2. code[i] = Program[i] \/ (code[i].op = "nop" /\ code[i].kind # "return")
    BY <1>0 DEF Patched, Nop
  <2> QED
    BY <1>0, <1>1, <2>1, <2>2 DEF Resumes
<1>2. ASSUME NEW k \in Nat, ip = InBreak(k, breakCode), IsBack(breakCode, k, i)
      PROVE  Where(ip) = i /\ Cmd = Nop("return", i)
  BY <1>2 DEF InBreak, IsBack, Where, Cmd, Read, Nop
<1>3. ASSUME NEW k \in Nat, ip = InBreak(k, breakCode), IsCopy(breakCode, k, i)
      PROVE  Where(ip) = i /\ Cmd = Program[i] /\ Resumes(breakCode, After(ip), i + 1)
  <2>1. Cmd = breakCode.cells[k] /\ After(ip) = InBreak(k + 1, breakCode)
    BY <1>3 DEF InBreak, Cmd, Read, After
  <2>2. Cmd = Program[i] /\ IsBack(breakCode, k + 1, i + 1)
    BY <1>3, <2>1 DEF IsCopy, IsBack
  <2>3. Read(After(ip)) = Nop("return", i + 1)
    BY <1>3, <2>1 DEF Read, InBreak, IsCopy
  <2>4. Where(ip) = i
    BY <1>0, <1>3, <2>2, <2>3 DEF Where, Cmd, Nop, InBreak
  <2> QED
    BY <2>1, <2>2, <2>4 DEF Resumes
<1>4. Nop("return", i).op = "nop" /\ Nop("return", i).kind = "return" /\ Nop("return", i).arg = i
  BY DEF Nop
<1> QED
  BY <1>0, <1>1, <1>2, <1>3, <1>4 DEF StandsFor, Resumes

LEMMA FrameAddress ==
    ASSUME NEW p, NEW i \in Positions, Resumes(breakCode, p, i)
    PROVE  (Address(p) = i /\ p \in Pointer) \/ breakCode.moved \notin Nat
BY ProgramFacts DEF Resumes, IsBack, Address, InUse, InCode, InBreak, Nop, Pointer

\* the variables of PlainRun
at    == Where(ip)
stack == [d \in 1..Depth |-> Address(callStack[d])]
phase == IF mode = "break" THEN "run" ELSE mode

LEMMA StackType ==
    ASSUME IInv
    PROVE  /\ Depth \in Nat /\ stack \in Seq(Nat) /\ Len(stack) = Depth
           /\ \A d \in 1..Depth : stack[d] = Address(callStack[d]) /\ stack[d] \in Positions
<1>1. Depth \in Nat
  BY LenProperties DEF IInv, Shape, Depth
<1>2. \A d \in 1..Depth : Address(callStack[d]) \in Positions
  BY FrameAddress DEF IInv, FramesKept, Shape, VectorOf
<1>3. \A d \in 1..Depth : Address(callStack[d]) \in Nat
  BY <1>2, ProgramFacts
<1>4. stack \in [1..Depth -> Nat]
  BY <1>3 DEF stack
<1>5. stack \in Seq(Nat) /\ Len(stack) = Depth
  BY <1>1, <1>4
<1> QED
  BY <1>1, <1>2, <1>5 DEF stack

\* Address, of a vector b
AddressIn(b, p) ==
    IF p.seg = "break" /\ p.age = b.moved /\ p.pos \in 1..b.count THEN b.cells[p.pos].arg ELSE p.pos

LEMMA AddressNext ==
    /\ \A p : Address(p) = AddressIn(breakCode, p)
    /\ stack' = [d \in 1..Len(callStack') |-> AddressIn(breakCode', callStack'[d])]
    /\ Depth' = Len(callStack')
BY DEF stack, Address, InUse, Depth, AddressIn

LEMMA StackPushed ==
    ASSUME IInv, NEW i \in Positions, NEW p, Resumes(breakCode, p, i),
           callStack' = Append(callStack, p), breakCode' = breakCode
    PROVE  /\ Depth' = Depth + 1 /\ callStack' \in Seq(Pointer)
           /\ stack' = Append(stack, i) /\ FramesKept'
<1>1. p \in Pointer /\ Address(p) = i /\ i \in Nat
  BY FrameAddress, ProgramFacts DEF IInv, Shape, VectorOf
<1>2. callStack \in Seq(Pointer) /\ Depth \in Nat /\ Depth = Len(callStack)
  BY StackType DEF IInv, Shape, Depth
<1>3. /\ callStack' \in Seq(Pointer) /\ Len(callStack') = Depth + 1
      /\ callStack'[Depth + 1] = p
      /\ \A d \in 1..Depth : callStack'[d] = callStack[d]
  BY <1>1, <1>2
<1>4. Depth' = Depth + 1
  BY <1>3, AddressNext
<1>5. stack' = Append(stack, i)
  <2>1. stack' = [d \in 1..(Depth + 1) |-> AddressIn(breakCode, callStack'[d])]
    BY <1>3, AddressNext
  <2>2. \A d \in 1..(Depth + 1) : stack'[d] = Append(stack, i)[d]
    BY <2>1, <1>1, <1>2, <1>3, AddressNext, StackType
  <2>3. Append(stack, i) \in Seq(Nat) /\ Len(Append(stack, i)) = Depth + 1
    BY <1>1, <1>2, StackType
  <2>4. Append(stack, i) = [d \in 1..(Depth + 1) |-> Append(stack, i)[d]]
    BY <2>3, LenProperties
  <2> QED
    BY <2>1, <2>2, <2>4
<1>6. FramesKept'
  <2>1. \A d \in 1..(Depth + 1) : \E j \in Positions : Resumes(breakCode, callStack'[d], j)
    BY <1>2, <1>3 DEF IInv, FramesKept
  <2> QED
    BY <2>1, <1>4 DEF FramesKept
<1> QED
  BY <1>3, <1>4, <1>5, <1>6

LEMMA StackPopped ==
    ASSUME IInv, Depth > 0, callStack' = Up, breakCode' = breakCode
    PROVE  /\ Depth' = Depth - 1 /\ callStack' \in Seq(Pointer)
           /\ stack' = SubSeq(stack, 1, Len(stack) - 1) /\ FramesKept'
           /\ \E i \in Positions : Resumes(breakCode, Caller, i) /\ stack[Len(stack)] = i
<1>1. callStack \in Seq(Pointer) /\ Depth \in Nat /\ Depth = Len(callStack)
  BY StackType DEF IInv, Shape, Depth
<1>2. /\ callStack' \in Seq(Pointer) /\ Len(callStack') = Depth - 1
      /\ \A d \in 1..(Depth - 1) : callStack'[d] = callStack[d]
  BY <1>1, SubSeqProperties DEF Up
<1>3. Depth' = Depth - 1
  BY <1>2, AddressNext
<1>4. stack' = SubSeq(stack, 1, Len(stack) - 1)
  <2>1. stack' = [d \in 1..(Depth - 1) |-> AddressIn(breakCode, callStack'[d])]
    BY <1>2, AddressNext
  <2>2. /\ SubSeq(stack, 1, Depth - 1) = [d \in 1..(Depth - 1) |-> stack[d]]
        /\ \A d \in 1..(Depth - 1) : stack[d] = stack'[d]
    BY <1>1, <1>2, <2>1, AddressNext, StackType
  <2> QED
    BY <2>1, <2>2, StackType
<1>5. FramesKept'
  <2>1. \A d \in 1..(Depth - 1) : \E j \in Positions : Resumes(breakCode, callStack'[d], j)
    BY <1>1, <1>2 DEF IInv, FramesKept
  <2> QED
    BY <2>1, <1>3 DEF FramesKept
<1>6. \E i \in Positions : Resumes(breakCode, Caller, i) /\ stack[Len(stack)] = i
  BY <1>1, StackType, FrameAddress DEF IInv, FramesKept, Caller, Shape, VectorOf
<1> QED
  BY <1>2, <1>3, <1>4, <1>5, <1>6

LEMMA StackKept ==
    ASSUME IInv, callStack' = callStack, Extended(breakCode, breakCode'),
           breakCode'.count \in Nat
    PROVE  stack' = stack /\ Depth' = Depth /\ FramesKept'
<1>1. Depth' = Depth /\ Depth = Len(callStack') /\ breakCode.count \in Nat
  BY DEF Depth, IInv, Shape, VectorOf
<1>2. \A d \in 1..Depth : \E i \in Positions :
        Resumes(breakCode, callStack[d], i) /\ Resumes(breakCode', callStack[d], i)
  BY <1>1, ExtendedKeeps DEF IInv, FramesKept
<1>3. \A d \in 1..Depth : AddressIn(breakCode', callStack[d]) = AddressIn(breakCode, callStack[d])
  <2>1. \A p, i : Resumes(breakCode, p, i) /\ Resumes(breakCode', p, i)
                   => AddressIn(breakCode, p) = i /\ AddressIn(breakCode', p) = i
    BY DEF Resumes, IsBack, AddressIn, InCode, InBreak, Nop
  <2> QED
    BY <1>2, <2>1
<1>4. stack' = stack
  BY <1>1, <1>3, AddressNext DEF stack
<1> QED
  BY <1>1, <1>2, <1>4 DEF FramesKept

LEMMA WhereNext ==
    ASSUME NEW i \in Positions, StandsFor(breakCode', ip', i)
    PROVE  at' = i
<1>1. i \in Nat /\ Program[i].op # "nop"
  BY ProgramFacts
<1>2. CASE ip' = InCode(i)
  BY <1>2 DEF at, Where, InCode
<1>3. ASSUME NEW k \in Nat, ip' = InBreak(k, breakCode'), IsBack(breakCode', k, i)
      PROVE  at' = i
  BY <1>3 DEF at, Where, Read, InBreak, IsBack, Nop
<1>4. ASSUME NEW k \in Nat, ip' = InBreak(k, breakCode'), IsCopy(breakCode', k, i)
      PROVE  at' = i
  BY <1>1, <1>4 DEF at, Where, Read, After, InBreak, IsCopy, Nop
<1> QED
  BY <1>2, <1>3, <1>4 DEF StandsFor, Resumes

-------------------------------------------------------------------------------
(* RunCode.                                                                *)

LEMMA ShapeKept ==
    ASSUME IInv, UNCHANGED <<code, breakCode>>,
           callStack' \in Seq(Pointer), finals' \in Seq(Nat), flag' \in BOOLEAN
    PROVE  Shape' /\ CodeKept'
BY DEF IInv, Shape, CodeKept

\* the program goes on in the same frame
LEMMA GoesOn ==
    ASSUME IInv, mode = "run", UNCHANGED <<code, breakCode, callStack, finals, mode>>,
           flag' \in BOOLEAN, NEW j \in Positions, Resumes(breakCode, ip', j)
    PROVE  IInv' /\ at' = j /\ stack' = stack /\ phase' = phase
<1>1. Shape' /\ CodeKept'
  BY ShapeKept DEF IInv, Shape
<1>2. stack' = stack /\ Depth' = Depth /\ FramesKept'
  BY StackKept DEF Extended, IInv, Shape, VectorOf
<1>3. StandsFor(breakCode', ip', j)
  BY DEF StandsFor
<1>4. PointerKept' /\ HitKept'
  BY <1>3 DEF PointerKept, HitKept
<1>5. RunsKept'
  BY <1>2 DEF IInv, RunsKept, Final
<1> QED
  BY <1>1, <1>2, <1>3, <1>4, <1>5, WhereNext DEF IInv, phase

LEMMA ComputeStep ==
    ASSUME IInv, mode = "run", Compute
    PROVE  IInv' /\ Plain!Next
<1>1. PICK i \in Positions : StandsFor(breakCode, ip, i)
  BY DEF IInv, PointerKept
<1>2. at = i /\ Program[i].op = "op" /\ Resumes(breakCode, ip', i + 1) /\ i + 1 \in Positions
  BY <1>1, PointerRead, ProgramFacts DEF Compute, at
<1>3. IInv' /\ at' = i + 1 /\ stack' = stack /\ phase' = phase
  BY <1>2, GoesOn DEF Compute
<1>4. Plain!Compute
  BY <1>2, <1>3 DEF Plain!Compute, Compute, at, stack, phase
<1> QED
  BY <1>3, <1>4 DEF Plain!Next, phase

LEMMA JumpStep ==
    ASSUME IInv, mode = "run", Jump
    PROVE  IInv' /\ Plain!Next
<1>1. PICK i \in Positions : StandsFor(breakCode, ip, i)
  BY DEF IInv, PointerKept
<1>2. /\ at = i /\ Cmd = Program[i] /\ Program[i].op \in {"jmp", "jz"}
      /\ Resumes(breakCode, After(ip), i + 1) /\ i + 1 \in Positions
      /\ Program[i].arg \in Positions
  BY <1>1, PointerRead, ProgramFacts DEF Jump, at
<1>3. flag' = flag /\ flag \in BOOLEAN /\ UNCHANGED <<code, breakCode, callStack, finals, mode>>
  BY DEF Jump, machine, IInv, Shape
<1>4. CASE Program[i].op = "jz" /\ flag
  <2>1. ip' = After(ip)
    BY <1>2, <1>4 DEF Jump
  <2>2. IInv' /\ at' = i + 1 /\ stack' = stack /\ phase' = phase
    BY <1>2, <1>3, <2>1, GoesOn
  <2>3. Plain!Jump
    BY <1>2, <1>3, <1>4, <2>2 DEF Plain!Jump, Plain!Goto, at, stack, phase
  <2> QED
    BY <2>2, <2>3 DEF Plain!Next, phase
<1>5. CASE ~(Program[i].op = "jz" /\ flag)
  <2>1. ip' = InCode(Program[i].arg)
    BY <1>2, <1>5 DEF Jump
  <2>2. IInv' /\ at' = Program[i].arg /\ stack' = stack /\ phase' = phase
    BY <1>2, <1>3, <2>1, GoesOn DEF Resumes
  <2>3. Plain!Jump
    BY <1>2, <1>3, <1>5, <2>2 DEF Plain!Jump, Plain!Goto, at, stack, phase
  <2> QED
    BY <2>2, <2>3 DEF Plain!Next, phase
<1> QED
  BY <1>4, <1>5

LEMMA LeaveStep ==
    ASSUME IInv, mode = "run", LeaveBreakCode
    PROVE  IInv' /\ UNCHANGED Plain!vars
<1>1. PICK i \in Positions : StandsFor(breakCode, ip, i)
  BY DEF IInv, PointerKept
<1>2. at = i /\ ip' = InCode(i)
  BY <1>1, PointerRead DEF LeaveBreakCode, at
<1>3. UNCHANGED <<code, breakCode, callStack, finals, mode, flag>> /\ flag \in BOOLEAN
  BY DEF LeaveBreakCode, machine, IInv, Shape
<1>4. IInv' /\ at' = i /\ stack' = stack /\ phase' = phase
  BY <1>2, <1>3, GoesOn DEF Resumes
<1> QED
  BY <1>2, <1>3, <1>4 DEF Plain!vars, at, stack, phase

LEMMA CallStep ==
    ASSUME IInv, mode = "run", Call
    PROVE  IInv' /\ Plain!Next
<1>1. PICK i \in Positions : StandsFor(breakCode, ip, i)
  BY DEF IInv, PointerKept
<1>2. /\ at = i /\ Cmd = Program[i] /\ Program[i].op \in {"call", "callx"}
      /\ Resumes(breakCode, After(ip), i + 1) /\ i + 1 \in Positions
      /\ Program[i].op = "call" => Program[i].arg \in Positions
  BY <1>1, PointerRead, ProgramFacts DEF Call, at
<1>3. /\ Depth' = Depth + 1 /\ callStack' \in Seq(Pointer)
      /\ stack' = Append(stack, i + 1) /\ FramesKept'
  BY <1>2, StackPushed DEF Call
<1>4. Shape' /\ CodeKept' /\ UNCHANGED <<finals, flag, code, breakCode>>
  BY <1>3, ShapeKept DEF IInv, Shape, Call
<1>5. Depth \in Nat /\ Len(stack) = Depth
  BY StackType
<1>6. Final \in Nat /\ finals # <<>>
  <2>1. finals \in Seq(Nat) /\ finals # <<>>
    BY DEF IInv, Shape, RunsKept
  <2> QED
    BY <2>1, EmptySeq, LenProperties, ElementOfSeq DEF Final
<1>7. CASE Program[i].op = "call"
  <2>1. ip' = InCode(Program[i].arg) /\ mode' = mode
    BY <1>2, <1>7 DEF Call
  <2>2. StandsFor(breakCode', ip', Program[i].arg)
    BY <2>1 DEF StandsFor, Resumes
  <2>3. at' = Program[i].arg /\ PointerKept' /\ HitKept' /\ phase' = phase
    BY <1>2, <1>7, <2>1, <2>2, WhereNext DEF PointerKept, HitKept, phase
  <2>4. RunsKept'
    BY <1>3, <1>4, <1>5, <1>6, <2>1 DEF IInv, RunsKept, Final
  <2>5. Plain!Call
    BY <1>2, <1>3, <1>4, <1>5, <1>7, <2>3 DEF Plain!Call, Call, at, stack, phase
  <2> QED
    BY <1>3, <1>4, <2>3, <2>4, <2>5 DEF IInv, Plain!Next, phase
<1>8. CASE Program[i].op = "callx"
  <2>1. ip' = InCode(1) /\ mode' = "native"
    BY <1>2, <1>8 DEF Call
  <2>2. at' = 1 /\ PointerKept' /\ HitKept' /\ phase' = "native"
    BY <2>1 DEF PointerKept, HitKept, phase, at, Where, InCode
  <2>3. RunsKept'
    BY <1>3, <1>4, <1>5, <1>6, <2>1 DEF IInv, RunsKept, Final
  <2>4. Plain!Call
    BY <1>2, <1>3, <1>4, <1>5, <1>8, <2>2 DEF Plain!Call, Call, at, stack, phase
  <2> QED
    BY <1>3, <1>4, <2>2, <2>3, <2>4 DEF IInv, Plain!Next, phase
<1> QED
  BY <1>2, <1>7, <1>8

LEMMA FinalsFacts ==
    ASSUME IInv, mode # "idle"
    PROVE  /\ finals \in Seq(Nat) /\ finals # <<>> /\ Len(finals) \in Nat \ {0}
           /\ Final = finals[Len(finals)] /\ Final \in Nat
           /\ DOMAIN finals = 1..Len(finals)
BY EmptySeq, LenProperties, ElementOfSeq DEF IInv, Shape, RunsKept, Final

LEMMA OneLess ==
    ASSUME NEW f \in Seq(Nat), f # <<>>, Increasing(f), NEW g, g = SubSeq(f, 1, Len(f) - 1)
    PROVE  /\ g \in Seq(Nat) /\ Len(g) = Len(f) - 1 /\ DOMAIN g = 1..(Len(f) - 1)
           /\ g = <<>> <=> Len(f) = 1
           /\ \A j \in 1..(Len(f) - 1) : g[j] = f[j]
           /\ Increasing(g)
           /\ Len(f) # 1 => g[Len(g)] < f[Len(f)] /\ g[1] = f[1]
<1>1. Len(f) \in Nat \ {0} /\ DOMAIN f = 1..Len(f)
  BY EmptySeq, LenProperties
<1>2. /\ g \in Seq(Nat) /\ Len(g) = Len(f) - 1
      /\ \A j \in 1..(Len(f) - 1) : g[j] = f[j]
  BY <1>1, SubSeqProperties
<1>3. DOMAIN g = 1..(Len(f) - 1)
  BY <1>2, LenProperties
<1>4. g = <<>> <=> Len(f) = 1
  <2>1. Len(g) = 0 => g = <<>>
    BY <1>2, EmptySeq
  <2>2. g = <<>> => Len(g) = 0
    OBVIOUS
  <2> QED
    BY <1>1, <1>2, <2>1, <2>2
<1>5. Increasing(g)
  BY <1>1, <1>2, <1>3 DEF Increasing
<1>6. Len(f) # 1 => g[Len(g)] < f[Len(f)] /\ g[1] = f[1]
  <2>1. CASE Len(f) # 1
    <3>1. Len(f) - 1 \in 1..(Len(f) - 1) /\ 1 \in 1..(Len(f) - 1) /\ Len(f) \in DOMAIN f
      BY <1>1, <2>1
    <3>2. Len(f) - 1 \in DOMAIN f /\ Len(f) - 1 < Len(f)
      BY <1>1, <3>1
    <3> QED
      BY <1>2, <3>1, <3>2 DEF Increasing
  <2> QED
    BY <2>1
<1> QED
  BY <1>2, <1>3, <1>4, <1>5, <1>6

LEMMA ReturnStep ==
    ASSUME IInv, mode = "run", Return
    PROVE  IInv' /\ Plain!Next
<1>1. PICK i \in Positions : StandsFor(breakCode, ip, i)
  BY DEF IInv, PointerKept
<1>2. at = i /\ Program[i].op = "ret"
  BY <1>1, PointerRead, ProgramFacts DEF Return, at
<1>3. UNCHANGED <<flag, code, breakCode>> /\ flag \in BOOLEAN
  BY DEF Return, IInv, Shape
<1>4. Depth \in Nat /\ Len(stack) = Depth /\ Final \in Nat /\ Final <= Depth
  BY StackType, FinalsFacts DEF IInv, RunsKept
<1>5. CASE ~AtFinal
  <2>1. Depth > Final /\ Depth > 0
    BY <1>4, <1>5 DEF AtFinal
  <2>2. ip' = Caller /\ callStack' = Up /\ UNCHANGED <<finals, mode>>
    BY <1>5 DEF Return
  <2>3. PICK j \in Positions : Resumes(breakCode, Caller, j) /\ stack[Len(stack)] = j
    BY <1>3, <2>1, <2>2, StackPopped
  <2>4. /\ Depth' = Depth - 1 /\ callStack' \in Seq(Pointer)
        /\ stack' = SubSeq(stack, 1, Len(stack) - 1) /\ FramesKept'
    BY <1>3, <2>1, <2>2, StackPopped
  <2>5. Shape' /\ CodeKept'
    BY <1>3, <2>2, <2>4, ShapeKept DEF IInv, Shape
  <2>6. StandsFor(breakCode', ip', j)
    BY <1>3, <2>2, <2>3 DEF StandsFor
  <2>7. at' = j /\ PointerKept' /\ HitKept' /\ phase' = phase
    BY <2>2, <2>6, WhereNext DEF PointerKept, HitKept, phase
  <2>8. RunsKept'
    BY <1>4, <2>1, <2>2, <2>4 DEF IInv, RunsKept, Final
  <2>9. Plain!Return
    BY <1>2, <1>3, <1>4, <1>5, <2>2, <2>3, <2>4, <2>7
       DEF Plain!Return, Plain!Final, Plain!Up, AtFinal, Final, at, stack, phase
  <2> QED
    BY <2>4, <2>5, <2>7, <2>8, <2>9 DEF IInv, Plain!Next, phase
<1>6. CASE AtFinal
  <2> DEFINE n == Len(finals)
  <2>1. /\ finals' = SubSeq(finals, 1, n - 1) /\ callStack' = callStack /\ ip' = InCode(1)
        /\ mode' = IF n = 1 THEN "idle" ELSE "native"
    BY <1>6 DEF Return
  <2>2. /\ finals \in Seq(Nat) /\ n \in Nat \ {0} /\ Final = finals[n]
        /\ DOMAIN finals = 1..n
    BY FinalsFacts
  <2>3. /\ finals' \in Seq(Nat) /\ Len(finals') = n - 1 /\ Increasing(finals')
        /\ finals' = <<>> <=> n = 1
        /\ n # 1 => finals'[Len(finals')] < finals[n] /\ finals'[1] = finals[1]
    BY <2>1, <2>2, FinalsFacts, OneLess DEF IInv, RunsKept
  <2>4. stack' = stack /\ Depth' = Depth /\ FramesKept'
    BY <1>3, <2>1, StackKept DEF Extended, IInv, Shape, VectorOf
  <2>5. Shape' /\ CodeKept'
    BY <1>3, <2>1, <2>3, ShapeKept DEF IInv, Shape
  <2>6. at' = 1 /\ PointerKept' /\ HitKept' /\ phase' = mode'
    BY <2>1 DEF PointerKept, HitKept, phase, at, Where, InCode
  <2>7. RunsKept'
    <3>1. mode' = "idle" <=> finals' = <<>>
      BY <2>1, <2>3
    <3>2. n = 1 => callStack' = <<>>
      BY <1>4, <1>6, <2>1, <2>2, EmptySeq DEF AtFinal, IInv, RunsKept, Shape, Depth
    <3>3. n # 1 => finals'[1] = 0 /\ Final' < Depth'
      BY <1>6, <2>2, <2>3, <2>4 DEF IInv, RunsKept, Final, AtFinal
    <3>4. n # 1 => Final' \in Nat /\ Depth' \in Nat
      <4>1. n # 1 => Len(finals') \in 1..Len(finals')
        BY <2>2, <2>3
      <4> QED
        BY <1>4, <2>3, <2>4, <4>1, ElementOfSeq DEF Final
    <3> QED
      BY <2>1, <2>3, <3>1, <3>2, <3>3, <3>4 DEF RunsKept
  <2>8. Plain!Return
    BY <1>2, <1>3, <1>4, <1>6, <2>1, <2>4, <2>6
       DEF Plain!Return, Plain!Final, Plain!Up, AtFinal, Final, at, stack, phase
  <2> QED
    BY <2>4, <2>5, <2>6, <2>7, <2>8 DEF IInv, Plain!Next, phase
<1> QED
  BY <1>5, <1>6

LEMMA HitStep ==
    ASSUME IInv, mode = "run", Hit
    PROVE  IInv' /\ UNCHANGED Plain!vars
<1>1. PICK i \in Positions : StandsFor(breakCode, ip, i)
  BY DEF IInv, PointerKept
<1>2. ip = InCode(i) /\ Cmd = code[i] /\ Patched(breakCode, Cmd, i)
  BY <1>1, PointerRead DEF Hit
<1>3. UNCHANGED <<code, breakCode, ip, callStack, finals, flag>> /\ mode' = "break" /\ hit' = Cmd
  BY DEF Hit, machine
<1>4. stack' = stack /\ Depth' = Depth /\ FramesKept'
  BY <1>3, StackKept DEF Extended, IInv, Shape, VectorOf
<1>5. Shape' /\ CodeKept'
  BY <1>3, ShapeKept DEF IInv, Shape
<1>6. PointerKept' /\ HitKept'
  BY <1>1, <1>2, <1>3 DEF PointerKept, HitKept
<1>7. RunsKept'
  BY <1>3, <1>4 DEF IInv, RunsKept, Final
<1>8. phase' = phase
  BY <1>3 DEF phase
<1>9. at' = at
  BY <1>3 DEF at, Where, Read
<1> QED
  BY <1>3, <1>4, <1>5, <1>6, <1>7, <1>8, <1>9 DEF IInv, Plain!vars, at, stack, phase

LEMMA StartStep ==
    ASSUME IInv, Start
    PROVE  IInv' /\ Plain!Next
<1>1. /\ mode = "idle" /\ mode' = "run" /\ ip' = InCode(1) /\ callStack' = <<>>
      /\ finals' = <<0>> /\ UNCHANGED <<code, breakCode, flag>>
  BY DEF Start
<1>2. callStack = <<>> /\ ip = InCode(1)
  BY <1>1 DEF IInv, RunsKept, PointerKept
<1>3. stack' = stack /\ Depth' = Depth /\ FramesKept'
  BY <1>1, <1>2, StackKept DEF Extended, IInv, Shape, VectorOf
<1>4. Depth = 0 /\ stack = <<>>
  BY <1>2, StackType, EmptySeq DEF Depth
<1>5. finals' \in Seq(Nat) /\ Len(finals') = 1 /\ finals'[1] = 0 /\ DOMAIN finals' = 1..1
  BY <1>1, LenProperties
<1>6. Shape' /\ CodeKept'
  BY <1>1, <1>2, <1>5, ShapeKept DEF IInv, Shape
<1>7. at' = 1 /\ PointerKept' /\ HitKept' /\ phase' = "run"
  <2>1. 1 \in Positions
    BY ProgramFacts
  <2> QED
    BY <1>1, <2>1 DEF PointerKept, HitKept, phase, at, Where, InCode, StandsFor, Resumes
<1>8. RunsKept'
  <2>1. Increasing(finals') /\ finals' # <<>> /\ Final' = 0
    BY <1>1, <1>5 DEF Increasing, Final
  <2> QED
    BY <1>1, <1>3, <1>4, <1>5, <2>1 DEF RunsKept
<1>9. Plain!Start
  BY <1>1, <1>3, <1>4, <1>7 DEF Plain!Start, at, stack, phase
<1> QED
  BY <1>3, <1>6, <1>7, <1>8, <1>9 DEF IInv, Plain!Next

LEMMA CallBackStep ==
    ASSUME IInv, NEW f \in Entries, CallBack(f)
    PROVE  IInv' /\ Plain!Next
<1>1. /\ mode = "native" /\ mode' = "run" /\ ip' = InCode(f) /\ Depth < MaxDepth
      /\ finals' = Append(finals, Depth) /\ UNCHANGED <<code, breakCode, callStack, flag>>
  BY DEF CallBack
<1>2. f \in Positions
  BY ProgramFacts
<1>3. stack' = stack /\ Depth' = Depth /\ FramesKept'
  BY <1>1, StackKept DEF Extended, IInv, Shape, VectorOf
<1>4. Depth \in Nat /\ Len(stack) = Depth
  BY StackType
<1> DEFINE n == Len(finals)
<1>5. /\ finals \in Seq(Nat) /\ n \in Nat \ {0} /\ Final = finals[n] /\ Final < Depth
      /\ DOMAIN finals = 1..n
  BY <1>1, FinalsFacts DEF IInv, RunsKept
<1>6. /\ finals' \in Seq(Nat) /\ Len(finals') = n + 1 /\ finals'[n + 1] = Depth
      /\ \A j \in 1..n : finals'[j] = finals[j]
  BY <1>1, <1>4, <1>5
<1>7. Shape' /\ CodeKept'
  BY <1>1, <1>6, ShapeKept DEF IInv, Shape
<1>8. StandsFor(breakCode', ip', f)
  BY <1>1 DEF StandsFor, Resumes
<1>9. at' = f /\ PointerKept' /\ HitKept' /\ phase = "native" /\ phase' = "run"
  BY <1>1, <1>2, <1>8, WhereNext DEF PointerKept, HitKept, phase
<1>10. RunsKept'
  <2>1. Final' = Depth /\ finals' # <<>> /\ DOMAIN finals' = 1..(n + 1) /\ finals'[1] = 0
    BY <1>1, <1>5, <1>6, EmptySeq, LenProperties DEF Final, IInv, RunsKept
  <2>2. \A j \in 1..n : finals[j] < Depth
    BY <1>4, <1>5, ElementOfSeq DEF IInv, RunsKept, Increasing
  <2>3. Increasing(finals')
    BY <1>5, <1>6, <2>1, <2>2 DEF IInv, RunsKept, Increasing
  <2> QED
    BY <1>1, <1>3, <1>4, <2>1, <2>3 DEF RunsKept
<1>11. Plain!CallBack(f)
  BY <1>1, <1>3, <1>4, <1>9 DEF Plain!CallBack, at, stack, phase
<1> QED
  BY <1>3, <1>7, <1>9, <1>10, <1>11 DEF IInv, Plain!Next, Plain!Entries, Entries, Positions

LEMMA NativeReturnsStep ==
    ASSUME IInv, NativeReturns
    PROVE  IInv' /\ Plain!Next
<1>1. /\ mode = "native" /\ mode' = "run" /\ ip' = Caller /\ callStack' = Up
      /\ UNCHANGED <<code, breakCode, finals, flag>>
  BY DEF NativeReturns
<1>2. Depth \in Nat /\ Len(stack) = Depth /\ Final \in Nat /\ Final < Depth /\ Depth > 0
  BY <1>1, StackType, FinalsFacts DEF IInv, RunsKept
<1>3. PICK j \in Positions : Resumes(breakCode, Caller, j) /\ stack[Len(stack)] = j
  BY <1>1, <1>2, StackPopped
<1>4. /\ Depth' = Depth - 1 /\ callStack' \in Seq(Pointer)
      /\ stack' = SubSeq(stack, 1, Len(stack) - 1) /\ FramesKept'
  BY <1>1, <1>2, StackPopped
<1>5. Shape' /\ CodeKept'
  BY <1>1, <1>4, ShapeKept DEF IInv, Shape
<1>6. StandsFor(breakCode', ip', j)
  BY <1>1, <1>3 DEF StandsFor
<1>7. at' = j /\ PointerKept' /\ HitKept' /\ phase = "native" /\ phase' = "run"
  BY <1>1, <1>6, WhereNext DEF PointerKept, HitKept, phase
<1>8. RunsKept'
  BY <1>1, <1>2, <1>4 DEF IInv, RunsKept, Final
<1>9. Plain!NativeReturns
  BY <1>1, <1>2, <1>3, <1>4, <1>7 DEF Plain!NativeReturns, Plain!Up, at, stack, phase
<1> QED
  BY <1>4, <1>5, <1>7, <1>8, <1>9 DEF IInv, Plain!Next

-------------------------------------------------------------------------------
(* The debugger.                                                           *)

LEMMA CountType == ASSUME IInv PROVE breakCode.count \in Nat
BY DEF IInv, Shape, VectorOf

LEMMA PatchIsNop == \A i \in Positions : \A b, c : Patched(b, c, i) => c.op = "nop"
BY DEF Patched, Nop

\* code is patched or put back, and cells are added; the program stays where it is
LEMMA CodeChanged ==
    ASSUME IInv, UNCHANGED <<ip, callStack, finals, flag, mode>>,
           NEW S, breakCode' \in VectorOf(S), Usable(breakCode'),
           Extended(breakCode, breakCode'),
           code' \in [Positions -> Instr \union Patch], CodeKept'
    PROVE  /\ Shape' /\ FramesKept' /\ PointerKept' /\ RunsKept'
           /\ UNCHANGED Plain!vars
<1>1. Shape'
  BY DEF IInv, Shape
<1>2. breakCode.count \in Nat /\ breakCode'.count \in Nat
  BY CountType DEF VectorOf
<1>3. stack' = stack /\ Depth' = Depth /\ FramesKept'
  BY <1>2, StackKept
<1>4. RunsKept'
  BY <1>3 DEF IInv, RunsKept, Final
<1>5. ASSUME NEW i \in Positions, StandsFor(breakCode, ip, i)
      PROVE  StandsFor(breakCode', ip', i) /\ at' = at
  <2>1. StandsFor(breakCode', ip', i)
    BY <1>2, <1>5, ExtendedKeeps
  <2> QED
    BY <1>5, <2>1, WhereNext, PointerRead DEF at
<1>6. PointerKept'
  BY <1>5 DEF IInv, PointerKept
<1>7. at' = at
  <2>1. CASE mode \in {"run", "break"}
    BY <2>1, <1>5 DEF IInv, PointerKept
  <2>2. CASE mode \in {"idle", "native"}
    BY <2>2 DEF IInv, PointerKept, at, Where, InCode
  <2> QED
    BY <2>1, <2>2 DEF IInv, RunsKept
<1> QED
  BY <1>1, <1>3, <1>4, <1>6, <1>7 DEF Plain!vars, at, stack, phase

LEMMA StopStep ==
    ASSUME IInv, Stop
    PROVE  IInv' /\ Plain!Next
<1>1. /\ mode = "break" /\ mode' = "idle" /\ ip' = InCode(1) /\ callStack' = <<>>
      /\ finals' = <<>> /\ UNCHANGED <<code, breakCode, flag>>
  BY DEF Stop
<1>2. Len(callStack') = 0 /\ callStack' \in Seq(Pointer) /\ finals' \in Seq(Nat)
  BY <1>1, EmptySeq
<1>3. Depth' = 0 /\ FramesKept'
  BY <1>2, AddressNext DEF FramesKept
<1>4. stack' = <<>>
  BY <1>2, AddressNext
<1>5. Shape' /\ CodeKept'
  BY <1>1, <1>2, ShapeKept DEF IInv, Shape
<1>6. at' = 1 /\ PointerKept' /\ HitKept' /\ phase = "run" /\ phase' = "idle"
  BY <1>1 DEF PointerKept, HitKept, phase, at, Where, InCode
<1>7. RunsKept'
  BY <1>1 DEF RunsKept, Increasing
<1>8. Plain!Stop
  BY <1>1, <1>4, <1>6 DEF Plain!Stop, at, stack, phase
<1> QED
  BY <1>3, <1>5, <1>6, <1>7, <1>8 DEF IInv, Plain!Next

LEMMA AddStep ==
    ASSUME IInv, Tame, NEW i \in Positions, NEW oneHit \in BOOLEAN, AddBreakpoint(i, oneHit)
    PROVE  IInv' /\ UNCHANGED Plain!vars /\ Extended(breakCode, breakCode')
<1> DEFINE kind == IF oneHit THEN "once" ELSE "signal"
           copy == Push(breakCode, code[i])
           back == Nop("return", i + 1)
<1>1. /\ breakCode' = IF oneHit THEN copy ELSE Push(copy, back)
      /\ breakCode'.count <= MaxBreaks
      /\ code' = [code EXCEPT ![i] = Nop(kind, copy.count)]
      /\ UNCHANGED <<ip, callStack, finals, flag, mode, hit>>
  BY DEF AddBreakpoint, machine
<1>2. code[i] = Program[i]
  BY PatchIsNop DEF AddBreakpoint, IInv, CodeKept
<1>3. PICK S : breakCode \in VectorOf(S)
  BY DEF IInv, Shape
<1>4. Usable(breakCode) /\ breakCode.count \in Nat /\ MaxBreaks \in Nat
  BY CountType, BreakpointsAssumption DEF IInv, Shape
<1>5. copy.count = breakCode.count + 1 /\ Push(copy, back).count = copy.count + 1
  BY DEF Push
<1>6. copy.count <= MaxBreaks
  BY <1>1, <1>4, <1>5
<1>7. /\ copy \in VectorOf(S \union {code[i]}) /\ Usable(copy) /\ Extended(breakCode, copy)
      /\ copy.cells[copy.count] = Program[i]
  <2> HIDE DEF copy
  <2>1. \A c : Push(breakCode, c).count <= MaxBreaks =>
          /\ Push(breakCode, c) \in VectorOf(S \union {c})
          /\ Usable(Push(breakCode, c)) /\ Extended(breakCode, Push(breakCode, c))
          /\ Push(breakCode, c).cells[breakCode.count + 1] = c
    BY <1>3, <1>4, PushFacts
  <2> QED
    BY <1>2, <1>5, <1>6, <2>1 DEF copy
<1> HIDE DEF copy
<1>8. \E T : /\ breakCode' \in VectorOf(T) /\ Usable(breakCode') /\ Extended(breakCode, breakCode')
             /\ Patched(breakCode', Nop(kind, copy.count), i)
  <2>1. CASE oneHit
    <3>1. Patched(breakCode', Nop(kind, copy.count), i)
      BY <1>1, <1>4, <1>5, <1>7, <2>1 DEF Patched, Nop
    <3> QED
      BY <1>1, <1>7, <2>1, <3>1
  <2>2. CASE ~oneHit
    <3>1. breakCode' = Push(copy, back) /\ Push(copy, back).count <= MaxBreaks
      BY <1>1, <2>2
    <3>2. /\ breakCode' \in VectorOf((S \union {code[i]}) \union {back}) /\ Usable(breakCode')
          /\ Extended(copy, breakCode') /\ breakCode'.count = copy.count + 1
          /\ breakCode'.cells[copy.count + 1] = back
      BY <1>7, <3>1, PushFacts
    <3>3. Extended(breakCode, breakCode')
      BY <1>4, <1>5, <1>7, <3>2 DEF Extended
    <3>4. IsCopy(breakCode', copy.count, i)
      BY <1>4, <1>5, <1>7, <3>2 DEF IsCopy, Extended
    <3>5. Patched(breakCode', Nop(kind, copy.count), i)
      BY <2>2, <3>4 DEF Patched, Nop, IsCopy
    <3> QED
      BY <3>2, <3>3, <3>5
  <2> QED
    BY <2>1, <2>2
<1>9. PICK T : /\ breakCode' \in VectorOf(T) /\ Usable(breakCode')
               /\ Extended(breakCode, breakCode')
               /\ Patched(breakCode', Nop(kind, copy.count), i)
  BY <1>8
<1>10. code \in [Positions -> Instr \union Patch] /\ Nop(kind, copy.count) \in Patch
  BY <1>4, <1>5 DEF IInv, Shape, Nop, Patch, Kinds
<1>11. /\ code' \in [Positions -> Instr \union Patch] /\ code'[i] = Nop(kind, copy.count)
       /\ \A j \in Positions \ {i} : code'[j] = code[j]
  BY <1>1, <1>10
<1>12. \A j \in Positions : \A c : Patched(breakCode, c, j) => Patched(breakCode', c, j)
  BY <1>4, <1>9, ExtendedKeeps DEF VectorOf
<1>13. CodeKept'
  BY <1>9, <1>11, <1>12 DEF IInv, CodeKept
<1>14. HitKept'
  <2>1. \A j \in Positions : Patched(breakCode, hit, j) => hit.op = "nop"
    BY PatchIsNop
  <2>2. code[i].op # "nop"
    BY DEF AddBreakpoint
  <2> QED
    BY <1>1, <1>11, <1>12, <2>1, <2>2 DEF IInv, HitKept
<1>15. Shape' /\ FramesKept' /\ PointerKept' /\ RunsKept' /\ UNCHANGED Plain!vars
  BY <1>1, <1>9, <1>11, <1>13, CodeChanged
<1> QED
  BY <1>9, <1>13, <1>14, <1>15 DEF IInv

LEMMA RemoveStep ==
    ASSUME IInv, Tame, NEW i \in Positions, RemoveBreakpoint(i)
    PROVE  IInv' /\ UNCHANGED Plain!vars
<1>1. /\ code[i].op = "nop" /\ code[i].kind = "signal"
      /\ code' = [code EXCEPT ![i] = breakCode.cells[code[i].arg]]
      /\ UNCHANGED <<breakCode, ip, callStack, finals, flag, mode, hit>>
  BY DEF RemoveBreakpoint, Tame, machine
<1>2. breakCode.cells[code[i].arg] = Program[i]
  <2>1. Patched(breakCode, code[i], i)
    BY <1>1, ProgramFacts DEF IInv, CodeKept
  <2> QED
    BY <1>1, <2>1 DEF Patched, IsCopy
<1>3. /\ code' \in [Positions -> Instr \union Patch] /\ code'[i] = Program[i]
      /\ \A j \in Positions \ {i} : code'[j] = code[j]
  BY <1>1, <1>2, ProgramFacts DEF IInv, Shape
<1>4. CodeKept'
  BY <1>1, <1>3 DEF IInv, CodeKept
<1>5. HitKept'
  BY <1>1, <1>3 DEF IInv, HitKept
<1>6. PICK S : breakCode \in VectorOf(S)
  BY DEF IInv, Shape
<1>7. Extended(breakCode, breakCode') /\ Usable(breakCode')
  BY <1>1, CountType DEF Extended, IInv, Shape
<1> QED
  BY <1>1, <1>3, <1>4, <1>5, <1>6, <1>7, CodeChanged DEF IInv

LEMMA ClearStep ==
    ASSUME IInv, Tame, ClearBreakpoints
    PROVE  IInv' /\ UNCHANGED Plain!vars
<1>1. /\ mode = "idle"
      /\ code' = [i \in Positions |->
                     IF code[i].op = "nop" THEN breakCode.cells[code[i].arg] ELSE code[i]]
      /\ breakCode' = [breakCode EXCEPT !.count = 0]
      /\ UNCHANGED <<ip, callStack, finals, flag, mode, hit>>
  BY DEF ClearBreakpoints, Tame, machine
<1>2. \A i \in Positions : code'[i] = Program[i]
  <2>1. \A i \in Positions : Patched(breakCode, code[i], i) => breakCode.cells[code[i].arg] = Program[i]
    BY DEF Patched, IsCopy
  <2> QED
    BY <1>1, <2>1, PatchIsNop, ProgramFacts DEF IInv, CodeKept
<1>3. code' \in [Positions -> Instr \union Patch] /\ CodeKept'
  BY <1>1, <1>2, ProgramFacts DEF CodeKept
<1>4. PICK S : breakCode \in VectorOf(S)
  BY DEF IInv, Shape
<1>5. breakCode' \in VectorOf(S) /\ Usable(breakCode')
  BY <1>1, <1>4, BreakpointsAssumption, LenProperties DEF VectorOf, Usable
<1>6. Shape'
  BY <1>1, <1>3, <1>5 DEF IInv, Shape
<1>7. callStack = <<>> /\ ip = InCode(1)
  BY <1>1 DEF IInv, RunsKept, PointerKept
<1>8. Depth = 0 /\ Depth' = 0 /\ FramesKept'
  BY <1>1, <1>7 DEF Depth, FramesKept
<1>9. stack' = stack
  BY <1>1, <1>7, <1>8, AddressNext DEF stack
<1>10. PointerKept' /\ HitKept' /\ RunsKept'
  BY <1>1, <1>7, <1>8 DEF IInv, PointerKept, HitKept, RunsKept, Increasing
<1>11. at' = at
  BY <1>1, <1>7 DEF at, Where, InCode
<1> QED
  BY <1>1, <1>3, <1>6, <1>8, <1>9, <1>10, <1>11 DEF IInv, Plain!vars, at, stack, phase

LEMMA TargetInCode ==
    ASSUME IInv, mode = "break", NEW i \in Positions, ip = InCode(i), NEW orig, NEW response
    PROVE  \E x : StepTarget(orig, response) = InCode(x)
<1> DEFINE next == NextCommand(orig, response)
<1>1. (next = Caller /\ ~AtFinal) \/ \E x : next = InCode(x)
  BY DEF NextCommand, After, InCode
<1>2. CASE next = Caller /\ ~AtFinal
  <2>1. Depth \in 1..Depth
    BY <1>2, StackType, FinalsFacts DEF IInv, RunsKept, AtFinal
  <2>2. PICK j \in Positions : Resumes(breakCode, Caller, j)
    BY <2>1 DEF IInv, FramesKept, Caller
  <2>3. CASE next = InCode(j)
    BY <2>3 DEF StepTarget
  <2>4. ASSUME NEW k \in Nat, next = InBreak(k, breakCode), IsBack(breakCode, k, j)
        PROVE  Read(next).op = "nop" /\ Read(next).kind = "return"
    BY <2>4 DEF Read, InBreak, IsBack, Nop
  <2> QED
    BY <1>2, <2>2, <2>3, <2>4 DEF StepTarget, Resumes
<1>3. CASE \E x : next = InCode(x)
  BY <1>3 DEF StepTarget
<1> QED
  BY <1>1, <1>2, <1>3

\* a vector and a code that can take the place of breakCode and code, without
\* losing a patch
Replaces(grown, placed) ==
    /\ \E T : grown \in VectorOf(T) /\ Usable(grown) /\ Extended(breakCode, grown)
    /\ placed \in [Positions -> Instr \union Patch]
    /\ \A j \in Positions : placed[j] = Program[j] \/ Patched(grown, placed[j], j)
    /\ \A j \in Positions : code[j].op = "nop" => placed[j] = code[j]

\* the breakpoint a step command places
LEMMA PlaceStep ==
    ASSUME IInv, Tame, NEW x, NEW grown, NEW placed,
           code[x].op # "nop", grown = Push(breakCode, code[x]), grown.count <= MaxBreaks,
           placed = [code EXCEPT ![x] = Nop("once", grown.count)]
    PROVE  Replaces(grown, placed)
<1>1. /\ breakCode.count \in Nat /\ Usable(breakCode)
      /\ code \in [Positions -> Instr \union Patch]
  BY CountType DEF IInv, Shape
<1>2. PICK S : breakCode \in VectorOf(S)
  BY DEF IInv, Shape
<1>3. /\ grown \in VectorOf(S \union {code[x]}) /\ Usable(grown)
      /\ Extended(breakCode, grown) /\ grown.count = breakCode.count + 1
      /\ grown.cells[breakCode.count + 1] = code[x]
  BY <1>1, <1>2, PushFacts
<1>4. grown.count \in Nat /\ grown.count \in 1..grown.count
  BY <1>1, <1>3
<1>5. Nop("once", grown.count) \in Patch
  BY <1>4 DEF Nop, Patch, Kinds
<1>6. placed \in [Positions -> Instr \union Patch]
  BY <1>1, <1>5
<1>7. \A j \in Positions : placed[j] = IF j = x THEN Nop("once", grown.count) ELSE code[j]
  BY <1>1
<1>8. x \in Positions => Patched(grown, Nop("once", grown.count), x)
  <2>1. x \in Positions => code[x] = Program[x]
    BY PatchIsNop DEF IInv, CodeKept
  <2> QED
    BY <1>3, <1>4, <2>1 DEF Patched, Nop
<1>9. \A j \in Positions : \A c : Patched(breakCode, c, j) => Patched(grown, c, j)
  BY <1>1, <1>3, <1>4, ExtendedKeeps
<1>10. \A j \in Positions : placed[j] = Program[j] \/ Patched(grown, placed[j], j)
  BY <1>7, <1>8, <1>9 DEF IInv, CodeKept
<1> QED
  BY <1>3, <1>6, <1>7, <1>10 DEF Replaces

\* the program goes on: in its place, or at the copy
LEMMA ResumeStep ==
    ASSUME IInv, NEW grown, NEW placed, Replaces(grown, placed),
           mode = "break", mode' = "run", breakCode' = grown,
           \/ /\ hit.kind = "once" /\ ip' = ip
              /\ code' = [placed EXCEPT ![ip.pos] = grown.cells[hit.arg]]
           \/ hit.kind # "once" /\ code' = placed /\ ip' = InBreak(hit.arg, grown),
           UNCHANGED <<callStack, finals, flag>>
    PROVE  IInv' /\ UNCHANGED Plain!vars /\ Lasting(code) \subseteq Lasting(code')
<1>0. PICK T : /\ grown \in VectorOf(T) /\ Usable(grown) /\ Extended(breakCode, grown)
               /\ placed \in [Positions -> Instr \union Patch]
               /\ \A j \in Positions : placed[j] = Program[j] \/ Patched(grown, placed[j], j)
               /\ \A j \in Positions : code[j].op = "nop" => placed[j] = code[j]
  BY DEF Replaces
<1>1. PICK i \in Positions : /\ ip = InCode(i) /\ Patched(breakCode, hit, i)
                             /\ hit.kind = "once" => code[i] = hit
  BY DEF IInv, HitKept
<1>2. breakCode.count \in Nat /\ grown.count \in Nat /\ i \in Nat /\ Program[i] \in Instr
  BY <1>0, CountType, ProgramFacts DEF VectorOf
<1>3. Patched(grown, hit, i) /\ grown.cells[hit.arg] = Program[i]
  <2>1. \A c : Patched(breakCode, c, i) => Patched(grown, c, i)
    BY <1>0, <1>2, ExtendedKeeps
  <2>2. Patched(grown, hit, i)
    BY <1>1, <2>1
  <2> QED
    BY <2>2 DEF Patched, IsCopy
<1>4. /\ code' \in [Positions -> Instr \union Patch]
      /\ \A j \in Positions :
           code'[j] = placed[j] \/ (hit.kind = "once" /\ j = i /\ code'[j] = Program[j])
      /\ StandsFor(grown, ip', i)
  <2>1. CASE hit.kind = "once"
    <3>0. ip.pos = i
      BY <1>1 DEF InCode
    <3>1. code' = [placed EXCEPT ![i] = Program[i]] /\ ip' = InCode(i)
      BY <1>1, <1>3, <2>1, <3>0
    <3>2. \A j \in Positions : code'[j] = IF j = i THEN Program[i] ELSE placed[j]
      BY <1>0, <3>1
    <3>3. code' \in [Positions -> Instr \union Patch]
      BY <1>0, <1>2, <3>1
    <3> QED
      BY <2>1, <3>1, <3>2, <3>3 DEF StandsFor, Resumes
  <2>2. CASE hit.kind # "once"
    <3>1. code' = placed /\ ip' = InBreak(hit.arg, grown)
      BY <2>2
    <3>2. IsCopy(grown, hit.arg, i)
      BY <1>3, <2>2 DEF Patched
    <3>3. hit.arg \in Nat
      BY <1>2, <3>2 DEF IsCopy
    <3> QED
      BY <1>0, <3>1, <3>2, <3>3 DEF StandsFor
  <2> QED
    BY <2>1, <2>2
<1>5. CodeKept' /\ HitKept'
  BY <1>0, <1>4 DEF CodeKept, HitKept
<1>6. Shape'
  BY <1>0, <1>4 DEF IInv, Shape
<1>7. stack' = stack /\ Depth' = Depth /\ FramesKept'
  BY <1>0, <1>2, StackKept
<1>8. PointerKept'
  BY <1>4 DEF PointerKept
<1>9. RunsKept'
  BY <1>7 DEF IInv, RunsKept, Final
<1>10. at' = i
  BY <1>4, <1>5, <1>6, WhereNext
<1>11. at = i
  <2>1. ip.seg = "code" /\ ip.pos = i
    BY <1>1 DEF InCode
  <2> QED
    BY <2>1 DEF at, Where
<1>12. UNCHANGED Plain!vars
  BY <1>7, <1>10, <1>11 DEF Plain!vars, at, stack, phase
<1>13. Lasting(code) \subseteq Lasting(code')
  <2>1. \A j \in Lasting(code) : j \in Positions /\ placed[j] = code[j] /\ code[j].kind = "signal"
    BY <1>0 DEF Lasting
  <2>2. hit.kind = "once" => code[i].kind # "signal"
    BY <1>1
  <2> QED
    BY <1>4, <2>1, <2>2 DEF Lasting
<1> QED
  BY <1>5, <1>6, <1>7, <1>8, <1>9, <1>12, <1>13 DEF IInv

LEMMA RespondStep ==
    ASSUME IInv, Tame, NEW response, Respond(response)
    PROVE  IInv' /\ UNCHANGED Plain!vars /\ Lasting(code) \subseteq Lasting(code')
<1> DEFINE goes  == StepTarget(breakCode.cells[hit.arg], response)
           place == response # "proceed" /\ Read(goes).op # "nop"
<1>1. PICK grown, placed :
        /\ grown = IF place THEN Push(breakCode, Read(goes)) ELSE breakCode
        /\ placed = IF place THEN [code EXCEPT ![goes.pos] = Nop("once", grown.count)] ELSE code
        /\ mode = "break" /\ mode' = "run" /\ breakCode' = grown /\ grown.count <= MaxBreaks
        /\ Resumed(hit.kind = "once", placed, grown)
        /\ UNCHANGED <<callStack, finals, flag>>
  BY Zenon DEF Respond, machine
<1>2. PICK i \in Positions : ip = InCode(i)
  BY <1>1 DEF IInv, HitKept
<1>3. \E x : goes = InCode(x)
  BY <1>1, <1>2, TargetInCode
<1>4. \/ hit.kind = "once" /\ ip' = ip /\ code' = [placed EXCEPT ![ip.pos] = grown.cells[hit.arg]]
      \/ hit.kind # "once" /\ code' = placed /\ ip' = InBreak(hit.arg, grown)
  BY <1>1 DEF Resumed
<1> HIDE DEF goes
<1>5. PICK x : goes = InCode(x)
  BY <1>3
<1>6. goes.pos = x /\ Read(goes) = code[x]
  BY <1>5 DEF InCode, Read
<1>7. Replaces(grown, placed)
  <2>1. CASE place
    <3>1. /\ grown = Push(breakCode, code[x]) /\ code[x].op # "nop" /\ grown.count <= MaxBreaks
          /\ placed = [code EXCEPT ![x] = Nop("once", grown.count)]
      BY <1>1, <1>6, <2>1
    <3> QED
      BY <3>1, PlaceStep
  <2>2. CASE ~place
    <3>1. grown = breakCode /\ placed = code
      BY <1>1, <2>2
    <3>2. PICK S : breakCode \in VectorOf(S)
      BY DEF IInv, Shape
    <3>3. Extended(breakCode, breakCode)
      BY CountType DEF Extended
    <3>4. /\ \A j \in Positions : code[j] = Program[j] \/ Patched(breakCode, code[j], j)
          /\ Usable(breakCode) /\ code \in [Positions -> Instr \union Patch]
      BY DEF IInv, CodeKept, Shape
    <3> QED
      BY <3>1, <3>2, <3>3, <3>4 DEF Replaces
  <2> QED
    BY <2>1, <2>2
<1> QED
  BY <1>1, <1>4, <1>7, ResumeStep

-------------------------------------------------------------------------------
LEMMA InitStep == Init => IInv /\ Plain!Init
<1> SUFFICES ASSUME Init PROVE IInv /\ Plain!Init
  OBVIOUS
<1>1. /\ code = Program /\ breakCode = [cells |-> <<>>, count |-> 0, max |-> 0, moved |-> 0]
      /\ ip = InCode(1) /\ callStack = <<>> /\ finals = <<>> /\ flag = FALSE /\ mode = "idle"
  BY DEF Init
<1>2. Depth = 0
  BY <1>1 DEF Depth
<1>3. Shape
  <2>1. breakCode \in VectorOf({}) /\ Usable(breakCode)
    <3>1. <<>> \in Seq({}) /\ Len(<<>>) = 0
      BY EmptySeq
    <3> QED
      BY <1>1, <3>1 DEF VectorOf, Usable
  <2>2. code \in [Positions -> Instr \union Patch]
    <3>1. Program \in [Positions -> Instr]
      BY BreakpointsAssumption, LenProperties, ProgramFacts
    <3> QED
      BY <1>1, <3>1
  <2>3. callStack \in Seq(Pointer) /\ finals \in Seq(Nat) /\ flag \in BOOLEAN
    BY <1>1, EmptySeq
  <2> QED
    BY <2>1, <2>2, <2>3 DEF Shape
<1>4. IInv
  BY <1>1, <1>2, <1>3 DEF IInv, CodeKept, FramesKept, PointerKept, HitKept, RunsKept, Increasing
<1>5. at = 1 /\ stack = <<>> /\ phase = "idle"
  BY <1>1, <1>2 DEF at, stack, phase, Where, InCode
<1> QED
  BY <1>1, <1>4, <1>5 DEF Plain!Init, at, stack, phase

LEMMA NextStep ==
    ASSUME IInv, Tame, [Next]_vars
    PROVE  IInv' /\ [Plain!Next]_(Plain!vars)
<1>1. CASE Start
  BY <1>1, StartStep
<1>2. CASE NativeReturns
  BY <1>2, NativeReturnsStep
<1>3. CASE Execute
  BY <1>3, ComputeStep, JumpStep, CallStep, ReturnStep, LeaveStep, HitStep DEF Execute
<1>4. CASE Debug
  <2>1. ASSUME NEW r \in {"proceed", "over", "into", "out"}, Respond(r)
        PROVE  IInv' /\ UNCHANGED Plain!vars
    BY <2>1, RespondStep
  <2>2. ASSUME NEW i \in Positions, NEW oneHit \in BOOLEAN, AddBreakpoint(i, oneHit)
        PROVE  IInv' /\ UNCHANGED Plain!vars
    BY <2>2, AddStep
  <2>3. ASSUME NEW i \in Positions, RemoveBreakpoint(i)
        PROVE  IInv' /\ UNCHANGED Plain!vars
    BY <2>3, RemoveStep
  <2> QED
    BY <1>4, <2>1, <2>2, <2>3, StopStep, ClearStep DEF Debug
<1>5. CASE \E f \in Entries : CallBack(f)
  BY <1>5, CallBackStep
<1>6. CASE UNCHANGED vars
  <2>1. UNCHANGED <<code, breakCode, ip, callStack, finals, flag, mode, hit>>
    BY <1>6 DEF vars, machine
  <2>2. PICK S : breakCode \in VectorOf(S)
    BY DEF IInv, Shape
  <2>3. Extended(breakCode, breakCode') /\ Usable(breakCode')
    BY <2>1, CountType DEF Extended, IInv, Shape
  <2>4. CodeKept' /\ HitKept'
    BY <2>1 DEF IInv, CodeKept, HitKept
  <2> QED
    BY <2>1, <2>2, <2>3, <2>4, CodeChanged DEF IInv, Shape
<1> QED
  BY <1>1, <1>2, <1>3, <1>4, <1>5, <1>6 DEF Next

LEMMA StepKeepsLasting ==
    ASSUME IInv, Tame, [Next]_vars, mode # mode' \/ ip # ip'
    PROVE  Lasting(code) \subseteq Lasting(code')
<1>1. CASE code' = code
  BY <1>1 DEF Lasting
<1>2. CASE code' # code
  <2>1. ~ UNCHANGED vars /\ ~Start /\ ~NativeReturns /\ ~(\E f \in Entries : CallBack(f))
    BY <1>2 DEF vars, Start, NativeReturns, CallBack
  <2>2. ~Execute
    BY <1>2 DEF Execute, Compute, Jump, Call, Return, LeaveBreakCode, Hit
  <2>3. /\ ~Stop /\ ~ClearBreakpoints
        /\ \A i \in Positions : ~RemoveBreakpoint(i) /\ \A oneHit \in BOOLEAN : ~AddBreakpoint(i, oneHit)
    BY <1>2 DEF Stop, ClearBreakpoints, RemoveBreakpoint, AddBreakpoint
  <2>4. PICK r : Respond(r)
    BY <2>1, <2>2, <2>3 DEF Next, Debug
  <2> QED
    BY <2>4, RespondStep
<1> QED
  BY <1>1, <1>2

-------------------------------------------------------------------------------
(* Steps.  Where a step of the debugger stops is said in the terms of      *)
(* PlainRun: a position is marked when a nop stands there.                 *)

Marked(i) == code[i].op = "nop"

\* where the program goes next, in the frames that a step of that kind sees
Ahead(kind) ==
    IF kind = "out" \/ Program[at].op = "ret" THEN stack[Depth]
    ELSE IF \/ Program[at].op = "call" /\ kind = "into"
            \/ Program[at].op = "jmp" \/ (Program[at].op = "jz" /\ ~flag)
         THEN Program[at].arg
    ELSE at + 1

\* the first depth at which only the marked return address stops the program
Level == IF goal.kind = "over" THEN goal.depth + 1 ELSE goal.depth

Ready ==
    /\ mode = "run" /\ goal.depth = Depth
    /\ goal.kind = "out" => ~AtFinal
    /\ goal.kind = "into" => Program[at].op # "callx"
    /\ \/ goal.kind # "out" /\ Program[at].op = "ret" /\ AtFinal
       \/ Marked(Ahead(goal.kind))

UnderWay ==
    /\ mode \in {"run", "native"}
    /\ mode = "run" => Resumes(breakCode, ip, at)
    /\ goal.kind = "into" => mode = "run" /\ Marked(at)
    /\ goal.kind # "into" =>
         /\ Level >= 1
         /\ Depth < Level => mode = "run" /\ Marked(at)
         /\ Depth >= Level => Marked(stack[Level])

Goals == [kind : {"none", "over", "into", "out"}, depth : Nat, fresh : BOOLEAN]

Aimed ==
    /\ goal \in Goals
    /\ goal.kind # "none" => IF goal.fresh THEN Ready ELSE UnderWay

\* what the execution of an instruction does to the variables of PlainRun
Moved ==
    /\ goal' = [goal EXCEPT !.fresh = FALSE]
    /\ mode' = "run" => Resumes(breakCode', ip', at')
    /\ \/ /\ Program[at].op \in {"op", "jmp", "jz"} /\ mode' = "run"
          /\ at' = Ahead("over") /\ stack' = stack /\ Depth' = Depth
       \/ /\ Program[at].op \in {"call", "callx"} /\ Depth' = Depth + 1
          /\ stack' = Append(stack, at + 1)
          /\ IF Program[at].op = "call" THEN mode' = "run" /\ at' = Program[at].arg
             ELSE mode' = "native"
       \/ /\ Program[at].op = "ret" /\ ~AtFinal /\ mode' = "run" /\ Depth' = Depth - 1
          /\ at' = stack[Depth] /\ stack' = SubSeq(stack, 1, Depth - 1)

Left ==
    /\ Program[at].op = "ret" /\ AtFinal /\ stack' = stack /\ Depth' = Depth
    /\ goal' = IF goal.depth < Depth THEN goal ELSE NoGoal
    /\ mode' \in {"idle", "native"} /\ (Depth > 0 => mode' = "native")

LEMMA Position ==
    ASSUME IInv, mode \in {"run", "break"}
    PROVE  at \in Positions /\ StandsFor(breakCode, ip, at)
<1>1. PICK i \in Positions : StandsFor(breakCode, ip, i)
  BY DEF IInv, PointerKept
<1> QED
  BY <1>1, PointerRead DEF at

LEMMA ResumesNext ==
    ASSUME NEW j \in Positions, Resumes(breakCode', ip', j)
    PROVE  at' = j
BY WhereNext DEF StandsFor

\* at a marked instruction the VM can only leave breakCode or stop
LEMMA MarkedStops ==
    ASSUME IInv, mode = "run", Resumes(breakCode, ip, at), Marked(at)
    PROVE  Cmd.op = "nop" /\ Stopping(ip)
<1>1. CASE ip = InCode(at)
  <2>1. Cmd = code[at] /\ Read(ip) = code[at]
    BY <1>1 DEF Cmd, Read, InCode
  <2>2. Read(ip).kind # "return"
    <3>1. at \in Positions
      BY Position
    <3>2. code[at] = Program[at] \/ Patched(breakCode, code[at], at)
      BY <3>1 DEF IInv, CodeKept
    <3> QED
      BY <2>1, <3>1, <3>2, ProgramFacts DEF Patched, Marked
  <2> QED
    BY <2>1, <2>2 DEF Stopping, Marked
<1>2. ASSUME NEW k \in Nat, ip = InBreak(k, breakCode), IsBack(breakCode, k, at)
      PROVE  Cmd.op = "nop" /\ Stopping(ip)
  <2>1. Cmd = Nop("return", at) /\ Read(ip) = Nop("return", at)
    BY <1>2 DEF Cmd, Read, InBreak, IsBack
  <2>2. Read(InCode(at)) = code[at]
    BY DEF Read, InCode
  <2>3. Nop("return", at).op = "nop" /\ Nop("return", at).kind = "return" /\ Nop("return", at).arg = at
    BY DEF Nop
  <2> QED
    BY <2>1, <2>2, <2>3 DEF Stopping, Marked
<1> QED
  BY <1>1, <1>2 DEF Resumes

LEMMA PlainMove ==
    ASSUME IInv, mode = "run", Compute \/ Jump \/ Call \/ (Return /\ ~AtFinal)
    PROVE  /\ mode' \in {"run", "native"} /\ IInv'
           /\ Plain!Compute \/ Plain!Jump \/ Plain!Call \/ Plain!Return
<1>1. mode' \in {"run", "native"} /\ phase' # "idle" /\ phase = "run"
  BY DEF Compute, Jump, Call, Return, phase
<1>2. IInv' /\ Plain!Next
  BY ComputeStep, JumpStep, CallStep, ReturnStep
<1> QED
  BY <1>1, <1>2 DEF Plain!Next, Plain!Start, Plain!NativeReturns, Plain!Stop, Plain!CallBack

LEMMA NextResumes ==
    ASSUME IInv, mode = "run", Compute \/ Jump \/ Call \/ (Return /\ ~AtFinal), mode' = "run"
    PROVE  Resumes(breakCode', ip', at')
<1>1. at \in Positions /\ StandsFor(breakCode, ip, at) /\ breakCode' = breakCode
  BY Position DEF Compute, Jump, Call, Return
<1>2. Cmd.op # "nop" /\ Cmd.op = Program[at].op /\ Cmd = Program[at]
  BY <1>1, PointerRead DEF Compute, Jump, Call, Return
<1>3. /\ Cmd.op # "ret" => Resumes(breakCode, After(ip), at + 1) /\ at + 1 \in Positions
      /\ Cmd.op \in {"jmp", "jz", "call"} => Cmd.arg \in Positions
  BY <1>1, <1>2, PointerRead, ProgramFacts
<1>4. ip' = After(ip) /\ Cmd.op # "ret" => Resumes(breakCode', ip', at')
  BY <1>1, <1>3, ResumesNext
<1>5. ip' = InCode(Cmd.arg) /\ Cmd.op \in {"jmp", "jz", "call"} => Resumes(breakCode', ip', at')
  BY <1>3, ResumesNext DEF Resumes
<1>6. ASSUME Return, ~AtFinal
      PROVE  Resumes(breakCode', ip', at')
  <2>1. ip' = Caller /\ Depth \in 1..Depth
    BY <1>6, StackType, FinalsFacts DEF IInv, RunsKept, AtFinal, Return
  <2>2. PICK j \in Positions : Resumes(breakCode, Caller, j)
    BY <2>1 DEF IInv, FramesKept, Caller
  <2> QED
    BY <1>1, <2>1, <2>2, ResumesNext
<1>7. CASE Compute
  BY <1>7, <1>4 DEF Compute
<1>8. CASE Jump
  BY <1>8, <1>4, <1>5 DEF Jump
<1>9. CASE Call
  BY <1>9, <1>5 DEF Call
<1> QED
  BY <1>6, <1>7, <1>8, <1>9

LEMMA MoveFacts ==
    ASSUME IInv, mode = "run", Compute \/ Jump \/ Call \/ (Return /\ ~AtFinal)
    PROVE  Moved
<1>1. goal' = [goal EXCEPT !.fresh = FALSE] /\ breakCode' = breakCode
  BY DEF Compute, Jump, Call, Return, Executed
<1>2. mode' = "run" => Resumes(breakCode', ip', at')
  BY NextResumes
<1>3. at \in Positions /\ Len(stack) = Depth /\ Depth \in Nat /\ StandsFor(breakCode, ip, at)
  BY Position, StackType
<1>4. Cmd.op = Program[at].op
  BY <1>3, PointerRead DEF Compute, Jump, Call, Return
<1>5. Plain!Compute \/ Plain!Jump \/ Plain!Call \/ Plain!Return
  BY PlainMove
<1>6. Extended(breakCode, breakCode') /\ breakCode'.count \in Nat
  BY <1>1, CountType DEF Extended
<1>7. CASE Compute \/ Jump
  <2>1. mode' = "run" /\ callStack' = callStack /\ Program[at].op \in {"op", "jmp", "jz"}
    BY <1>4, <1>7 DEF Compute, Jump, machine
  <2>2. stack' = stack /\ Depth' = Depth
    BY <1>6, <2>1, StackKept
  <2>3. at' = Ahead("over")
    BY <1>5, <2>1 DEF Ahead, Plain!Compute, Plain!Jump, Plain!Goto, Plain!Call, Plain!Return,
                      at, stack, phase
  <2> QED
    BY <1>1, <1>2, <2>1, <2>2, <2>3 DEF Moved
<1>8. CASE Call
  <2>1. Program[at].op \in {"call", "callx"} /\ callStack' = Append(callStack, After(ip))
    BY <1>4, <1>8 DEF Call
  <2>2. at + 1 \in Positions /\ Resumes(breakCode, After(ip), at + 1)
    BY <1>3, <1>4, <2>1, PointerRead, ProgramFacts
  <2>3. Depth' = Depth + 1 /\ stack' = Append(stack, at + 1)
    BY <1>1, <2>1, <2>2, StackPushed
  <2>4. IF Program[at].op = "call" THEN mode' = "run" ELSE mode' = "native"
    BY <1>4, <1>8 DEF Call
  <2>5. Program[at].op = "call" => at' = Program[at].arg
    BY <1>5, <2>1 DEF Plain!Compute, Plain!Jump, Plain!Call, Plain!Return, at, stack, phase
  <2> QED
    BY <1>1, <1>2, <2>1, <2>3, <2>4, <2>5 DEF Moved
<1>9. CASE Return /\ ~AtFinal
  <2>1. Program[at].op = "ret" /\ callStack' = Up /\ mode' = "run" /\ Depth > 0
    BY <1>3, <1>4, <1>9, FinalsFacts DEF Return, AtFinal, IInv, RunsKept
  <2>2. Depth' = Depth - 1 /\ stack' = SubSeq(stack, 1, Depth - 1)
    BY <1>1, <1>3, <2>1, StackPopped
  <2>3. at' = stack[Depth]
    <3>1. Len(stack) # Final
      BY <1>3, <1>9 DEF AtFinal
    <3> QED
      BY <1>3, <1>5, <2>1, <3>1
         DEF Plain!Compute, Plain!Jump, Plain!Call, Plain!Return, Plain!Final, Final, at, stack,
            phase
  <2> QED
    BY <1>1, <1>2, <1>9, <2>1, <2>2, <2>3 DEF Moved
<1> QED
  BY <1>7, <1>8, <1>9

LEMMA LeaveFacts ==
    ASSUME IInv, mode = "run", Return, AtFinal
    PROVE  Left
<1>1. at \in Positions /\ StandsFor(breakCode, ip, at) /\ Depth \in Nat
  BY Position, StackType
<1>2. Program[at].op = "ret"
  BY <1>1, PointerRead DEF Return
<1>3. /\ goal' = IF goal.depth < Depth THEN goal ELSE NoGoal
      /\ mode' = IF Len(finals) = 1 THEN "idle" ELSE "native"
      /\ UNCHANGED <<callStack, breakCode>>
  BY DEF Return
<1>4. Extended(breakCode, breakCode') /\ breakCode'.count \in Nat
  BY <1>3, CountType DEF Extended
<1>5. stack' = stack /\ Depth' = Depth
  BY <1>3, <1>4, StackKept
<1>6. Len(finals) = 1 => Depth = 0
  BY DEF IInv, RunsKept, AtFinal, Final
<1> QED
  BY <1>1, <1>2, <1>3, <1>5, <1>6 DEF Left

-------------------------------------------------------------------------------
(* The first instruction of a step, and the instructions of deeper calls.  *)

LEMMA StackNext ==
    ASSUME IInv, Moved
    PROVE  \A k \in 1..Depth : k <= Depth' => stack'[k] = stack[k]
<1>1. stack \in Seq(Nat) /\ Len(stack) = Depth /\ Depth \in Nat
  BY StackType
<1>2. CASE stack' = stack
  BY <1>2
<1>3. CASE stack' = Append(stack, at + 1)
  BY <1>1, <1>3
<1>4. CASE Depth' = Depth - 1 /\ stack' = SubSeq(stack, 1, Depth - 1)
  BY <1>1, <1>4, SubSeqProperties
<1> QED
  BY <1>2, <1>3, <1>4 DEF Moved

LEMMA FirstMove ==
    ASSUME IInv, Aimed, goal.kind # "none", goal.fresh, Moved, code' = code
    PROVE  Aimed'
<1>1. Ready /\ goal \in Goals
  BY DEF Aimed
<1>2. /\ goal'.kind = goal.kind /\ goal'.depth = goal.depth /\ goal'.fresh = FALSE
      /\ goal' \in Goals /\ goal.depth = Depth /\ Depth \in Nat
  BY <1>1, StackType DEF Moved, Goals, Ready
<1>3. \A i : Marked(i)' <=> Marked(i)
  BY DEF Marked
<1>4. mode' \in {"run", "native"} /\ (mode' = "run" => Resumes(breakCode', ip', at'))
  BY DEF Moved
<1>5. stack \in Seq(Nat) /\ Len(stack) = Depth
  BY StackType
<1>6. Level' = IF goal.kind = "over" THEN Depth + 1 ELSE Depth
  BY <1>2 DEF Level
<1>7. CASE goal.kind = "out"
  <2>1. ~AtFinal /\ Marked(stack[Depth]) /\ Depth >= 1
    <3>1. ~AtFinal /\ Marked(stack[Depth])
      BY <1>1, <1>7 DEF Ready, Ahead
    <3> QED
      BY <1>2, <3>1, FinalsFacts, <1>1 DEF Ready, IInv, RunsKept, AtFinal
  <2>2. Depth' >= Depth => stack'[Depth] = stack[Depth]
    BY <1>2, <2>1, StackNext
  <2>3. Depth' < Depth => mode' = "run" /\ at' = stack[Depth]
    BY <1>2 DEF Moved
  <2>4. UnderWay'
    BY <1>2, <1>3, <1>4, <1>6, <1>7, <2>1, <2>2, <2>3 DEF UnderWay
  <2> QED
    BY <1>2, <2>4 DEF Aimed
<1>8. CASE goal.kind = "into"
  <2>1. Program[at].op # "callx"
    BY <1>1, <1>8 DEF Ready
  <2>2. mode' = "run" /\ at' = Ahead("into") /\ (Program[at].op = "ret" => ~AtFinal)
    BY <2>1 DEF Moved, Ahead
  <2>3. Marked(Ahead("into"))
    BY <1>1, <1>8, <2>2 DEF Ready
  <2>4. UnderWay'
    BY <1>2, <1>3, <1>4, <1>8, <2>2, <2>3 DEF UnderWay
  <2> QED
    BY <1>2, <2>4 DEF Aimed
<1>9. CASE goal.kind = "over"
  <2>1. Program[at].op = "ret" => ~AtFinal
    BY DEF Moved
  <2>2. Marked(Ahead("over"))
    BY <1>1, <1>9, <2>1 DEF Ready
  <2>3. Depth' <= Depth => mode' = "run" /\ at' = Ahead("over")
    BY <1>2 DEF Moved, Ahead
  <2>4. Depth' > Depth => Depth' = Depth + 1 /\ stack'[Depth + 1] = Ahead("over")
    <3>1. Depth' > Depth => /\ Program[at].op \in {"call", "callx"} /\ Depth' = Depth + 1
                            /\ stack' = Append(stack, at + 1)
      BY <1>2 DEF Moved
    <3>2. Append(stack, at + 1)[Depth + 1] = at + 1
      BY <1>5
    <3> QED
      BY <3>1, <3>2 DEF Ahead
  <2>5. Depth' \in Int
    BY <1>2 DEF Moved
  <2>6. UnderWay'
    BY <1>2, <1>3, <1>4, <1>6, <1>9, <2>2, <2>3, <2>4, <2>5 DEF UnderWay
  <2> QED
    BY <1>2, <2>6 DEF Aimed
<1> QED
  BY <1>1, <1>2, <1>7, <1>8, <1>9 DEF Goals

\* the VM executes nothing at a marked instruction, so the program is deeper
LEMMA Deeper ==
    ASSUME IInv, UnderWay, goal.depth \in Nat, mode = "run", Cmd.op # "nop"
    PROVE  goal.kind # "into" /\ Depth >= Level /\ Level >= 1 /\ Marked(stack[Level])
<1>1. ~Marked(at)
  BY MarkedStops DEF UnderWay
<1>2. Depth \in Nat
  BY StackType
<1> QED
  BY <1>1, <1>2 DEF UnderWay, Level

LEMMA LaterMove ==
    ASSUME IInv, Aimed, goal.kind # "none", ~goal.fresh, mode = "run", Cmd.op # "nop",
           Moved, code' = code
    PROVE  Aimed'
<1>1. UnderWay /\ goal \in Goals /\ goal.depth \in Nat /\ Depth \in Nat
  BY StackType DEF Aimed, Goals
<1>2. goal.kind # "into" /\ Depth >= Level /\ Level >= 1 /\ Marked(stack[Level])
  BY <1>1, Deeper
<1>3. goal' \in Goals /\ goal'.kind = goal.kind /\ goal'.fresh = FALSE /\ Level' = Level
  BY <1>1 DEF Moved, Goals, Level
<1>4. Level \in Nat /\ Depth' \in Int
  BY <1>1 DEF Level, Moved
<1>5. Depth' >= Level => stack'[Level] = stack[Level]
  BY <1>1, <1>2, <1>4, StackNext
<1>6. Depth' < Level => mode' = "run" /\ at' = stack[Level]
  BY <1>1, <1>2, <1>4 DEF Moved
<1>7. mode' \in {"run", "native"} /\ (mode' = "run" => Resumes(breakCode', ip', at'))
  BY DEF Moved
<1>8. \A i : Marked(i)' <=> Marked(i)
  BY DEF Marked
<1>9. UnderWay'
  BY <1>2, <1>3, <1>4, <1>5, <1>6, <1>7, <1>8 DEF UnderWay
<1> QED
  BY <1>3, <1>9 DEF Aimed

LEMMA LeftMove ==
    ASSUME IInv, Aimed, goal.kind # "none", mode = "run", Cmd.op # "nop", Left, code' = code
    PROVE  Aimed'
<1>1. goal \in Goals /\ goal.depth \in Nat /\ Depth \in Nat /\ NoGoal \in Goals /\ NoGoal.kind = "none"
  BY StackType DEF Aimed, Goals, NoGoal
<1>2. CASE ~(goal.depth < Depth)
  BY <1>1, <1>2 DEF Left, Aimed
<1>3. CASE goal.depth < Depth
  <2>1. UnderWay /\ ~goal.fresh
    BY <1>1, <1>3 DEF Aimed, Ready
  <2>2. goal.kind # "into" /\ Depth >= Level /\ Level >= 1 /\ Marked(stack[Level])
    BY <1>1, <2>1, Deeper
  <2>3. goal' = goal /\ mode' = "native" /\ stack' = stack /\ Depth' = Depth
    BY <1>1, <1>3 DEF Left
  <2>4. Level' = Level /\ Marked(stack[Level])'
    BY <2>2, <2>3 DEF Level, Marked
  <2>5. UnderWay'
    BY <1>1, <2>2, <2>3, <2>4 DEF UnderWay, Level
  <2> QED
    BY <1>1, <2>1, <2>3, <2>5 DEF Aimed
<1> QED
  BY <1>2, <1>3

-------------------------------------------------------------------------------
(* Steps: what does not execute an instruction.                            *)

LEMMA NoAim == ASSUME goal' = NoGoal PROVE Aimed'
BY DEF Aimed, Goals, NoGoal

\* more is marked, and the program stays where it is
LEMMA SamePlace ==
    ASSUME IInv, Aimed, UNCHANGED <<at, stack, Depth, flag, mode, goal, finals>>,
           \A i \in Positions : Marked(i) => Marked(i)',
           goal.kind # "none" /\ ~goal.fresh /\ mode = "run" => Resumes(breakCode', ip', at')
    PROVE  Aimed'
<1>1. goal \in Goals
  BY DEF Aimed
<1>2. Depth \in Nat /\ \A d \in 1..Depth : stack[d] \in Positions
  BY StackType
<1>3. mode = "run" => at \in Positions
  BY Position
<1>4. CASE goal.kind = "none"
  BY <1>1, <1>4 DEF Aimed
<1>5. CASE goal.kind # "none" /\ goal.fresh
  <2>1. Ready
    BY <1>5 DEF Aimed
  <2>2. Ahead(goal.kind)' = Ahead(goal.kind) /\ (AtFinal <=> AtFinal')
    BY DEF Ahead, AtFinal, Final
  <2>3. CASE goal.kind # "out" /\ Program[at].op = "ret" /\ AtFinal
    <3>1. Ready'
      BY <2>1, <2>2, <2>3 DEF Ready
    <3> QED
      BY <1>1, <1>5, <3>1 DEF Aimed
  <2>4. CASE ~(goal.kind # "out" /\ Program[at].op = "ret" /\ AtFinal)
    <3>1. Marked(Ahead(goal.kind))
      BY <2>1, <2>4 DEF Ready
    <3>2. Ahead(goal.kind) \in Positions
      <4>1. CASE goal.kind = "out" \/ Program[at].op = "ret"
        <5>1. ~AtFinal
          BY <2>1, <2>4, <4>1 DEF Ready
        <5>2. Depth \in 1..Depth
          BY <1>2, <2>1, <5>1, FinalsFacts DEF Ready, IInv, RunsKept, AtFinal
        <5> QED
          BY <1>2, <4>1, <5>2 DEF Ahead
      <4>2. CASE ~(goal.kind = "out" \/ Program[at].op = "ret")
        <5>1. at \in Positions
          BY <1>3, <2>1 DEF Ready
        <5> QED
          BY <4>2, <5>1, ProgramFacts DEF Ahead
      <4> QED
        BY <4>1, <4>2
    <3>3. Marked(Ahead(goal.kind))'
      BY <2>2, <3>1, <3>2 DEF Marked
    <3>4. Ready'
      BY <2>1, <2>2, <3>3 DEF Ready
    <3> QED
      BY <1>1, <1>5, <3>4 DEF Aimed
  <2> QED
    BY <2>3, <2>4
<1>6. CASE goal.kind # "none" /\ ~goal.fresh
  <2>1. UnderWay /\ Level' = Level /\ Level \in Nat
    BY <1>1, <1>6 DEF Aimed, Level, Goals
  <2>2. mode = "run" /\ Marked(at) => Marked(at)'
    BY <1>3 DEF Marked
  <2>3. Level >= 1 /\ Depth >= Level /\ Marked(stack[Level]) => Marked(stack[Level])'
    BY <1>2, <2>1 DEF Marked
  <2>4. UnderWay'
    BY <1>6, <2>1, <2>2, <2>3 DEF UnderWay
  <2> QED
    BY <1>1, <1>6, <2>4 DEF Aimed
<1> QED
  BY <1>4, <1>5, <1>6

LEMMA LeaveAim ==
    ASSUME IInv, Aimed, mode = "run", LeaveBreakCode
    PROVE  Aimed'
<1>1. at \in Positions /\ StandsFor(breakCode, ip, at)
  BY Position
<1>2. /\ Cmd.op = "nop" /\ Cmd.kind = "return" /\ ip' = InCode(Cmd.arg)
      /\ UNCHANGED <<code, breakCode, callStack, finals, flag, mode, goal>>
  BY DEF LeaveBreakCode, machine
<1>3. ip' = InCode(at)
  BY <1>1, <1>2, PointerRead
<1>4. Resumes(breakCode', ip', at)
  BY <1>3 DEF Resumes
<1>5. at' = at
  BY <1>1, <1>4, ResumesNext
<1>6. stack' = stack /\ Depth' = Depth
  BY <1>2, StackKept, CountType DEF Extended
<1> QED
  BY <1>2, <1>4, <1>5, <1>6, SamePlace DEF Marked

LEMMA AddAim ==
    ASSUME IInv, Aimed, Tame, NEW i \in Positions, NEW oneHit \in BOOLEAN, AddBreakpoint(i, oneHit)
    PROVE  Aimed'
<1>1. IInv' /\ UNCHANGED <<at, stack, finals, flag>>
  BY AddStep DEF Plain!vars, at, stack
<1>2. UNCHANGED <<ip, callStack, mode, goal>> /\ Depth' = Depth
  BY DEF AddBreakpoint, machine, Depth
<1>3. \A j \in Positions : Marked(j) => Marked(j)'
  <2>1. \A j \in Positions \ {i} : code'[j] = code[j]
    BY DEF AddBreakpoint, IInv, Shape
  <2>2. ~Marked(i)
    BY DEF AddBreakpoint, Marked
  <2> QED
    BY <2>1, <2>2 DEF Marked
<1>4. goal.kind # "none" /\ ~goal.fresh /\ mode = "run" => Resumes(breakCode', ip', at')
  <2> SUFFICES ASSUME goal.kind # "none", ~goal.fresh, mode = "run"
               PROVE  Resumes(breakCode', ip', at')
    OBVIOUS
  <2>1. Resumes(breakCode, ip, at) /\ at \in Positions
    BY Position DEF Aimed, UnderWay
  <2>2. breakCode'.count \in Nat /\ Extended(breakCode, breakCode')
    BY <1>1, AddStep DEF IInv, Shape, VectorOf
  <2>3. \A p : Resumes(breakCode, p, at) => Resumes(breakCode', p, at)
    BY <2>1, <2>2, CountType, ExtendedKeeps
  <2> QED
    BY <1>1, <1>2, <2>1, <2>3
<1> QED
  BY <1>1, <1>2, <1>3, <1>4, SamePlace

\* into a function that a native function runs, and back from the native one
LEMMA NativeAim ==
    ASSUME IInv, Aimed, NativeReturns \/ \E f \in Entries : CallBack(f)
    PROVE  Aimed'
<1>1. /\ mode = "native" /\ mode' = "run" /\ UNCHANGED <<code, breakCode, goal>>
      /\ Depth \in Nat /\ goal \in Goals
  BY StackType DEF NativeReturns, CallBack, Aimed
<1>2. CASE goal.kind = "none"
  BY <1>1, <1>2 DEF Aimed
<1>3. CASE goal.kind # "none"
  <2>1. ~goal.fresh /\ UnderWay /\ goal.kind # "into" /\ Level' = Level /\ Level \in Nat
    BY <1>1, <1>3 DEF Aimed, Ready, UnderWay, Level, Goals
  <2>2. Level >= 1 /\ Depth >= Level /\ Marked(stack[Level])
    BY <1>1, <2>1 DEF UnderWay
  <2>3. \A x : Marked(x) => Marked(x)'
    BY <1>1 DEF Marked
  <2>4. CASE NativeReturns
    <3>1. ip' = Caller /\ callStack' = Up /\ Depth > 0
      BY <1>1, <2>1, <2>2, <2>4 DEF NativeReturns
    <3>2. PICK j \in Positions : Resumes(breakCode, Caller, j) /\ stack[Len(stack)] = j
      BY <1>1, <3>1, StackPopped
    <3>3. Depth' = Depth - 1 /\ stack' = SubSeq(stack, 1, Depth - 1) /\ Len(stack) = Depth
      BY <1>1, <3>1, StackPopped, StackType
    <3>4. Resumes(breakCode', ip', j) /\ at' = j
      BY <1>1, <3>1, <3>2, ResumesNext
    <3>5. Level <= Depth - 1 => stack'[Level] = stack[Level]
      BY <1>1, <2>1, <2>2, <3>3, StackType, SubSeqProperties
    <3>6. UnderWay'
      BY <1>1, <2>1, <2>2, <2>3, <3>2, <3>3, <3>4, <3>5 DEF UnderWay
    <3> QED
      BY <1>1, <1>3, <2>1, <3>6 DEF Aimed
  <2>5. CASE \E f \in Entries : CallBack(f)
    <3>1. PICK f \in Entries : ip' = InCode(f) /\ callStack' = callStack
      BY <2>5 DEF CallBack
    <3>2. Resumes(breakCode', ip', f) /\ at' = f
      BY <3>1, ProgramFacts, ResumesNext DEF Resumes
    <3>3. stack' = stack /\ Depth' = Depth
      BY <1>1, <3>1, StackKept, CountType DEF Extended
    <3>4. UnderWay'
      BY <1>1, <2>1, <2>2, <2>3, <3>2, <3>3 DEF UnderWay
    <3> QED
      BY <1>1, <1>3, <2>1, <3>4 DEF Aimed
  <2> QED
    BY <2>4, <2>5
<1> QED
  BY <1>2, <1>3

LEMMA StartAim == ASSUME IInv, Aimed, Start PROVE Aimed'
<1>1. goal' = goal /\ goal.kind = "none"
  BY DEF Start, Aimed, Ready, UnderWay
<1> QED
  BY <1>1 DEF Aimed

LEMMA ExecuteAim == ASSUME IInv, Aimed, Execute PROVE Aimed'
<1>1. mode = "run"
  BY DEF Execute
<1>2. CASE Compute \/ Jump \/ Call \/ (Return /\ ~AtFinal)
  <2>1. Moved /\ code' = code /\ Cmd.op # "nop"
    BY <1>1, <1>2, MoveFacts DEF Compute, Jump, Call, Return
  <2>2. CASE goal.kind = "none"
    BY <2>1, <2>2 DEF Moved, Aimed, Goals
  <2> QED
    BY <1>1, <2>1, <2>2, FirstMove, LaterMove
<1>3. CASE Return /\ AtFinal
  <2>1. Left /\ code' = code /\ Cmd.op # "nop"
    BY <1>1, <1>3, LeaveFacts DEF Return
  <2>2. CASE goal.kind = "none"
    BY <2>1, <2>2 DEF Left, Aimed, Goals, NoGoal
  <2> QED
    BY <1>1, <2>1, <2>2, LeftMove
<1>4. CASE LeaveBreakCode
  BY <1>1, <1>4, LeaveAim
<1>5. CASE Hit
  BY <1>5, NoAim DEF Hit
<1> QED
  BY <1>2, <1>3, <1>4, <1>5 DEF Execute

-------------------------------------------------------------------------------
(* Programs without recursion: functions can be ranked so that each calls  *)
(* functions of higher ranks only.  (A native function can call any.)      *)

Layered(rank) ==
    /\ rank \in [Positions -> Nat]
    /\ \A i \in Positions :
         /\ Program[i].op \in {"op", "jz", "call", "callx"} => rank[i + 1] = rank[i]
         /\ Program[i].op \in {"jmp", "jz"} =>
              Program[i].arg # i /\ rank[Program[i].arg] = rank[i]
         /\ Program[i].op = "call" => rank[Program[i].arg] > rank[i]

\* within a Run, each frame is of a higher rank than its caller
Ordered(rank) ==
    \A d \in 1..Depth :
        (\A k \in DOMAIN finals : finals[k] # d) =>
            /\ d < Depth => rank[stack[d]] < rank[stack[d + 1]]
            /\ d = Depth /\ mode \in {"run", "break"} => rank[stack[d]] < rank[at]

LEMMA SameOrder ==
    ASSUME NEW rank, Ordered(rank), UNCHANGED <<at, stack, Depth, finals>>,
           mode' \in {"run", "break"} => mode \in {"run", "break"}
    PROVE  Ordered(rank)'
BY DEF Ordered

LEMMA MoveOrder ==
    ASSUME IInv, NEW rank, Layered(rank), Ordered(rank), mode = "run", Moved, finals' = finals
    PROVE  Ordered(rank)'
<1>1. /\ stack \in Seq(Nat) /\ Len(stack) = Depth /\ Depth \in Nat
      /\ \A d \in 1..Depth : stack[d] \in Positions
  BY StackType
<1>2. at \in Positions
  BY Position
<1>3. CASE /\ Program[at].op \in {"op", "jmp", "jz"} /\ mode' = "run"
           /\ at' = Ahead("over") /\ stack' = stack /\ Depth' = Depth
  <2>1. rank[at'] = rank[at]
    BY <1>2, <1>3 DEF Ahead, Layered
  <2> QED
    BY <1>3, <2>1 DEF Ordered
<1>4. CASE /\ Program[at].op \in {"call", "callx"} /\ Depth' = Depth + 1
           /\ stack' = Append(stack, at + 1)
           /\ IF Program[at].op = "call" THEN mode' = "run" /\ at' = Program[at].arg
              ELSE mode' = "native"
  <2>1. stack'[Depth + 1] = at + 1 /\ \A d \in 1..Depth : stack'[d] = stack[d]
    BY <1>1, <1>4
  <2>2. rank[at + 1] = rank[at]
    BY <1>2, <1>4 DEF Layered
  <2>3. mode' \in {"run", "break"} => rank[at + 1] < rank[at']
    BY <1>2, <1>4, <2>2, ProgramFacts DEF Layered
  <2>4. ASSUME NEW d \in 1..(Depth + 1), \A k \in DOMAIN finals : finals[k] # d
        PROVE  /\ d < Depth + 1 => rank[stack'[d]] < rank[stack'[d + 1]]
               /\ d = Depth + 1 /\ mode' \in {"run", "break"} => rank[stack'[d]] < rank[at']
    <3>1. CASE d < Depth
      BY <1>1, <2>1, <2>4, <3>1 DEF Ordered
    <3>2. CASE d = Depth
      BY <1>1, <2>1, <2>2, <2>4, <3>2 DEF Ordered
    <3>3. CASE d = Depth + 1
      BY <1>1, <2>1, <2>3, <3>3
    <3> QED
      BY <1>1, <3>1, <3>2, <3>3
  <2> QED
    BY <1>4, <2>4 DEF Ordered
<1>5. CASE /\ Program[at].op = "ret" /\ ~AtFinal /\ mode' = "run" /\ Depth' = Depth - 1
           /\ at' = stack[Depth] /\ stack' = SubSeq(stack, 1, Depth - 1)
  <2>1. \A d \in 1..(Depth - 1) : stack'[d] = stack[d]
    BY <1>1, <1>5, SubSeqProperties
  <2>2. ASSUME NEW d \in 1..(Depth - 1), \A k \in DOMAIN finals : finals[k] # d
        PROVE  /\ d < Depth - 1 => rank[stack'[d]] < rank[stack'[d + 1]]
               /\ d = Depth - 1 => rank[stack'[d]] < rank[at']
    <3>1. rank[stack[d]] < rank[stack[d + 1]]
      BY <1>1, <2>2 DEF Ordered
    <3>2. stack'[d] = stack[d] /\ (d < Depth - 1 => stack'[d + 1] = stack[d + 1])
      BY <1>1, <2>1
    <3>3. d = Depth - 1 => at' = stack[d + 1]
      BY <1>1, <1>5
    <3> QED
      BY <3>1, <3>2, <3>3
  <2> QED
    BY <1>5, <2>2 DEF Ordered
<1> QED
  BY <1>3, <1>4, <1>5 DEF Moved

LEMMA ExecuteOrder ==
    ASSUME IInv, NEW rank, Layered(rank), Ordered(rank), Execute
    PROVE  Ordered(rank)'
<1>1. mode = "run"
  BY DEF Execute
<1>2. CASE Compute \/ Jump \/ Call \/ (Return /\ ~AtFinal)
  <2>1. Moved /\ finals' = finals
    BY <1>1, <1>2, MoveFacts DEF Compute, Jump, Call, Return, machine
  <2> QED
    BY <1>1, <2>1, MoveOrder
<1>3. CASE Return /\ AtFinal
  <2>1. Left /\ finals' = SubSeq(finals, 1, Len(finals) - 1)
    BY <1>1, <1>3, LeaveFacts DEF Return
  <2>2. /\ Len(finals) \in Nat \ {0} /\ DOMAIN finals = 1..Len(finals) /\ finals[Len(finals)] = Depth
        /\ finals \in Seq(Nat) /\ finals # <<>> /\ Increasing(finals)
    BY <1>1, <1>3, FinalsFacts DEF AtFinal, IInv, RunsKept
  <2>3. /\ DOMAIN finals' = 1..(Len(finals) - 1)
        /\ \A k \in 1..(Len(finals) - 1) : finals'[k] = finals[k]
    BY <2>1, <2>2, OneLess
  <2>4. ASSUME NEW d, d # Depth, \A k \in DOMAIN finals' : finals'[k] # d
        PROVE  \A k \in DOMAIN finals : finals[k] # d
    BY <2>2, <2>3, <2>4
  <2>5. Depth' = Depth /\ stack' = stack /\ mode' \notin {"run", "break"} /\ Depth \in Nat
    BY <2>1, StackType DEF Left
  <2> QED
    BY <2>4, <2>5 DEF Ordered
<1>4. CASE LeaveBreakCode
  <2>1. UNCHANGED <<at, stack, finals, mode>> /\ Depth' = Depth
    BY <1>1, <1>4, LeaveStep DEF Plain!vars, at, stack, LeaveBreakCode, machine, Depth
  <2> QED
    BY <2>1, SameOrder
<1>5. CASE Hit
  <2>1. UNCHANGED <<at, stack, finals>> /\ Depth' = Depth
    BY <1>1, <1>5, HitStep DEF Plain!vars, at, stack, Hit, machine, Depth
  <2> QED
    BY <1>1, <2>1, SameOrder
<1> QED
  BY <1>2, <1>3, <1>4, <1>5 DEF Execute

LEMMA NativeOrder ==
    ASSUME IInv, NEW rank, Ordered(rank), NativeReturns \/ \E f \in Entries : CallBack(f)
    PROVE  Ordered(rank)'
<1>1. /\ mode = "native" /\ breakCode' = breakCode
      /\ stack \in Seq(Nat) /\ Len(stack) = Depth /\ Depth \in Nat
  BY StackType DEF NativeReturns, CallBack
<1>2. CASE NativeReturns
  <2>1. ip' = Caller /\ callStack' = Up /\ finals' = finals /\ Depth > 0
    BY <1>1, <1>2, FinalsFacts DEF NativeReturns, IInv, RunsKept
  <2>2. PICK j \in Positions : Resumes(breakCode, Caller, j) /\ stack[Len(stack)] = j
    BY <1>1, <2>1, StackPopped
  <2>3. Depth' = Depth - 1 /\ stack' = SubSeq(stack, 1, Depth - 1) /\ at' = stack[Depth]
    BY <1>1, <2>1, <2>2, StackPopped, ResumesNext
  <2>4. \A d \in 1..(Depth - 1) : stack'[d] = stack[d]
    BY <1>1, <2>3, SubSeqProperties
  <2>5. ASSUME NEW d \in 1..(Depth - 1), \A k \in DOMAIN finals : finals[k] # d
        PROVE  /\ d < Depth - 1 => rank[stack'[d]] < rank[stack'[d + 1]]
               /\ d = Depth - 1 => rank[stack'[d]] < rank[at']
    <3>1. rank[stack[d]] < rank[stack[d + 1]]
      BY <1>1, <2>5 DEF Ordered
    <3>2. stack'[d] = stack[d] /\ (d < Depth - 1 => stack'[d + 1] = stack[d + 1])
      BY <1>1, <2>4
    <3>3. d = Depth - 1 => at' = stack[d + 1]
      BY <1>1, <2>3
    <3> QED
      BY <3>1, <3>2, <3>3
  <2> QED
    BY <2>1, <2>3, <2>5 DEF Ordered
<1>3. CASE \E f \in Entries : CallBack(f)
  <2>1. finals' = Append(finals, Depth) /\ callStack' = callStack
    BY <1>3 DEF CallBack
  <2>2. finals \in Seq(Nat) /\ DOMAIN finals = 1..Len(finals) /\ Len(finals) \in Nat
    BY <1>1, FinalsFacts
  <2>3. /\ Len(finals) + 1 \in DOMAIN finals' /\ finals'[Len(finals) + 1] = Depth
        /\ \A k \in DOMAIN finals : k \in DOMAIN finals' /\ finals'[k] = finals[k]
    BY <1>1, <2>1, <2>2
  <2>4. stack' = stack /\ Depth' = Depth
    BY <1>1, <2>1, StackKept, CountType DEF Extended
  <2> QED
    BY <2>3, <2>4 DEF Ordered
<1> QED
  BY <1>2, <1>3

\* so the caller goes on at another instruction than the one that runs
LEMMA CallerElsewhere ==
    ASSUME IInv, NEW rank, Layered(rank), Ordered(rank), mode \in {"run", "break"}, ~AtFinal
    PROVE  Depth \in 1..Depth /\ stack[Depth] \in Positions /\ stack[Depth] # at
<1>1. Depth \in Nat /\ Final \in Nat /\ Final < Depth /\ DOMAIN finals = 1..Len(finals)
  BY StackType, FinalsFacts DEF IInv, RunsKept, AtFinal
<1>2. Depth \in 1..Depth /\ stack[Depth] \in Positions /\ at \in Positions
  BY <1>1, StackType, Position
<1>3. \A k \in DOMAIN finals : finals[k] # Depth
  <2>1. ASSUME NEW k \in DOMAIN finals PROVE finals[k] <= Final
    <3>1. finals \in Seq(Nat) /\ Len(finals) \in DOMAIN finals /\ Final = finals[Len(finals)]
      BY <1>1, FinalsFacts
    <3>2. CASE k = Len(finals)
      BY <1>1, <3>1, <3>2
    <3>3. CASE k # Len(finals)
      <4>1. k < Len(finals) /\ finals[k] \in Nat
        BY <1>1, <3>1, <3>3, ElementOfSeq
      <4> QED
        BY <1>1, <3>1, <4>1 DEF IInv, RunsKept, Increasing
    <3> QED
      BY <3>2, <3>3
  <2>2. \A k \in DOMAIN finals : finals[k] \in Nat
    BY <1>1, FinalsFacts, ElementOfSeq
  <2> QED
    BY <1>1, <2>1, <2>2
<1>4. rank[stack[Depth]] < rank[at]
  BY <1>2, <1>3 DEF Ordered
<1>5. rank[at] \in Nat
  BY <1>2 DEF Layered
<1> QED
  BY <1>2, <1>4, <1>5

-------------------------------------------------------------------------------
(* Steps: ExecNop places the breakpoint.                                   *)

\* what the command asks for: "out" of a Run, or "into" a native function, is "over"
Asked(response) ==
    IF (response = "out" /\ AtFinal) \/ (response = "into" /\ Program[at].op = "callx")
    THEN "over" ELSE response

LEMMA CallerTarget ==
    ASSUME IInv, Depth \in 1..Depth
    PROVE  LET there == IF Read(Caller).op = "nop" /\ Read(Caller).kind = "return"
                        THEN InCode(Read(Caller).arg) ELSE Caller
           IN  there = InCode(stack[Depth]) \/ breakCode.moved \notin Nat
<1>1. PICK j \in Positions : Resumes(breakCode, Caller, j)
  BY DEF IInv, FramesKept, Caller
<1>2. Address(Caller) = j \/ breakCode.moved \notin Nat
  BY <1>1, FrameAddress
<1>3. stack[Depth] = Address(Caller)
  BY DEF stack, Caller
<1>4. CASE Caller = InCode(j)
  <2>1. Read(Caller) = code[j]
    BY <1>4 DEF Read, InCode
  <2>2. ~(code[j].op = "nop" /\ code[j].kind = "return")
    BY ProgramFacts DEF IInv, CodeKept, Patched
  <2> QED
    BY <1>2, <1>3, <1>4, <2>1, <2>2
<1>5. ASSUME NEW k \in Nat, Caller = InBreak(k, breakCode), IsBack(breakCode, k, j)
      PROVE  Read(Caller).op = "nop" /\ Read(Caller).kind = "return" /\ Read(Caller).arg = j
  BY <1>5 DEF Read, InBreak, IsBack, Nop
<1> QED
  BY <1>1, <1>2, <1>3, <1>4, <1>5 DEF Resumes

LEMMA CodeTarget ==
    ASSUME IInv, NEW j \in Positions
    PROVE  ~(Read(InCode(j)).op = "nop" /\ Read(InCode(j)).kind = "return")
<1>1. Read(InCode(j)) = code[j]
  BY DEF Read, InCode
<1>2. ~(code[j].op = "nop" /\ code[j].kind = "return")
  BY ProgramFacts DEF IInv, CodeKept, Patched
<1> QED
  BY <1>1, <1>2

\* ExecNop predicts where the program goes
LEMMA Predicted ==
    ASSUME IInv, mode = "break", ip = InCode(at), NEW response \in {"over", "into", "out"},
           Asked(response) = "out" \/ Program[at].op # "ret" \/ ~AtFinal
    PROVE  StepTarget(Program[at], response) = InCode(Ahead(Asked(response)))
<1> DEFINE next == NextCommand(Program[at], response)
<1>0. breakCode.moved \in Nat /\ at \in Positions
  BY Position DEF IInv, Shape, VectorOf
<1>1. CASE Asked(response) = "out" \/ (Program[at].op = "ret" /\ ~AtFinal)
  <2>1. next = Caller /\ ~AtFinal
    BY <1>1 DEF NextCommand, Asked
  <2>2. Ahead(Asked(response)) = stack[Depth]
    BY <1>1 DEF Ahead
  <2>3. Depth \in 1..Depth
    BY <2>1, StackType, FinalsFacts DEF IInv, RunsKept, AtFinal
  <2> QED
    BY <1>0, <2>1, <2>2, <2>3, CallerTarget DEF StepTarget
<1>2. CASE Asked(response) # "out" /\ Program[at].op # "ret"
  <2>1. next = InCode(Ahead(Asked(response)))
    <3>1. After(ip) = InCode(at + 1)
      BY DEF After, InCode
    <3>2. ~(response = "out" /\ ~AtFinal)
      BY <1>2 DEF Asked
    <3> QED
      BY <1>2, <3>1, <3>2 DEF NextCommand, Asked, Ahead
  <2>2. Ahead(Asked(response)) \in Positions
    BY <1>0, <1>2, ProgramFacts DEF Ahead, Asked
  <2>3. ~(Read(next).op = "nop" /\ Read(next).kind = "return")
    BY <2>1, <2>2, CodeTarget
  <2> QED
    BY <2>1, <2>3 DEF StepTarget
<1> QED
  BY <1>1, <1>2

LEMMA AheadPosition ==
    ASSUME IInv, mode \in {"run", "break"}, NEW kind,
           kind = "out" \/ Program[at].op = "ret" => ~AtFinal
    PROVE  Ahead(kind) \in Positions
<1>1. at \in Positions /\ at \in Nat
  BY Position, ProgramFacts
<1>2. ~AtFinal => stack[Depth] \in Positions
  BY StackType, FinalsFacts DEF IInv, RunsKept, AtFinal
<1> QED
  BY <1>1, <1>2, ProgramFacts DEF Ahead

\* ... which is not the instruction it has stopped at
LEMMA AheadElsewhere ==
    ASSUME IInv, NEW rank, Layered(rank), Ordered(rank), mode = "break", NEW kind,
           kind = "out" \/ Program[at].op = "ret" => ~AtFinal
    PROVE  Ahead(kind) # at
<1>1. at \in Positions /\ at \in Nat
  BY Position, ProgramFacts
<1>2. CASE kind = "out" \/ Program[at].op = "ret"
  BY <1>2, CallerElsewhere DEF Ahead
<1>3. CASE ~(kind = "out" \/ Program[at].op = "ret")
  <2>1. Program[at].op \in {"jmp", "jz", "call"} => Program[at].arg # at
    BY <1>1, ProgramFacts DEF Layered
  <2> QED
    BY <1>1, <1>3, <2>1, ProgramFacts DEF Ahead
<1> QED
  BY <1>2, <1>3

\* and there a nop stands when the program goes on
LEMMA TargetMarked ==
    ASSUME IInv, Tame, NEW response \in {"over", "into", "out"}, Respond(response),
           NEW x \in Positions, StepTarget(breakCode.cells[hit.arg], response) = InCode(x), x # at,
           ip = InCode(at)
    PROVE  Marked(x)'
<1> DEFINE goes  == StepTarget(breakCode.cells[hit.arg], response)
           place == response # "proceed" /\ Read(goes).op # "nop"
<1>1. PICK grown, placed :
        /\ placed = IF place THEN [code EXCEPT ![goes.pos] = Nop("once", grown.count)] ELSE code
        /\ Resumed(hit.kind = "once", placed, grown)
  BY Zenon DEF Respond
<1>2. goes.pos = x /\ Read(goes) = code[x] /\ ip.pos = at
  BY DEF InCode, Read
<1> HIDE DEF goes
<1>3. code' = placed \/ code' = [placed EXCEPT ![at] = grown.cells[hit.arg]]
  BY <1>1, <1>2 DEF Resumed
<1>4. code \in [Positions -> Instr \union Patch]
  BY DEF IInv, Shape
<1>5. x \in DOMAIN placed /\ placed[x].op = "nop"
  BY <1>1, <1>2, <1>4 DEF Nop
<1>6. code'[x] = placed[x]
  BY <1>3, <1>5
<1> QED
  BY <1>5, <1>6 DEF Marked

LEMMA RespondAim ==
    ASSUME IInv, Tame, NEW rank, Layered(rank), Ordered(rank),
           NEW response \in {"proceed", "over", "into", "out"}, Respond(response)
    PROVE  Aimed' /\ Ordered(rank)'
<1> DEFINE kind == Asked(response)
<1>1. /\ mode = "break" /\ mode' = "run" /\ UNCHANGED <<callStack, finals, flag>>
      /\ goal' = IF response = "proceed" THEN NoGoal
                 ELSE [kind  |-> IF \/ response = "out" /\ AtFinal
                                    \/ response = "into" /\ breakCode.cells[hit.arg].op = "callx"
                                 THEN "over" ELSE response,
                       depth |-> Depth, fresh |-> TRUE]
  BY DEF Respond, machine
<1>2. PICK i \in Positions : ip = InCode(i) /\ Patched(breakCode, hit, i)
  BY <1>1 DEF IInv, HitKept
<1>3. i = at /\ breakCode.cells[hit.arg] = Program[at]
  BY <1>2 DEF at, Where, InCode, Patched, IsCopy
<1>4. UNCHANGED <<at, stack>> /\ Depth' = Depth
  BY <1>1, RespondStep DEF Plain!vars, at, stack, Depth
<1>5. Ordered(rank)'
  BY <1>1, <1>4, SameOrder
<1>6. CASE response = "proceed"
  BY <1>1, <1>5, <1>6, NoAim
<1>7. CASE response # "proceed"
  <2>1. goal' = [kind |-> kind, depth |-> Depth, fresh |-> TRUE] /\ kind \in {"over", "into", "out"}
    BY <1>1, <1>3, <1>7 DEF Asked
  <2>2. /\ kind = "out" => ~AtFinal
        /\ kind = "into" => Program[at].op # "callx"
    BY DEF Asked
  <2>3. ASSUME kind = "out" \/ Program[at].op # "ret" \/ ~AtFinal
        PROVE  code'[Ahead(kind)].op = "nop"
    <3>1. Ahead(kind) \in Positions /\ Ahead(kind) # at
      BY <1>1, <2>2, <2>3, AheadPosition, AheadElsewhere
    <3>2. StepTarget(breakCode.cells[hit.arg], response) = InCode(Ahead(kind))
      BY <1>1, <1>2, <1>3, <1>7, <2>3, Predicted
    <3>3. \A x \in Positions : InCode(x) = InCode(Ahead(kind)) /\ x # at => Marked(x)'
      BY <1>2, <1>3, <1>7, <3>2, TargetMarked
    <3> QED
      BY <3>1, <3>3 DEF Marked
  <2>4. AtFinal' <=> AtFinal
    BY <1>1, <1>4 DEF AtFinal, Final
  <2> HIDE DEF kind
  <2>5. Ahead(goal.kind)' = Ahead(kind)
    BY <1>1, <1>4, <2>1 DEF Ahead
  <2>6. Ready'
    BY <1>1, <1>4, <2>1, <2>2, <2>3, <2>4, <2>5 DEF Ready, Marked
  <2>7. goal' \in Goals /\ goal'.kind # "none" /\ goal'.fresh
    BY <2>1, StackType DEF Goals
  <2> QED
    BY <1>5, <2>6, <2>7 DEF Aimed
<1> QED
  BY <1>6, <1>7

-------------------------------------------------------------------------------
(* Steps: together.                                                        *)

LEMMA NextAim ==
    ASSUME IInv, Tame, NEW rank, Layered(rank), Ordered(rank), Aimed, [Next]_vars
    PROVE  Aimed' /\ Ordered(rank)'
<1>1. CASE Start
  <2>1. Depth' = 0
    BY <1>1, AddressNext DEF Start
  <2> QED
    BY <1>1, <2>1, StartAim DEF Ordered
<1>2. CASE NativeReturns \/ \E f \in Entries : CallBack(f)
  BY <1>2, NativeAim, NativeOrder
<1>3. CASE Execute
  BY <1>3, ExecuteAim, ExecuteOrder
<1>4. CASE Debug
  <2>1. CASE Stop
    <3>1. Depth' = 0 /\ goal' = NoGoal
      BY <2>1, AddressNext DEF Stop
    <3> QED
      BY <3>1, NoAim DEF Ordered
  <2>2. ASSUME NEW r \in {"proceed", "over", "into", "out"}, Respond(r)
        PROVE  Aimed' /\ Ordered(rank)'
    BY <2>2, RespondAim
  <2>3. ASSUME NEW i \in Positions, NEW oneHit \in BOOLEAN, AddBreakpoint(i, oneHit)
        PROVE  Aimed' /\ Ordered(rank)'
    <3>1. UNCHANGED <<at, stack>>
      BY <2>3, AddStep DEF Plain!vars, at, stack
    <3>2. Depth' = Depth /\ UNCHANGED <<finals, mode>>
      BY <2>3 DEF AddBreakpoint, machine, Depth
    <3> QED
      BY <2>3, <3>1, <3>2, AddAim, SameOrder
  <2>4. ASSUME NEW i \in Positions, RemoveBreakpoint(i)
        PROVE  Aimed' /\ Ordered(rank)'
    <3>1. UNCHANGED <<at, stack>>
      BY <2>4, RemoveStep DEF Plain!vars, at, stack
    <3>2. Depth' = Depth /\ goal' = NoGoal /\ UNCHANGED <<finals, mode>>
      BY <2>4 DEF RemoveBreakpoint, machine, Depth
    <3> QED
      BY <3>1, <3>2, NoAim, SameOrder
  <2>5. CASE ClearBreakpoints
    <3>1. UNCHANGED <<at, stack>>
      BY <2>5, ClearStep DEF Plain!vars, at, stack
    <3>2. Depth' = Depth /\ goal' = NoGoal /\ UNCHANGED <<finals, mode>>
      BY <2>5 DEF ClearBreakpoints, machine, Depth
    <3> QED
      BY <3>1, <3>2, NoAim, SameOrder
  <2> QED
    BY <1>4, <2>1, <2>2, <2>3, <2>4, <2>5 DEF Debug
<1>5. CASE UNCHANGED vars
  <2>1. /\ UNCHANGED <<at, stack, finals, flag, mode, goal, code, breakCode, ip>>
        /\ Depth' = Depth
    BY <1>5 DEF vars, machine, at, stack, Depth, Where, Read, After, Address, InUse
  <2>2. goal.kind # "none" /\ ~goal.fresh /\ mode = "run" => Resumes(breakCode', ip', at')
    BY <2>1 DEF Aimed, UnderWay
  <2> QED
    BY <2>1, <2>2, SamePlace, SameOrder DEF Marked
<1> QED
  BY <1>1, <1>2, <1>3, <1>4, <1>5 DEF Next

-------------------------------------------------------------------------------
(* Programs that do not come to the last instruction.                      *)

Flows(R) ==
    /\ R \subseteq Positions \ {Len(Program)} /\ 1 \in R /\ Entries \subseteq R
    /\ \A i \in R :
         /\ Program[i].op \in {"op", "jz", "call", "callx"} => i + 1 \in R
         /\ Program[i].op \in {"jmp", "jz"} => Program[i].arg \in R

Within(R) ==
    /\ mode \in {"run", "break"} => at \in R
    /\ \A d \in 1..Depth : stack[d] \in R

LEMMA MoveWithin ==
    ASSUME IInv, NEW R, Flows(R), Within(R), mode = "run", Moved
    PROVE  Within(R)'
<1>1. stack \in Seq(Nat) /\ Len(stack) = Depth /\ Depth \in Nat /\ at \in R /\ at \in Positions
  BY StackType, Position DEF Within
<1>2. Depth' \in Int /\ \A k \in 1..Depth : k <= Depth' => stack'[k] = stack[k]
  BY <1>1, StackNext DEF Moved
<1>3. Program[at].op = "call" => Program[at].arg \in R
  BY <1>1 DEF Flows, Entries, Positions
<1>4. CASE /\ Program[at].op \in {"op", "jmp", "jz"} /\ at' = Ahead("over")
           /\ stack' = stack /\ Depth' = Depth
  <2>1. at' \in R
    BY <1>1, <1>4 DEF Ahead, Flows
  <2> QED
    BY <1>4, <2>1 DEF Within
<1>5. CASE /\ Program[at].op \in {"call", "callx"} /\ Depth' = Depth + 1
           /\ stack' = Append(stack, at + 1)
           /\ IF Program[at].op = "call" THEN mode' = "run" /\ at' = Program[at].arg
              ELSE mode' = "native"
  <2>1. stack'[Depth + 1] \in R
    BY <1>1, <1>5 DEF Flows
  <2>2. \A d \in 1..Depth' : stack'[d] \in R
    BY <1>1, <1>2, <1>5, <2>1 DEF Within
  <2> QED
    BY <1>3, <1>5, <2>2 DEF Within
<1>6. CASE ~AtFinal /\ Depth' = Depth - 1 /\ at' = stack[Depth]
  <2>1. Depth \in 1..Depth
    BY <1>1, <1>6, FinalsFacts DEF IInv, RunsKept, AtFinal
  <2>2. \A d \in 1..Depth' : stack'[d] \in R
    BY <1>1, <1>2, <1>6 DEF Within
  <2> QED
    BY <1>6, <2>1, <2>2 DEF Within
<1> QED
  BY <1>4, <1>5, <1>6 DEF Moved

LEMMA NativeWithin ==
    ASSUME IInv, NEW R, Flows(R), Within(R), NativeReturns \/ \E f \in Entries : CallBack(f)
    PROVE  Within(R)'
<1>1. /\ mode = "native" /\ breakCode' = breakCode
      /\ stack \in Seq(Nat) /\ Len(stack) = Depth /\ Depth \in Nat
  BY StackType DEF NativeReturns, CallBack
<1>2. CASE NativeReturns
  <2>1. ip' = Caller /\ callStack' = Up /\ Depth > 0
    BY <1>1, <1>2, FinalsFacts DEF NativeReturns, IInv, RunsKept
  <2>2. PICK j \in Positions : Resumes(breakCode, Caller, j) /\ stack[Len(stack)] = j
    BY <1>1, <2>1, StackPopped
  <2>3. Depth' = Depth - 1 /\ stack' = SubSeq(stack, 1, Depth - 1) /\ at' = stack[Depth]
    BY <1>1, <2>1, <2>2, StackPopped, ResumesNext
  <2>4. \A d \in 1..(Depth - 1) : stack'[d] = stack[d]
    BY <1>1, <2>3, SubSeqProperties
  <2> QED
    BY <1>1, <2>1, <2>3, <2>4 DEF Within
<1>3. CASE \E f \in Entries : CallBack(f)
  <2>1. PICK f \in Entries : ip' = InCode(f) /\ callStack' = callStack
    BY <1>3 DEF CallBack
  <2>2. at' = f /\ f \in R
    BY <2>1, ProgramFacts, ResumesNext DEF Resumes, Flows
  <2>3. stack' = stack /\ Depth' = Depth
    BY <1>1, <2>1, StackKept, CountType DEF Extended
  <2> QED
    BY <2>2, <2>3 DEF Within
<1> QED
  BY <1>2, <1>3

LEMMA SameWithin ==
    ASSUME NEW R, Within(R), UNCHANGED <<at, stack, Depth>>,
           mode' \in {"run", "break"} => mode \in {"run", "break"}
    PROVE  Within(R)'
BY DEF Within

LEMMA NextWithin ==
    ASSUME IInv, Tame, NEW R, Flows(R), Within(R), [Next]_vars
    PROVE  Within(R)'
<1>1. CASE Start
  <2>1. Depth' = 0 /\ ip' = InCode(1)
    BY <1>1, AddressNext DEF Start
  <2>2. at' = 1
    BY <2>1 DEF at, Where, InCode
  <2> QED
    BY <2>1, <2>2 DEF Within, Flows
<1>2. CASE NativeReturns \/ \E f \in Entries : CallBack(f)
  BY <1>2, NativeWithin
<1>3. CASE Execute
  <2>1. mode = "run"
    BY <1>3 DEF Execute
  <2>2. CASE Compute \/ Jump \/ Call \/ (Return /\ ~AtFinal)
    BY <2>1, <2>2, MoveFacts, MoveWithin
  <2>3. CASE Return /\ AtFinal
    BY <2>1, <2>3, LeaveFacts DEF Left, Within
  <2>4. CASE LeaveBreakCode \/ Hit
    <3>1. UNCHANGED <<at, stack>> /\ Depth' = Depth
      BY <2>1, <2>4, LeaveStep, HitStep
         DEF Plain!vars, at, stack, LeaveBreakCode, Hit, machine, Depth
    <3> QED
      BY <2>1, <3>1, SameWithin
  <2> QED
    BY <1>3, <2>2, <2>3, <2>4 DEF Execute
<1>4. CASE Debug
  <2>1. CASE Stop
    <3>1. Depth' = 0 /\ mode' = "idle"
      BY <2>1, AddressNext DEF Stop
    <3> QED
      BY <3>1 DEF Within
  <2>2. CASE ~Stop
    <3>1. UNCHANGED Plain!vars
      BY <1>4, <2>2, RespondStep, AddStep, RemoveStep, ClearStep DEF Debug
    <3>2. UNCHANGED <<at, stack>>
      BY <3>1 DEF Plain!vars, at, stack
    <3>3. Depth' = Depth /\ (mode' \in {"run", "break"} => mode \in {"run", "break"})
      BY <1>4, <2>2
         DEF Debug, Respond, AddBreakpoint, RemoveBreakpoint, ClearBreakpoints, machine, Depth
    <3> QED
      BY <3>2, <3>3, SameWithin
  <2> QED
    BY <2>1, <2>2
<1>5. CASE UNCHANGED vars
  <2>1. UNCHANGED <<at, stack, mode>> /\ Depth' = Depth
    BY <1>5 DEF vars, machine, at, stack, Depth, Where, Read, After, Address, InUse
  <2> QED
    BY <2>1, SameWithin
<1> QED
  BY <1>1, <1>2, <1>3, <1>4, <1>5 DEF Next

-------------------------------------------------------------------------------
(* Types.                                                                  *)

Cells == breakCode \in VectorOf(Instr \union Patch) /\ hit \in Patch /\ goal \in Goals

LEMMA PointerType == ASSUME IInv PROVE ip \in Pointer
<1>1. breakCode.moved \in Nat /\ \A i \in Positions : i \in Nat
  BY ProgramFacts DEF IInv, Shape, VectorOf
<1>2. InCode(1) \in Pointer
  BY DEF InCode, Pointer
<1> QED
  BY <1>1, <1>2
     DEF IInv, PointerKept, RunsKept, StandsFor, Resumes, InCode, InBreak, Pointer

LEMMA PushTyped ==
    ASSUME Tame, NEW b \in VectorOf(Instr \union Patch), Usable(b), NEW c \in Instr \union Patch,
           Push(b, c).count <= MaxBreaks
    PROVE  Push(b, c) \in VectorOf(Instr \union Patch) /\ Usable(Push(b, c))
<1>1. (Instr \union Patch) \union {c} = Instr \union Patch
  OBVIOUS
<1> QED
  BY <1>1, PushFacts

LEMMA RespondCells ==
    ASSUME IInv, Tame, NEW R, Flows(R), Within(R), Cells,
           NEW response \in {"proceed", "over", "into", "out"}, Respond(response)
    PROVE  Cells'
<1> DEFINE goes  == StepTarget(breakCode.cells[hit.arg], response)
           place == response # "proceed" /\ Read(goes).op # "nop"
<1>1. PICK grown :
        /\ grown = IF place THEN Push(breakCode, Read(goes)) ELSE breakCode
        /\ mode = "break" /\ breakCode' = grown /\ grown.count <= MaxBreaks
        /\ hit' = NoHit
  BY Zenon DEF Respond
<1>2. PICK i \in Positions : ip = InCode(i) /\ Patched(breakCode, hit, i)
  BY <1>1 DEF IInv, HitKept
<1>3. i = at /\ breakCode.cells[hit.arg] = Program[at] /\ at \in Positions /\ at \in R
  BY <1>1, <1>2, Position DEF at, Where, InCode, Patched, IsCopy, Within
<1>4. response # "proceed" => \E x \in Positions : goes = InCode(x)
  <2> SUFFICES ASSUME response # "proceed" PROVE \E x \in Positions : goes = InCode(x)
    OBVIOUS
  <2>1. CASE Asked(response) = "out" \/ Program[at].op # "ret" \/ ~AtFinal
    <3>1. Asked(response) = "out" => ~AtFinal
      BY DEF Asked
    <3>2. Ahead(Asked(response)) \in Positions
      BY <1>1, <2>1, <3>1, AheadPosition
    <3> QED
      BY <1>1, <1>2, <1>3, <2>1, <3>2, Predicted
  <2>2. CASE Asked(response) # "out" /\ Program[at].op = "ret" /\ AtFinal
    <3>1. at + 1 \in Positions
      BY <1>3, ProgramFacts DEF Flows
    <3>2. NextCommand(Program[at], response) = InCode(at + 1)
      <4>1. After(ip) = InCode(at + 1)
        BY <1>2, <1>3 DEF After, InCode
      <4> QED
        BY <2>2, <4>1 DEF NextCommand
    <3>3. goes = InCode(at + 1)
      BY <1>3, <3>1, <3>2, CodeTarget DEF StepTarget
    <3> QED
      BY <3>1, <3>3
  <2> QED
    BY <2>1, <2>2
<1> HIDE DEF goes
<1>5. breakCode' \in VectorOf(Instr \union Patch)
  <2>1. CASE place
    <3>1. PICK x \in Positions : goes = InCode(x)
      BY <1>4, <2>1
    <3>2. Read(goes) = code[x] /\ code[x] \in Instr \union Patch
      BY <3>1 DEF Read, InCode, IInv, Shape
    <3> QED
      BY <1>1, <2>1, <3>2, PushTyped DEF Cells, IInv, Shape
  <2>2. CASE ~place
    BY <1>1, <2>2 DEF Cells
  <2> QED
    BY <2>1, <2>2
<1>6. goal' \in Goals
  <2>1. NoGoal \in Goals /\ Depth \in Nat
    BY StackType DEF Goals, NoGoal
  <2>2. \A kind \in {"over", "into", "out"} :
            [kind |-> kind, depth |-> Depth, fresh |-> TRUE] \in Goals
    BY <2>1 DEF Goals
  <2>3. PICK kind \in {"over", "into", "out"} :
            goal' = NoGoal \/ goal' = [kind |-> kind, depth |-> Depth, fresh |-> TRUE]
    BY DEF Respond
  <2> QED
    BY <2>1, <2>2, <2>3
<1>7. NoHit \in Patch
  BY DEF NoHit, Nop, Patch, Kinds
<1> QED
  BY <1>1, <1>5, <1>6, <1>7 DEF Cells

LEMMA AddCells ==
    ASSUME IInv, Tame, Cells, NEW i \in Positions, NEW oneHit \in BOOLEAN, AddBreakpoint(i, oneHit)
    PROVE  Cells'
<1> DEFINE copy == Push(breakCode, code[i])
           back == Nop("return", i + 1)
<1>1. /\ breakCode' = IF oneHit THEN copy ELSE Push(copy, back)
      /\ breakCode'.count <= MaxBreaks /\ UNCHANGED <<hit, goal>>
  BY DEF AddBreakpoint
<1>2. /\ copy.count = breakCode.count + 1 /\ Push(copy, back).count = copy.count + 1
      /\ breakCode.count \in Nat /\ MaxBreaks \in Nat
  BY CountType, BreakpointsAssumption DEF Push
<1>3. code[i] \in Instr \union Patch /\ back \in Instr \union Patch
  BY ProgramFacts DEF IInv, Shape, Nop, Patch, Kinds
<1>4. copy.count <= MaxBreaks
  BY <1>1, <1>2
<1>5. copy \in VectorOf(Instr \union Patch) /\ Usable(copy)
  BY <1>3, <1>4, PushTyped DEF Cells, IInv, Shape
<1> HIDE DEF copy, back
<1>6. ~oneHit => Push(copy, back) \in VectorOf(Instr \union Patch)
  BY <1>1, <1>3, <1>5, PushTyped
<1> QED
  BY <1>1, <1>5, <1>6 DEF Cells

LEMMA NextCells ==
    ASSUME IInv, Tame, NEW R, Flows(R), Within(R), Cells, [Next]_vars
    PROVE  Cells'
<1>1. NoGoal \in Goals /\ NoHit \in Patch
  BY DEF NoGoal, Goals, NoHit, Nop, Patch, Kinds
<1>2. CASE Execute
  <2>1. breakCode' = breakCode
    BY <1>2 DEF Execute, Compute, Jump, Call, Return, LeaveBreakCode, Hit
  <2>2. goal' \in Goals
    BY <1>1, <1>2
       DEF Execute, Compute, Jump, Call, Return, LeaveBreakCode, Hit, Executed, Cells, Goals
  <2>3. hit' \in Patch
    <3>1. CASE Hit
      <4>1. mode = "run" /\ hit' = Cmd /\ Cmd.op = "nop" /\ Cmd.kind # "return"
        BY <1>2, <3>1 DEF Execute, Hit
      <4>2. at \in Positions /\ Cmd = code[at]
        BY <4>1, Position, PointerRead
      <4> QED
        BY <4>1, <4>2 DEF IInv, Shape, Instr, Ops
    <3>2. CASE ~Hit
      BY <1>2, <3>2 DEF Execute, Compute, Jump, Call, Return, LeaveBreakCode, Cells
    <3> QED
      BY <3>1, <3>2
  <2> QED
    BY <2>1, <2>2, <2>3 DEF Cells
<1>3. CASE ClearBreakpoints
  <2>1. breakCode' = [breakCode EXCEPT !.count = 0] /\ goal' = NoGoal /\ hit' = hit
    BY <1>3 DEF ClearBreakpoints
  <2> QED
    BY <1>1, <2>1 DEF Cells, VectorOf
<1>4. CASE Start \/ NativeReturns \/ (\E f \in Entries : CallBack(f)) \/ UNCHANGED vars
  BY <1>4 DEF Start, NativeReturns, CallBack, vars, Cells
<1>5. CASE Stop \/ \E i \in Positions : RemoveBreakpoint(i)
  BY <1>1, <1>5 DEF Stop, RemoveBreakpoint, Cells
<1> QED
  BY <1>2, <1>3, <1>4, <1>5, RespondCells, AddCells DEF Next, Debug

-------------------------------------------------------------------------------
(* What is proved of the specification.                                    *)

LEMMA Invariant == ASSUME Tame PROVE Spec => []IInv
<1>1. Init => IInv
  BY InitStep
<1>2. IInv /\ [Next]_vars => IInv'
  BY NextStep
<1> QED
  BY <1>1, <1>2, PTL DEF Spec

\* Every instruction of the program stays recoverable: it is in its place or in
\* the cell of breakCode that the nop in its place refers to (AddBreakpoint,
\* RemoveBreakpoint, ClearBreakpoints and the patches of ExecNop).
THEOREM InstructionsKept == ASSUME Tame PROVE Spec => []Recoverable
<1>1. IInv => Recoverable
  <2>1. ASSUME NEW i \in Positions, Patched(breakCode, code[i], i)
        PROVE  /\ code[i].op = "nop" /\ code[i].kind \in {"signal", "once"}
               /\ code[i].arg \in 1..breakCode.count
               /\ breakCode.cells[code[i].arg] = Program[i]
    BY <2>1, PatchIsNop DEF Patched, IsCopy
  <2> QED
    BY <2>1 DEF IInv, CodeKept, Recoverable
<1> QED
  BY <1>1, Invariant, PTL

\* A frame that goes on in breakCode finds the way back there: no call of the
\* debugger takes the cell from under a return address (ExecReturn,
\* GetCallStackAddress).
THEOREM ReturnsFound == ASSUME Tame PROVE Spec => []FramesValid
<1>1. ASSUME IInv, NEW k \in 1..Depth, callStack[k].seg = "break"
      PROVE  InUse(callStack[k]) /\ Read(callStack[k]) = Nop("return", Read(callStack[k]).arg)
  <2>1. PICK i \in Positions : Resumes(breakCode, callStack[k], i)
    BY <1>1 DEF IInv, FramesKept
  <2>2. PICK n \in Nat : callStack[k] = InBreak(n, breakCode) /\ IsBack(breakCode, n, i)
    BY <1>1, <2>1 DEF Resumes, InCode
  <2> QED
    BY <2>2 DEF InBreak, IsBack, InUse, Read, Nop
<1>2. \A i : Nop("return", i).op = "nop" /\ Nop("return", i).kind = "return"
  BY DEF Nop
<1>3. IInv => FramesValid
  BY <1>1, <1>2 DEF FramesValid
<1> QED
  BY <1>3, Invariant, PTL

\* Nothing but the debugger takes a lasting breakpoint away: not the program's
\* run, not a stop, and not the one-time breakpoints of a step (ExecNop).
THEOREM LastingKept == ASSUME Tame PROVE Spec => BreakpointsLast
<1>1. IInv /\ [Next]_vars =>
        [(mode # mode' \/ ip # ip') => Lasting(code) \subseteq Lasting(code')]_vars
  BY StepKeepsLasting
<1> QED
  BY <1>1, Invariant, PTL DEF Spec, BreakpointsLast

\* A run with breakpoints, stops and steps is a run of the program without them:
\* each step of the VM is a step of PlainRun or leaves its state alone.
THEOREM DebuggingIsTransparent == ASSUME Tame PROVE Spec => Transparent
<1>1. Init => Plain!Init
  BY InitStep
<1>2. IInv /\ [Next]_vars => [Plain!Next]_(Plain!vars)
  BY NextStep
<1> QED
  BY <1>1, <1>2, Invariant, PTL DEF Spec, Transparent, Plain!Spec

\* A step command stops the program where it asks to: at the next instruction, at
\* the next one of the frame, or in the caller, through any calls, native
\* functions and callbacks in between, unless the Run that was stepped ends
\* (ExecNop).  The program has no recursion and no jump to itself: otherwise the
\* breakpoint that the step needs can be the one it has stopped at, which ExecNop
\* takes for placed and then removes.
THEOREM StepsStop == ASSUME Tame, NEW rank, Layered(rank) PROVE Spec => []StepStops
<1>1. Init => Aimed /\ Ordered(rank)
  BY DEF Init, Aimed, Goals, NoGoal, Ordered, Depth
<1>2. IInv /\ Aimed /\ Ordered(rank) /\ [Next]_vars => Aimed' /\ Ordered(rank)'
  BY NextAim
<1>3. IInv /\ Aimed => StepStops
  <2> SUFFICES ASSUME IInv, Aimed, mode = "run", ~goal.fresh, goal.kind # "none" PROVE StepStops
    BY DEF StepStops
  <2>1. UnderWay /\ goal \in Goals /\ Depth \in Nat
    BY StackType DEF Aimed
  <2>2. Marked(at) => Stopping(ip)
    BY <2>1, MarkedStops DEF UnderWay
  <2>3. Depth < Level => Marked(at)
    BY <2>1 DEF UnderWay, Goals, Level
  <2> QED
    BY <2>1, <2>2, <2>3 DEF StepStops, UnderWay, Level, Goals
<1> QED
  BY <1>1, <1>2, <1>3, Invariant, PTL DEF Spec

\* Types: whatever is patched, copied and put back, code and breakCode hold
\* instructions and nops, and pointers are pointers.  No program that comes to the
\* return which InitExecution adds at the end: a step there reads the instruction
\* behind it, which is not there (ExecNop).
THEOREM Typed == ASSUME Tame, NEW R, Flows(R) PROVE Spec => []TypeOK
<1>1. Init => Within(R) /\ Cells
  <2>1. <<>> \in Seq(Instr \union Patch) /\ Len(<<>>) = 0
    BY EmptySeq
  <2> QED
    BY <2>1 DEF Init, Within, Cells, Depth, VectorOf, Patch, Kinds, NoHit, Nop, NoGoal, Goals
<1>2. IInv /\ Within(R) /\ Cells /\ [Next]_vars => Within(R)' /\ Cells'
  BY NextWithin, NextCells
<1>3. IInv /\ Cells => TypeOK
  <2> SUFFICES ASSUME IInv, Cells PROVE TypeOK
    OBVIOUS
  <2>1. breakCode \in Vector
    BY BreakpointsAssumption DEF Cells, VectorOf, Vector
  <2>2. ip \in Pointer
    BY PointerType
  <2> QED
    BY <2>1, <2>2 DEF TypeOK, IInv, Shape, Usable, RunsKept, Cells, Goals
<1> QED
  BY <1>1, <1>2, <1>3, Invariant, PTL DEF Spec

-------------------------------------------------------------------------------
(***************************************************************************)
(* RemoteDebug, for flags and for condition variables, for a client that   *)
(* waits for its replies for ever and for one that does not, and for any   *)
(* number of messages and stops, with a user who waits until the last      *)
(* thing asked for was done.                                               *)
(*                                                                         *)
(* The invariant follows the one message in data from the dispatcher to    *)
(* the thread that reads it.  Each phase says where the threads are, what  *)
(* may still be on the wire and who owes whom an answer.                   *)
(***************************************************************************)

Calm == Rash = {}

-------------------------------------------------------------------------------
(* The threads and the wire.                                               *)

Idle      == command \in {"about", "wait"}
Held      == program \in {"hit", "stack", "calls", "about", "wait"}

\* the program has an answer that it has not dealt with
Answering == program \in {"signal", "read", "act"} \/ (Held /\ breakContinue # "no")

\* the client has gone, and what is to go on waits for it or will not stop again
Parted    == \/ program \in {"about", "wait"} /\ "proceed" \in owed
             \/ program = "run" /\ armed = {}

Attaching == <<Msg("connect"), Msg("INFO")>>
Closing   == <<Msg("eof")>>
Detaching == <<Msg("DETACH"), Msg("eof")>>
Questions == {Msg(cmd) : cmd \in {"INFO", "SET", "CLEAR", "DATA"}}

\* a message that leaves the wire empty, or DETACH in front of the end
LastOf(m) ==
    \/ toServer = <<>> /\ m.cmd # "DETACH"
    \/ toServer = Closing /\ m.cmd = "DETACH" /\ Parted

\* what the client may have sent while the server waits for it
Fits ==
    \/ toServer = <<>>
    \/ /\ ~pressed.event
       /\ \/ \E m \in Questions : toServer = <<m>>
          \/ \E c \in owed : toServer = <<Continue(c)>>
          \/ toServer = Attaching
          \/ toServer \in {Closing, Detaching} /\ Parted

-------------------------------------------------------------------------------
(* The phases of a message.                                                *)

\* none: the server waits for the client
Free ==
    /\ dispatcher \in {"accept", "select", "end"}
    /\ Idle /\ ~ready /\ taken /\ ~Answering
    /\ dispatcher # "end" => Fits

\* received
Raising ==
    /\ dispatcher = "raise" /\ Idle /\ ~ready /\ ~taken /\ ~Answering /\ ~pressed.event
    /\ data \in Messages /\ LastOf(data)
    /\ data.cmd = "CONTINUE" => data.inst \in owed

\* with the command thread
Serving ==
    /\ dispatcher \in {"about", "wait"} /\ data.cmd \in ForCommand /\ LastOf(data)
    /\ ~pressed.event /\ ~Answering
    /\ \/ Idle /\ ~taken /\ ~processed
       \/ command = "take" /\ ~ready /\ ~taken /\ ~processed
       \/ command \in {data.cmd, "signal"} /\ ~ready /\ taken /\ ~processed
       \/ Idle /\ ~ready /\ taken

\* with the program
Continuing ==
    /\ dispatcher \in {"about", "wait"} /\ data.cmd = "CONTINUE"
    /\ toServer = <<>> /\ ~pressed.event /\ Idle /\ ~ready
    /\ \/ program \notin {"read", "act"} /\ ~processed /\ ~taken /\ data.inst \in owed
       \/ program = "read" /\ (Lossy \/ processed) /\ ~taken /\ data.inst \in owed
       \/ program = "act" /\ taken
       \/ taken /\ ~Answering

\* the dispatcher goes on as soon as processed is signalled, which is before
\* the program reads its answer
Finishing ==
    /\ dispatcher \in {"accept", "select", "end"} /\ data.cmd = "CONTINUE"
    /\ toServer = <<>> /\ ~pressed.event /\ Idle /\ ~ready
    /\ \/ program = "read" /\ ~taken /\ data.inst \in owed
       \/ program = "act" /\ taken

\* the client has gone: the program is let go, and the dispatcher may sleep
LetGo ==
    /\ dispatcher \in {"about", "wait", "select", "accept", "end"}
    /\ command \in {"signal", "about", "wait"} /\ ~ready /\ taken /\ ~pressed.event
    /\ toServer \in {<<>>, Closing} /\ data.inst = "proceed" /\ armed = {}
    /\ \/ program = "run"
       \/ program \in {"about", "wait", "signal", "read"} /\ "proceed" \in owed
       \/ program = "act" /\ answer = "proceed"

-------------------------------------------------------------------------------
(* The invariant.                                                          *)

Events == Lossy => breakContinue = "no" \/ (breakContinue = "yes" /\ program = "wait")
Buttons ==
    /\ window \in {"away", "init"} => pipe = "none"
    /\ pressed.event => pipe = "shown" /\ pressed.command \in owed
Phase == Free \/ Raising \/ Serving \/ Continuing \/ Finishing \/ LetGo
RemoteInv == RemoteTypeOK /\ Events /\ Buttons /\ Phase

-------------------------------------------------------------------------------
(* The type invariant, in parts.                                           *)

DataTypes == data \in [cmd : ForCommand \cup {"CONTINUE", "eof"}, inst : Commands \cup {"other"}]
WireTypes == toServer \in Seq(Wire) /\ toClient \in Seq(Reports)
ClientTypes ==
    /\ window \in {"away", "init", "ready", "data"}
    /\ pipe \in {"none", "listen", "stack", "calls", "shown"}
    /\ pressed \in [event : BOOLEAN, command : Commands]
    /\ sent \in 0..MaxSent /\ serving \in BOOLEAN
ThreadTypes ==
    /\ processed \in BOOLEAN /\ ready \in BOOLEAN /\ registered \in BOOLEAN
    /\ breakContinue \in {"unset", "no", "yes"}
    /\ dispatcher \in {"accept", "select", "raise", "about", "wait", "end"}
    /\ command \in ForCommand \cup {"about", "wait", "take", "signal"}
ProgramTypes ==
    /\ program \in {"run", "stop", "hit", "stack", "calls", "about", "wait", "signal",
                   "read", "act"}
    /\ answer \in Commands \cup {"other"} /\ armed \subseteq {"lasting", "once"}
    /\ finished \in BOOLEAN /\ taken \in BOOLEAN /\ owed \subseteq Commands
    /\ stops \in 0..MaxStops

LEMMA TypeParts ==
    RemoteTypeOK <=> DataTypes /\ WireTypes /\ ClientTypes /\ ThreadTypes /\ ProgramTypes
BY DEF RemoteTypeOK, DataTypes, WireTypes, ClientTypes, ThreadTypes, ProgramTypes

LEMMA Messaging ==
    /\ \A cmd : Msg(cmd).cmd = cmd /\ Msg(cmd).inst = "other"
    /\ \A c : Continue(c).cmd = "CONTINUE" /\ Continue(c).inst = c
    /\ \A m \in Messages : m.cmd \in ForCommand \cup {"CONTINUE"}
    /\ Messages \subseteq
           [cmd : ForCommand \cup {"CONTINUE"}, inst : Commands \cup {"other"}]
    /\ \A m \in Messages : m \in Wire
    /\ \A cmd \in ForCommand \cup {"connect", "eof"} : Msg(cmd) \in Wire
    /\ \A c \in Commands : Continue(c) \in Wire
BY DEF Msg, Continue, Messages, ForCommand, Commands, Wire

LEMMA Sequencing ==
    ASSUME NEW S, NEW s \in Seq(S), NEW m \in S, NEW n \in S
    PROVE  /\ Append(s, m) \in Seq(S) /\ s \o <<m, n>> \in Seq(S)
           /\ s # <<>> => Tail(s) \in Seq(S) /\ Head(s) \in S
<1>1. <<m, n>> \in Seq(S)
  OBVIOUS
<1>2. s # <<>> => Tail(s) \in Seq(S) /\ Head(s) \in S
  BY HeadTailProperties
<1> QED
  BY <1>1, <1>2, AppendProperties, ConcatProperties

LEMMA InitTypes == RemoteDebugAssumption /\ RemoteInit => RemoteTypeOK
<1> SUFFICES ASSUME RemoteDebugAssumption, RemoteInit
             PROVE  DataTypes /\ WireTypes /\ ClientTypes /\ ThreadTypes /\ ProgramTypes
  BY TypeParts
<1>1. DataTypes
  BY DEF RemoteInit, DataTypes, Msg, Commands
<1>2. WireTypes
  BY DEF RemoteInit, WireTypes
<1>3. ThreadTypes
  BY DEF RemoteInit, ThreadTypes
<1>4. 0 \in 0..MaxSent /\ 0 \in 0..MaxStops
  BY DEF RemoteDebugAssumption
<1>5. ClientTypes
  BY <1>4 DEF RemoteInit, Commands, ClientTypes
<1>6. ProgramTypes
  <2>1. stops \in 0..MaxStops
    BY <1>4 DEF RemoteInit
  <2> QED
    BY <2>1 DEF RemoteInit, Commands, ProgramTypes
<1> QED
  BY <1>1, <1>2, <1>3, <1>5, <1>6

LEMMA TypeStep == RemoteDebugAssumption /\ RemoteTypeOK /\ [RemoteNext]_remoteVars => RemoteTypeOK'
<1> SUFFICES ASSUME RemoteDebugAssumption, DataTypes, WireTypes, ClientTypes, ThreadTypes,
                    ProgramTypes, [RemoteNext]_remoteVars
             PROVE  DataTypes' /\ WireTypes' /\ ClientTypes' /\ ThreadTypes' /\ ProgramTypes'
  BY DEF RemoteTypeOK, DataTypes, WireTypes, ClientTypes, ThreadTypes, ProgramTypes
<1> USE DEF RemoteDebugAssumption, server, debuggee, client, network, history
<1>1. CASE UNCHANGED remoteVars
  BY <1>1 DEF remoteVars, DataTypes, WireTypes, ClientTypes, ThreadTypes, ProgramTypes
<1>2. CASE Await
  BY <1>2 DEF Await, DataTypes, WireTypes, ClientTypes, ThreadTypes, ProgramTypes
<1>3. CASE Accept
  <2>1. WireTypes'
    BY <1>3, Messaging, Sequencing DEF Accept, WireTypes, ForCommand, Reports
  <2>2. DataTypes' /\ ClientTypes' /\ ThreadTypes' /\ ProgramTypes'
    BY <1>3 DEF Accept, DataTypes, ClientTypes, ThreadTypes, ProgramTypes, Commands
  <2> QED
    BY <2>1, <2>2
<1>4. CASE Quit
  <2>1. WireTypes'
    BY <1>4, Messaging, Sequencing DEF Quit, WireTypes, ForCommand, Reports
  <2>2. ClientTypes'
    BY <1>4 DEF Quit, ClientTypes, Commands
  <2>3. ProgramTypes'
    BY <1>4 DEF Quit, ProgramTypes, Commands
  <2>4. DataTypes' /\ ThreadTypes'
    BY <1>4 DEF Quit, DataTypes, ThreadTypes
  <2> QED
    BY <2>1, <2>2, <2>3, <2>4
<1>5. CASE Disconnected
  <2>1. DataTypes'
    BY <1>5 DEF Disconnected, Release, DataTypes, Commands
  <2>2. WireTypes'
    BY <1>5, Messaging, Sequencing DEF Disconnected, Release, WireTypes, ForCommand, Reports
  <2>3. ClientTypes' /\ ThreadTypes' /\ ProgramTypes'
    BY <1>5 DEF Disconnected, Release, ClientTypes, ThreadTypes, ProgramTypes, Commands
  <2> QED
    BY <2>1, <2>2, <2>3
<1>6. CASE Receive
  <2>1. DataTypes'
    BY <1>6, Messaging DEF Receive, DataTypes, Commands
  <2>2. WireTypes'
    BY <1>6, Messaging, Sequencing DEF Receive, WireTypes, ForCommand, Reports
  <2>3. ProgramTypes'
    BY <1>6 DEF Receive, ProgramTypes, Commands
  <2>4. ClientTypes' /\ ThreadTypes'
    BY <1>6 DEF Receive, ClientTypes, ThreadTypes
  <2> QED
    BY <2>1, <2>2, <2>3, <2>4
<1>7. CASE Raise
  <2>1. ThreadTypes'
    BY <1>7 DEF Raise, Raised, ThreadTypes
  <2>2. DataTypes' /\ WireTypes' /\ ClientTypes' /\ ProgramTypes'
    BY <1>7 DEF Raise, Raised, DataTypes, WireTypes, ClientTypes, ProgramTypes, Commands
  <2> QED
    BY <2>1, <2>2
<1>8. CASE Processed
  <2>1. ThreadTypes'
    BY <1>8 DEF Processed, ThreadTypes
  <2>2. DataTypes' /\ WireTypes' /\ ClientTypes' /\ ProgramTypes'
    BY <1>8 DEF Processed, DataTypes, WireTypes, ClientTypes, ProgramTypes, Commands
  <2> QED
    BY <2>1, <2>2
<1>9. CASE Wake
  <2>1. ThreadTypes'
    BY <1>9 DEF Wake, ThreadTypes
  <2>2. DataTypes' /\ WireTypes' /\ ClientTypes' /\ ProgramTypes'
    BY <1>9 DEF Wake, DataTypes, WireTypes, ClientTypes, ProgramTypes, Commands
  <2> QED
    BY <2>1, <2>2
<1>10. CASE Take
  BY <1>10 DEF Take, DataTypes, WireTypes, ClientTypes, ThreadTypes, ProgramTypes, Commands
<1>11. CASE Answer
  <2>1. WireTypes'
    BY <1>11, Messaging, Sequencing DEF Answer, Report, WireTypes, ForCommand, Reports
  <2>2. DataTypes' /\ ClientTypes' /\ ThreadTypes' /\ ProgramTypes'
    BY <1>11 DEF Answer, Report, DataTypes, ClientTypes, ThreadTypes, ProgramTypes, Commands
  <2> QED
    BY <2>1, <2>2
<1>12. CASE SetBreakpoint
  BY <1>12 DEF SetBreakpoint, DataTypes, WireTypes, ClientTypes, ThreadTypes, ProgramTypes, Commands
<1>13. CASE Detached
  <2>1. DataTypes'
    BY <1>13 DEF Detached, Release, DataTypes, Commands
  <2>2. WireTypes' /\ ClientTypes' /\ ThreadTypes' /\ ProgramTypes'
    BY <1>13 DEF Detached, Release, WireTypes, ClientTypes, ThreadTypes, ProgramTypes, Commands
  <2> QED
    BY <2>1, <2>2
<1>14. CASE Signal
  <2>1. ThreadTypes'
    BY <1>14 DEF Signal, Raised, ThreadTypes
  <2>2. DataTypes' /\ WireTypes' /\ ClientTypes' /\ ProgramTypes'
    BY <1>14 DEF Signal, Raised, DataTypes, WireTypes, ClientTypes, ProgramTypes, Commands
  <2> QED
    BY <2>1, <2>2
<1>15. CASE Register
  BY <1>15 DEF Register, DataTypes, WireTypes, ClientTypes, ThreadTypes, ProgramTypes, Commands
<1>16. CASE ReportStop
  <2>1. WireTypes'
    <3>1. toServer' \in Seq(Wire)
      BY <1>16, Messaging, Sequencing DEF ReportStop, Report, WireTypes, ForCommand
    <3>2. toClient' \in Seq(Reports)
      <4>1. \E c \in Reports : toClient' = IF serving THEN Append(toClient, c) ELSE toClient
        BY <1>16 DEF ReportStop, Report, Reports
      <4> QED
        BY <4>1, Sequencing DEF WireTypes
    <3> QED
      BY <3>1, <3>2 DEF WireTypes
  <2>2. DataTypes' /\ ClientTypes' /\ ThreadTypes' /\ ProgramTypes'
    BY <1>16 DEF ReportStop, Report, DataTypes, ClientTypes, ThreadTypes, ProgramTypes, Commands
  <2> QED
    BY <2>1, <2>2
<1>17. CASE GoOn
  BY <1>17 DEF GoOn, DataTypes, WireTypes, ClientTypes, ThreadTypes, ProgramTypes, Commands
<1>18. CASE SignalResumed
  <2>1. ThreadTypes'
    BY <1>18 DEF SignalResumed, Raised, ThreadTypes
  <2>2. DataTypes' /\ WireTypes' /\ ClientTypes' /\ ProgramTypes'
    BY <1>18 DEF SignalResumed, Raised, DataTypes, WireTypes, ClientTypes, ProgramTypes, Commands
  <2> QED
    BY <2>1, <2>2
<1>19. CASE ReadAnswer
  BY <1>19 DEF ReadAnswer, DataTypes, WireTypes, ClientTypes, ThreadTypes, ProgramTypes, Commands
<1>20. CASE Act
  BY <1>20 DEF Act, DataTypes, WireTypes, ClientTypes, ThreadTypes, ProgramTypes, Commands
<1>21. CASE Attach
  <2>1. WireTypes'
    BY <1>21, Messaging, Sequencing DEF Attach, WireTypes, ForCommand, Reports
  <2>2. ClientTypes'
    BY <1>21 DEF Attach, ClientTypes, Commands
  <2>3. DataTypes' /\ ThreadTypes' /\ ProgramTypes'
    BY <1>21 DEF Attach, DataTypes, ThreadTypes, ProgramTypes, Commands
  <2> QED
    BY <2>1, <2>2, <2>3
<1>22. CASE InitReply
  <2>1. WireTypes'
    <3>1. toServer' \in Seq(Wire)
      BY <1>22, Messaging, Sequencing DEF InitReply, Received, WireTypes, ForCommand
    <3>2. toClient' \in Seq(Reports)
      <4>1. toClient # <<>> => Tail(toClient) \in Seq(Reports)
        BY Sequencing DEF WireTypes, Reports
      <4> QED
        BY <1>22, <4>1 DEF InitReply, Received, WireTypes
    <3> QED
      BY <3>1, <3>2 DEF WireTypes
  <2>2. ClientTypes'
    BY <1>22 DEF InitReply, Received, ClientTypes, Commands
  <2>3. DataTypes' /\ ThreadTypes' /\ ProgramTypes'
    BY <1>22 DEF InitReply, Received, DataTypes, ThreadTypes, ProgramTypes, Commands
  <2> QED
    BY <2>1, <2>2, <2>3
<1>23. CASE SendBreakpoint
  <2>1. WireTypes'
    BY <1>23, Messaging, Sequencing DEF SendBreakpoint, Send, WireTypes, ForCommand, Reports
  <2>2. ClientTypes'
    BY <1>23 DEF SendBreakpoint, Send, ClientTypes, Commands
  <2>3. DataTypes' /\ ThreadTypes' /\ ProgramTypes'
    BY <1>23 DEF SendBreakpoint, Send, DataTypes, ThreadTypes, ProgramTypes, Commands
  <2> QED
    BY <2>1, <2>2, <2>3
<1>24. CASE AskData
  <2>1. WireTypes'
    BY <1>24, Messaging, Sequencing DEF AskData, Send, WireTypes, ForCommand, Reports
  <2>2. ClientTypes'
    BY <1>24 DEF AskData, Send, ClientTypes, Commands
  <2>3. DataTypes' /\ ThreadTypes' /\ ProgramTypes'
    BY <1>24 DEF AskData, Send, DataTypes, ThreadTypes, ProgramTypes, Commands
  <2> QED
    BY <2>1, <2>2, <2>3
<1>25. CASE DataReply
  <2>1. WireTypes'
    <3>1. toServer' \in Seq(Wire)
      BY <1>25, Messaging, Sequencing DEF DataReply, Received, WireTypes, ForCommand
    <3>2. toClient' \in Seq(Reports)
      BY <1>25, Sequencing DEF DataReply, Received, WireTypes, Reports
    <3> QED
      BY <3>1, <3>2 DEF WireTypes
  <2>2. ClientTypes'
    BY <1>25 DEF DataReply, Received, ClientTypes, Commands
  <2>3. DataTypes' /\ ThreadTypes' /\ ProgramTypes'
    BY <1>25 DEF DataReply, Received, DataTypes, ThreadTypes, ProgramTypes, Commands
  <2> QED
    BY <2>1, <2>2, <2>3
<1>26. CASE Press
  <2>1. ClientTypes'
    BY <1>26 DEF Press, ClientTypes, Commands
  <2>2. DataTypes' /\ WireTypes' /\ ThreadTypes' /\ ProgramTypes'
    BY <1>26 DEF Press, DataTypes, WireTypes, ThreadTypes, ProgramTypes, Commands, ClientTypes
  <2> QED
    BY <2>1, <2>2
<1>27. CASE Leave
  <2>1. WireTypes'
    <3>1. toServer' \in Seq(Wire)
      <4>1. toServer \in Seq(Wire) /\ Msg("eof") \in Wire /\ Msg("DETACH") \in Wire
        BY Messaging DEF WireTypes, ForCommand
      <4>2. /\ Append(toServer, Msg("eof")) \in Seq(Wire)
            /\ toServer \o <<Msg("DETACH"), Msg("eof")>> \in Seq(Wire)
        BY <4>1, Sequencing
      <4> QED
        BY <1>27, <4>2 DEF Leave
    <3>2. toClient' \in Seq(Reports)
      BY <1>27, Sequencing DEF Leave, WireTypes, Reports
    <3> QED
      BY <3>1, <3>2 DEF WireTypes
  <2>2. ClientTypes'
    <3>1. sent' \in 0..MaxSent
      BY <1>27 DEF Leave, ClientTypes
    <3>2. pressed' \in [event : BOOLEAN, command : Commands]
      BY <1>27 DEF Leave, ClientTypes
    <3>3. /\ window' \in {"away", "init", "ready", "data"}
          /\ pipe' \in {"none", "listen", "stack", "calls", "shown"}
          /\ serving' \in BOOLEAN
      BY <1>27 DEF Leave, ClientTypes
    <3> QED
      BY <3>1, <3>2, <3>3 DEF ClientTypes
  <2>3. DataTypes' /\ ThreadTypes' /\ ProgramTypes'
    BY <1>27 DEF Leave, DataTypes, ThreadTypes, ProgramTypes, Commands, ClientTypes
  <2> QED
    BY <2>1, <2>2, <2>3
<1>28. CASE Listen
  <2>1. WireTypes'
    BY <1>28, Messaging, Sequencing DEF Listen, Received, WireTypes, ForCommand, Reports
  <2>2. ClientTypes'
    BY <1>28 DEF Listen, Received, ClientTypes, Commands
  <2>3. DataTypes' /\ ThreadTypes' /\ ProgramTypes'
    BY <1>28 DEF Listen, Received, DataTypes, ThreadTypes, ProgramTypes, Commands
  <2> QED
    BY <2>1, <2>2, <2>3
<1>29. CASE Follow
  <2>1. WireTypes'
    <3>1. toServer' \in Seq(Wire)
      BY <1>29, Messaging, Sequencing DEF Follow, Received, WireTypes, ForCommand
    <3>2. toClient' \in Seq(Reports)
      BY <1>29, Sequencing DEF Follow, Received, WireTypes, Reports
    <3> QED
      BY <3>1, <3>2 DEF WireTypes
  <2>2. ClientTypes'
    BY <1>29 DEF Follow, Received, ClientTypes, Commands
  <2>3. DataTypes' /\ ThreadTypes' /\ ProgramTypes'
    BY <1>29 DEF Follow, Received, DataTypes, ThreadTypes, ProgramTypes, Commands
  <2> QED
    BY <2>1, <2>2, <2>3
<1>30. CASE SendContinue
  <2>1. WireTypes'
    <3>1. toServer' \in Seq(Wire)
      BY <1>30, Messaging, Sequencing DEF SendContinue, Send, WireTypes, ForCommand, ClientTypes
    <3>2. toClient' \in Seq(Reports)
      BY <1>30, Sequencing DEF SendContinue, Send, WireTypes, Reports
    <3> QED
      BY <3>1, <3>2 DEF WireTypes
  <2>2. ClientTypes'
    <3>1. sent' \in 0..MaxSent
      BY <1>30 DEF SendContinue, Send, ClientTypes
    <3>2. pressed' \in [event : BOOLEAN, command : Commands]
      BY <1>30 DEF SendContinue, Send, ClientTypes
    <3>3. /\ window' \in {"away", "init", "ready", "data"}
          /\ pipe' \in {"none", "listen", "stack", "calls", "shown"}
          /\ serving' \in BOOLEAN
      BY <1>30 DEF SendContinue, Send, ClientTypes
    <3> QED
      BY <3>1, <3>2, <3>3 DEF ClientTypes
  <2>3. DataTypes' /\ ThreadTypes' /\ ProgramTypes'
    BY <1>30 DEF SendContinue, Send, DataTypes, ThreadTypes, ProgramTypes, Commands
  <2> QED
    BY <2>1, <2>2, <2>3
<1>31. CASE Break
  BY <1>31 DEF Break, DataTypes, WireTypes, ClientTypes, ThreadTypes, ProgramTypes, Commands
<1>32. CASE Finish
  BY <1>32 DEF Finish, DataTypes, WireTypes, ClientTypes, ThreadTypes, ProgramTypes, Commands
<1>33. QED
  BY <1>1, <1>2, <1>3, <1>4, <1>5, <1>6, <1>7, <1>8, <1>9, <1>10, <1>11, <1>12, <1>13, <1>14,
         <1>15, <1>16, <1>17, <1>18, <1>19, <1>20, <1>21, <1>22, <1>23, <1>24, <1>25, <1>26,
         <1>27, <1>28, <1>29, <1>30, <1>31, <1>32 DEF RemoteNext, Dispatch, Serve, Pause, Window,
         Pipe

-------------------------------------------------------------------------------
(* The phases follow each other.                                           *)

LEMMA InitPhase == RemoteDebugAssumption /\ RemoteInit => RemoteInv
<1> SUFFICES ASSUME RemoteDebugAssumption, RemoteInit PROVE Events /\ Buttons /\ Phase
  BY InitTypes DEF RemoteInv
<1> QED
  BY DEF RemoteInit, Events, Buttons, Phase, Free, Idle, Answering, Held, Fits

\* what a user who waits finds
LEMMA Rested ==
    RemoteInv /\ Settled => Free /\ toServer = <<>> /\ dispatcher # "end" /\ ~pressed.event
BY DEF RemoteInv, Phase, Settled, Free, Raising, Serving, Continuing, Finishing, LetGo, Idle,
       Answering, Held,
       Fits, Events, RemoteTypeOK

\* what is received first, and what is left
LEMMA Wiring ==
    /\ \A m : Head(<<m>>) = m /\ Tail(<<m>>) = <<>> /\ Append(<<>>, m) = <<m>>
    /\ Head(Attaching) = Msg("connect") /\ Tail(Attaching) = <<Msg("INFO")>>
    /\ Head(Closing) = Msg("eof") /\ Tail(Closing) = <<>>
    /\ Head(Detaching) = Msg("DETACH") /\ Tail(Detaching) = Closing
    /\ <<>> \o Attaching = Attaching /\ <<>> \o Detaching = Detaching
    /\ Append(<<>>, Msg("eof")) = Closing
    /\ Attaching # <<>> /\ Closing # <<>> /\ Detaching # <<>>
<1>1. \A m : Head(<<m>>) = m /\ Tail(<<m>>) = <<>> /\ Append(<<>>, m) = <<m>>
  OBVIOUS
<1>2. \A m, k : /\ Head(<<m, k>>) = m /\ Tail(<<m, k>>) = <<k>>
                /\ <<>> \o <<m, k>> = <<m, k>> /\ <<m, k>> # <<>>
  OBVIOUS
<1>3. \A m : <<m>> # <<>>
  OBVIOUS
<1> QED
  BY <1>1, <1>2, <1>3 DEF Attaching, Closing, Detaching

LEMMA PhaseStep ==
    ASSUME RemoteDebugAssumption, Calm, RemoteInv, RemoteTypeOK', [RemoteNext]_remoteVars
    PROVE  Events' /\ Buttons' /\ Phase'
<1> USE DEF server, debuggee, client, network, history
<1>1. CASE UNCHANGED remoteVars
  <2>1. Events'
    BY <1>1 DEF remoteVars, RemoteInv, Events, RemoteTypeOK
  <2>2. Buttons'
    BY <1>1 DEF remoteVars, RemoteInv, Buttons
  <2>3. Phase'
    <3>1. CASE Free
      BY <1>1, <3>1 DEF remoteVars, RemoteInv, Events, Phase, Free, Idle, Answering, Held, Fits,
         Parted
    <3>2. CASE Raising
      BY <1>1, <3>2 DEF remoteVars, RemoteInv, Events, Phase, Raising, LastOf, Parted, Idle,
         Answering, Held
    <3>3. CASE Serving
      BY <1>1, <3>3 DEF remoteVars, RemoteInv, Events, Phase, Serving, LastOf, Parted, Idle,
         Answering, Held
    <3>4. CASE Continuing
      BY <1>1, <3>4 DEF remoteVars, RemoteInv, Events, Phase, Continuing, Idle, Answering, Held
    <3>5. CASE Finishing
      BY <1>1, <3>5 DEF remoteVars, RemoteInv, Events, Phase, Finishing, Idle
    <3>6. CASE LetGo
      BY <1>1, <3>6 DEF remoteVars, RemoteInv, Events, Phase, LetGo
    <3> QED
      BY <3>1, <3>2, <3>3, <3>4, <3>5, <3>6 DEF RemoteInv, Phase
  <2> QED
    BY <2>1, <2>2, <2>3
<1>2. CASE Await
  <2>1. Events'
    BY <1>2 DEF Await, RemoteInv, Events, RemoteTypeOK
  <2>2. Buttons'
    BY <1>2 DEF Await, RemoteInv, Buttons
  <2>3. Phase'
    <3>1. CASE Free
      BY <1>2, <3>1 DEF Await, RemoteInv, Events, Phase, Free, Idle, Answering, Held, Fits, Parted
    <3>2. CASE Raising
      BY <1>2, <3>2 DEF Await, RemoteInv, Events, Phase, Raising, LastOf, Parted, Idle,
         Answering, Held
    <3>3. CASE Serving
      BY <1>2, <3>3 DEF Await, RemoteInv, Events, Phase, Serving, LastOf, Parted, Idle,
         Answering, Held
    <3>4. CASE Continuing
      BY <1>2, <3>4 DEF Await, RemoteInv, Events, Phase, Continuing, Idle, Answering, Held
    <3>5. CASE Finishing
      BY <1>2, <3>5 DEF Await, RemoteInv, Events, Phase, Finishing, Idle
    <3>6. CASE LetGo
      BY <1>2, <3>6 DEF Await, RemoteInv, Events, Phase, LetGo
    <3> QED
      BY <3>1, <3>2, <3>3, <3>4, <3>5, <3>6 DEF RemoteInv, Phase
  <2> QED
    BY <2>1, <2>2, <2>3
<1>3. CASE Accept
  <2>1. Events' /\ Buttons'
    BY <1>3 DEF Accept, RemoteInv, Events, Buttons
  <2>2. Free \/ LetGo
    BY <1>3 DEF Accept, RemoteInv, Phase, Raising, Serving, Continuing, Finishing
  <2>3. CASE Free
    <3>1. /\ ~pressed'.event
          /\ \/ toServer' = <<>> \/ toServer' = <<Msg("INFO")>>
             \/ toServer' = Closing /\ Parted'
      BY <1>3, <2>3, Wiring DEF Accept, Free, Fits, Parted
    <3>2. Fits'
      BY <3>1 DEF Fits, Questions
    <3> QED
      BY <1>3, <2>1, <2>3, <3>2 DEF Accept, Phase, Free, Idle, Answering, Held
  <2>4. CASE LetGo
    BY <1>3, <2>1, <2>4, Wiring DEF Accept, Phase, LetGo
  <2> QED
    BY <2>2, <2>3, <2>4
<1>4. CASE Quit
  <2>1. Events'
    BY <1>4 DEF Quit, RemoteInv, Events, RemoteTypeOK
  <2>2. Buttons'
    BY <1>4 DEF Quit, RemoteInv, Buttons
  <2>3. Phase'
    <3>1. Free \/ Finishing \/ LetGo
      BY <1>4 DEF Quit, RemoteInv, Events, Phase, Raising, Idle, Answering, Held, Serving,
         Continuing
    <3>2. CASE Free
      BY <1>4, <3>2 DEF Quit, RemoteInv, Events, Phase, Free, Idle, Answering, Held, Fits, Parted
    <3>3. CASE Finishing
      BY <1>4, <3>3 DEF Quit, RemoteInv, Events, Phase, Finishing, Idle
    <3>4. CASE LetGo
      BY <1>4, <3>4 DEF Quit, RemoteInv, Events, Phase, LetGo
    <3> QED
      BY <3>1, <3>2, <3>3, <3>4
  <2> QED
    BY <2>1, <2>2, <2>3
<1>5. CASE Disconnected
  <2>1. Events' /\ Buttons'
    BY <1>5 DEF Disconnected, Release, RemoteInv, Events, Buttons, RemoteTypeOK
  <2>2. Free \/ LetGo
    BY <1>5 DEF Disconnected, RemoteInv, Phase, Raising, Serving, Continuing, Finishing
  <2>3. data'.inst = "proceed" /\ armed' = {}
    BY <1>5 DEF Disconnected, Release, RemoteInv, RemoteTypeOK
  <2>4. CASE Free
    <3>1. toServer' = <<>> /\ ~pressed.event /\ Parted
      BY <1>5, <2>4, Wiring, Messaging DEF Disconnected, Free, Fits, Questions
    <3> QED
      BY <1>5, <2>1, <2>3, <2>4, <3>1 DEF Disconnected, Phase, Free, LetGo, Idle, Parted
  <2>5. CASE LetGo
    BY <1>5, <2>1, <2>3, <2>5, Wiring DEF Disconnected, Phase, LetGo
  <2> QED
    BY <2>2, <2>4, <2>5
<1>6. CASE Receive
  <2>1. Events' /\ Buttons'
    BY <1>6 DEF Receive, RemoteInv, Events, Buttons
  <2>2. Msg("eof") \notin Messages /\ Msg("connect") \notin Messages
    BY Messaging DEF ForCommand
  <2>3. Free
    BY <1>6, <2>2, Wiring DEF Receive, RemoteInv, Phase, Raising, Serving, Continuing, Finishing,
       LetGo
  <2>4. /\ ~pressed.event
        /\ \/ toServer' = <<>> /\ data' \in Questions
           \/ toServer' = <<>> /\ \E c \in owed : data' = Continue(c)
           \/ toServer' = Closing /\ data' = Msg("DETACH") /\ Parted
    BY <1>6, <2>2, <2>3, Wiring DEF Receive, Free, Fits
  <2>5. CASE Known(Head(toServer))
    <3>1. LastOf(data)' /\ (data'.cmd = "CONTINUE" => data'.inst \in owed)
      BY <1>6, <2>4, Messaging DEF Receive, LastOf, Parted, Questions
    <3> QED
      BY <1>6, <2>1, <2>3, <2>4, <2>5, <3>1 DEF Receive, Phase, Free, Raising, Idle, Answering, Held
  <2>6. CASE ~Known(Head(toServer))
    <3>1. toServer' = <<>>
      BY <1>6, <2>4, <2>6, Messaging DEF Receive, Known
    <3> QED
      BY <1>6, <2>1, <2>3, <2>6, <3>1 DEF Receive, Phase, Free, Fits, Idle, Answering, Held
  <2> QED
    BY <2>5, <2>6
<1>7. CASE Raise
  <2>1. Events' /\ Buttons'
    BY <1>7 DEF Raise, Raised, RemoteInv, Events, Buttons
  <2>2. Raising
    BY <1>7 DEF Raise, RemoteInv, Phase, Free, Serving, Continuing, Finishing, LetGo
  <2>3. CASE data.cmd = "CONTINUE"
    <3>1. toServer = <<>>
      BY <2>2, <2>3 DEF Raising, LastOf
    <3> QED
      BY <1>7, <2>1, <2>2, <2>3, <3>1 DEF Raise, Raised, Phase, Raising, Continuing, Idle, Answering
  <2>4. CASE data.cmd # "CONTINUE"
    <3>1. data.cmd \in ForCommand
      BY <2>2, <2>4, Messaging DEF Raising
    <3>2. LastOf(data)'
      BY <1>7, <2>2 DEF Raise, Raising, LastOf, Parted
    <3> QED
      BY <1>7, <2>1, <2>2, <2>4, <3>1, <3>2 DEF Raise, Raised, Phase, Raising, Serving, Idle,
             Answering, Held
  <2> QED
    BY <2>3, <2>4
<1>8. CASE Processed
  <2>1. Events'
    BY <1>8 DEF Processed, RemoteInv, Events, RemoteTypeOK
  <2>2. Buttons'
    BY <1>8 DEF Processed, RemoteInv, Buttons
  <2>3. Phase'
    <3>1. Serving \/ Continuing \/ LetGo
      BY <1>8 DEF Processed, RemoteInv, Events, Phase, Free, Idle, Answering, Held, Raising,
         Finishing
    <3>2. CASE Serving
      BY <1>8, <3>2 DEF Processed, RemoteInv, Events, Phase, Serving, LastOf, Parted, Idle,
         Answering,
             Held, Free, Fits
    <3>3. CASE Continuing
      BY <1>8, <3>3 DEF Processed, RemoteInv, Events, Phase, Continuing, Idle, Answering, Held,
         Free,
             Fits, Parted, Finishing
    <3>4. CASE LetGo
      BY <1>8, <3>4 DEF Processed, RemoteInv, Events, Phase, LetGo
    <3> QED
      BY <3>1, <3>2, <3>3, <3>4
  <2> QED
    BY <2>1, <2>2, <2>3
<1>9. CASE Wake
  <2>1. Events'
    BY <1>9 DEF Wake, RemoteInv, Events, RemoteTypeOK
  <2>2. Buttons'
    BY <1>9 DEF Wake, RemoteInv, Buttons
  <2>3. Phase'
    <3>1. Serving
      BY <1>9 DEF Wake, RemoteInv, Events, Phase, Free, Idle, Answering, Held, Raising, Continuing,
             Finishing, LetGo
    <3>2. CASE Serving
      BY <1>9, <3>2 DEF Wake, RemoteInv, Events, Phase, Serving, LastOf, Parted, Idle, Answering,
         Held
    <3> QED
      BY <3>1, <3>2
  <2> QED
    BY <2>1, <2>2, <2>3
<1>10. CASE Take
  <2>1. Events'
    BY <1>10 DEF Take, RemoteInv, Events, RemoteTypeOK
  <2>2. Buttons'
    BY <1>10 DEF Take, RemoteInv, Buttons
  <2>3. Phase'
    <3>1. Serving
      BY <1>10 DEF Take, RemoteInv, Events, Phase, Free, Idle, Answering, Held, Raising, Continuing,
             Finishing, LetGo
    <3>2. CASE Serving
      BY <1>10, <3>2 DEF Take, RemoteInv, Events, Phase, Serving, LastOf, Parted, Idle,
         Answering, Held
    <3> QED
      BY <3>1, <3>2
  <2> QED
    BY <2>1, <2>2, <2>3
<1>11. CASE Answer
  <2>1. Events'
    BY <1>11 DEF Answer, Report, RemoteInv, Events, RemoteTypeOK
  <2>2. Buttons'
    BY <1>11 DEF Answer, Report, RemoteInv, Buttons
  <2>3. Phase'
    <3>1. Serving
      BY <1>11 DEF Answer, Report, RemoteInv, Events, Phase, Free, Idle, Answering, Held, Raising,
             Continuing, Finishing, LetGo
    <3>2. CASE Serving
      BY <1>11, <3>2 DEF Answer, Report, RemoteInv, Events, Phase, Serving, LastOf, Parted, Idle,
             Answering, Held
    <3> QED
      BY <3>1, <3>2
  <2> QED
    BY <2>1, <2>2, <2>3
<1>12. CASE SetBreakpoint
  <2>1. Events'
    BY <1>12 DEF SetBreakpoint, RemoteInv, Events, RemoteTypeOK
  <2>2. Buttons'
    BY <1>12 DEF SetBreakpoint, RemoteInv, Buttons
  <2>3. Phase'
    <3>1. Serving
      BY <1>12 DEF SetBreakpoint, RemoteInv, Events, Phase, Free, Idle, Answering, Held, Raising,
             Continuing, Finishing, LetGo
    <3>2. CASE Serving
      BY <1>12, <3>2 DEF SetBreakpoint, RemoteInv, Events, Phase, Serving, LastOf, Parted, Idle,
             Answering, Held
    <3> QED
      BY <3>1, <3>2
  <2> QED
    BY <2>1, <2>2, <2>3
<1>13. CASE Detached
  <2>1. Events'
    BY <1>13 DEF Detached, Release, RemoteInv, Events, RemoteTypeOK
  <2>2. Buttons'
    BY <1>13 DEF Detached, Release, RemoteInv, Buttons
  <2>3. Phase'
    <3>1. Serving
      BY <1>13 DEF Detached, Release, RemoteInv, Events, Phase, Free, Idle, Answering, Held,
         Raising,
             Continuing, Finishing, LetGo
    <3>2. CASE Serving
      BY <1>13, <3>2 DEF Detached, Release, RemoteInv, Events, Phase, Serving, LastOf, Parted, Idle,
             Answering, Held, LetGo
    <3> QED
      BY <3>1, <3>2
  <2> QED
    BY <2>1, <2>2, <2>3
<1>14. CASE Signal
  <2>1. Events'
    BY <1>14 DEF Signal, Raised, RemoteInv, Events, RemoteTypeOK
  <2>2. Buttons'
    BY <1>14 DEF Signal, Raised, RemoteInv, Buttons
  <2>3. Phase'
    <3>1. Serving \/ LetGo
      BY <1>14 DEF Signal, Raised, RemoteInv, Events, Phase, Free, Idle, Answering, Held, Raising,
             Continuing, Finishing
    <3>2. CASE Serving
      BY <1>14, <3>2 DEF Signal, Raised, RemoteInv, Events, Phase, Serving, LastOf, Parted, Idle,
             Answering, Held
    <3>3. CASE LetGo
      BY <1>14, <3>3 DEF Signal, Raised, RemoteInv, Events, Phase, LetGo
    <3> QED
      BY <3>1, <3>2, <3>3
  <2> QED
    BY <2>1, <2>2, <2>3
<1>15. CASE Register
  <2>1. Events'
    BY <1>15 DEF Register, RemoteInv, Events, RemoteTypeOK
  <2>2. Buttons'
    BY <1>15 DEF Register, RemoteInv, Buttons
  <2>3. Phase'
    <3>1. Free \/ Raising \/ Serving \/ Continuing
      BY <1>15 DEF Register, RemoteInv, Events, Phase, Finishing, LetGo
    <3>2. CASE Free
      BY <1>15, <3>2 DEF Register, RemoteInv, Events, Phase, Free, Idle, Answering, Held, Fits,
         Parted
    <3>3. CASE Raising
      BY <1>15, <3>3 DEF Register, RemoteInv, Events, Phase, Raising, LastOf, Parted, Idle,
         Answering,
             Held
    <3>4. CASE Serving
      BY <1>15, <3>4 DEF Register, RemoteInv, Events, Phase, Serving, LastOf, Parted, Idle,
         Answering,
             Held
    <3>5. CASE Continuing
      BY <1>15, <3>5 DEF Register, RemoteInv, Events, Phase, Continuing, Idle, Answering, Held
    <3> QED
      BY <3>1, <3>2, <3>3, <3>4, <3>5
  <2> QED
    BY <2>1, <2>2, <2>3
<1>16. CASE ReportStop
  <2>1. Events'
    BY <1>16 DEF ReportStop, Report, RemoteInv, Events, RemoteTypeOK
  <2>2. Buttons'
    BY <1>16 DEF ReportStop, Report, RemoteInv, Buttons
  <2>3. Phase'
    <3>1. Free \/ Raising \/ Serving \/ Continuing
      BY <1>16 DEF ReportStop, Report, RemoteInv, Events, Phase, Finishing, LetGo
    <3>2. CASE Free
      BY <1>16, <3>2 DEF ReportStop, Report, RemoteInv, Events, Phase, Free, Idle, Answering, Held,
             Fits, Parted
    <3>3. CASE Raising
      BY <1>16, <3>3 DEF ReportStop, Report, RemoteInv, Events, Phase, Raising, LastOf, Parted,
         Idle,
             Answering, Held
    <3>4. CASE Serving
      BY <1>16, <3>4 DEF ReportStop, Report, RemoteInv, Events, Phase, Serving, LastOf, Parted,
         Idle,
             Answering, Held
    <3>5. CASE Continuing
      BY <1>16, <3>5 DEF ReportStop, Report, RemoteInv, Events, Phase, Continuing, Idle,
         Answering, Held
    <3> QED
      BY <3>1, <3>2, <3>3, <3>4, <3>5
  <2> QED
    BY <2>1, <2>2, <2>3
<1>17. CASE GoOn
  <2>1. Events'
    BY <1>17 DEF GoOn, RemoteInv, Events, RemoteTypeOK
  <2>2. Buttons'
    BY <1>17 DEF GoOn, RemoteInv, Buttons
  <2>3. Phase'
    <3>1. Continuing \/ LetGo
      BY <1>17 DEF GoOn, RemoteInv, Events, Phase, Free, Idle, Answering, Held, Raising, Serving,
             Finishing
    <3>2. CASE Continuing
      BY <1>17, <3>2 DEF GoOn, RemoteInv, Events, Phase, Continuing, Idle, Answering, Held
    <3>3. CASE LetGo
      BY <1>17, <3>3 DEF GoOn, RemoteInv, Events, Phase, LetGo
    <3> QED
      BY <3>1, <3>2, <3>3
  <2> QED
    BY <2>1, <2>2, <2>3
<1>18. CASE SignalResumed
  <2>1. Events'
    BY <1>18 DEF SignalResumed, Raised, RemoteInv, Events, RemoteTypeOK
  <2>2. Buttons'
    BY <1>18 DEF SignalResumed, Raised, RemoteInv, Buttons
  <2>3. Phase'
    <3>1. Continuing \/ LetGo
      BY <1>18 DEF SignalResumed, Raised, RemoteInv, Events, Phase, Free, Idle, Answering, Held,
             Raising, Serving, Finishing
    <3>2. CASE Continuing
      BY <1>18, <3>2 DEF SignalResumed, Raised, RemoteInv, Events, Phase, Continuing, Idle,
         Answering,
             Held
    <3>3. CASE LetGo
      BY <1>18, <3>3 DEF SignalResumed, Raised, RemoteInv, Events, Phase, LetGo
    <3> QED
      BY <3>1, <3>2, <3>3
  <2> QED
    BY <2>1, <2>2, <2>3
<1>19. CASE ReadAnswer
  <2>1. Continuing \/ Finishing \/ LetGo
    BY <1>19 DEF ReadAnswer, RemoteInv, Phase, Free, Raising, Serving, Answering
  <2>2. ~pressed.event
    BY <2>1 DEF Continuing, Finishing, LetGo
  <2>3. Events' /\ Buttons'
    BY <1>19, <2>2 DEF ReadAnswer, RemoteInv, Events, Buttons
  <2>4. Phase'
    BY <1>19, <2>1 DEF ReadAnswer, Phase, Continuing, Finishing, LetGo, Idle
  <2> QED
    BY <2>3, <2>4
<1>20. CASE Act
  <2>1. Events'
    BY <1>20 DEF Act, RemoteInv, Events, RemoteTypeOK
  <2>2. Buttons'
    BY <1>20 DEF Act, RemoteInv, Buttons
  <2>3. Phase'
    <3>1. Continuing \/ Finishing \/ LetGo
      BY <1>20 DEF Act, RemoteInv, Events, Phase, Free, Idle, Answering, Held, Raising, Serving
    <3>2. CASE Continuing
      BY <1>20, <3>2 DEF Act, RemoteInv, Events, Phase, Continuing, Idle, Answering, Held
    <3>3. CASE Finishing
      BY <1>20, <3>3 DEF Act, RemoteInv, Events, Phase, Finishing, Idle, Free, Answering, Held,
         Fits,
             Parted
    <3>4. CASE LetGo
      BY <1>20, <3>4 DEF Act, RemoteInv, Events, Phase, LetGo
    <3> QED
      BY <3>1, <3>2, <3>3, <3>4
  <2> QED
    BY <2>1, <2>2, <2>3
<1>21. CASE Attach
  <2>1. Free /\ toServer = <<>> /\ dispatcher # "end" /\ ~pressed.event
    BY <1>21, Rested DEF Attach, MayAsk, Quiet, Calm
  <2>2. toServer' = Attaching
    BY <1>21, <2>1, Wiring DEF Attach, Attaching
  <2>3. Events' /\ Buttons'
    BY <1>21 DEF Attach, RemoteInv, Events, Buttons
  <2>4. Free'
    BY <1>21, <2>1, <2>2 DEF Attach, Free, Idle, Answering, Held, Fits
  <2> QED
    BY <2>3, <2>4 DEF Phase
<1>22. CASE InitReply
  <2>1. Events'
    BY <1>22 DEF InitReply, Received, RemoteInv, Events, RemoteTypeOK
  <2>2. Buttons'
    BY <1>22 DEF InitReply, Received, RemoteInv, Buttons
  <2>3. Phase'
    <3>1. CASE Free
      BY <1>22, <3>1 DEF InitReply, Received, RemoteInv, Events, Phase, Free, Idle, Answering, Held,
             Fits, Parted
    <3>2. CASE Raising
      BY <1>22, <3>2 DEF InitReply, Received, RemoteInv, Events, Phase, Raising, LastOf, Parted,
         Idle,
             Answering, Held
    <3>3. CASE Serving
      BY <1>22, <3>3 DEF InitReply, Received, RemoteInv, Events, Phase, Serving, LastOf, Parted,
         Idle,
             Answering, Held
    <3>4. CASE Continuing
      BY <1>22, <3>4 DEF InitReply, Received, RemoteInv, Events, Phase, Continuing, Idle,
         Answering, Held
    <3>5. CASE Finishing
      BY <1>22, <3>5 DEF InitReply, Received, RemoteInv, Events, Phase, Finishing, Idle
    <3>6. CASE LetGo
      BY <1>22, <3>6 DEF InitReply, Received, RemoteInv, Events, Phase, LetGo
    <3> QED
      BY <3>1, <3>2, <3>3, <3>4, <3>5, <3>6 DEF RemoteInv, Phase
  <2> QED
    BY <2>1, <2>2, <2>3
<1>23. CASE SendBreakpoint
  <2>1. Free /\ toServer = <<>> /\ dispatcher # "end" /\ ~pressed.event
    BY <1>23, Rested DEF SendBreakpoint, MayAsk, Quiet, Calm
  <2>2. \E m \in Questions : toServer' = <<m>>
    BY <1>23, <2>1, Wiring DEF SendBreakpoint, Send, Questions
  <2>3. Events' /\ Buttons'
    BY <1>23 DEF SendBreakpoint, RemoteInv, Events, Buttons
  <2>4. Free'
    BY <1>23, <2>1, <2>2 DEF SendBreakpoint, Free, Idle, Answering, Held, Fits
  <2> QED
    BY <2>3, <2>4 DEF Phase
<1>24. CASE AskData
  <2>1. Free /\ toServer = <<>> /\ dispatcher # "end" /\ ~pressed.event
    BY <1>24, Rested DEF AskData, MayAsk, Quiet, Calm
  <2>2. \E m \in Questions : toServer' = <<m>>
    BY <1>24, <2>1, Wiring DEF AskData, Send, Questions
  <2>3. Events' /\ Buttons'
    BY <1>24 DEF AskData, RemoteInv, Events, Buttons
  <2>4. Free'
    BY <1>24, <2>1, <2>2 DEF AskData, Free, Idle, Answering, Held, Fits
  <2> QED
    BY <2>3, <2>4 DEF Phase
<1>25. CASE DataReply
  <2>1. Events'
    BY <1>25 DEF DataReply, Received, RemoteInv, Events, RemoteTypeOK
  <2>2. Buttons'
    BY <1>25 DEF DataReply, Received, RemoteInv, Buttons
  <2>3. Phase'
    <3>1. CASE Free
      BY <1>25, <3>1 DEF DataReply, Received, RemoteInv, Events, Phase, Free, Idle, Answering, Held,
             Fits, Parted
    <3>2. CASE Raising
      BY <1>25, <3>2 DEF DataReply, Received, RemoteInv, Events, Phase, Raising, LastOf, Parted,
         Idle,
             Answering, Held
    <3>3. CASE Serving
      BY <1>25, <3>3 DEF DataReply, Received, RemoteInv, Events, Phase, Serving, LastOf, Parted,
         Idle,
             Answering, Held
    <3>4. CASE Continuing
      BY <1>25, <3>4 DEF DataReply, Received, RemoteInv, Events, Phase, Continuing, Idle,
         Answering, Held
    <3>5. CASE Finishing
      BY <1>25, <3>5 DEF DataReply, Received, RemoteInv, Events, Phase, Finishing, Idle
    <3>6. CASE LetGo
      BY <1>25, <3>6 DEF DataReply, Received, RemoteInv, Events, Phase, LetGo
    <3> QED
      BY <3>1, <3>2, <3>3, <3>4, <3>5, <3>6 DEF RemoteInv, Phase
  <2> QED
    BY <2>1, <2>2, <2>3
<1>26. CASE Press
  <2>1. Free /\ toServer = <<>> /\ dispatcher # "end" /\ ~pressed.event
    BY <1>26, Rested DEF Press, MayAsk, Quiet, Calm
  <2>2. pipe = "shown" /\ toServer' = <<>>
    BY <1>26, <2>1 DEF Press, Calm
  <2>3. \E c : pressed' = [event |-> TRUE, command |-> c] /\ owed' = {c}
    BY <1>26, <2>2 DEF Press
  <2>4. Events' /\ Buttons'
    BY <1>26, <2>2, <2>3 DEF Press, RemoteInv, Events, Buttons
  <2>5. Free'
    BY <1>26, <2>1, <2>2 DEF Press, Free, Idle, Answering, Held, Fits
  <2> QED
    BY <2>4, <2>5 DEF Phase
<1>27. CASE Leave
  <2>1. Free /\ toServer = <<>> /\ dispatcher # "end" /\ ~pressed.event
    BY <1>27, Rested DEF Leave, MayAsk, Quiet, Calm
  <2>2. ~pressed'.event /\ Parted'
    BY <1>27, <2>1 DEF Leave, Quiet, Calm, Parted
  <2>3. toServer' \in {Closing, Detaching}
    BY <1>27, <2>1, Wiring DEF Leave, Detaching
  <2>4. Events' /\ Buttons'
    BY <1>27, <2>1 DEF Leave, RemoteInv, Events, Buttons
  <2>5. Free'
    BY <1>27, <2>1, <2>2, <2>3 DEF Leave, Free, Idle, Answering, Held, Fits
  <2> QED
    BY <2>4, <2>5 DEF Phase
<1>28. CASE Listen
  <2>1. Events'
    BY <1>28 DEF Listen, Received, RemoteInv, Events, RemoteTypeOK
  <2>2. Buttons'
    BY <1>28 DEF Listen, Received, RemoteInv, Buttons
  <2>3. Phase'
    <3>1. CASE Free
      BY <1>28, <3>1 DEF Listen, Received, RemoteInv, Events, Phase, Free, Idle, Answering, Held,
             Fits, Parted
    <3>2. CASE Raising
      BY <1>28, <3>2 DEF Listen, Received, RemoteInv, Events, Phase, Raising, LastOf, Parted, Idle,
             Answering, Held
    <3>3. CASE Serving
      BY <1>28, <3>3 DEF Listen, Received, RemoteInv, Events, Phase, Serving, LastOf, Parted, Idle,
             Answering, Held
    <3>4. CASE Continuing
      BY <1>28, <3>4 DEF Listen, Received, RemoteInv, Events, Phase, Continuing, Idle, Answering,
         Held
    <3>5. CASE Finishing
      BY <1>28, <3>5 DEF Listen, Received, RemoteInv, Events, Phase, Finishing, Idle
    <3>6. CASE LetGo
      BY <1>28, <3>6 DEF Listen, Received, RemoteInv, Events, Phase, LetGo
    <3> QED
      BY <3>1, <3>2, <3>3, <3>4, <3>5, <3>6 DEF RemoteInv, Phase
  <2> QED
    BY <2>1, <2>2, <2>3
<1>29. CASE Follow
  <2>1. ~pressed.event /\ ~pressed'.event
    BY <1>29 DEF Follow, RemoteInv, RemoteTypeOK, Buttons
  <2>2. Events' /\ Buttons'
    BY <1>29, <2>1 DEF Follow, RemoteInv, Events, Buttons
  <2>3. Phase'
    <3>1. CASE Free
      BY <1>29, <2>1, <3>1 DEF Follow, Phase, Free, Idle, Answering, Held, Fits, Parted
    <3>2. CASE Raising
      BY <1>29, <2>1, <3>2 DEF Follow, Phase, Raising, LastOf, Parted, Idle, Answering, Held
    <3>3. CASE Serving
      BY <1>29, <2>1, <3>3 DEF Follow, Phase, Serving, LastOf, Parted, Idle, Answering, Held
    <3>4. CASE Continuing
      BY <1>29, <2>1, <3>4 DEF Follow, Phase, Continuing, Idle, Answering, Held
    <3>5. CASE Finishing
      BY <1>29, <2>1, <3>5 DEF Follow, Phase, Finishing, Idle
    <3>6. CASE LetGo
      BY <1>29, <2>1, <3>6 DEF Follow, Phase, LetGo
    <3> QED
      BY <3>1, <3>2, <3>3, <3>4, <3>5, <3>6 DEF RemoteInv, Phase
  <2> QED
    BY <2>2, <2>3
<1>30. CASE SendContinue
  <2>1. /\ Free /\ pressed.event /\ pressed.command \in owed
        /\ dispatcher # "end" => toServer = <<>>
    BY <1>30 DEF SendContinue, RemoteInv, Buttons, Phase, Free, Raising, Serving, Continuing,
           Finishing, LetGo, Fits
  <2>2. ~pressed'.event
    BY <1>30 DEF SendContinue, RemoteInv, RemoteTypeOK
  <2>3. dispatcher # "end" => toServer' = <<Continue(pressed.command)>>
    BY <1>30, <2>1, Wiring DEF SendContinue, Send
  <2>4. Events' /\ Buttons'
    BY <1>30, <2>2 DEF SendContinue, RemoteInv, Events, Buttons
  <2>5. Free'
    BY <1>30, <2>1, <2>2, <2>3 DEF SendContinue, Free, Idle, Answering, Held, Fits
  <2> QED
    BY <2>4, <2>5 DEF Phase
<1>31. CASE Break
  <2>1. Events'
    BY <1>31 DEF Break, RemoteInv, Events, RemoteTypeOK
  <2>2. Buttons'
    BY <1>31 DEF Break, RemoteInv, Buttons
  <2>3. Phase'
    <3>1. Free \/ Raising \/ Serving \/ Continuing
      BY <1>31 DEF Break, RemoteInv, Events, Phase, Finishing, LetGo
    <3>2. CASE Free
      BY <1>31, <3>2 DEF Break, RemoteInv, Events, Phase, Free, Idle, Answering, Held, Fits, Parted
    <3>3. CASE Raising
      BY <1>31, <3>3 DEF Break, RemoteInv, Events, Phase, Raising, LastOf, Parted, Idle,
         Answering, Held
    <3>4. CASE Serving
      BY <1>31, <3>4 DEF Break, RemoteInv, Events, Phase, Serving, LastOf, Parted, Idle,
         Answering, Held
    <3>5. CASE Continuing
      BY <1>31, <3>5 DEF Break, RemoteInv, Events, Phase, Continuing, Idle, Answering, Held
    <3> QED
      BY <3>1, <3>2, <3>3, <3>4, <3>5
  <2> QED
    BY <2>1, <2>2, <2>3
<1>32. CASE Finish
  <2>1. Events'
    BY <1>32 DEF Finish, RemoteInv, Events, RemoteTypeOK
  <2>2. Buttons'
    BY <1>32 DEF Finish, RemoteInv, Buttons
  <2>3. Phase'
    <3>1. CASE Free
      BY <1>32, <3>1 DEF Finish, RemoteInv, Events, Phase, Free, Idle, Answering, Held, Fits, Parted
    <3>2. CASE Raising
      BY <1>32, <3>2 DEF Finish, RemoteInv, Events, Phase, Raising, LastOf, Parted, Idle,
         Answering, Held
    <3>3. CASE Serving
      BY <1>32, <3>3 DEF Finish, RemoteInv, Events, Phase, Serving, LastOf, Parted, Idle,
         Answering, Held
    <3>4. CASE Continuing
      BY <1>32, <3>4 DEF Finish, RemoteInv, Events, Phase, Continuing, Idle, Answering, Held
    <3>5. CASE Finishing
      BY <1>32, <3>5 DEF Finish, RemoteInv, Events, Phase, Finishing, Idle
    <3>6. CASE LetGo
      BY <1>32, <3>6 DEF Finish, RemoteInv, Events, Phase, LetGo
    <3> QED
      BY <3>1, <3>2, <3>3, <3>4, <3>5, <3>6 DEF RemoteInv, Phase
  <2> QED
    BY <2>1, <2>2, <2>3
<1>33. QED
  BY <1>1, <1>2, <1>3, <1>4, <1>5, <1>6, <1>7, <1>8, <1>9, <1>10, <1>11, <1>12, <1>13, <1>14,
         <1>15, <1>16, <1>17, <1>18, <1>19, <1>20, <1>21, <1>22, <1>23, <1>24, <1>25, <1>26,
         <1>27, <1>28, <1>29, <1>30, <1>31, <1>32 DEF RemoteNext, Dispatch, Serve, Pause, Window,
         Pipe

LEMMA ObeyStep ==
    RemoteInv /\ [RemoteNext]_remoteVars => [program = "read" /\ program' = "act" => answer' \in owed]_remoteVars
<1> SUFFICES ASSUME RemoteInv, RemoteNext, program = "read", program' = "act" PROVE answer' \in owed
  BY DEF RemoteNext
<1>1. ReadAnswer
  BY DEF RemoteNext, Await, Dispatch, Serve, Pause, Window, Pipe, Accept, Quit, Disconnected,
     Receive,
         Raise, Processed, Wake, Take, Answer, SetBreakpoint, Detached, Signal, Register,
         ReportStop, GoOn, SignalResumed, Act, Attach, InitReply, SendBreakpoint, AskData,
         DataReply, Press, Leave, Listen, Follow, SendContinue, Break, Finish, server, debuggee,
         client, network, history
<1>2. data.inst \in owed
  BY DEF RemoteInv, Phase, Free, Raising, Serving, Continuing, Finishing, LetGo, Answering
<1> QED
  BY <1>1, <1>2 DEF ReadAnswer

LEMMA DeliverStep == RemoteInv /\ [RemoteNext]_remoteVars => [data' # data => taken]_remoteVars
<1> SUFFICES ASSUME RemoteInv, RemoteNext, data' # data PROVE taken
  BY DEF remoteVars, server
<1>1. Receive \/ Disconnected \/ Detached
  BY DEF RemoteNext, Await, Dispatch, Serve, Pause, Window, Pipe, Accept, Quit, Raise, Processed,
     Wake,
         Take, Answer, SetBreakpoint, Signal, Register, ReportStop, GoOn, SignalResumed,
         ReadAnswer, Act, Attach, InitReply, SendBreakpoint, AskData, DataReply, Press, Leave,
         Listen, Follow, SendContinue, Break, Finish, server, debuggee, client, network, history
<1>2. CASE Receive
  BY <1>2, Wiring DEF Receive, RemoteInv, Phase, Free, Finishing, LetGo, Raising, Serving,
     Continuing
<1>3. CASE Disconnected
  BY <1>3, Wiring DEF Disconnected, RemoteInv, Phase, Free, Finishing, LetGo, Raising, Serving,
     Continuing
<1>4. CASE Detached
  BY <1>4 DEF Detached, RemoteInv, Phase, Free, Finishing, LetGo, Raising, Serving, Continuing, Idle
<1> QED
  BY <1>1, <1>2, <1>3, <1>4

-------------------------------------------------------------------------------
(* The theorems.                                                           *)

\* The state of the debugger keeps its types, whatever the user does: breakInst
\* holds an answer or other bytes, every event is up or down, and no bound is
\* passed.
THEOREM RemoteTyped == RemoteSpec => []RemoteTypeOK
<1>1. RemoteTypeOK /\ [RemoteNext]_remoteVars => RemoteTypeOK'
  BY TypeStep, RemoteDebugAssumption
<1>2. RemoteInit => RemoteTypeOK
  BY InitTypes, RemoteDebugAssumption
<1> QED
  BY <1>1, <1>2, PTL DEF RemoteSpec

\* With a user who waits, every message is in one phase: none is received while
\* another is on its way, and the program is let go when the client has gone.
THEOREM OneMessage ==
    ASSUME Calm
    PROVE  RemoteSpec => []RemoteInv
<1>1. RemoteInv /\ [RemoteNext]_remoteVars => RemoteInv'
  <2> SUFFICES ASSUME RemoteInv, [RemoteNext]_remoteVars PROVE RemoteInv'
    OBVIOUS
  <2>1. RemoteTypeOK'
    BY TypeStep, RemoteDebugAssumption DEF RemoteInv
  <2>2. Events' /\ Buttons' /\ Phase'
    BY <2>1, PhaseStep, RemoteDebugAssumption
  <2> QED
    BY <2>1, <2>2 DEF RemoteInv
<1>2. RemoteInit => RemoteInv
  BY InitPhase, RemoteDebugAssumption
<1> QED
  BY <1>1, <1>2, PTL DEF RemoteSpec

\* The program does what the user answered to the stop it is in: PipeDebugBreak
\* never reads what another message left in breakInst.
THEOREM AnswerObeyed ==
    ASSUME Calm
    PROVE  RemoteSpec => Obeys
<1>1. RemoteInv /\ [RemoteNext]_remoteVars => [program = "read" /\ program' = "act" => answer' \in owed]_remoteVars
  BY ObeyStep
<1> QED
  BY <1>1, OneMessage, PTL DEF RemoteSpec, Obeys

\* A message stays in Dispatcher::data until its thread has read it.
THEOREM MessageDelivered ==
    ASSUME Calm
    PROVE  RemoteSpec => Delivered
<1>1. RemoteInv /\ [RemoteNext]_remoteVars => [data' # data => taken]_remoteVars
  BY DeliverStep
<1> QED
  BY <1>1, OneMessage, PTL DEF RemoteSpec, Delivered
===============================================================================
