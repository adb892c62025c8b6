-------------------------------- MODULE Linker --------------------------------
(***************************************************************************)
(* Modules, the linker and the session that uses them (nullc.cpp,          *)
(* BinaryCache.cpp, Linker.cpp, the imports of ExpressionTree.cpp and      *)
(* includes/dynamic.cpp).                                                  *)
(*                                                                         *)
(* A bytecode numbers the functions of the modules it imports, and its     *)
(* own, in one table.  It is compiled against the modules that the cache   *)
(* holds then; it is linked, possibly later, against those the linker has  *)
(* linked or finds in the cache under their names.  The linker appends:    *)
(* functions, globals and code of a unit go behind those of earlier units, *)
(* and where those of a module are is computed from the ends of the lists. *)
(* A running program may link (override of std.dynamic).                   *)
(***************************************************************************)
EXTENDS Integers, Sequences, FiniteSets, SequencesExt

CONSTANTS
    Texts,      \* source text -> [name, imports, funcs, vars, types]
    Types,      \* names of classes
    LastName,   \* "__last.nc"
    Overriding, \* the texts that override compiles: __last and one function
    Risks,      \* what the host does without the care that the code leaves to
                \* it, see Careful below
    MaxUnits,   \* bound: units linked since nullcClean
    MaxDepth    \* bound: functions active

Sources == DOMAIN Texts
Names   == {Texts[s].name : s \in Sources} \ {""}    \* programs have none
Funcs   == [name : STRING, kind : {"plain", "generic", "local"}]
Absent  == -1       \* the size of a class that a bytecode does not mention; it
                    \* is 0 when the class is declared and not defined

ASSUME LinkerAssumption ==
    /\ "none" \notin Sources
    /\ \A s \in Sources :
        /\ Texts[s].imports \in Seq(Names \union {LastName})
        /\ IsInjective(Texts[s].imports)
        /\ Texts[s].funcs \in Seq(Funcs)
        /\ \A j, k \in DOMAIN Texts[s].funcs :
              Texts[s].funcs[j] = Texts[s].funcs[k] /\ Texts[s].funcs[k].kind = "plain" => j = k
        /\ Texts[s].vars \in Nat
        /\ Texts[s].types \in [Types -> Nat \union {Absent}]
    /\ LastName \notin Names \union {""} /\ Overriding \subseteq Sources
    /\ \A s \in Overriding : Len(Texts[s].funcs) = 1 /\ Texts[s].funcs[1].kind # "generic"
    /\ Risks \subseteq {"last", "replaced", "failed", "globals"}
    /\ MaxUnits \in Nat /\ MaxDepth \in Nat

VARIABLES
    cache,       \* [name, code]: the modules, in the order of the array
    last,        \* lastBytecode
    built,       \* bytecode that the host holds
    exModules,   \* [name, start, vars]: where functions and globals are
    exFunctions, \* [unit, k, body]: function k of a unit, and what it runs
    exTypes,     \* the sizes
    globalVarSize,
    units,       \* what was linked: [code, start, first, own, calls, vars,
                 \* fixed], its functions from first on and its globals from own
    exRegVmCode, \* [count, id]: the buffer that holds the code now; whether it
                 \* is too small for a unit is left open, and one that nothing
                 \* refers to passes its id on
    expired,     \* the buffers it was moved from
    linkStack,   \* calls of LinkCode: [code, name, next]
    dest,        \* the function that override redirects after the link, or 0
    codeBase,    \* the buffer the VM runs in; 0 when it does not run
    frames       \* functions active: [id, pos, unit, base]

cached == <<cache, last, built>>
linked == <<exModules, exFunctions, exTypes, globalVarSize, units, exRegVmCode, expired>>
exec   == <<codeBase, frames>>
link   == <<linkStack, dest>>
vars   == <<cached, linked, link, exec>>

NoCode    == [src |-> "none", deps |-> <<>>, types |-> [t \in Types |-> Absent]]
Own(c)    == Texts[c.src].funcs
Size(c)   == Texts[c.src].vars
Linking   == linkStack # <<>>
Running   == frames # <<>>
Top       == linkStack[Len(linkStack)]
NextDep   == Top.code.deps[Top.next]
Fn(f)     == Own(units[f.unit].code)[f.k]
-----------------------------------------------------------------------------
(***************************************************************************)
(* Compilation: the modules named by imports, then those they depend on    *)
(* and that are not named (AnalyzeImplicitModuleImports).  What an import  *)
(* depends on is looked up by name in the cache of now.                    *)
(***************************************************************************)
FindBytecode(n) ==
    IF n = LastName THEN last
    ELSE LET entries == {m \in Range(cache) : m.name = n} IN
         IF entries = {} THEN NoCode ELSE (CHOOSE m \in entries : TRUE).code

Dep(n) == [name |-> n, code |-> FindBytecode(n)]

AddDep(deps, n) ==
    IF \E d \in Range(deps) : d.code = FindBytecode(n) THEN deps ELSE Append(deps, Dep(n))

NamesOf(deps)      == [i \in DOMAIN deps |-> deps[i].name]
NamesBelow(direct) == FlattenSeq([i \in DOMAIN direct |-> NamesOf(direct[i].code.deps)])

Deps(s) ==
    LET direct == [i \in DOMAIN Texts[s].imports |-> Dep(Texts[s].imports[i])]
        names  == NamesBelow(direct)
        with[n \in 0..Len(names)] == IF n = 0 THEN direct ELSE AddDep(with[n - 1], names[n])
    IN  with[Len(names)]

SizesOf(t, s, deps) == {Texts[s].types[t]} \union {d.code.types[t] : d \in Range(deps)}
Largest(S)          == CHOOSE x \in S : \A y \in S : y <= x

Bytecode(s) ==
    [src |-> s, deps |-> Deps(s), types |-> [t \in Types |-> Largest(SizesOf(t, s, Deps(s)))]]

\* every import is found, and neither a function nor a class has two definitions
Compiles(s) ==
    LET deps  == Deps(s)
        codes == {d.code : d \in Range(deps)}
        Plain(c) == {f.name : f \in {g \in Range(Own(c)) : g.kind = "plain"}}
    IN  /\ NoCode \notin codes
        /\ \A c \in codes : Plain(c) \intersect Plain([src |-> s]) = {}
        /\ \A c, d \in codes : c # d => Plain(c) \intersect Plain(d) = {}
        /\ \A t \in Types : \A x, y \in SizesOf(t, s, deps) \ {Absent, 0} : x = y

\* the table of functions of a bytecode: function k of a module that it
\* depends on, or of its own, which is dependency 0
Meant(c, d) == IF d = 0 THEN c ELSE c.deps[d].code
Table(c)    == UNION {{[dep |-> d, k |-> k] : k \in DOMAIN Own(Meant(c, d))} :
                      d \in {0} \union DOMAIN c.deps}

(***************************************************************************)
(* What the code leaves to the host.  "replaced": a module is not replaced *)
(* while a bytecode is held that was compiled against it.  "last": of      *)
(* __last, only the unit linked last or the one already known under that   *)
(* name is imported, by a program, and before modules that are not linked. *)
(* "failed":                                                               *)
(* after a link that failed comes nullcClean.  "globals": a running        *)
(* program links no globals.                                               *)
(***************************************************************************)
Unlinked(c)   == {i \in DOMAIN c.deps : \A m \in Range(exModules) : m.name # c.deps[i].name}
Held          == {m.code : m \in Range(cache)} \union built \union {last}
Failed        == \E u \in Range(units) : ~u.fixed
From(m, c)    == \E u \in Range(units) : u.code = c /\ u.first = m.start /\ u.own = m.vars

LastFits(c) ==
    \A i \in DOMAIN c.deps : c.deps[i].name = LastName =>
        IF i \in Unlinked(c)
        THEN /\ units # <<>> /\ units[Len(units)].code = c.deps[i].code
             /\ last = c.deps[i].code
             /\ \A j \in Unlinked(c) : i <= j
        ELSE \A m \in Range(exModules) :
                 m.name = LastName => From(m, c.deps[i].code)

Fits(c) ==
    \A d \in Range(c.deps) : d.name # LastName =>
        /\ FindBytecode(d.name) \in {d.code, NoCode}
        /\ \A m \in Range(exModules) : m.name = d.name => From(m, d.code)

Careful(c) ==
    /\ "failed" \in Risks \/ ~Failed
    /\ "last" \in Risks \/ LastFits(c)
    /\ "replaced" \in Risks \/ Fits(c)
    /\ "globals" \in Risks \/ ~Running \/ (Size(c) = 0 /\ Unlinked(c) \subseteq {1})
-----------------------------------------------------------------------------
Init ==
    /\ cache = <<>> /\ last = NoCode /\ built = {}
    /\ exModules = <<>> /\ exFunctions = <<>> /\ exTypes = [t \in Types |-> Absent]
    /\ globalVarSize = 0 /\ units = <<>>
    /\ exRegVmCode = [count |-> 0, id |-> 0] /\ expired = {}
    /\ linkStack = <<>> /\ dest = 0 /\ codeBase = 0 /\ frames = <<>>

(***************************************************************************)
(* The host.  nullcLoadModuleBySource compiles, makes the code the last    *)
(* one, and clears the linker: also while a program runs.                  *)
(***************************************************************************)
CleanCode ==
    /\ exModules' = <<>> /\ exFunctions' = <<>> /\ exTypes' = [t \in Types |-> Absent]
    /\ globalVarSize' = 0 /\ units' = <<>> /\ expired' = {}
    /\ exRegVmCode' = [exRegVmCode EXCEPT !.count = 0, !.id = 0]

Clean ==
    /\ ~Linking /\ ~Running
    /\ units # <<>>
    /\ CleanCode
    /\ UNCHANGED <<cached, link, exec>>

PutBytecode(n, c) == cache' = Append(cache, [name |-> n, code |-> c])

LoadModuleBySource(s) ==
    /\ ~Linking /\ ~Running
    /\ Texts[s].name # "" /\ FindBytecode(Texts[s].name) = NoCode
    /\ Compiles(s)
    /\ "last" \in Risks \/ LastName \notin Range(Texts[s].imports)
    /\ "replaced" \in Risks \/ \A c \in Held : \A d \in Range(c.deps) :
           d.name = Texts[s].name => d.code = Bytecode(s)
    /\ last' = Bytecode(s)
    /\ CleanCode
    /\ PutBytecode(Texts[s].name, Bytecode(s))
    /\ UNCHANGED <<built, link, exec>>

\* the last entry takes the place of the removed one
RemoveBytecode_twice(at) == cache' = [cache EXCEPT ![at] = cache[Len(cache)]]
RemoveBytecode(at) ==
    cache' = Front([cache EXCEPT ![at] = cache[Len(cache)]])

RemoveModule(n) ==
    /\ ~Linking
    /\ \E at \in DOMAIN cache : cache[at].name = n /\ RemoveBytecode(at)
    /\ UNCHANGED <<last, built, linked, link, exec>>

\* nullcCompile and nullcGetBytecode, or nullcGetBytecodeNoCache, which leaves
\* the last code as it is
Build(s, keep) ==
    /\ ~Linking
    /\ Texts[s].name = "" /\ s \notin Overriding
    /\ "last" \in Risks \/ keep = (LastName \notin Range(Texts[s].imports))
    /\ Compiles(s) /\ Bytecode(s) \notin built
    /\ built' = {Bytecode(s)}
    /\ last' = IF keep THEN Bytecode(s) ELSE last
    /\ UNCHANGED <<cache, linked, link, exec>>

LinkCode(c, n) == linkStack' = Append(linkStack, [code |-> c, name |-> n, next |-> 1])

Bounded == Len(units) < MaxUnits

Link(c) ==
    /\ ~Linking /\ Bounded /\ Careful(c)
    /\ LinkCode(c, "")
    /\ UNCHANGED <<cached, linked, dest, exec>>

\* std.dynamic: a function compiled behind "import __last" replaces another
Override(i, s) ==
    /\ ~Linking /\ Running /\ Bounded
    /\ Fn(exFunctions[i]).kind = "plain"
    /\ Compiles(s) /\ Careful(Bytecode(s))
    /\ LinkCode(Bytecode(s), "") /\ dest' = i
    /\ UNCHANGED <<cached, linked, exec>>
-----------------------------------------------------------------------------
(***************************************************************************)
(* LinkCode, one dependency at a time, then the unit itself.               *)
(***************************************************************************)
Depending  == Linking /\ Top.next <= Len(Top.code.deps)
Loaded(n)  == \E m \in Range(exModules) : m.name = n
Module(n)  == CHOOSE m \in Range(exModules) : m.name = n
Advanced  == [linkStack EXCEPT ![Len(linkStack)].next = @ + 1]
LinkFails == linkStack' = <<>> /\ dest' = 0

\* what LinkCode records of a module: it takes the end of the lists for its end
Registered_early(n, c, found, functions, globals) ==
    Append(exModules, [name  |-> n,
                       start |-> Len(exFunctions) - Len(Own(c)),
                       vars  |-> globals - Size(found)])
Registered(n, c, found, functions, globals) ==
    Append(exModules, [name  |-> n,
                       start |-> Len(functions) - Len(Own(c)),
                       vars  |-> globals - Size(found)])

LinkLoaded ==
    /\ Depending /\ Loaded(NextDep.name)
    /\ linkStack' = Advanced
    /\ UNCHANGED <<cached, linked, dest, exec>>

LinkNested ==
    /\ Depending /\ ~Loaded(NextDep.name) /\ NextDep.name # LastName
    /\ IF FindBytecode(NextDep.name) = NoCode
       THEN LinkFails
       ELSE LinkCode(FindBytecode(NextDep.name), NextDep.name) /\ UNCHANGED dest
    /\ UNCHANGED <<cached, linked, exec>>

\* __last is not linked: it is taken to be what was linked last
LinkLast ==
    /\ Depending /\ ~Loaded(LastName) /\ NextDep.name = LastName
    /\ exModules' = Registered(LastName, NextDep.code, last, exFunctions, globalVarSize)
    /\ linkStack' = Advanced
    /\ UNCHANGED <<cached, exFunctions, exTypes, globalVarSize, units, exRegVmCode,
                   expired, dest, exec>>

(***************************************************************************)
(* The unit: classes, globals, code, functions.                            *)
(***************************************************************************)
Bodied == Linking /\ ~Depending
Unit   == Len(units) + 1

\* a class that is defined twice must have the same size both times
Clashing == {t \in Types : /\ Top.code.types[t] > 0 /\ exTypes[t] > 0
                           /\ Top.code.types[t] # exTypes[t]}

WithTypes_kept(S) ==
    [t \in Types |-> IF t \in S /\ exTypes[t] = Absent THEN Top.code.types[t] ELSE exTypes[t]]
WithTypes(S) ==
    [t \in Types |-> IF t \in S /\ Top.code.types[t] > exTypes[t]
                     THEN Top.code.types[t] ELSE exTypes[t]]

\* functions of earlier units under the name of an own function
Older(k) ==
    {i \in DOMAIN exFunctions :
        Fn(exFunctions[i]).name = Own(Top.code)[k].name}

Redefined == {k \in DOMAIN Own(Top.code) : Own(Top.code)[k].kind = "plain" /\ Older(k) # {}}

\* a generic function that is there already is not added: the old one is, again
Added(k) ==
    IF Own(Top.code)[k].kind = "generic" /\ Older(k) # {}
    THEN exFunctions[CHOOSE i \in Older(k) : TRUE]
    ELSE [unit |-> Unit, k |-> k, body |-> [unit |-> Unit, k |-> k]]

WithFunctions_rebound(n) ==
    LET new == [k \in 1..n |-> [unit |-> Unit, k |-> k, body |-> [unit |-> Unit, k |-> k]]] IN
    [i \in DOMAIN exFunctions |->
        IF \E k \in 1..n : Own(Top.code)[k].kind = "generic" /\ i \in Older(k)
        THEN new[CHOOSE k \in 1..n : i \in Older(k)] ELSE exFunctions[i]] \o new
WithFunctions(n) == exFunctions \o [k \in 1..n |-> Added(k)]

\* funcRemap, and the global offsets of the modules, as the fixed code has them
FuncRemap(e) ==
    IF e.dep = 0 THEN Len(exFunctions) + e.k ELSE Module(Top.code.deps[e.dep].name).start + e.k

NewUnit(fixed) ==
    [code  |-> Top.code,
     start |-> exRegVmCode.count,
     first |-> Len(exFunctions),
     own   |-> globalVarSize,
     calls |-> [e \in Table(Top.code) |-> FuncRemap(e)],
     vars  |-> [d \in DOMAIN Top.code.deps |-> Module(Top.code.deps[d].name).vars],
     fixed |-> fixed]

\* the code may be executing: a buffer that is too small is kept
NewCount     == exRegVmCode.count + Len(Own(Top.code)) + 1
MayMove      == IF Running THEN BOOLEAN ELSE {FALSE}

AddCode_freed(moves) ==
    /\ exRegVmCode' = [count |-> NewCount, id |-> exRegVmCode.id + IF moves THEN 1 ELSE 0]
    /\ UNCHANGED expired
AddCode(moves) ==
    /\ exRegVmCode' = [count |-> NewCount, id |-> exRegVmCode.id + IF moves THEN 1 ELSE 0]
    /\ expired' = expired \union IF moves THEN {exRegVmCode} ELSE {}

LinkTypeClash ==
    /\ Bodied /\ Clashing # {}
    /\ \E S \in SUBSET (Types \ Clashing) : exTypes' = WithTypes(S)
    /\ LinkFails
    /\ UNCHANGED <<cached, exModules, exFunctions, globalVarSize, units, exRegVmCode,
                   expired, exec>>

AddUnit(fixed, functions) ==
    /\ exTypes' = WithTypes(Types)
    /\ globalVarSize' = globalVarSize + Size(Top.code)
    /\ units' = Append(units, NewUnit(fixed))
    /\ \E moves \in MayMove : AddCode(moves)
    /\ exFunctions' = functions

LinkRedefined ==
    /\ Bodied /\ Clashing = {} /\ Redefined # {}
    /\ AddUnit(FALSE, WithFunctions((CHOOSE k \in Redefined : \A j \in Redefined : k <= j) - 1))
    /\ LinkFails
    /\ UNCHANGED <<cached, exModules, exec>>

AllAdded == WithFunctions(Len(Own(Top.code)))

\* nullcRedirectFunction(dest, exFunctions.size() - 1)
Redirected(functions) ==
    IF dest = 0 THEN functions
    ELSE [functions EXCEPT ![dest].body = functions[Len(functions)].body]

\* LinkCode returns into the loop of the unit that imports this one
LinkModule ==
    /\ Bodied /\ Clashing = {} /\ Redefined = {} /\ Len(linkStack) > 1
    /\ AddUnit(TRUE, AllAdded)
    /\ LET importer == linkStack[Len(linkStack) - 1] IN
       /\ exModules' = Registered(Top.name, importer.code.deps[importer.next].code, Top.code,
                                  exFunctions', globalVarSize')
       /\ linkStack' = [Front(linkStack) EXCEPT ![Len(linkStack) - 1].next = @ + 1]
    /\ UNCHANGED <<cached, dest, exec>>

\* nullcLinkCode ends with UpdateInstructionPointer, override with a redirection
LinkProgram ==
    /\ Bodied /\ Clashing = {} /\ Redefined = {} /\ Len(linkStack) = 1
    /\ AddUnit(TRUE, Redirected(AllAdded))
    /\ linkStack' = <<>> /\ dest' = 0
    /\ codeBase' = IF Running THEN exRegVmCode'.id ELSE codeBase
    /\ UNCHANGED <<cached, exModules, frames>>
-----------------------------------------------------------------------------
(***************************************************************************)
(* Execution, as far as the linker matters to it: a function is entered at *)
(* its address in the buffer the VM runs in, and stays in that buffer.     *)
(***************************************************************************)
Enter(body, buffer) ==
    frames' = Append(frames, [id   |-> buffer,
                              pos  |-> units[body.unit].start + body.k,
                              unit |-> body.unit,
                              base |-> IF Running THEN frames[1].base ELSE globalVarSize])

Run(i) ==
    /\ ~Linking /\ Len(frames) < MaxDepth
    /\ Fn(exFunctions[i]).kind = "plain"
    /\ units[exFunctions[i].body.unit].fixed \/ "failed" \in Risks
    /\ codeBase' = exRegVmCode.id
    /\ Enter(exFunctions[i].body, exRegVmCode.id)
    /\ UNCHANGED <<cached, linked, link>>

Caller == units[frames[Len(frames)].unit]

Call(e) ==
    /\ ~Linking /\ Running /\ Len(frames) < MaxDepth
    /\ Enter(exFunctions[Caller.calls[e]].body, codeBase)
    /\ UNCHANGED <<cached, linked, link, codeBase>>

Return ==
    /\ ~Linking /\ Running
    /\ frames' = Front(frames)
    /\ codeBase' = IF Len(frames) = 1 THEN 0 ELSE codeBase
    /\ UNCHANGED <<cached, linked, link>>

LinkStep == LinkLoaded \/ LinkNested \/ LinkLast \/ LinkTypeClash \/ LinkRedefined
            \/ LinkModule \/ LinkProgram

Next ==
    \/ Clean
    \/ \E s \in Sources : LoadModuleBySource(s) \/ \E keep \in BOOLEAN : Build(s, keep)
    \/ \E n \in Names : RemoveModule(n)
    \/ \E c \in built : Link(c)
    \/ \E i \in DOMAIN exFunctions : Run(i)
    \/ \E e \in IF Running THEN DOMAIN Caller.calls ELSE {} :
           Call(e) \/ \E s \in Overriding : Override(Caller.calls[e], s)
    \/ LinkStep
    \/ Return

Spec == Init /\ [][Next]_vars
-----------------------------------------------------------------------------
\* every variable has its shape
TypeOK ==
    /\ \A m \in Range(cache) : m.name \in Names /\ m.code.src \in Sources
    /\ \A m \in Range(exModules) : m.name \in Names \union {LastName} /\ m.start \in Nat /\ m.vars \in Nat
    /\ \A f \in Range(exFunctions) : f.unit \in DOMAIN units /\ f.body.unit \in DOMAIN units
    /\ exTypes \in [Types -> Nat \union {Absent}]
    /\ globalVarSize \in Nat /\ dest \in 0..Len(exFunctions)
    /\ exRegVmCode.count \in Nat
    /\ IsInjective([i \in DOMAIN cache |-> cache[i].name])

(***************************************************************************)
(* The fixed code of a unit calls the functions it was compiled against:   *)
(* function k of a module is function k of a unit linked from the bytecode *)
(* that the compiler saw, or, if it is generic, an earlier one of that     *)
(* name.  (LinkCode, funcRemap)                                            *)
(***************************************************************************)
IsFunction(i, c, k) ==
    /\ i \in DOMAIN exFunctions
    /\ IF Own(c)[k].kind = "generic"
       THEN Fn(exFunctions[i]).name = Own(c)[k].name
       ELSE units[exFunctions[i].unit].code = c /\ exFunctions[i].k = k

CallsResolved ==
    \A u \in Range(units) : u.fixed =>
        \A e \in Table(u.code) : IsFunction(u.calls[e], Meant(u.code, e.dep), e.k)

(***************************************************************************)
(* It refers to the globals of the module it was compiled against, and no  *)
(* two units share globals.  (exModules.variableOffset)                    *)
(***************************************************************************)
GlobalsResolved ==
    /\ \A u \in Range(units) : u.fixed =>
        \A d \in DOMAIN u.vars :
            \E w \in Range(units) : w.code = u.code.deps[d].code /\ w.own = u.vars[d]
    /\ \A i, j \in DOMAIN units :
        i < j => units[i].own + Size(units[i].code) <= units[j].own

(***************************************************************************)
(* A class has one size in all units that define it.                       *)
(***************************************************************************)
TypesAgree ==
    \A u \in Range(units) : \A t \in Types :
        u.fixed /\ u.code.types[t] > 0 => exTypes[t] = u.code.types[t]

(***************************************************************************)
(* Of the functions that are neither generic nor local, no two linked ones *)
(* have one name.  The list may hold one of them twice: under the name of  *)
(* a generic function it is found again.                                   *)
(***************************************************************************)
NoRedefinition ==
    \A f, g \in Range(exFunctions) :
        Fn(f).kind = "plain" /\ Fn(g).kind = "plain" /\ Fn(f).name = Fn(g).name =>
            f.unit = g.unit /\ f.k = g.k

(***************************************************************************)
(* Every call and every global of linked code is the one that the compiler *)
(* meant.                                                                  *)
(***************************************************************************)
Resolved == CallsResolved /\ GlobalsResolved

(***************************************************************************)
(* What units define alike is one thing after the link: a class has one    *)
(* size, a function has one body.                                          *)
(***************************************************************************)
OneDefinition == TypesAgree /\ NoRedefinition

(***************************************************************************)
(* The code of functions that are active is fixed and has not been freed,  *)
(* and what they can call is in the buffer the VM runs in. (Linker.cpp,    *)
(* "Code might be executing at the moment")                                *)
(***************************************************************************)
Kept(id, pos) ==
    \/ id = exRegVmCode.id /\ pos < exRegVmCode.count
    \/ \E b \in expired : b.id = id /\ pos < b.count

CodeAlive ==
    \A f \in Range(frames) :
        /\ Kept(f.id, f.pos) /\ units[f.unit].fixed
        /\ ~Linking => \A i \in DOMAIN units[f.unit].calls :
               LET body == exFunctions[units[f.unit].calls[i]].body
               IN  Kept(codeBase, units[body.unit].start + body.k)

(***************************************************************************)
(* The collector and the debugger find what is active: a return address    *)
(* minus the start of the code is the address of a function, and frames    *)
(* begin behind the globals. (GetCallStackAddress, MarkUsedBlocks)         *)
(***************************************************************************)
FramesFound ==
    ~Linking => \A f \in Range(frames) : f.id = codeBase /\ f.base = globalVarSize

(***************************************************************************)
(* What is linked stays as it is: a link adds, also one that fails.  A     *)
(* class that was declared may become defined.  Override redirects the     *)
(* function it was asked for to the one it compiled, and no other.         *)
(***************************************************************************)
LinkAdds ==
    [][units' # <<>> =>
         /\ IsPrefix(units, units')
         /\ \A i \in DOMAIN exFunctions :
                /\ exFunctions'[i].unit = exFunctions[i].unit
                /\ exFunctions'[i].k = exFunctions[i].k
                /\ exFunctions'[i].body # exFunctions[i].body =>
                       /\ i = dest
                       /\ exFunctions'[i].body = [unit |-> Len(units'), k |-> 1]
         /\ \A t \in Types : exTypes[t] > 0 => exTypes'[t] = exTypes[t]]_vars
===============================================================================
