----------------------------- MODULE LinkerProof -----------------------------
(***************************************************************************)
(* Proofs about Linker, for any texts, any number of units and any depth   *)
(* of calls, with a host that takes the care the code leaves to it.        *)
(*                                                                         *)
(* Two things carry the proof.  What a bytecode was compiled against is    *)
(* what the cache has under that name, or the cache has nothing; and what  *)
(* the linker has under a name is where a unit of that bytecode is.  The   *)
(* links under way add: what is at the ends of the lists when a unit is    *)
(* linked is still there when its place is taken from the ends.            *)
(***************************************************************************)
EXTENDS Linker, TLAPS, SequenceTheorems, WellFoundedInduction

-------------------------------------------------------------------------------
(* The host takes the care that the code leaves to it, but for globals: a  *)
(* running program may link them.                                          *)

WithCare == Risks \subseteq {"globals"}

-------------------------------------------------------------------------------
(* Sequences whose elements are in no set that could be named: bytecodes   *)
(* hold bytecodes.                                                         *)

IsSeq(q) == q \in Seq(Range(q))

-------------------------------------------------------------------------------
(* The inductive invariant.                                                *)

SizeOrAbsent == Nat \union {Absent}
NamesOfCode(c) == {d.name : d \in Range(c.deps)}

GoodCode(c) ==
    /\ c.src \in Sources
    /\ IsSeq(c.deps)
    /\ \A d \in Range(c.deps) : d.code.src \in Sources /\ d.name \in Names \union {LastName}
    /\ c.types \in [Types -> SizeOrAbsent]

\* what is linked of the modules is what the cache has under their names
Current ==
    \A m \in Range(exModules) : m.name # LastName =>
        FindBytecode(m.name) = NoCode \/ From(m, FindBytecode(m.name))

Caches ==
    /\ IsSeq(cache)
    /\ IsInjective([i \in DOMAIN cache |-> cache[i].name])
    /\ \A m \in Range(cache) :
          m.name \in Names /\ GoodCode(m.code) /\ LastName \notin NamesOfCode(m.code)
    /\ \A c \in Held : c = NoCode \/ GoodCode(c)
    /\ \A c \in Held : Fits(c)
    /\ NoCode \notin built

Modules ==
    /\ IsSeq(exModules)
    /\ \A m \in Range(exModules) :
          /\ m.name \in Names \union {LastName}
          /\ \E u \in Range(units) : u.first = m.start /\ u.own = m.vars

Functions ==
    /\ IsSeq(exFunctions)
    /\ \A f \in Range(exFunctions) :
          /\ f = [unit |-> f.unit, k |-> f.k, body |-> f.body]
          /\ f.unit \in DOMAIN units /\ f.k \in DOMAIN Own(units[f.unit].code)
          /\ f.body.unit \in DOMAIN units
          /\ f.body.k \in DOMAIN Own(units[f.body.unit].code)

\* function k of a linked bytecode is the k-th from the first of its unit
Placed(u) == \A k \in DOMAIN Own(u.code) : IsFunction(u.first + k, u.code, k)

CodeEnd(u) == u.start + Len(Own(u.code))

Units ==
    /\ IsSeq(units)
    /\ \A u \in Range(units) :
          /\ GoodCode(u.code)
          /\ u.start \in Nat /\ u.first \in Nat /\ u.own \in Nat
          /\ DOMAIN u.calls = Table(u.code)
          /\ CodeEnd(u) < exRegVmCode.count
          /\ u.own + Size(u.code) <= globalVarSize
          /\ u.fixed => Placed(u)
    /\ \A i \in DOMAIN units : i < Len(units) => units[i].fixed

\* behind the last unit comes nothing
Ends ==
    units # <<>> => LET u == units[Len(units)] IN
        u.fixed => /\ u.first + Len(Own(u.code)) = Len(exFunctions)
                   /\ u.own + Size(u.code) = globalVarSize

Buffers ==
    /\ exRegVmCode \in [count : Nat, id : Nat]
    /\ \A b \in expired :
          b.id \in Nat /\ b.id < exRegVmCode.id /\ b.count \in Nat /\ b.count <= exRegVmCode.count

\* the links that are under way
LinkOf(l) ==
    /\ l = [code |-> l.code, name |-> l.name, next |-> l.next]
    /\ GoodCode(l.code) /\ Fits(l.code)
    /\ l.next \in 1..Len(l.code.deps) + 1
    /\ \A i \in DOMAIN l.code.deps : i < l.next => Loaded(l.code.deps[i].name)

Links ==
    /\ IsSeq(linkStack)
    /\ \A l \in Range(linkStack) : LinkOf(l)
    /\ \A j \in DOMAIN linkStack : j > 1 =>
          LET l == linkStack[j] IN
          LET up == linkStack[j - 1] IN
          /\ l.name \in Names /\ FindBytecode(l.name) = l.code
          /\ LastName \notin NamesOfCode(l.code)
          /\ up.next \in DOMAIN up.code.deps
          /\ up.code.deps[up.next].name = l.name /\ up.code.deps[up.next].code = l.code
    /\ Linking => ~Failed

\* "__last": known under that name already, or what was linked last
Lasts ==
    Linking =>
        LET c == linkStack[1].code IN
        \A i \in DOMAIN c.deps : c.deps[i].name = LastName =>
            /\ \A m \in Range(exModules) : m.name = LastName => From(m, c.deps[i].code)
            /\ ~Loaded(LastName) =>
                  /\ Len(linkStack) = 1
                  /\ units # <<>> /\ units[Len(units)].code = c.deps[i].code
                  /\ last = c.deps[i].code
                  /\ \A j \in Unlinked(c) : i <= j

Destination ==
    dest # 0 => Linking /\ linkStack[1].code.src \in Overriding /\ dest \in DOMAIN exFunctions

\* execution stays among the units whose code is in the buffer the VM runs in
Reached == {w \in DOMAIN units : Kept(codeBase, CodeEnd(units[w]))}

BodiesFixed ==
    \A u \in Range(units) : u.fixed =>
        \A e \in Table(u.code) : units[exFunctions[u.calls[e]].body.unit].fixed

Active ==
    /\ IsSeq(frames)
    /\ Running =>
        /\ codeBase \in Nat /\ codeBase <= exRegVmCode.id
        /\ \A f \in Range(frames) :
              f.unit \in Reached /\ units[f.unit].fixed /\ f.pos \in Nat /\ Kept(f.id, f.pos)
        /\ \A w \in Reached : units[w].fixed =>
              \A e \in Table(units[w].code) :
                  exFunctions[units[w].calls[e]].body.unit \in Reached

Numbers == exTypes \in [Types -> SizeOrAbsent] /\ globalVarSize \in Nat /\ dest \in Nat

IInv ==
    /\ Current /\ Caches /\ Modules /\ Functions /\ Units /\ Ends /\ Buffers
    /\ Links /\ Lasts /\ Destination /\ BodiesFixed /\ Active /\ Numbers
    /\ Resolved /\ OneDefinition
-------------------------------------------------------------------------------
(* Sequences.                                                              *)

LEMMA SeqFacts ==
    ASSUME NEW q, IsSeq(q)
    PROVE  /\ Len(q) \in Nat /\ DOMAIN q = 1..Len(q)
           /\ \A i \in DOMAIN q : q[i] \in Range(q)
           /\ \A x \in Range(q) : \E i \in DOMAIN q : q[i] = x
           /\ q # <<>> <=> Len(q) # 0
<1>1. q \in Seq(Range(q))
  BY DEF IsSeq
<1> HIDE DEF IsSeq
<1>2. Len(q) \in Nat /\ DOMAIN q = 1..Len(q)
  BY <1>1
<1>3. q # <<>> <=> Len(q) # 0
  BY <1>1, EmptySeq
<1> QED
  BY <1>2, <1>3 DEF Range

LEMMA SeqMember ==
    ASSUME NEW S, NEW q \in Seq(S)
    PROVE  IsSeq(q) /\ Range(q) \subseteq S
<1>1. Len(q) \in Nat /\ DOMAIN q = 1..Len(q) /\ \A i \in 1..Len(q) : q[i] \in S
  OBVIOUS
<1>2. q \in [1..Len(q) -> Range(q)]
  <2>1. q = [i \in 1..Len(q) |-> q[i]]
    BY <1>1
  <2>2. \A i \in 1..Len(q) : q[i] \in Range(q)
    BY <1>1 DEF Range
  <2> QED
    BY <2>1, <2>2, Zenon
<1>3. q \in Seq(Range(q))
  BY <1>1, <1>2, SeqDef
<1>4. Range(q) \subseteq S
  BY <1>1 DEF Range
<1> QED
  BY <1>3, <1>4 DEF IsSeq

LEMMA TableSeq ==
    ASSUME NEW n \in Nat, NEW q, q = [i \in 1..n |-> q[i]]
    PROVE  IsSeq(q) /\ Len(q) = n
<1>1. DOMAIN q = 1..n
  OBVIOUS
<1>2. q \in [1..n -> Range(q)]
  <2>1. \A i \in 1..n : q[i] \in Range(q)
    BY <1>1 DEF Range
  <2> QED
    BY <2>1, Zenon
<1>3. q \in Seq(Range(q))
  BY <1>2, SeqDef
<1>4. Len(q) = n
  BY <1>1, <1>3
<1> QED
  BY <1>3, <1>4 DEF IsSeq

LEMMA EmptyIsSeq == IsSeq(<<>>) /\ Len(<<>>) = 0 /\ Range(<<>>) = {}
<1>1. <<>> \in Seq({}) /\ Len(<<>>) = 0
  OBVIOUS
<1> DEFINE S == {}
           q == <<>>
<1>2. q \in Seq(S)
  BY <1>1
<1>3. IsSeq(q) /\ Range(q) \subseteq S
  <2> HIDE DEF S, q
  <2> QED
    BY <1>2, SeqMember
<1> QED
  BY <1>1, <1>3

LEMMA AppendSeq ==
    ASSUME NEW q, NEW x, IsSeq(q)
    PROVE  /\ IsSeq(Append(q, x)) /\ Len(Append(q, x)) = Len(q) + 1
           /\ \A i \in DOMAIN q : i \in DOMAIN Append(q, x) /\ Append(q, x)[i] = q[i]
           /\ Append(q, x)[Len(q) + 1] = x
           /\ Range(Append(q, x)) = Range(q) \union {x}
<1> DEFINE r == Append(q, x)
           S == Range(q) \union {x}
<1>1. q \in Seq(S)
  <2>1. q \in Seq(Range(q))
    BY DEF IsSeq
  <2> QED
    BY <2>1, SeqDef
<1>2. r \in Seq(S) /\ Len(r) = Len(q) + 1 /\ DOMAIN q = 1..Len(q) /\ Len(q) \in Nat
  BY <1>1
<1>3. \A i \in 1..Len(q) : r[i] = q[i]
  BY <1>1
<1>4. r[Len(q) + 1] = x
  BY <1>1
<1>5. Range(r) \subseteq S /\ IsSeq(r)
  <2> HIDE DEF r, S
  <2> QED
    BY <1>2, SeqMember
<1>6. S \subseteq Range(r)
  <2>1. DOMAIN r = 1..Len(q) + 1
    BY <1>2
  <2> QED
    BY <1>2, <1>3, <1>4, <2>1 DEF Range
<1>7. \A i \in DOMAIN q : i \in DOMAIN r
  BY <1>2
<1> QED
  BY <1>2, <1>3, <1>4, <1>5, <1>6, <1>7

One(x) == Append(<<>>, x)

LEMMA OneSeq ==
    ASSUME NEW x
    PROVE  /\ IsSeq(One(x)) /\ Len(One(x)) = 1 /\ One(x)[1] = x /\ Range(One(x)) = {x}
           /\ DOMAIN One(x) = {1} /\ One(x) # <<>>
<1> DEFINE e == <<>>
           q == Append(e, x)
<1>1. IsSeq(e) /\ Len(e) = 0 /\ Range(e) = {}
  BY EmptyIsSeq
<1> HIDE DEF e
<1>2. IsSeq(q) /\ Len(q) = Len(e) + 1 /\ q[Len(e) + 1] = x /\ Range(q) = Range(e) \union {x}
  BY <1>1, AppendSeq
<1> HIDE DEF q
<1>3. Len(q) = 1 /\ q[1] = x /\ Range(q) = {x}
  BY <1>1, <1>2
<1>4. DOMAIN q = 1..Len(q) /\ (q # <<>> <=> Len(q) # 0)
  BY <1>2, SeqFacts
<1>5. 1..1 = {1} /\ 1 # 0
  OBVIOUS
<1>6. DOMAIN q = {1} /\ q # <<>>
  BY <1>3, <1>4, <1>5, Zenon
<1> QED
  BY <1>2, <1>3, <1>6 DEF q, e, One

LEMMA FrontSeq ==
    ASSUME NEW q, IsSeq(q), q # <<>>
    PROVE  /\ IsSeq(Front(q)) /\ Len(Front(q)) = Len(q) - 1
           /\ \A i \in 1..Len(q) - 1 : Front(q)[i] = q[i]
           /\ Range(Front(q)) \subseteq Range(q)
<1> DEFINE S == Range(q)
<1>1. q \in Seq(S) /\ Len(q) \in Nat /\ Len(q) # 0
  BY SeqFacts DEF IsSeq
<1>2. Front(q) = SubSeq(q, 1, Len(q) - 1)
  BY DEF Front
<1> HIDE DEF S
<1>3. Front(q) \in Seq(S) /\ Len(Front(q)) = Len(q) - 1
  <2> DEFINE n == Len(q) - 1
  <2>1. n \in Int /\ n >= 0 /\ \A i \in 1..n : q[i] \in S
    BY <1>1
  <2> HIDE DEF n
  <2>2. SubSeq(q, 1, n) \in Seq(S) /\ Len(SubSeq(q, 1, n)) = IF 1 <= n THEN n - 1 + 1 ELSE 0
    BY <2>1, SubSeqProperties
  <2>3. Len(SubSeq(q, 1, n)) = n
    BY <2>1, <2>2
  <2> QED
    BY <2>2, <2>3, <1>2 DEF n
<1>4. \A i \in 1..Len(q) - 1 : Front(q)[i] = q[i]
  BY <1>1, <1>2
<1>5. IsSeq(Front(q)) /\ Range(Front(q)) \subseteq S
  BY <1>3, SeqMember
<1> QED
  BY <1>3, <1>4, <1>5 DEF S

LEMMA ConcatSeq ==
    ASSUME NEW q, NEW r, IsSeq(q), IsSeq(r)
    PROVE  /\ IsSeq(q \o r) /\ Len(q \o r) = Len(q) + Len(r)
           /\ \A i \in DOMAIN q : i \in DOMAIN (q \o r) /\ (q \o r)[i] = q[i]
           /\ \A i \in DOMAIN r :
                 Len(q) + i \in DOMAIN (q \o r) /\ (q \o r)[Len(q) + i] = r[i]
<1> DEFINE S == Range(q) \union Range(r)
<1>1. q \in Seq(S) /\ r \in Seq(S)
  <2>1. q \in Seq(Range(q)) /\ r \in Seq(Range(r))
    BY DEF IsSeq
  <2> QED
    BY <2>1, SeqDef
<1>2. /\ Len(q) \in Nat /\ Len(r) \in Nat /\ DOMAIN q = 1..Len(q) /\ DOMAIN r = 1..Len(r)
  BY <1>1
<1>3. q \o r \in Seq(S) /\ Len(q \o r) = Len(q) + Len(r)
  BY <1>1
<1>4. DOMAIN (q \o r) = 1..Len(q) + Len(r)
  BY <1>3
<1>5. \A i \in 1..Len(q) : (q \o r)[i] = q[i]
  BY <1>1, <1>2
<1>6. \A i \in 1..Len(r) : (q \o r)[Len(q) + i] = r[i]
  BY <1>1, <1>2
<1>7. IsSeq(q \o r)
  <2> HIDE DEF S
  <2> QED
    BY <1>3, SeqMember
<1>8. \A i \in DOMAIN r : Len(q) + i \in DOMAIN (q \o r)
  BY <1>2, <1>4
<1>9. \A i \in DOMAIN q : i \in DOMAIN (q \o r)
  BY <1>2, <1>4
<1> QED
  BY <1>2, <1>3, <1>5, <1>6, <1>7, <1>8, <1>9

LEMMA ChangedSeq ==
    ASSUME NEW q, IsSeq(q), NEW i \in DOMAIN q, NEW x
    PROVE  /\ IsSeq([q EXCEPT ![i] = x]) /\ Len([q EXCEPT ![i] = x]) = Len(q)
           /\ DOMAIN [q EXCEPT ![i] = x] = DOMAIN q
           /\ [q EXCEPT ![i] = x][i] = x
           /\ \A j \in DOMAIN q : j # i => [q EXCEPT ![i] = x][j] = q[j]
<1> DEFINE r == [q EXCEPT ![i] = x]
<1>1. Len(q) \in Nat /\ DOMAIN q = 1..Len(q)
  BY SeqFacts
<1>2. r = [j \in 1..Len(q) |-> r[j]]
  BY <1>1
<1>3. IsSeq(r) /\ Len(r) = Len(q)
  <2> HIDE DEF r
  <2> QED
    BY <1>1, <1>2, TableSeq
<1> QED
  BY <1>1, <1>3

LEMMA PrefixOf ==
    ASSUME NEW q, NEW r, IsSeq(q), IsSeq(r), Len(q) <= Len(r),
           \A i \in DOMAIN q : r[i] = q[i]
    PROVE  IsPrefix(q, r)
<1> DEFINE S == Range(q) \union Range(r)
<1>1. q \in Seq(S) /\ r \in Seq(S)
  <2>1. q \in Seq(Range(q)) /\ r \in Seq(Range(r))
    BY DEF IsSeq
  <2> QED
    BY <2>1, SeqDef
<1> DEFINE a == SubSeq(q, 1, Len(q))
           b == SubSeq(r, 1, Len(q))
<1>2. a \in Seq(S) /\ Len(a) = Len(q) /\ \A i \in 1..Len(q) : a[i] = q[i]
  BY <1>1
<1>3. b \in Seq(S) /\ Len(b) = Len(q) /\ \A i \in 1..Len(q) : b[i] = r[i]
  BY <1>1
<1>4. DOMAIN q = 1..Len(q)
  BY <1>1
<1>5. \A i \in 1..Len(a) : a[i] = b[i]
  BY <1>2, <1>3, <1>4
<1>6. a = b
  <2> HIDE DEF a, b
  <2> QED
    BY <1>2, <1>3, <1>5, SeqEqual
<1> QED
  BY <1>6 DEF IsPrefix

-------------------------------------------------------------------------------
(* Recursive functions on an initial segment of the naturals.              *)

LEMMA SetInduction ==
    ASSUME NEW X, 0 \in X, \A n \in Nat : n \in X => n + 1 \in X
    PROVE  Nat \subseteq X
<1> DEFINE Rest == Nat \ X
<1> SUFFICES ASSUME Rest # {} PROVE FALSE
  OBVIOUS
<1>1. PICK m \in Rest : \A x \in Rest : ~(<<x, m>> \in OpToRel(<, Nat))
  BY NatLessThanWellFounded, WFMin
<1>2. m \in Nat /\ m # 0 /\ m - 1 \in Nat /\ m - 1 < m /\ (m - 1) + 1 = m
  <2>1. m \in Nat /\ m # 0
    OBVIOUS
  <2> QED
    BY <2>1
<1>3. m - 1 \notin Rest
  <2>1. SUFFICES ASSUME m - 1 \in Rest PROVE FALSE
    OBVIOUS
  <2>2. <<m - 1, m>> \in OpToRel(<, Nat)
    BY <1>2 DEF OpToRel
  <2> QED
    BY <1>1, <2>1, <2>2
<1> QED
  BY <1>2, <1>3

\* what holds at 0 and from one index to the next holds up to N
LEMMA UpTo ==
    ASSUME NEW N \in Nat, NEW X, 0 \in X, \A i \in 1..N : i - 1 \in X => i \in X
    PROVE  \A i \in 0..N : i \in X
<1> DEFINE Y == {n \in Nat : n <= N => n \in X}
<1>1. 0 \in Y
  OBVIOUS
<1>2. ASSUME NEW n \in Nat, n \in Y PROVE n + 1 \in Y
  <2>1. ASSUME n + 1 <= N PROVE n + 1 \in X
    <3>1. n + 1 \in 1..N /\ (n + 1) - 1 = n /\ n <= N
      BY <2>1
    <3>2. n \in X
      BY <1>2, <3>1
    <3> QED
      BY <3>1, <3>2
  <2> QED
    BY <2>1
<1> HIDE DEF Y
<1>3. Nat \subseteq Y
  BY <1>1, <1>2, SetInduction
<1> QED
  BY <1>3 DEF Y

\* F[x][i] is the i-th value when the one before it is x
Follows(f, b, F, N) == f[0] = b /\ \A i \in 1..N : f[i] = F[f[i - 1]][i]

LEMMA Recursion ==
    ASSUME NEW S, NEW b \in S, NEW N \in Nat, NEW F,
           \A x \in S : \A i \in 1..N : F[x][i] \in S
    PROVE  \E f \in [0..N -> S] : Follows(f, b, F, N)
<1> DEFINE X == {n \in 0..N : \E f \in [0..n -> S] : Follows(f, b, F, n)}
<1>1. 0 \in X
  <2> DEFINE g == [i \in 0..0 |-> b]
  <2>1. g \in [0..0 -> S] /\ g[0] = b
    OBVIOUS
  <2>2. \A i \in 1..0 : FALSE
    OBVIOUS
  <2>3. Follows(g, b, F, 0)
    BY <2>1, <2>2 DEF Follows
  <2> QED
    BY <2>1, <2>3
<1>2. ASSUME NEW i \in 1..N, i - 1 \in X PROVE i \in X
  <2> DEFINE n == i - 1
  <2>0. n \in Nat /\ i = n + 1 /\ n \in 0..n /\ i \notin 0..n /\ i \in 0..i /\ 0 \in 0..n
    OBVIOUS
  <2>1. PICK f \in [0..n -> S] : Follows(f, b, F, n)
    BY <1>2
  <2> HIDE DEF n
  <2> DEFINE g == [j \in 0..i |-> IF j = i THEN F[f[n]][i] ELSE f[j]]
  <2>2. F[f[n]][i] \in S /\ g \in [0..i -> S]
    BY <2>0
  <2>3. g[i] = F[f[n]][i] /\ \A j \in 0..n : g[j] = f[j]
    BY <2>0
  <2> HIDE DEF g
  <2>4. ASSUME NEW j \in 1..i PROVE g[j] = F[g[j - 1]][j]
    <3>1. j - 1 \in 0..n
      BY <2>0
    <3>2. g[j - 1] = f[j - 1]
      BY <2>3, <3>1
    <3>3. CASE j = i
      <4>1. j - 1 = n
        BY <3>3, <2>0
      <4> QED
        BY <2>3, <3>2, <3>3, <4>1
    <3>4. CASE j # i
      <4>1. j \in 1..n /\ j \in 0..n
        BY <3>4, <2>0
      <4>2. f[j] = F[f[j - 1]][j]
        BY <2>1, <4>1 DEF Follows
      <4> QED
        BY <2>3, <3>2, <4>1, <4>2
    <3> QED
      BY <3>3, <3>4
  <2>5. g[0] = b
    BY <2>0, <2>1, <2>3 DEF Follows
  <2>6. Follows(g, b, F, i)
    BY <2>4, <2>5 DEF Follows
  <2>7. i \in 0..N
    OBVIOUS
  <2> QED
    BY <2>2, <2>6, <2>7
<1> HIDE DEF X
<1>3. N \in 0..N
  OBVIOUS
<1>4. N \in X
  BY <1>1, <1>2, <1>3, UpTo
<1> QED
  BY <1>4 DEF X

LEMMA FlattenIn ==
    ASSUME NEW T, NEW s \in Seq(Seq(T))
    PROVE  FlattenSeq(s) \in Seq(T)
<1> DEFINE N == Len(s)
<1>1. N \in Nat /\ \A i \in 1..N : s[i] \in Seq(T)
  OBVIOUS
<1>2. CASE N = 0
  <2>1. s = <<>>
    BY <1>2, EmptySeq
  <2>2. FlattenSeq(s) = <<>>
    BY <2>1, <1>2 DEF FlattenSeq
  <2> QED
    BY <2>2
<1>3. CASE N # 0
  <2> DEFINE Is(g) == g = [i \in 1..N |-> IF i = 1 THEN s[i] ELSE g[i - 1] \o s[i]]
             g == CHOOSE g : Is(g)
             S == Seq(T)
             F == [x \in S |-> [i \in 1..N |-> IF i = 1 THEN s[i] ELSE x \o s[i]]]
  <2>1. FlattenSeq(s) = g[N]
    BY <1>3 DEF FlattenSeq
  <2>2. \E h : Is(h)
    <3>1. <<>> \in S /\ \A x \in S : \A i \in 1..N : F[x][i] \in S
      BY <1>1
    <3>2. PICK f \in [0..N -> S] : Follows(f, <<>>, F, N)
      <4> HIDE DEF F, S, N
      <4> QED
        BY <1>1, <3>1, Recursion
    <3>3. ASSUME NEW i \in 1..N PROVE f[i] = IF i = 1 THEN s[i] ELSE f[i - 1] \o s[i]
      <4>1. i - 1 \in 0..N
        BY <1>1
      <4>2. f[i - 1] \in S
        BY <4>1
      <4>3. f[i] = F[f[i - 1]][i]
        BY <3>2 DEF Follows
      <4>4. F[f[i - 1]][i] = IF i = 1 THEN s[i] ELSE f[i - 1] \o s[i]
        BY <4>2
      <4> QED
        BY <4>3, <4>4, Zenon
    <3> DEFINE h == [i \in 1..N |-> f[i]]
    <3>4. ASSUME NEW i \in 1..N PROVE h[i] = IF i = 1 THEN s[i] ELSE h[i - 1] \o s[i]
      <4>1. i # 1 => i - 1 \in 1..N
        BY <1>1
      <4> QED
        BY <3>3, <4>1
    <3>5. Is(h)
      BY <3>4
    <3> QED
      BY <3>5, Zenon
  <2>3. Is(g)
    BY <2>2, Zenon
  <2>4. \A i \in 1..N : g[i] = IF i = 1 THEN s[i] ELSE g[i - 1] \o s[i]
    <3> HIDE DEF g
    <3> QED
      BY <2>3
  <2> HIDE DEF g
  <2> DEFINE X == {i \in 0..N : i # 0 => g[i] \in Seq(T)}
  <2>5. 0 \in X
    BY <1>1
  <2>6. ASSUME NEW i \in 1..N, i - 1 \in X PROVE i \in X
    <3>1. CASE i = 1
      BY <3>1, <1>1, <2>4
    <3>2. CASE i # 1
      <4>1. i - 1 # 0 /\ g[i - 1] \in Seq(T)
        BY <2>6, <3>2
      <4>2. g[i] = g[i - 1] \o s[i]
        BY <2>4, <3>2
      <4>3. g[i] \in Seq(T)
        BY <4>1, <4>2, <1>1
      <4> QED
        BY <4>3
    <3> QED
      BY <3>1, <3>2
  <2> HIDE DEF X
  <2>7. N \in X
    <3> HIDE DEF N
    <3>1. N \in Nat /\ N \in 0..N
      BY <1>1
    <3>2. \A i \in 0..N : i \in X
      BY <2>5, <2>6, <3>1, UpTo
    <3> QED
      BY <3>1, <3>2
  <2> QED
    BY <2>1, <2>7, <1>3 DEF X
<1> QED
  BY <1>2, <1>3

-------------------------------------------------------------------------------
(* Texts and bytecodes.                                                    *)

LEMMA TextFacts ==
    ASSUME NEW s \in Sources
    PROVE  /\ IsSeq(Texts[s].imports) /\ IsSeq(Texts[s].funcs)
           /\ Range(Texts[s].imports) \subseteq Names \union {LastName}
           /\ \A k \in DOMAIN Texts[s].funcs : Texts[s].funcs[k] \in Funcs
           /\ \A j, k \in DOMAIN Texts[s].funcs :
                 Texts[s].funcs[j] = Texts[s].funcs[k] /\ Texts[s].funcs[k].kind = "plain" => j = k
           /\ Texts[s].vars \in Nat /\ Texts[s].types \in [Types -> SizeOrAbsent]
           /\ s # "none"
<1>1. Texts[s].imports \in Seq(Names \union {LastName}) /\ Texts[s].funcs \in Seq(Funcs)
  BY LinkerAssumption
<1>2. /\ IsSeq(Texts[s].imports) /\ IsSeq(Texts[s].funcs)
      /\ Range(Texts[s].imports) \subseteq Names \union {LastName}
  <2>1. /\ IsSeq(Texts[s].imports)
        /\ Range(Texts[s].imports) \subseteq Names \union {LastName}
    BY <1>1, SeqMember
  <2>2. IsSeq(Texts[s].funcs)
    BY <1>1, SeqMember
  <2> QED
    BY <2>1, <2>2
<1>3. \A k \in DOMAIN Texts[s].funcs : Texts[s].funcs[k] \in Funcs
  BY <1>1
<1>4. /\ \A j, k \in DOMAIN Texts[s].funcs :
           Texts[s].funcs[j] = Texts[s].funcs[k] /\ Texts[s].funcs[k].kind = "plain" => j = k
      /\ Texts[s].vars \in Nat /\ Texts[s].types \in [Types -> SizeOrAbsent]
      /\ s # "none"
  BY LinkerAssumption DEF SizeOrAbsent
<1> QED
  BY <1>2, <1>3, <1>4

\* the functions of a bytecode
LEMMA OwnFacts ==
    ASSUME NEW c, c.src \in Sources
    PROVE  /\ Len(Own(c)) \in Nat /\ DOMAIN Own(c) = 1..Len(Own(c)) /\ IsSeq(Own(c))
           /\ Size(c) \in Nat
           /\ \A k \in DOMAIN Own(c) : Own(c)[k] \in Funcs
           /\ \A j, k \in DOMAIN Own(c) :
                 Own(c)[j] = Own(c)[k] /\ Own(c)[k].kind = "plain" => j = k
<1>1. Own(c) = Texts[c.src].funcs /\ Size(c) = Texts[c.src].vars
  BY DEF Own, Size
<1>2. IsSeq(Own(c))
  BY <1>1, TextFacts
<1>3. Len(Own(c)) \in Nat /\ DOMAIN Own(c) = 1..Len(Own(c))
  BY <1>2, SeqFacts
<1> QED
  BY <1>1, <1>2, <1>3, TextFacts

\* NoCode depends on nothing
LEMMA NoCodeFacts ==
    /\ IsSeq(NoCode.deps) /\ NamesOfCode(NoCode) = {} /\ Range(NoCode.deps) = {}
    /\ \A c : c.src \in Sources => c # NoCode
<1>1. NoCode.deps = <<>> /\ NoCode.src = "none"
  BY DEF NoCode
<1>2. IsSeq(NoCode.deps) /\ Range(NoCode.deps) = {}
  BY <1>1, EmptyIsSeq
<1>3. NamesOfCode(NoCode) = {}
  BY <1>2 DEF NamesOfCode
<1>4. "none" \notin Sources
  BY LinkerAssumption
<1> QED
  BY <1>1, <1>2, <1>3, <1>4

-------------------------------------------------------------------------------
(* Looking up a name.                                                      *)

Entry(E)   == IF E = {} THEN NoCode ELSE (CHOOSE m \in E : TRUE).code
Find(q, n) == Entry({m \in Range(q) : m.name = n})
Distinct(q) == IsInjective([i \in DOMAIN q |-> q[i].name])

LEMMA FindOut ==
    ASSUME NEW q, NEW n, \A m \in Range(q) : m.name # n
    PROVE  Find(q, n) = NoCode
BY DEF Find, Entry

LEMMA FindIn ==
    ASSUME NEW q, IsSeq(q), Distinct(q), NEW m \in Range(q)
    PROVE  Find(q, m.name) = m.code
<1> DEFINE entries == {x \in Range(q) : x.name = m.name}
<1>1. m \in entries
  OBVIOUS
<1>2. ASSUME NEW x \in entries PROVE x = m
  <2>1. PICK i \in DOMAIN q : q[i] = x
    BY SeqFacts
  <2>2. PICK j \in DOMAIN q : q[j] = m
    BY SeqFacts
  <2>3. q[i].name = q[j].name
    BY <2>1, <2>2
  <2>4. i = j
    BY <2>3 DEF Distinct, IsInjective
  <2> QED
    BY <2>1, <2>2, <2>4
<1>3. (CHOOSE x \in entries : TRUE) = m
  <2> HIDE DEF entries
  <2> QED
    BY <1>1, <1>2
<1> QED
  BY <1>1, <1>3 DEF Find, Entry

LEMMA FindAny ==
    ASSUME NEW q, NEW n
    PROVE  Find(q, n) = NoCode \/ \E m \in Range(q) : m.name = n /\ Find(q, n) = m.code
<1> DEFINE entries == {x \in Range(q) : x.name = n}
<1>1. CASE entries = {}
  BY <1>1 DEF Find, Entry
<1>2. CASE entries # {}
  <2>1. (CHOOSE x \in entries : TRUE) \in entries
    BY <1>2
  <2> QED
    BY <1>2, <2>1 DEF Find, Entry
<1> QED
  BY <1>1, <1>2

LEMMA FindFacts ==
    ASSUME NEW n
    PROVE  /\ n # LastName => FindBytecode(n) = Find(cache, n)
           /\ FindBytecode(LastName) = last
           /\ FindBytecode(n) = NoCode \/ FindBytecode(n) \in Held
<1>1. n # LastName => FindBytecode(n) = Find(cache, n)
  BY DEF FindBytecode, Find, Entry
<1>2. FindBytecode(LastName) = last
  BY DEF FindBytecode
<1>3. FindBytecode(n) = NoCode \/ FindBytecode(n) \in Held
  <2>1. CASE n = LastName
    BY <1>2, <2>1 DEF Held
  <2>2. CASE n # LastName
    BY <1>1, <2>2, FindAny DEF Held
  <2> QED
    BY <2>1, <2>2
<1> QED
  BY <1>1, <1>2, <1>3

\* what is found under the name of a module is a module
LEMMA FoundModule ==
    ASSUME Caches, NEW n, n # LastName, FindBytecode(n) # NoCode
    PROVE  LET c == FindBytecode(n) IN
           n \in Names /\ GoodCode(c) /\ Fits(c) /\ LastName \notin NamesOfCode(c) /\ c \in Held
<1>1. PICK m \in Range(cache) : m.name = n /\ FindBytecode(n) = m.code
  BY FindFacts, FindAny
<1>2. m.code \in Held
  BY DEF Held
<1> QED
  BY <1>1, <1>2 DEF Caches

-------------------------------------------------------------------------------
(* Compiling.                                                              *)

\* every dependency is what the cache has under its name
DepsOf(deps, T) == IsSeq(deps) /\ \A d \in Range(deps) : d = Dep(d.name) /\ d.name \in T

LEMMA AddDepFacts ==
    ASSUME NEW T, NEW deps, DepsOf(deps, T), NEW n \in T
    PROVE  DepsOf(AddDep(deps, n), T)
<1>1. CASE AddDep(deps, n) = deps
  BY <1>1
<1>2. CASE AddDep(deps, n) = Append(deps, Dep(n))
  <2>1. Dep(n).name = n
    BY DEF Dep
  <2>2. IsSeq(Append(deps, Dep(n))) /\ Range(Append(deps, Dep(n))) = Range(deps) \union {Dep(n)}
    BY AppendSeq DEF DepsOf
  <2> QED
    BY <1>2, <2>1, <2>2 DEF DepsOf
<1> QED
  BY <1>1, <1>2 DEF AddDep

LEMMA DepsFacts ==
    ASSUME NEW s \in Sources, NEW T, Range(Texts[s].imports) \subseteq T,
           \A n \in T : IsSeq(FindBytecode(n).deps) /\ NamesOfCode(FindBytecode(n)) \subseteq T
    PROVE  DepsOf(Deps(s), T)
<1> DEFINE imports == Texts[s].imports
           direct  == [i \in DOMAIN imports |-> Dep(imports[i])]
           names   == NamesBelow(direct)
           N       == Len(names)
           Is(w)   == w = [n \in 0..N |-> IF n = 0 THEN direct ELSE AddDep(w[n - 1], names[n])]
           with    == CHOOSE w : Is(w)
<1>1. Deps(s) = with[N]
  BY DEF Deps
<1>2. IsSeq(imports) /\ DOMAIN imports = 1..Len(imports) /\ Len(imports) \in Nat
  BY TextFacts, SeqFacts
<1>3. IsSeq(direct) /\ DOMAIN direct = 1..Len(imports) /\ Len(direct) = Len(imports)
  <2>1. direct = [i \in 1..Len(imports) |-> direct[i]] /\ DOMAIN direct = 1..Len(imports)
    BY <1>2
  <2> HIDE DEF direct
  <2> QED
    BY <1>2, <2>1, TableSeq
<1>4. \A i \in DOMAIN imports : direct[i] = Dep(imports[i]) /\ imports[i] \in T
  BY <1>2, SeqFacts
<1>5. DepsOf(direct, T)
  <2> SUFFICES ASSUME NEW d \in Range(direct) PROVE d = Dep(d.name) /\ d.name \in T
    BY <1>3 DEF DepsOf
  <2>1. PICK i \in 1..Len(imports) : d = direct[i]
    BY <1>3 DEF Range
  <2>2. d = Dep(imports[i]) /\ imports[i] \in T
    BY <1>2, <1>4, <2>1
  <2> QED
    BY <2>2 DEF Dep
<1>6. names \in Seq(T)
  <2> DEFINE lists == [i \in DOMAIN direct |-> NamesOf(direct[i].code.deps)]
  <2>1. ASSUME NEW i \in DOMAIN direct PROVE NamesOf(direct[i].code.deps) \in Seq(T)
    <3> DEFINE deps == direct[i].code.deps
               list == NamesOf(deps)
    <3>1. direct[i] = Dep(imports[i]) /\ imports[i] \in T
      BY <1>2, <1>3, <1>4
    <3>2. deps = FindBytecode(imports[i]).deps
      BY <3>1 DEF Dep
    <3>3. IsSeq(deps) /\ \A d \in Range(deps) : d.name \in T
      BY <3>1, <3>2 DEF NamesOfCode
    <3> HIDE DEF deps
    <3>4. Len(deps) \in Nat /\ DOMAIN deps = 1..Len(deps)
      BY <3>3, SeqFacts
    <3>5. list = [j \in 1..Len(deps) |-> deps[j].name]
      BY <3>4 DEF NamesOf
    <3>6. \A j \in 1..Len(deps) : deps[j].name \in T
      BY <3>3, <3>4, SeqFacts
    <3>7. list \in [1..Len(deps) -> T]
      BY <3>5, <3>6
    <3>8. list \in Seq(T)
      BY <3>4, <3>7, SeqDef
    <3> QED
      BY <3>8 DEF deps
  <2> DEFINE S == Seq(T)
  <2>2. lists \in Seq(S)
    <3>1. lists \in [1..Len(imports) -> S]
      BY <1>3, <2>1
    <3> HIDE DEF lists, S
    <3> QED
      BY <1>2, <3>1, SeqDef
  <2>3. FlattenSeq(lists) \in Seq(T)
    BY <2>2, FlattenIn
  <2> QED
    BY <2>3 DEF NamesBelow
<1>7. N \in Nat /\ \A i \in 1..N : names[i] \in T
  BY <1>6
<1> HIDE DEF direct, names
<1>8. \E w : Is(w)

  <2> DEFINE X == {n \in 0..N :
               \E w : w = [j \in 0..n |-> IF j = 0 THEN direct ELSE AddDep(w[j - 1], names[j])]}
  <2>1. 0 \in X
    <3> DEFINE g == [j \in 0..0 |-> direct]
    <3>1. \A j \in 0..0 : g[j] = IF j = 0 THEN direct ELSE AddDep(g[j - 1], names[j])
      OBVIOUS
    <3>2. g = [j \in 0..0 |-> IF j = 0 THEN direct ELSE AddDep(g[j - 1], names[j])]
      BY <3>1
    <3> HIDE DEF g
    <3>3. \E w : w = [j \in 0..0 |-> IF j = 0 THEN direct ELSE AddDep(w[j - 1], names[j])]
      BY <3>2, Zenon
    <3>4. 0 \in 0..N
      BY <1>7
    <3> QED
      BY <3>3, <3>4
  <2>2. ASSUME NEW i \in 1..N, i - 1 \in X PROVE i \in X
    <3> DEFINE n == i - 1
    <3>0. n \in Nat /\ i = n + 1 /\ n \in 0..n /\ i \notin 0..n /\ i \in 0..i /\ 0 \in 0..n
          /\ i # 0 /\ i \in 0..N
      BY <1>7
    <3>1. PICK f : f = [j \in 0..n |-> IF j = 0 THEN direct ELSE AddDep(f[j - 1], names[j])]
      BY <2>2
    <3> HIDE DEF n
    <3>2. \A j \in 0..n : f[j] = IF j = 0 THEN direct ELSE AddDep(f[j - 1], names[j])
      BY <3>1
    <3> DEFINE g == [j \in 0..i |-> IF j = i THEN AddDep(f[n], names[i]) ELSE f[j]]
    <3>3. g[i] = AddDep(f[n], names[i]) /\ (\A j \in 0..n : g[j] = f[j]) /\ g = [j \in 0..i |-> g[j]]
      BY <3>0
    <3> HIDE DEF g
    <3>4. ASSUME NEW j \in 0..i PROVE g[j] = IF j = 0 THEN direct ELSE AddDep(g[j - 1], names[j])
      <4>1. CASE j = i
        <5>1. j - 1 = n /\ j # 0
          BY <4>1, <3>0
        <5>2. g[j - 1] = f[n]
          BY <5>1, <3>0, <3>3
        <5> QED
          BY <4>1, <5>1, <5>2, <3>3
      <4>2. CASE j # i
        <5>1. j \in 0..n /\ (j # 0 => j - 1 \in 0..n)
          BY <4>2, <3>0
        <5>2. g[j] = f[j] /\ (j # 0 => g[j - 1] = f[j - 1])
          BY <5>1, <3>3
        <5> QED
          BY <5>1, <5>2, <3>2
      <4> QED
        BY <4>1, <4>2
    <3>5. g = [j \in 0..i |-> IF j = 0 THEN direct ELSE AddDep(g[j - 1], names[j])]
      BY <3>3, <3>4
    <3> QED
      BY <3>0, <3>5
  <2> HIDE DEF X
  <2>3. N \in X
    <3> HIDE DEF N
    <3>1. N \in Nat /\ N \in 0..N
      BY <1>7
    <3>2. \A i \in 0..N : i \in X
      BY <2>1, <2>2, <3>1, UpTo
    <3> QED
      BY <3>1, <3>2
  <2> QED
    BY <2>3 DEF X
<1>9. Is(with)
  BY <1>8, Zenon
<1>10. \A n \in 0..N : with[n] = IF n = 0 THEN direct ELSE AddDep(with[n - 1], names[n])
  <2> HIDE DEF with
  <2> QED
    BY <1>9
<1> HIDE DEF with
<1> DEFINE X == {n \in 0..N : DepsOf(with[n], T)}
<1>11. 0 \in X
  BY <1>5, <1>7, <1>10
<1>12. ASSUME NEW i \in 1..N, i - 1 \in X PROVE i \in X
  <2>1. i \in 0..N /\ i # 0 /\ names[i] \in T /\ DepsOf(with[i - 1], T)
    BY <1>7, <1>12
  <2>2. DepsOf(AddDep(with[i - 1], names[i]), T)
    BY <2>1, AddDepFacts
  <2>3. with[i] = AddDep(with[i - 1], names[i])
    BY <1>10, <2>1
  <2> QED
    BY <2>1, <2>2, <2>3
<1> HIDE DEF X
<1>13. N \in X
  <2> HIDE DEF N
  <2>1. N \in Nat /\ N \in 0..N
    BY <1>7
  <2>2. \A i \in 0..N : i \in X
    BY <1>11, <1>12, <2>1, UpTo
  <2> QED
    BY <2>1, <2>2
<1> QED
  BY <1>1, <1>13 DEF X

LEMMA LargestFacts ==
    ASSUME NEW S, S \subseteq SizeOrAbsent, S # {}, \A x, y \in S \ {Absent, 0} : x = y
    PROVE  Largest(S) \in SizeOrAbsent
<1>1. \E x \in S : \A y \in S : y <= x
  <2>1. Absent = -1 /\ \A x \in S : x \in Int /\ x >= -1
    BY DEF Absent, SizeOrAbsent
  <2>2. CASE \E x \in S : x \notin {Absent, 0}
    BY <2>1, <2>2
  <2>3. CASE \A x \in S : x \in {Absent, 0}
    BY <2>1, <2>3
  <2> QED
    BY <2>2, <2>3
<1>2. Largest(S) \in S
  BY <1>1 DEF Largest
<1> QED
  BY <1>2

LEMMA CompiledFacts ==
    ASSUME Caches, Current, NEW s \in Sources, Compiles(s)
    PROVE  LET c == Bytecode(s) IN
           /\ c.src = s /\ c # NoCode /\ GoodCode(c) /\ Fits(c)
           /\ \A d \in Range(c.deps) : d.code = FindBytecode(d.name) /\ d.code # NoCode
           /\ LastName \notin Range(Texts[s].imports) => LastName \notin NamesOfCode(c)
<1> DEFINE c == Bytecode(s)
           T == Names \union {LastName}
<1>1. c.src = s /\ c.deps = Deps(s)
      /\ c.types = [t \in Types |-> Largest(SizesOf(t, s, Deps(s)))]
  BY DEF Bytecode
<1>2. ASSUME NEW n \in T
      PROVE  IsSeq(FindBytecode(n).deps) /\ NamesOfCode(FindBytecode(n)) \subseteq T
  <2>1. CASE FindBytecode(n) = NoCode
    BY <2>1, NoCodeFacts
  <2>2. CASE FindBytecode(n) \in Held /\ FindBytecode(n) # NoCode
    BY <2>2 DEF Caches, GoodCode, NamesOfCode
  <2> QED
    BY <2>1, <2>2, FindFacts
<1>3. DepsOf(Deps(s), T)
  <2>1. Range(Texts[s].imports) \subseteq T
    BY TextFacts
  <2> HIDE DEF T
  <2> QED
    BY <1>2, <2>1, DepsFacts
<1>4. ASSUME NEW d \in Range(c.deps)
      PROVE  /\ d = Dep(d.name) /\ d.name \in T
             /\ d.code = FindBytecode(d.name) /\ d.code # NoCode
  <2>1. d = Dep(d.name) /\ d.name \in T
    BY <1>1, <1>3 DEF DepsOf
  <2>2. d.code = FindBytecode(d.name)
    BY <2>1 DEF Dep
  <2>3. d.code # NoCode
    BY <1>1 DEF Compiles
  <2> QED
    BY <2>1, <2>2, <2>3
<1>5. ASSUME NEW d \in Range(c.deps) PROVE GoodCode(d.code)
  <2>1. d.code \in Held /\ d.code # NoCode
    BY <1>4, FindFacts
  <2> QED
    BY <2>1 DEF Caches
<1>6. c.types \in [Types -> SizeOrAbsent]
  <2> SUFFICES ASSUME NEW t \in Types PROVE Largest(SizesOf(t, s, Deps(s))) \in SizeOrAbsent
    BY <1>1
  <2> DEFINE S == SizesOf(t, s, Deps(s))
  <2>1. Texts[s].types[t] \in SizeOrAbsent
    BY TextFacts
  <2>2. \A d \in Range(Deps(s)) : d.code.types[t] \in SizeOrAbsent
    BY <1>1, <1>5 DEF GoodCode
  <2>3. S \subseteq SizeOrAbsent /\ S # {}
    BY <2>1, <2>2 DEF SizesOf
  <2>4. \A x, y \in S \ {Absent, 0} : x = y
    BY DEF Compiles
  <2> HIDE DEF S
  <2>5. Largest(S) \in SizeOrAbsent
    BY <2>3, <2>4, LargestFacts
  <2> QED
    BY <2>5 DEF S
<1>7. GoodCode(c)
  <2>1. IsSeq(c.deps)
    BY <1>1, <1>3 DEF DepsOf
  <2>2. \A d \in Range(c.deps) : d.code.src \in Sources /\ d.name \in Names \union {LastName}
    BY <1>4, <1>5 DEF GoodCode
  <2> HIDE DEF c
  <2> QED
    BY <1>1, <1>6, <2>1, <2>2 DEF GoodCode
<1>8. Fits(c)
  <2> SUFFICES ASSUME NEW d \in Range(c.deps), d.name # LastName
               PROVE  /\ FindBytecode(d.name) \in {d.code, NoCode}
                      /\ \A m \in Range(exModules) : m.name = d.name => From(m, d.code)
    BY DEF Fits
  <2>1. d.code = FindBytecode(d.name) /\ d.code # NoCode
    BY <1>4
  <2>2. ASSUME NEW m \in Range(exModules), m.name = d.name PROVE From(m, d.code)
    <3>1. FindBytecode(m.name) = d.code /\ FindBytecode(m.name) # NoCode
      BY <2>1, <2>2
    <3>2. From(m, FindBytecode(m.name))
      BY <2>2, <3>1 DEF Current
    <3> QED
      BY <3>1, <3>2
  <2> QED
    BY <2>1, <2>2
<1>9. ASSUME LastName \notin Range(Texts[s].imports) PROVE LastName \notin NamesOfCode(c)
  <2>1. Range(Texts[s].imports) \subseteq Names
    BY <1>9, TextFacts
  <2>2. LastName \notin Names
    BY LinkerAssumption
  <2>3. ASSUME NEW n \in Names
        PROVE  IsSeq(FindBytecode(n).deps) /\ NamesOfCode(FindBytecode(n)) \subseteq Names
    <3>1. CASE FindBytecode(n) = NoCode
      BY <3>1, NoCodeFacts
    <3>2. CASE FindBytecode(n) # NoCode
      <4>1. n # LastName
        BY <2>2
      <4>2. GoodCode(FindBytecode(n)) /\ LastName \notin NamesOfCode(FindBytecode(n))
        BY <3>2, <4>1, FoundModule
      <4> QED
        BY <4>2 DEF GoodCode, NamesOfCode
    <3> QED
      BY <3>1, <3>2
  <2>4. DepsOf(Deps(s), Names)
    BY <2>1, <2>3, DepsFacts
  <2> QED
    BY <1>1, <2>2, <2>4 DEF DepsOf, NamesOfCode
<1>10. c # NoCode
  BY <1>1, NoCodeFacts
<1> QED
  BY <1>1, <1>4, <1>7, <1>8, <1>9, <1>10

-------------------------------------------------------------------------------
(* What a step leaves alone.                                               *)

LEMMA SameUnits ==
    ASSUME IInv, UNCHANGED <<exFunctions, globalVarSize, units, exRegVmCode, expired>>
    PROVE  /\ Functions' /\ Units' /\ Ends' /\ Buffers' /\ BodiesFixed'
           /\ Resolved' /\ NoRedefinition'
<1>1. /\ exFunctions' = exFunctions /\ globalVarSize' = globalVarSize /\ units' = units
      /\ exRegVmCode' = exRegVmCode /\ expired' = expired
  OBVIOUS
<1>2. Functions'
  BY <1>1 DEF IInv, Functions
<1>3. ASSUME NEW i, NEW c, NEW k PROVE IsFunction(i, c, k)' <=> IsFunction(i, c, k)
  BY <1>1 DEF IsFunction, Fn
<1>4. Units'
  <2>1. ASSUME NEW u PROVE Placed(u)' <=> Placed(u)
    BY <1>3 DEF Placed
  <2> QED
    BY <1>1, <2>1 DEF IInv, Units
<1>5. Ends'
  BY <1>1 DEF IInv, Ends
<1>6. Buffers'
  BY <1>1 DEF IInv, Buffers
<1>7. BodiesFixed'
  BY <1>1 DEF IInv, BodiesFixed
<1>8. CallsResolved'
  BY <1>1, <1>3 DEF IInv, Resolved, CallsResolved
<1>9. GlobalsResolved'
  BY <1>1 DEF IInv, Resolved, GlobalsResolved
<1>10. NoRedefinition'
  BY <1>1 DEF IInv, OneDefinition, NoRedefinition, Fn
<1> QED
  BY <1>2, <1>4, <1>5, <1>6, <1>7, <1>8, <1>9, <1>10 DEF Resolved

LEMMA SameLinked ==
    ASSUME IInv, UNCHANGED linked
    PROVE  /\ Modules' /\ Functions' /\ Units' /\ Ends' /\ Buffers' /\ BodiesFixed'
           /\ Resolved' /\ OneDefinition'
<1>1. /\ exModules' = exModules /\ exFunctions' = exFunctions /\ exTypes' = exTypes
      /\ globalVarSize' = globalVarSize /\ units' = units /\ exRegVmCode' = exRegVmCode
      /\ expired' = expired
  BY DEF linked
<1>2. Modules'
  BY <1>1 DEF IInv, Modules
<1>3. TypesAgree'
  BY <1>1 DEF IInv, OneDefinition, TypesAgree
<1> QED
  BY <1>1, <1>2, <1>3, SameUnits DEF OneDefinition

LEMMA SameCached ==
    ASSUME IInv, UNCHANGED <<cached, exModules, units>>
    PROVE  Current' /\ Caches' /\ \A c : Fits(c)' <=> Fits(c)
<1>1. cache' = cache /\ last' = last /\ built' = built /\ exModules' = exModules /\ units' = units
  BY DEF cached
<1>2. \A n : FindBytecode(n)' = FindBytecode(n)
  BY <1>1 DEF FindBytecode
<1>3. \A m, c : From(m, c)' <=> From(m, c)
  BY <1>1 DEF From
<1>4. Current'
  BY <1>1, <1>2, <1>3 DEF IInv, Current
<1>5. \A c : Fits(c)' <=> Fits(c)
  BY <1>1, <1>2, <1>3 DEF Fits
<1>6. Held' = Held
  BY <1>1 DEF Held
<1>7. Caches'
  BY <1>1, <1>5, <1>6 DEF IInv, Caches
<1> QED
  BY <1>4, <1>5, <1>7

LEMMA SameActive ==
    ASSUME IInv, UNCHANGED <<exFunctions, units, exRegVmCode, expired, exec>>
    PROVE  Active'
<1>1. /\ exFunctions' = exFunctions /\ units' = units /\ exRegVmCode' = exRegVmCode
      /\ expired' = expired /\ codeBase' = codeBase /\ frames' = frames
  BY DEF exec
<1>2. \A id, pos : Kept(id, pos)' <=> Kept(id, pos)
  BY <1>1 DEF Kept
<1>3. Reached' = Reached
  BY <1>1, <1>2 DEF Reached
<1> QED
  BY <1>1, <1>2, <1>3 DEF IInv, Active, Running

LEMMA Idle ==
    ASSUME linkStack' = <<>>, dest' = 0
    PROVE  Links' /\ Lasts' /\ Destination'
<1>1. IsSeq(linkStack') /\ Range(linkStack') = {} /\ DOMAIN linkStack' = {}
  BY EmptyIsSeq
<1>2. ~Linking'
  BY DEF Linking
<1> QED
  BY <1>1, <1>2 DEF Links, Lasts, Destination

LEMMA NotRunning ==
    ASSUME frames' = <<>>
    PROVE  Active'
BY EmptyIsSeq DEF Active, Running

-------------------------------------------------------------------------------
(* The host.                                                               *)

LEMMA Cleaned ==
    ASSUME Buffers, CleanCode
    PROVE  /\ Current' /\ Modules' /\ Functions' /\ Units' /\ Ends' /\ Buffers' /\ BodiesFixed'
           /\ Resolved' /\ OneDefinition'
           /\ Range(exModules)' = {}
<1>1. /\ exModules' = <<>> /\ exFunctions' = <<>> /\ exTypes' = [t \in Types |-> Absent]
      /\ globalVarSize' = 0 /\ units' = <<>> /\ expired' = {}
  BY DEF CleanCode
<1>2. exRegVmCode' \in [count : Nat, id : Nat]
  BY DEF CleanCode, Buffers
<1>3. IsSeq(<<>>) /\ Len(<<>>) = 0 /\ Range(<<>>) = {} /\ DOMAIN <<>> = {}
  BY EmptyIsSeq
<1>4. Current' /\ Modules' /\ Functions' /\ Units' /\ Ends'
  BY <1>1, <1>3 DEF Current, Modules, Functions, Units, Ends
<1>5. Buffers'
  BY <1>1, <1>2 DEF Buffers
<1>6. BodiesFixed' /\ CallsResolved' /\ TypesAgree' /\ NoRedefinition'
  BY <1>1, <1>3 DEF BodiesFixed, CallsResolved, TypesAgree, NoRedefinition
<1>7. GlobalsResolved'
  BY <1>1, <1>3 DEF GlobalsResolved
<1> QED
  BY <1>1, <1>3, <1>4, <1>5, <1>6, <1>7 DEF Resolved, OneDefinition

LEMMA CleanStep ==
    ASSUME IInv, Clean
    PROVE  IInv'
<1>1. /\ linkStack = <<>> /\ frames = <<>> /\ CleanCode
      /\ UNCHANGED <<cached, link, exec>>
  BY DEF Clean, Linking, Running
<1>2. /\ Current' /\ Modules' /\ Functions' /\ Units' /\ Ends' /\ Buffers' /\ BodiesFixed'
      /\ Resolved' /\ OneDefinition' /\ Range(exModules)' = {}
  BY <1>1, Cleaned DEF IInv
<1>3. linkStack' = <<>> /\ dest' = 0 /\ frames' = <<>>
  BY <1>1 DEF link, exec, IInv, Destination, Linking
<1>4. Links' /\ Lasts' /\ Destination' /\ Active'
  BY <1>3, Idle, NotRunning
<1>5. cache' = cache /\ last' = last /\ built' = built
  BY <1>1 DEF cached
<1>6. Caches'
  <2>1. \A n : FindBytecode(n)' = FindBytecode(n)
    BY <1>5 DEF FindBytecode
  <2>2. \A c : Fits(c) => Fits(c)'
    BY <1>2, <2>1 DEF Fits
  <2>3. Held' = Held
    BY <1>5 DEF Held
  <2> QED
    BY <1>5, <2>2, <2>3 DEF IInv, Caches
<1>7. Numbers'
  BY <1>1, <1>3 DEF CleanCode, Numbers, SizeOrAbsent
<1> QED
  BY <1>2, <1>4, <1>6, <1>7 DEF IInv

LEMMA FindAppended ==
    ASSUME NEW q, IsSeq(q), Distinct(q), NEW n, NEW c, \A m \in Range(q) : m.name # n
    PROVE  LET r == Append(q, [name |-> n, code |-> c]) IN
           /\ Distinct(r) /\ Find(r, n) = c
           /\ \A x : x # n => Find(r, x) = Find(q, x)
<1> DEFINE e == [name |-> n, code |-> c]
           r == Append(q, e)
<1>1. /\ IsSeq(r) /\ Len(r) = Len(q) + 1 /\ r[Len(q) + 1] = e
      /\ \A i \in DOMAIN q : r[i] = q[i]
      /\ Range(r) = Range(q) \union {e}
  <2> HIDE DEF e
  <2> QED
    BY AppendSeq
<1>2. /\ Len(q) \in Nat /\ DOMAIN q = 1..Len(q) /\ \A i \in DOMAIN q : q[i] \in Range(q)
      /\ DOMAIN r = 1..Len(q) + 1
  BY <1>1, SeqFacts
<1>3. e.name = n /\ e.code = c
  OBVIOUS
<1> HIDE DEF e, r
<1>4. Distinct(r)
  <2> SUFFICES ASSUME NEW i \in DOMAIN r, NEW j \in DOMAIN r, r[i].name = r[j].name
               PROVE  i = j
    BY DEF Distinct, IsInjective
  <2>1. CASE i \in DOMAIN q /\ j \in DOMAIN q
    BY <1>1, <2>1 DEF Distinct, IsInjective
  <2>2. CASE i \notin DOMAIN q /\ j \notin DOMAIN q
    BY <1>2, <2>2
  <2>3. CASE i \in DOMAIN q /\ j \notin DOMAIN q
    <3>1. r[j] = e /\ r[i] \in Range(q)
      BY <1>1, <1>2, <2>3
    <3> QED
      BY <1>3, <3>1
  <2>4. CASE i \notin DOMAIN q /\ j \in DOMAIN q
    <3>1. r[i] = e /\ r[j] \in Range(q)
      BY <1>1, <1>2, <2>4
    <3> QED
      BY <1>3, <3>1
  <2> QED
    BY <2>1, <2>2, <2>3, <2>4
<1>5. Find(r, n) = c
  BY <1>1, <1>3, <1>4, FindIn
<1>6. ASSUME NEW x, x # n PROVE Find(r, x) = Find(q, x)
  <2>1. {m \in Range(r) : m.name = x} = {m \in Range(q) : m.name = x}
    BY <1>1, <1>3, <1>6
  <2> QED
    BY <2>1 DEF Find
<1> QED
  BY <1>4, <1>5, <1>6 DEF r, e

LEMMA LoadModuleStep ==
    ASSUME WithCare, IInv, NEW s \in Sources, LoadModuleBySource(s)
    PROVE  IInv'
<1> DEFINE n == Texts[s].name
           B == Bytecode(s)
<1>1. /\ linkStack = <<>> /\ frames = <<>> /\ n # "" /\ FindBytecode(n) = NoCode /\ Compiles(s)
      /\ LastName \notin Range(Texts[s].imports)
      /\ \A c \in Held : \A d \in Range(c.deps) : d.name = n => d.code = B
      /\ last' = B /\ CleanCode /\ cache' = Append(cache, [name |-> n, code |-> B])
      /\ UNCHANGED <<built, link, exec>>
  BY DEF LoadModuleBySource, Linking, Running, PutBytecode, WithCare
<1>2. /\ Current' /\ Modules' /\ Functions' /\ Units' /\ Ends' /\ Buffers' /\ BodiesFixed'
      /\ Resolved' /\ OneDefinition' /\ Range(exModules)' = {}
  BY <1>1, Cleaned DEF IInv
<1>3. linkStack' = <<>> /\ dest' = 0 /\ frames' = <<>>
  BY <1>1 DEF link, exec, IInv, Destination, Linking
<1>4. Links' /\ Lasts' /\ Destination' /\ Active'
  BY <1>3, Idle, NotRunning
<1>5. n \in Names /\ n # LastName
  BY <1>1, LinkerAssumption DEF Names
<1>6. /\ B # NoCode /\ GoodCode(B) /\ LastName \notin NamesOfCode(B)
      /\ \A d \in Range(B.deps) : d.code = FindBytecode(d.name) /\ d.code # NoCode
  BY <1>1, CompiledFacts DEF IInv
<1> HIDE DEF B, n
<1>7. IsSeq(cache) /\ Distinct(cache)
  BY DEF IInv, Caches, Distinct
<1>8. \A m \in Range(cache) : m.name # n
  <2> SUFFICES ASSUME NEW m \in Range(cache), m.name = n PROVE FALSE
    OBVIOUS
  <2>1. FindBytecode(n) = m.code
    BY <1>5, <1>7, FindFacts, FindIn
  <2>2. GoodCode(m.code)
    BY DEF IInv, Caches
  <2> QED
    BY <1>1, <2>1, <2>2, NoCodeFacts DEF GoodCode
<1>9. /\ IsSeq(cache') /\ Range(cache') = Range(cache) \union {[name |-> n, code |-> B]}
      /\ Distinct(cache') /\ Find(cache', n) = B
      /\ \A x : x # n => Find(cache', x) = Find(cache, x)
  <2> DEFINE e == [name |-> n, code |-> B]
             r == Append(cache, e)
  <2>1. Distinct(r) /\ Find(r, n) = B /\ \A x : x # n => Find(r, x) = Find(cache, x)
    BY <1>7, <1>8, FindAppended
  <2>2. IsSeq(r) /\ Range(r) = Range(cache) \union {e}
    <3> HIDE DEF e
    <3> QED
      BY <1>7, AppendSeq
  <2> QED
    BY <1>1, <2>1, <2>2
<1>10. \A x : x # LastName => FindBytecode(x)' = Find(cache', x)
  BY DEF FindBytecode, Find, Entry
<1>11. \A c \in Held' : c \in Held \/ c = B
  <2>1. Held' = {m.code : m \in Range(cache')} \union built' \union {last'}
    BY DEF Held
  <2>2. \A m \in Range(cache') : m \in Range(cache) \/ m.code = B
    BY <1>9
  <2> QED
    BY <1>1, <2>1, <2>2 DEF Held
<1>12. ASSUME NEW c \in Held' PROVE Fits(c)'
  <2> SUFFICES ASSUME NEW d \in Range(c.deps), d.name # LastName
               PROVE  FindBytecode(d.name)' \in {d.code, NoCode}
    BY <1>2 DEF Fits
  <2>1. CASE c \in Held /\ d.name = n
    BY <1>1, <1>9, <1>10, <2>1
  <2>2. CASE c \in Held /\ d.name # n
    <3>1. FindBytecode(d.name) \in {d.code, NoCode}
      BY <2>2 DEF IInv, Caches, Fits
    <3> QED
      BY <1>9, <1>10, <2>2, <3>1, FindFacts
  <2>3. CASE c = B
    <3>1. d.code = FindBytecode(d.name) /\ d.code # NoCode
      BY <1>6, <2>3
    <3>2. d.name # n
      BY <1>1, <3>1
    <3> QED
      BY <1>9, <1>10, <3>1, <3>2, FindFacts
  <2> QED
    BY <1>11, <2>1, <2>2, <2>3
<1>13. Caches'
  <2>1. \A m \in Range(cache') :
          m.name \in Names /\ GoodCode(m.code) /\ LastName \notin NamesOfCode(m.code)
    BY <1>5, <1>6, <1>9 DEF IInv, Caches
  <2>2. \A c \in Held' : c = NoCode \/ GoodCode(c)
    BY <1>6, <1>11 DEF IInv, Caches
  <2>3. NoCode \notin built'
    BY <1>1 DEF IInv, Caches
  <2> QED
    BY <1>9, <1>12, <2>1, <2>2, <2>3 DEF Caches, Distinct
<1>14. Numbers'
  BY <1>1, <1>3 DEF CleanCode, Numbers, SizeOrAbsent
<1> QED
  BY <1>2, <1>4, <1>13, <1>14 DEF IInv

LEMMA RemovedFacts ==
    ASSUME NEW q, IsSeq(q), Distinct(q), NEW at \in DOMAIN q
    PROVE  LET r == Front([q EXCEPT ![at] = q[Len(q)]]) IN
           /\ IsSeq(r) /\ Distinct(r) /\ Range(r) \subseteq Range(q)
           /\ \A x : Find(r, x) \in {Find(q, x), NoCode}
<1> DEFINE p == [q EXCEPT ![at] = q[Len(q)]]
           r == Front(p)
<1>1. /\ Len(q) \in Nat /\ DOMAIN q = 1..Len(q) /\ at \in 1..Len(q) /\ Len(q) \in DOMAIN q
      /\ \A i \in DOMAIN q : q[i] \in Range(q)
  BY SeqFacts
<1>2. /\ IsSeq(p) /\ Len(p) = Len(q) /\ p[at] = q[Len(q)]
      /\ \A i \in DOMAIN q : i # at => p[i] = q[i]
  BY ChangedSeq
<1> HIDE DEF p
<1>3. p # <<>>
  BY <1>1, <1>2, SeqFacts
<1>4. IsSeq(r) /\ Len(r) = Len(q) - 1 /\ \A i \in 1..Len(q) - 1 : r[i] = p[i]
  BY <1>2, <1>3, FrontSeq
<1> HIDE DEF r
<1>5. DOMAIN r = 1..Len(q) - 1
  BY <1>4, SeqFacts
<1> DEFINE g(i) == IF i = at THEN Len(q) ELSE i
<1>6. ASSUME NEW i \in DOMAIN r PROVE g(i) \in DOMAIN q /\ r[i] = q[g(i)]
  BY <1>1, <1>2, <1>4, <1>5
<1>7. Range(r) \subseteq Range(q)
  <2> SUFFICES ASSUME NEW x \in Range(r) PROVE x \in Range(q)
    OBVIOUS
  <2>1. PICK i \in DOMAIN r : r[i] = x
    BY <1>4, SeqFacts
  <2> QED
    BY <1>1, <1>6, <2>1
<1>8. Distinct(r)
  <2> SUFFICES ASSUME NEW i \in DOMAIN r, NEW j \in DOMAIN r, r[i].name = r[j].name
               PROVE  i = j
    BY DEF Distinct, IsInjective
  <2>1. g(i) \in DOMAIN q /\ g(j) \in DOMAIN q /\ q[g(i)].name = q[g(j)].name
    BY <1>6
  <2>2. g(i) = g(j)
    <3> HIDE DEF g
    <3> QED
      BY <2>1 DEF Distinct, IsInjective
  <2>3. i # Len(q) /\ j # Len(q)
    BY <1>1, <1>5
  <2> QED
    BY <2>2, <2>3
<1>9. ASSUME NEW x PROVE Find(r, x) \in {Find(q, x), NoCode}
  <2>1. CASE Find(r, x) = NoCode
    BY <2>1
  <2>2. CASE \E m \in Range(r) : m.name = x /\ Find(r, x) = m.code
    <3>1. PICK m \in Range(r) : m.name = x /\ Find(r, x) = m.code
      BY <2>2
    <3>2. m \in Range(q)
      BY <1>7
    <3>3. Find(q, m.name) = m.code
      BY <3>2, FindIn
    <3> QED
      BY <3>1, <3>3
  <2> QED
    BY <2>1, <2>2, FindAny
<1> QED
  BY <1>4, <1>7, <1>8, <1>9 DEF r, p

LEMMA RemoveModuleStep ==
    ASSUME IInv, NEW n \in Names, RemoveModule(n)
    PROVE  IInv'
<1>1. PICK at \in DOMAIN cache : cache' = Front([cache EXCEPT ![at] = cache[Len(cache)]])
  BY DEF RemoveModule, RemoveBytecode
<1>2. linkStack = <<>> /\ UNCHANGED <<last, built, linked, link, exec>>
  BY DEF RemoveModule, Linking
<1>3. /\ Modules' /\ Functions' /\ Units' /\ Ends' /\ Buffers' /\ BodiesFixed'
      /\ Resolved' /\ OneDefinition'
  BY <1>2, SameLinked
<1>4. linkStack' = <<>> /\ dest' = 0
  BY <1>2 DEF link, IInv, Destination, Linking
<1>5. Links' /\ Lasts' /\ Destination' /\ Active'
  BY <1>2, <1>4, Idle, SameActive DEF linked
<1>6. IsSeq(cache) /\ Distinct(cache)
  BY DEF IInv, Caches, Distinct
<1>7. /\ IsSeq(cache') /\ Distinct(cache') /\ Range(cache') \subseteq Range(cache)
      /\ \A x : Find(cache', x) \in {Find(cache, x), NoCode}
  BY <1>1, <1>6, RemovedFacts
<1>8. \A x : FindBytecode(x)' \in {FindBytecode(x), NoCode}
  BY <1>2, <1>7 DEF FindBytecode, Find, Entry
<1>9. \A m, c : From(m, c)' <=> From(m, c)
  BY <1>2 DEF From, linked
<1>10. exModules' = exModules
  BY <1>2 DEF linked
<1>11. Current'
  BY <1>8, <1>9, <1>10 DEF IInv, Current
<1>12. \A c : Fits(c) => Fits(c)'
  BY <1>8, <1>9, <1>10 DEF Fits
<1>13. Held' \subseteq Held
  BY <1>2, <1>7 DEF Held
<1>14. Caches'
  <2>1. \A m \in Range(cache') :
          m.name \in Names /\ GoodCode(m.code) /\ LastName \notin NamesOfCode(m.code)
    BY <1>7 DEF IInv, Caches
  <2>2. \A c \in Held' : (c = NoCode \/ GoodCode(c)) /\ Fits(c)'
    BY <1>12, <1>13 DEF IInv, Caches
  <2> QED
    BY <1>2, <1>7, <2>1, <2>2 DEF IInv, Caches, Distinct
<1>15. Numbers'
  BY <1>2, <1>4 DEF linked, IInv, Numbers
<1> QED
  BY <1>3, <1>5, <1>11, <1>14, <1>15 DEF IInv

LEMMA BuildStep ==
    ASSUME IInv, NEW s \in Sources, NEW keep \in BOOLEAN, Build(s, keep)
    PROVE  IInv'
<1> DEFINE B == Bytecode(s)
<1>1. /\ linkStack = <<>> /\ Compiles(s) /\ built' = {B} /\ last' \in {B, last}
      /\ UNCHANGED <<cache, linked, link, exec>>
  BY DEF Build, Linking
<1>2. /\ Modules' /\ Functions' /\ Units' /\ Ends' /\ Buffers' /\ BodiesFixed'
      /\ Resolved' /\ OneDefinition'
  BY <1>1, SameLinked
<1>3. linkStack' = <<>> /\ dest' = 0
  BY <1>1 DEF link, IInv, Destination, Linking
<1>4. Links' /\ Lasts' /\ Destination' /\ Active'
  BY <1>1, <1>3, Idle, SameActive DEF linked
<1>5. B # NoCode /\ GoodCode(B) /\ Fits(B)
  BY <1>1, CompiledFacts DEF IInv
<1> HIDE DEF B
<1>6. \A x : x # LastName => FindBytecode(x)' = FindBytecode(x)
  BY <1>1 DEF FindBytecode
<1>7. exModules' = exModules /\ \A m, c : From(m, c)' <=> From(m, c)
  BY <1>1 DEF From, linked
<1>8. Current'
  BY <1>6, <1>7 DEF IInv, Current
<1>9. \A c : Fits(c) => Fits(c)'
  BY <1>6, <1>7 DEF Fits
<1>10. \A c \in Held' : c \in Held \/ c = B
  BY <1>1 DEF Held
<1>11. Caches'
  <2>1. \A c \in Held' : (c = NoCode \/ GoodCode(c)) /\ Fits(c)'
    BY <1>5, <1>9, <1>10 DEF IInv, Caches
  <2> QED
    BY <1>1, <1>5, <2>1 DEF IInv, Caches
<1>12. Numbers'
  BY <1>1, <1>3 DEF linked, IInv, Numbers
<1> QED
  BY <1>2, <1>4, <1>8, <1>11, <1>12 DEF IInv

-------------------------------------------------------------------------------
(* Execution.                                                              *)

LEMMA UnitFacts ==
    ASSUME IInv, NEW w \in DOMAIN units
    PROVE  /\ units[w] \in Range(units) /\ units[w].code.src \in Sources
           /\ units[w].start \in Nat /\ CodeEnd(units[w]) \in Nat
           /\ CodeEnd(units[w]) < exRegVmCode.count
           /\ Kept(exRegVmCode.id, CodeEnd(units[w]))
<1>1. units[w] \in Range(units)
  BY SeqFacts DEF IInv, Units
<1>2. /\ units[w].code.src \in Sources /\ units[w].start \in Nat
      /\ CodeEnd(units[w]) < exRegVmCode.count
  BY <1>1 DEF IInv, Units, GoodCode
<1>3. CodeEnd(units[w]) \in Nat
  BY <1>2, OwnFacts DEF CodeEnd
<1> QED
  BY <1>1, <1>2, <1>3 DEF Kept

LEMMA CallFacts ==
    ASSUME IInv, NEW w \in DOMAIN units, units[w].fixed, NEW e \in Table(units[w].code)
    PROVE  LET i == units[w].calls[e] IN
           LET b == exFunctions[i].body IN
           /\ i \in DOMAIN exFunctions /\ b.unit \in DOMAIN units /\ units[b.unit].fixed
           /\ b.k \in DOMAIN Own(units[b.unit].code)
<1> DEFINE i == units[w].calls[e]
<1>1. units[w] \in Range(units)
  BY UnitFacts
<1>2. i \in DOMAIN exFunctions
  BY <1>1 DEF IInv, Resolved, CallsResolved, IsFunction
<1>3. exFunctions[i] \in Range(exFunctions)
  BY <1>2, SeqFacts DEF IInv, Functions
<1>4. units[exFunctions[i].body.unit].fixed
  BY <1>1 DEF IInv, BodiesFixed
<1> QED
  BY <1>2, <1>3, <1>4 DEF IInv, Functions

\* a function is below the end of its unit
LEMMA BodyKept ==
    ASSUME IInv, NEW id, NEW w \in DOMAIN units, Kept(id, CodeEnd(units[w])),
           NEW k \in DOMAIN Own(units[w].code)
    PROVE  Kept(id, units[w].start + k) /\ units[w].start + k \in Nat
<1>1. /\ units[w].start \in Nat /\ units[w].code.src \in Sources /\ CodeEnd(units[w]) \in Nat
  BY UnitFacts
<1>2. k \in 1..Len(Own(units[w].code)) /\ Len(Own(units[w].code)) \in Nat
  BY <1>1, OwnFacts
<1>3. units[w].start + k <= CodeEnd(units[w]) /\ units[w].start + k \in Nat
  BY <1>1, <1>2 DEF CodeEnd
<1>4. exRegVmCode.count \in Nat /\ \A b \in expired : b.count \in Nat
  BY DEF IInv, Buffers
<1> QED
  BY <1>1, <1>3, <1>4 DEF Kept

LEMMA OnlyActive ==
    ASSUME IInv, linkStack = <<>>, UNCHANGED <<cached, linked, link>>, Active'
    PROVE  IInv'
<1>1. /\ Modules' /\ Functions' /\ Units' /\ Ends' /\ Buffers' /\ BodiesFixed'
      /\ Resolved' /\ OneDefinition'
  BY SameLinked
<1>2. Current' /\ Caches'
  BY SameCached DEF linked
<1>3. linkStack' = <<>> /\ dest' = 0
  BY DEF link, IInv, Destination, Linking
<1>4. Links' /\ Lasts' /\ Destination'
  BY <1>3, Idle
<1>5. Numbers'
  BY <1>3 DEF linked, IInv, Numbers
<1> QED
  BY <1>1, <1>2, <1>4, <1>5 DEF IInv

LEMMA RunStep ==
    ASSUME WithCare, IInv, NEW i \in DOMAIN exFunctions, Run(i)
    PROVE  IInv'
<1> DEFINE b == exFunctions[i].body
           f == [id   |-> exRegVmCode.id,
                 pos  |-> units[b.unit].start + b.k,
                 unit |-> b.unit,
                 base |-> IF Running THEN frames[1].base ELSE globalVarSize]
<1>1. /\ linkStack = <<>> /\ units[b.unit].fixed /\ codeBase' = exRegVmCode.id
      /\ frames' = Append(frames, f) /\ UNCHANGED <<cached, linked, link>>
  BY DEF Run, Linking, Enter, WithCare
<1>2. /\ exFunctions' = exFunctions /\ units' = units /\ exRegVmCode' = exRegVmCode
      /\ expired' = expired
  BY <1>1 DEF linked
<1>3. exFunctions[i] \in Range(exFunctions)
  BY SeqFacts DEF IInv, Functions
<1>4. b.unit \in DOMAIN units /\ b.k \in DOMAIN Own(units[b.unit].code)
  BY <1>3 DEF IInv, Functions
<1>5. \A id, pos : Kept(id, pos)' <=> Kept(id, pos)
  BY <1>2 DEF Kept
<1>6. Reached' = DOMAIN units
  BY <1>1, <1>2, <1>5, UnitFacts DEF Reached, CodeEnd
<1>7. Kept(f.id, f.pos) /\ f.pos \in Nat /\ f.unit = b.unit
  BY <1>4, UnitFacts, BodyKept
<1> HIDE DEF f
<1>8. IsSeq(frames) /\ IsSeq(frames') /\ Range(frames') = Range(frames) \union {f}
  BY <1>1, AppendSeq DEF IInv, Active
<1>9. ASSUME NEW x \in Range(frames')
      PROVE  x.unit \in Reached' /\ units'[x.unit].fixed /\ x.pos \in Nat /\ Kept(x.id, x.pos)'
  <2>1. CASE x = f
    BY <1>1, <1>2, <1>4, <1>5, <1>6, <1>7, <2>1
  <2>2. CASE x \in Range(frames)
    <3>1. Running
      BY <2>2, EmptyIsSeq DEF Running
    <3> QED
      BY <1>2, <1>5, <1>6, <2>2, <3>1 DEF IInv, Active, Reached
  <2> QED
    BY <1>8, <2>1, <2>2
<1>10. ASSUME NEW w \in Reached', units'[w].fixed, NEW e \in Table(units'[w].code)
       PROVE  exFunctions'[units'[w].calls[e]].body.unit \in Reached'
  BY <1>2, <1>6, <1>10, CallFacts
<1>11. codeBase' \in Nat /\ codeBase' <= exRegVmCode'.id
  BY <1>1, <1>2 DEF IInv, Buffers
<1>12. Active'
  BY <1>8, <1>9, <1>10, <1>11 DEF Active
<1> QED
  BY <1>1, <1>12, OnlyActive

LEMMA CallStep ==
    ASSUME IInv, Running, NEW e \in DOMAIN Caller.calls, Call(e)
    PROVE  IInv'
<1> DEFINE top == frames[Len(frames)]
           b == exFunctions[Caller.calls[e]].body
           f == [id   |-> codeBase,
                 pos  |-> units[b.unit].start + b.k,
                 unit |-> b.unit,
                 base |-> IF Running THEN frames[1].base ELSE globalVarSize]
<1>1. /\ linkStack = <<>> /\ frames' = Append(frames, f) /\ codeBase' = codeBase
      /\ UNCHANGED <<cached, linked, link>>
  BY DEF Call, Linking, Enter
<1>2. /\ exFunctions' = exFunctions /\ units' = units /\ exRegVmCode' = exRegVmCode
      /\ expired' = expired
  BY <1>1 DEF linked
<1>3. IsSeq(frames) /\ top \in Range(frames)
  BY SeqFacts DEF IInv, Active, Running
<1>4. top.unit \in Reached /\ units[top.unit].fixed
  BY <1>3 DEF IInv, Active
<1>5. top.unit \in DOMAIN units /\ Caller = units[top.unit]
  BY <1>4 DEF Reached, Caller
<1>6. e \in Table(units[top.unit].code)
  BY <1>5, UnitFacts DEF IInv, Units
<1>7. b.unit \in DOMAIN units /\ units[b.unit].fixed /\ b.k \in DOMAIN Own(units[b.unit].code)
  BY <1>4, <1>5, <1>6, CallFacts
<1>8. b.unit \in Reached
  BY <1>4, <1>5, <1>6 DEF IInv, Active
<1>9. Kept(f.id, f.pos) /\ f.pos \in Nat /\ f.unit = b.unit
  BY <1>7, <1>8, BodyKept DEF Reached
<1> HIDE DEF f
<1>10. \A id, pos : Kept(id, pos)' <=> Kept(id, pos)
  BY <1>2 DEF Kept
<1>11. Reached' = Reached
  BY <1>1, <1>2, <1>10 DEF Reached
<1>12. IsSeq(frames') /\ Range(frames') = Range(frames) \union {f}
  BY <1>1, <1>3, AppendSeq
<1>13. ASSUME NEW x \in Range(frames')
       PROVE  x.unit \in Reached' /\ units'[x.unit].fixed /\ x.pos \in Nat /\ Kept(x.id, x.pos)'
  <2>1. CASE x = f
    BY <1>2, <1>7, <1>8, <1>9, <1>10, <1>11, <2>1
  <2>2. CASE x \in Range(frames)
    BY <1>2, <1>10, <1>11, <2>2 DEF IInv, Active
  <2> QED
    BY <1>12, <2>1, <2>2
<1>14. Active'
  BY <1>1, <1>2, <1>11, <1>12, <1>13 DEF IInv, Active
<1> QED
  BY <1>1, <1>14, OnlyActive

LEMMA ReturnStep ==
    ASSUME IInv, Return
    PROVE  IInv'
<1>1. /\ linkStack = <<>> /\ Running /\ frames' = Front(frames)
      /\ codeBase' = IF Len(frames) = 1 THEN 0 ELSE codeBase
      /\ UNCHANGED <<cached, linked, link>>
  BY DEF Return, Linking
<1>2. /\ exFunctions' = exFunctions /\ units' = units /\ exRegVmCode' = exRegVmCode
      /\ expired' = expired
  BY <1>1 DEF linked
<1>3. /\ IsSeq(frames') /\ Range(frames') \subseteq Range(frames)
      /\ Len(frames') = Len(frames) - 1
  BY <1>1, FrontSeq DEF IInv, Active, Running
<1>4. \A id, pos : Kept(id, pos)' <=> Kept(id, pos)
  BY <1>2 DEF Kept
<1>5. CASE Len(frames) = 1
  <2>1. frames' = <<>>
    BY <1>3, <1>5, SeqFacts
  <2> QED
    BY <1>1, <2>1, NotRunning, OnlyActive
<1>6. CASE Len(frames) # 1
  <2>1. codeBase' = codeBase
    BY <1>1, <1>6
  <2>2. Reached' = Reached
    BY <1>2, <1>4, <2>1 DEF Reached
  <2>3. Active'
    BY <1>1, <1>2, <1>3, <1>4, <2>1, <2>2 DEF IInv, Active
  <2> QED
    BY <1>1, <2>3, OnlyActive
<1> QED
  BY <1>5, <1>6


-------------------------------------------------------------------------------
(* LinkCode: what is on the stack of links.                                *)

LEMMA OnlyLinks ==
    ASSUME IInv, UNCHANGED <<cached, linked, exec>>, Links', Lasts', Destination', dest' \in Nat
    PROVE  IInv'
<1>1. /\ Modules' /\ Functions' /\ Units' /\ Ends' /\ Buffers' /\ BodiesFixed'
      /\ Resolved' /\ OneDefinition'
  BY SameLinked
<1>2. Current' /\ Caches'
  BY SameCached DEF linked
<1>3. Active'
  BY SameActive DEF linked
<1>4. Numbers'
  BY DEF linked, IInv, Numbers
<1> QED
  BY <1>1, <1>2, <1>3, <1>4 DEF IInv

\* what a link redirects
Starts(c)    == LinkCode(c, "")
Redirects(c) == dest' = 0 \/ (dest' \in DOMAIN exFunctions /\ c.src \in Overriding)

\* a link begins: the care of the host gives what LinkCode relies on
LEMMA LinkBegins ==
    ASSUME WithCare, IInv, NEW c, ~Linking, GoodCode(c), Careful(c), Starts(c),
           UNCHANGED <<cached, linked, exec>>,
           Redirects(c)
    PROVE  IInv'
<1> DEFINE l == [code |-> c, name |-> "", next |-> 1]
<1>1. ~Failed /\ LastFits(c) /\ Fits(c)
  BY DEF Careful, WithCare
<1>2. l.code = c /\ l.next = 1 /\ l = [code |-> l.code, name |-> l.name, next |-> l.next]
  OBVIOUS
<1>3. linkStack' = One(l)
  BY DEF Starts, LinkCode, Linking, One
<1> HIDE DEF l
<1>4. /\ IsSeq(linkStack') /\ Len(linkStack') = 1 /\ linkStack'[1] = l /\ Range(linkStack') = {l}
      /\ DOMAIN linkStack' = {1} /\ Linking'
  BY <1>3, OneSeq DEF Linking
<1>6. exModules' = exModules /\ units' = units /\ last' = last /\ exFunctions' = exFunctions
  BY DEF linked, cached
<1>7. \A x : Fits(x)' <=> Fits(x)
  BY SameCached DEF linked
<1>8. LinkOf(l)'
  <2>1. Len(c.deps) \in Nat /\ DOMAIN c.deps = 1..Len(c.deps)
    <3>1. IsSeq(c.deps)
      BY DEF GoodCode
    <3> HIDE DEF l
    <3> QED
      BY <3>1, SeqFacts
  <2>2. 1 \in 1..Len(c.deps) + 1
    BY <2>1
  <2>3. ~\E i \in DOMAIN c.deps : i < 1
    BY <2>1
  <2> QED
    BY <1>1, <1>2, <1>7, <2>2, <2>3 DEF LinkOf
<1>9. Links'
  <2>1. ~Failed'
    BY <1>1, <1>6 DEF Failed
  <2>2. ~\E j \in DOMAIN linkStack' : j > 1
    BY <1>4
  <2> QED
    BY <1>4, <1>8, <2>1, <2>2 DEF Links
<1>10. Lasts'
  <2> SUFFICES ASSUME NEW i \in DOMAIN c.deps, c.deps[i].name = LastName
               PROVE  /\ \A m \in Range(exModules) : m.name = LastName => From(m, c.deps[i].code)
                      /\ ~Loaded(LastName) =>
                            /\ units # <<>> /\ units[Len(units)].code = c.deps[i].code
                            /\ last = c.deps[i].code
                            /\ \A j \in Unlinked(c) : i <= j
    <3>1. \A m, x : From(m, x)' <=> From(m, x)
      BY <1>6 DEF From
    <3>2. Loaded(LastName)' <=> Loaded(LastName)
      BY <1>6 DEF Loaded
    <3>3. Unlinked(c)' = Unlinked(c)
      BY <1>6 DEF Unlinked
    <3> QED
      BY <1>2, <1>4, <1>6, <3>1, <3>2, <3>3 DEF Lasts
  <2>1. CASE i \in Unlinked(c)
    BY <1>1, <2>1 DEF LastFits, Unlinked
  <2>2. CASE i \notin Unlinked(c)
    BY <1>1, <2>2 DEF LastFits, Unlinked, Loaded
  <2> QED
    BY <2>1, <2>2
<1>11. Destination' /\ dest' \in Nat
  <2>1. dest' \in Nat
    <3>1. DOMAIN exFunctions = 1..Len(exFunctions) /\ Len(exFunctions) \in Nat
      BY SeqFacts DEF IInv, Functions
    <3> QED
      BY <3>1 DEF Redirects
  <2> QED
    BY <1>2, <1>4, <1>6, <2>1 DEF Redirects, Destination, Linking
<1> QED
  BY <1>9, <1>10, <1>11, OnlyLinks

LEMMA LinkBeginStep ==
    ASSUME WithCare, IInv, NEW c \in built, Link(c)
    PROVE  IInv'
<1>1. ~Linking /\ Careful(c) /\ LinkCode(c, "") /\ UNCHANGED <<cached, linked, dest, exec>>
  BY DEF Link
<1>2. GoodCode(c)
  BY DEF IInv, Caches, Held
<1>3. dest' = 0
  BY <1>1 DEF IInv, Destination, Linking
<1> QED
  BY <1>1, <1>2, <1>3, LinkBegins DEF Redirects, Starts

LEMMA OverrideStep ==
    ASSUME WithCare, IInv, Running, NEW e \in DOMAIN Caller.calls, NEW s \in Overriding,
           Override(Caller.calls[e], s)
    PROVE  IInv'
<1> DEFINE i == Caller.calls[e]
           c == Bytecode(s)
           top == frames[Len(frames)]
<1>1. /\ ~Linking /\ Compiles(s) /\ Careful(c) /\ LinkCode(c, "") /\ dest' = i
      /\ UNCHANGED <<cached, linked, exec>>
  BY DEF Override
<1>2. s \in Sources
  BY LinkerAssumption
<1>3. GoodCode(c) /\ c.src = s
  BY <1>1, <1>2, CompiledFacts DEF IInv
<1>4. top \in Range(frames)
  BY SeqFacts DEF IInv, Active, Running
<1>5. top.unit \in Reached /\ units[top.unit].fixed
  BY <1>4 DEF IInv, Active
<1>6. top.unit \in DOMAIN units /\ Caller = units[top.unit]
  BY <1>5 DEF Reached, Caller
<1>7. e \in Table(units[top.unit].code)
  BY <1>6, UnitFacts DEF IInv, Units
<1>8. i \in DOMAIN exFunctions
  BY <1>5, <1>6, <1>7, CallFacts
<1> HIDE DEF c
<1> QED
  BY <1>1, <1>3, <1>8, LinkBegins DEF Redirects, Starts

\* the link on top of the stack goes on with the next dependency
Stepped(q) == [q EXCEPT ![Len(q)].next = @ + 1]
Shaped(l)  == l = [code |-> l.code, name |-> l.name, next |-> l.next]

LEMMA SteppedFacts ==
    ASSUME NEW q, IsSeq(q), q # <<>>, Shaped(q[Len(q)])
    PROVE  LET r == Stepped(q) IN
           /\ IsSeq(r) /\ Len(r) = Len(q) /\ DOMAIN r = DOMAIN q /\ r # <<>>
           /\ Len(q) \in DOMAIN q /\ Len(q) \in Nat /\ DOMAIN q = 1..Len(q)
           /\ \A j \in DOMAIN q : j # Len(q) => r[j] = q[j]
           /\ \A j \in DOMAIN q : r[j].code = q[j].code /\ r[j].name = q[j].name
           /\ Shaped(r[Len(q)]) /\ r[Len(q)].next = q[Len(q)].next + 1
<1> DEFINE n == Len(q)
           t == q[n]
           s == [t EXCEPT !.next = @ + 1]
           r == [q EXCEPT ![n] = s]
<1>1. n \in DOMAIN q /\ n \in Nat /\ DOMAIN q = 1..n
  <2>1. n \in Nat /\ n # 0 /\ DOMAIN q = 1..n
    BY SeqFacts
  <2> QED
    BY <2>1
<1>2. Stepped(q) = r
  BY DEF Stepped
<1>3. s.code = t.code /\ s.name = t.name /\ s.next = t.next + 1 /\ Shaped(s)
  BY DEF Shaped
<1> HIDE DEF s
<1>4. /\ IsSeq(r) /\ Len(r) = n /\ DOMAIN r = DOMAIN q /\ r[n] = s
      /\ \A j \in DOMAIN q : j # n => r[j] = q[j]
  BY <1>1, ChangedSeq
<1> HIDE DEF r
<1>5. r # <<>>
  <2>1. Len(r) # 0
    BY <1>1, <1>4
  <2> QED
    BY <1>4, <2>1, SeqFacts
<1>6. \A j \in DOMAIN q : r[j].code = q[j].code /\ r[j].name = q[j].name
  BY <1>3, <1>4
<1> QED
  BY <1>1, <1>2, <1>3, <1>4, <1>5, <1>6

\* its dependency is loaded now
Arrived(q) ==
    LET l == q[Len(q)] IN
    l.next \in DOMAIN l.code.deps /\ \E m \in Range(exModules') : m.name = l.code.deps[l.next].name

\* what links rely on is kept
Keeps ==
    /\ \A n : FindBytecode(n)' = FindBytecode(n)
    /\ \A n : Loaded(n) => Loaded(n)'
    /\ \A c : Fits(c) => Fits(c)'

LEMMA LinkOfKept ==
    ASSUME Keeps, NEW l, LinkOf(l)
    PROVE  LinkOf(l)'
BY DEF Keeps, LinkOf

Initial(q) == \A j \in DOMAIN q : j \in DOMAIN linkStack /\ q[j] = linkStack[j]

LEMMA Stepping ==
    ASSUME Links, NEW q, IsSeq(q), q # <<>>, Initial(q), Arrived(q), Keeps, ~Failed',
           linkStack' = Stepped(q)
    PROVE  Links'
<1> DEFINE n == Len(q)
<1> SUFFICES ASSUME NEW r, r = linkStack' PROVE Links'
  OBVIOUS
<1>1. \A j \in DOMAIN q : q[j] \in Range(linkStack) /\ LinkOf(q[j])
  BY SeqFacts DEF Links, Initial
<1>2. n \in DOMAIN q
  <2>1. n \in Nat /\ n # 0 /\ DOMAIN q = 1..n
    BY SeqFacts
  <2> QED
    BY <2>1
<1>3. Shaped(q[n])
  BY <1>1, <1>2 DEF LinkOf, Shaped
<1>4. /\ IsSeq(r) /\ Len(r) = n /\ DOMAIN r = DOMAIN q /\ n \in Nat /\ DOMAIN q = 1..n
      /\ \A j \in DOMAIN q : j # n => r[j] = q[j]
      /\ \A j \in DOMAIN q : r[j].code = q[j].code /\ r[j].name = q[j].name
      /\ Shaped(r[n]) /\ r[n].next = q[n].next + 1
  BY <1>3, SteppedFacts
<1>5. LinkOf(r[n])'
  <2> DEFINE c == q[n].code
  <2>1. /\ GoodCode(c) /\ Fits(c)' /\ q[n].next \in DOMAIN c.deps
        /\ \A i \in DOMAIN c.deps : i < q[n].next => Loaded(c.deps[i].name)'
    BY <1>1, <1>2 DEF LinkOf, Keeps, Arrived
  <2>2. Len(c.deps) \in Nat /\ DOMAIN c.deps = 1..Len(c.deps)
    BY <2>1, SeqFacts DEF GoodCode
  <2>3. q[n].next + 1 \in 1..Len(c.deps) + 1
    BY <2>1, <2>2
  <2>4. \A i \in DOMAIN c.deps : i < q[n].next + 1 => Loaded(c.deps[i].name)'
    <3> SUFFICES ASSUME NEW i \in DOMAIN c.deps, i < q[n].next + 1
                 PROVE  Loaded(c.deps[i].name)'
      OBVIOUS
    <3>1. CASE i < q[n].next
      BY <2>1, <3>1
    <3>2. CASE i = q[n].next
      BY <3>2 DEF Arrived, Loaded
    <3> QED
      BY <2>1, <2>2, <3>1, <3>2
  <2> QED
    BY <1>2, <1>4, <2>1, <2>3, <2>4 DEF LinkOf, Shaped
<1>6. \A j \in DOMAIN r : LinkOf(r[j])'
  BY <1>1, <1>4, <1>5, LinkOfKept
<1>7. ASSUME NEW j \in DOMAIN r, j > 1
      PROVE  LET l == r[j] IN
             LET up == r[j - 1] IN
             /\ l.name \in Names /\ FindBytecode(l.name)' = l.code
             /\ LastName \notin NamesOfCode(l.code)
             /\ up.next \in DOMAIN up.code.deps
             /\ up.code.deps[up.next].name = l.name /\ up.code.deps[up.next].code = l.code
  <2>1. j \in 1..n /\ j - 1 \in 1..n /\ j - 1 # n
    BY <1>4, <1>7
  <2>2. r[j - 1] = q[j - 1] /\ r[j].code = q[j].code /\ r[j].name = q[j].name
    BY <1>4, <2>1
  <2>3. q[j] = linkStack[j] /\ q[j - 1] = linkStack[j - 1] /\ j \in DOMAIN linkStack
    BY <1>4, <2>1 DEF Initial
  <2> QED
    BY <1>7, <2>2, <2>3 DEF Links, Keeps
<1>8. \A l \in Range(r) : LinkOf(l)'
  BY <1>4, <1>6, SeqFacts
<1> QED
  BY <1>4, <1>7, <1>8 DEF Links

\* a dependency by which a link goes on
LEMMA TopFacts ==
    ASSUME IInv, Linking
    PROVE  /\ IsSeq(linkStack) /\ Len(linkStack) \in Nat /\ Len(linkStack) >= 1
           /\ Len(linkStack) \in DOMAIN linkStack /\ 1 \in DOMAIN linkStack
           /\ DOMAIN linkStack = 1..Len(linkStack)
           /\ LinkOf(Top) /\ Top \in Range(linkStack) /\ Initial(linkStack) /\ ~Failed
           /\ IsSeq(Top.code.deps) /\ Len(Top.code.deps) \in Nat
           /\ DOMAIN Top.code.deps = 1..Len(Top.code.deps)
           /\ Depending => Top.next \in DOMAIN Top.code.deps /\ NextDep \in Range(Top.code.deps)
           /\ ~Depending => \A i \in DOMAIN Top.code.deps : i < Top.next
<1>1. IsSeq(linkStack) /\ linkStack # <<>> /\ ~Failed
  BY DEF IInv, Links, Linking
<1>2. Len(linkStack) \in Nat /\ Len(linkStack) # 0 /\ DOMAIN linkStack = 1..Len(linkStack)
  BY <1>1, SeqFacts
<1>3. Len(linkStack) >= 1 /\ Len(linkStack) \in DOMAIN linkStack /\ 1 \in DOMAIN linkStack
  BY <1>2
<1>4. Top \in Range(linkStack)
  BY <1>1, <1>3, SeqFacts DEF Top
<1>5. LinkOf(Top)
  BY <1>4 DEF IInv, Links
<1>6. IsSeq(Top.code.deps)
  BY <1>5 DEF LinkOf, GoodCode
<1>7. Len(Top.code.deps) \in Nat /\ DOMAIN Top.code.deps = 1..Len(Top.code.deps)
  BY <1>6, SeqFacts
<1>8. Top.next \in 1..Len(Top.code.deps) + 1
  BY <1>5 DEF LinkOf
<1>9. Depending => Top.next \in DOMAIN Top.code.deps
  BY <1>7, <1>8 DEF Depending
<1>10. Depending => NextDep \in Range(Top.code.deps)
  BY <1>6, <1>9, SeqFacts DEF NextDep
<1>11. ~Depending => \A i \in DOMAIN Top.code.deps : i < Top.next
  BY <1>7, <1>8 DEF Depending, Linking
<1> QED
  BY <1>1, <1>2, <1>3, <1>4, <1>5, <1>6, <1>7, <1>9, <1>10, <1>11 DEF Initial

LEMMA LinkLoadedStep ==
    ASSUME IInv, LinkLoaded
    PROVE  IInv'
<1>1. /\ Linking /\ Depending /\ Loaded(NextDep.name) /\ linkStack' = Stepped(linkStack)
      /\ UNCHANGED <<cached, linked, dest, exec>>
  BY DEF LinkLoaded, Depending, Advanced, Stepped
<1>2. exModules' = exModules /\ units' = units /\ last' = last /\ exFunctions' = exFunctions
      /\ cache' = cache
  BY <1>1 DEF linked, cached
<1>3. /\ \A n : FindBytecode(n)' = FindBytecode(n)
      /\ \A n : Loaded(n)' <=> Loaded(n)
      /\ \A m, x : From(m, x)' <=> From(m, x)
      /\ \A x : Unlinked(x)' = Unlinked(x)
  BY <1>2 DEF FindBytecode, Loaded, From, Unlinked
<1>4. Keeps
  BY <1>1, <1>3, SameCached DEF Keeps, linked
<1>5. Arrived(linkStack)
  <2>1. NextDep.name = linkStack[Len(linkStack)].code.deps[linkStack[Len(linkStack)].next].name
    BY DEF NextDep, Top
  <2>2. Top.next \in DOMAIN Top.code.deps /\ Top = linkStack[Len(linkStack)]
    BY <1>1, TopFacts DEF Top
  <2> QED
    BY <1>1, <1>2, <2>1, <2>2 DEF Arrived, Loaded
<1>6. ~Failed'
  BY <1>1, <1>2, TopFacts DEF Failed
<1>7. Links'
  BY <1>1, <1>4, <1>5, <1>6, TopFacts, Stepping DEF IInv, Linking
<1>8. Shaped(linkStack[Len(linkStack)])
  BY <1>1, TopFacts DEF Top, LinkOf, Shaped
<1>9. /\ Len(linkStack') = Len(linkStack) /\ linkStack'[1].code = linkStack[1].code
      /\ linkStack' # <<>>
  BY <1>1, <1>8, TopFacts, SteppedFacts DEF Linking
<1>10. Lasts'
  BY <1>1, <1>2, <1>3, <1>9 DEF IInv, Lasts
<1>11. Destination' /\ dest' \in Nat
  BY <1>1, <1>2, <1>9 DEF IInv, Destination, Linking, Numbers
<1> QED
  BY <1>1, <1>7, <1>10, <1>11, OnlyLinks

\* __last is a dependency of the first link only, and pending only there
LEMMA LastPending ==
    ASSUME IInv, Linking, ~Loaded(LastName), LastName \in NamesOfCode(linkStack[1].code)
    PROVE  /\ Len(linkStack) = 1 /\ Top = linkStack[1]
           /\ units # <<>> /\ units[Len(units)] \in Range(units)
           /\ units[Len(units)].code = last
           /\ \A i \in DOMAIN Top.code.deps : Top.code.deps[i].name = LastName =>
                 Top.code.deps[i].code = last /\ \A j \in Unlinked(Top.code) : i <= j
<1> DEFINE c == linkStack[1].code
<1>1. IsSeq(c.deps)
  <2>1. linkStack[1] \in Range(linkStack)
    BY TopFacts, SeqFacts
  <2> QED
    BY <2>1 DEF IInv, Links, LinkOf, GoodCode
<1>2. PICK d \in Range(c.deps) : d.name = LastName
  BY DEF NamesOfCode
<1>3. PICK i \in DOMAIN c.deps : c.deps[i] = d
  BY <1>1, <1>2, SeqFacts
<1>4. Len(linkStack) = 1 /\ units # <<>> /\ units[Len(units)].code = last
  BY <1>2, <1>3 DEF IInv, Lasts
<1>5. units[Len(units)] \in Range(units)
  <2>1. IsSeq(units)
    BY DEF IInv, Units
  <2>2. Len(units) \in DOMAIN units
    BY <1>4, <2>1, SeqFacts
  <2> QED
    BY <2>1, <2>2, SeqFacts
<1>6. Top = linkStack[1]
  BY <1>4 DEF Top
<1> QED
  BY <1>4, <1>5, <1>6 DEF IInv, Lasts

Pushed(c, n) == [code |-> c, name |-> n, next |-> 1]

LEMMA Pushing ==
    ASSUME IInv, Depending, Keeps, ~Failed', NEW c, NEW n, n \in Names, FindBytecode(n) = c,
           GoodCode(c), Fits(c), LastName \notin NamesOfCode(c),
           NextDep.name = n, NextDep.code = c,
           linkStack' = Append(linkStack, Pushed(c, n))
    PROVE  /\ Links' /\ linkStack'[1] = linkStack[1] /\ linkStack' # <<>>
           /\ Len(linkStack') = Len(linkStack) + 1
<1> SUFFICES ASSUME NEW r, r = linkStack'
             PROVE  Links' /\ r[1] = linkStack[1] /\ r # <<>> /\ Len(r) = Len(linkStack) + 1
  OBVIOUS
<1> DEFINE l == Pushed(c, n)
<1>1. l.code = c /\ l.name = n /\ l.next = 1 /\ Shaped(l)
  BY DEF Shaped, Pushed
<1>2. Linking /\ Top.next \in DOMAIN Top.code.deps /\ NextDep = Top.code.deps[Top.next]
  BY TopFacts DEF Depending, NextDep
<1> HIDE DEF l
<1>3. /\ IsSeq(r) /\ Len(r) = Len(linkStack) + 1
      /\ \A i \in DOMAIN linkStack : r[i] = linkStack[i]
      /\ r[Len(linkStack) + 1] = l
      /\ Range(r) = Range(linkStack) \union {l}
  <2>1. r = Append(linkStack, l)
    BY DEF l
  <2> QED
    BY <1>2, <2>1, TopFacts, AppendSeq
<1>4. /\ DOMAIN r = 1..Len(linkStack) + 1 /\ DOMAIN linkStack = 1..Len(linkStack)
      /\ Len(linkStack) \in Nat /\ Len(linkStack) >= 1 /\ r # <<>>
  <2>1. Len(r) # 0
    BY <1>2, <1>3, TopFacts
  <2> QED
    BY <1>2, <1>3, <2>1, TopFacts, SeqFacts
<1>5. LinkOf(l)
  <2>1. Len(c.deps) \in Nat /\ DOMAIN c.deps = 1..Len(c.deps)
    BY SeqFacts DEF GoodCode
  <2>2. 1 \in 1..Len(c.deps) + 1 /\ ~\E i \in DOMAIN c.deps : i < 1
    BY <2>1
  <2> QED
    BY <1>1, <2>2 DEF LinkOf, Shaped
<1>6. \A x \in Range(r) : LinkOf(x)'
  <2> SUFFICES ASSUME NEW x \in Range(r) PROVE LinkOf(x)'
    OBVIOUS
  <2>1. LinkOf(x)
    BY <1>3, <1>5 DEF IInv, Links
  <2> QED
    BY <2>1, LinkOfKept
<1>7. ASSUME NEW j \in DOMAIN r, j > 1
      PROVE  LET m == r[j] IN
             LET up == r[j - 1] IN
             /\ m.name \in Names /\ FindBytecode(m.name) = m.code
             /\ LastName \notin NamesOfCode(m.code)
             /\ up.next \in DOMAIN up.code.deps
             /\ up.code.deps[up.next].name = m.name /\ up.code.deps[up.next].code = m.code
  <2>1. CASE j = Len(linkStack) + 1
    <3>1. r[j - 1] = Top /\ r[j] = l
      BY <1>3, <1>4, <2>1 DEF Top
    <3> QED
      BY <1>1, <1>2, <3>1
  <2>2. CASE j # Len(linkStack) + 1
    <3>1. j \in DOMAIN linkStack /\ j - 1 \in DOMAIN linkStack
      BY <1>4, <1>7, <2>2
    <3> QED
      BY <1>3, <1>7, <3>1 DEF IInv, Links
  <2> QED
    BY <2>1, <2>2
<1>8. \A x : FindBytecode(x)' = FindBytecode(x)
  BY DEF Keeps
<1>9. Links'
  BY <1>3, <1>6, <1>7, <1>8 DEF Links
<1>10. r[1] = linkStack[1]
  BY <1>2, <1>3, TopFacts
<1> QED
  BY <1>3, <1>4, <1>9, <1>10

LEMMA LinkNestedStep ==
    ASSUME IInv, LinkNested
    PROVE  IInv'
<1> SUFFICES ASSUME NEW n, n = NextDep.name, NEW c, c = FindBytecode(n)
             PROVE  IInv'
  OBVIOUS
<1>1. /\ Linking /\ Depending /\ ~Loaded(n) /\ n # LastName
      /\ UNCHANGED <<cached, linked, exec>>
  BY DEF LinkNested, Depending
<1>2. CASE c = NoCode
  <2>1. linkStack' = <<>> /\ dest' = 0
    BY <1>2 DEF LinkNested, LinkFails
  <2> QED
    BY <1>1, <2>1, Idle, OnlyLinks
<1>3. CASE c # NoCode
  <2>1. linkStack' = Append(linkStack, Pushed(c, n)) /\ dest' = dest
    BY <1>3 DEF LinkNested, LinkCode, Pushed
  <2>2. n \in Names /\ GoodCode(c) /\ Fits(c) /\ LastName \notin NamesOfCode(c)
    BY <1>1, <1>3, FoundModule DEF IInv
  <2>3. /\ Top.next \in DOMAIN Top.code.deps /\ NextDep = Top.code.deps[Top.next]
        /\ NextDep.code = c
    <3>1. Top.next \in DOMAIN Top.code.deps /\ NextDep \in Range(Top.code.deps) /\ Fits(Top.code)
      BY <1>1, TopFacts DEF LinkOf
    <3>2. c \in {NextDep.code, NoCode}
      BY <1>1, <3>1 DEF Fits
    <3> QED
      BY <1>3, <3>1, <3>2 DEF NextDep
  <2>4. exModules' = exModules /\ units' = units /\ last' = last /\ exFunctions' = exFunctions
        /\ cache' = cache
    BY <1>1 DEF linked, cached
  <2>5. /\ \A x : FindBytecode(x)' = FindBytecode(x)
        /\ \A x : Loaded(x)' <=> Loaded(x)
        /\ \A m, x : From(m, x)' <=> From(m, x)
        /\ \A x : Unlinked(x)' = Unlinked(x)
    BY <2>4 DEF FindBytecode, Loaded, From, Unlinked
  <2>6. Keeps /\ ~Failed'
    BY <1>1, <2>4, <2>5, TopFacts, SameCached DEF Keeps, linked, Failed
  <2>7. Links' /\ linkStack'[1] = linkStack[1] /\ linkStack' # <<>>
    BY <1>1, <2>1, <2>2, <2>3, <2>6, Pushing
  <2>8. Loaded(LastName) \/ LastName \notin NamesOfCode(linkStack[1].code)
    <3> SUFFICES ASSUME ~Loaded(LastName), LastName \in NamesOfCode(linkStack[1].code)
                 PROVE  FALSE
      OBVIOUS
    <3>1. PICK d \in Range(Top.code.deps) : d.name = LastName
      BY <1>1, LastPending DEF NamesOfCode
    <3>2. PICK i \in DOMAIN Top.code.deps : Top.code.deps[i] = d
      BY <1>1, TopFacts, SeqFacts
    <3>3. Top.next \in Unlinked(Top.code)
      BY <1>1, <2>3 DEF Unlinked, Loaded
    <3>4. i <= Top.next /\ i # Top.next
      BY <1>1, <2>3, <3>1, <3>2, <3>3, LastPending
    <3>5. i < Top.next
      BY <1>1, <2>3, <3>4, TopFacts
    <3> QED
      BY <1>1, <3>1, <3>2, <3>5, TopFacts DEF LinkOf
  <2>9. Lasts'
    <3>1. \A i \in DOMAIN linkStack[1].code.deps :
              linkStack[1].code.deps[i].name = LastName =>
                  LastName \in NamesOfCode(linkStack[1].code)
      <4>1. IsSeq(linkStack[1].code.deps)
        <5>1. linkStack[1] \in Range(linkStack)
          BY <1>1, TopFacts, SeqFacts
        <5> QED
          BY <5>1 DEF IInv, Links, LinkOf, GoodCode
      <4> QED
        BY <4>1, SeqFacts DEF NamesOfCode
    <3>2. \A i \in DOMAIN linkStack[1].code.deps :
              linkStack[1].code.deps[i].name = LastName =>
                  /\ Loaded(LastName)'
                  /\ \A m \in Range(exModules) :
                         m.name = LastName => From(m, linkStack[1].code.deps[i].code)
      BY <1>1, <2>5, <2>8, <3>1 DEF IInv, Lasts
    <3> QED
      BY <2>4, <2>5, <2>7, <3>2 DEF Lasts
  <2>10. Destination' /\ dest' \in Nat
    BY <1>1, <2>1, <2>4, <2>7 DEF IInv, Destination, Linking, Numbers
  <2> QED
    BY <1>1, <2>7, <2>9, <2>10, OnlyLinks
<1> QED
  BY <1>2, <1>3

LEMMA LinkLastStep ==
    ASSUME IInv, LinkLast
    PROVE  IInv'
<1> DEFINE u == units[Len(units)]
<1> SUFFICES ASSUME NEW m,
                    m = [name  |-> LastName,
                         start |-> Len(exFunctions) - Len(Own(NextDep.code)),
                         vars  |-> globalVarSize - Size(last)]
             PROVE  IInv'
  OBVIOUS
<1>1. /\ Linking /\ Depending /\ ~Loaded(LastName) /\ NextDep.name = LastName
      /\ exModules' = Append(exModules, m) /\ linkStack' = Stepped(linkStack)
      /\ UNCHANGED <<cached, exFunctions, exTypes, globalVarSize, units, exRegVmCode,
                     expired, dest, exec>>
  BY DEF LinkLast, Depending, Registered, Advanced, Stepped
<1>2. LastName \in NamesOfCode(Top.code)
  BY <1>1, TopFacts DEF NamesOfCode
<1>3. LastName \in NamesOfCode(linkStack[1].code)
  <2>1. CASE Len(linkStack) = 1
    BY <1>2, <2>1 DEF Top
  <2>2. CASE Len(linkStack) # 1
    <3>1. Len(linkStack) > 1 /\ Len(linkStack) \in DOMAIN linkStack
      BY <1>1, <2>2, TopFacts
    <3>2. LastName \notin NamesOfCode(linkStack[Len(linkStack)].code)
      BY <3>1 DEF IInv, Links
    <3> QED
      BY <1>2, <3>2 DEF Top
  <2> QED
    BY <2>1, <2>2
<1>4. /\ Len(linkStack) = 1 /\ Top = linkStack[1] /\ units # <<>> /\ u \in Range(units)
      /\ u.code = last
      /\ \A i \in DOMAIN Top.code.deps : Top.code.deps[i].name = LastName => Top.code.deps[i].code = last
  BY <1>1, <1>3, LastPending
<1>5. NextDep.code = last
  BY <1>1, <1>4, TopFacts DEF NextDep
<1>6. /\ u.first + Len(Own(last)) = Len(exFunctions) /\ u.own + Size(last) = globalVarSize
      /\ u.first \in Nat /\ u.own \in Nat
  <2>1. u.fixed
    BY <1>1, <1>4, TopFacts DEF Failed
  <2> QED
    BY <1>4, <2>1 DEF IInv, Ends, Units
<1>7. m.name = LastName /\ m.start = u.first /\ m.vars = u.own
  <2>1. Len(Own(last)) \in Nat /\ Size(last) \in Nat
    <3>1. last.src \in Sources
      BY <1>4 DEF IInv, Units, GoodCode
    <3> QED
      BY <3>1, OwnFacts
  <2>2. m.name = LastName /\ m.start = Len(exFunctions) - Len(Own(last))
        /\ m.vars = globalVarSize - Size(last)
    BY <1>5
  <2> QED
    BY <1>6, <2>1, <2>2
<1>8. From(m, last)
  BY <1>4, <1>7 DEF From
<1>9. IsSeq(exModules') /\ Range(exModules') = Range(exModules) \union {m}
  BY <1>1, AppendSeq DEF IInv, Modules
<1>10. /\ units' = units /\ last' = last /\ exFunctions' = exFunctions /\ cache' = cache
       /\ built' = built /\ dest' = dest
  BY <1>1 DEF cached
<1>11. /\ \A x : FindBytecode(x)' = FindBytecode(x)
       /\ \A x, c : From(x, c)' <=> From(x, c)
       /\ \A x : Loaded(x) => Loaded(x)'
  BY <1>9, <1>10 DEF FindBytecode, Loaded, From
<1>12. Modules'
  <2>1. \E w \in Range(units) : w.first = m.start /\ w.own = m.vars
    BY <1>4, <1>7
  <2> QED
    BY <1>7, <1>9, <1>10, <2>1 DEF IInv, Modules
<1>13. Current'
  BY <1>7, <1>9, <1>11 DEF IInv, Current
<1>14. \A c : Fits(c) => Fits(c)'
  BY <1>7, <1>9, <1>11 DEF Fits
<1>15. Caches'
  <2>1. Held' = Held
    BY <1>10 DEF Held
  <2> QED
    BY <1>10, <1>14, <2>1 DEF IInv, Caches
<1>16. Keeps /\ ~Failed'
  BY <1>1, <1>10, <1>11, <1>14, TopFacts DEF Keeps, Failed
<1>17. Arrived(linkStack)
  <2>1. NextDep.name = linkStack[Len(linkStack)].code.deps[linkStack[Len(linkStack)].next].name
    BY DEF NextDep, Top
  <2>2. Top.next \in DOMAIN Top.code.deps /\ Top = linkStack[Len(linkStack)]
    BY <1>1, TopFacts DEF Top
  <2> QED
    BY <1>1, <1>7, <1>9, <2>1, <2>2 DEF Arrived
<1>18. Links'
  BY <1>1, <1>16, <1>17, TopFacts, Stepping DEF IInv, Linking
<1>19. linkStack'[1].code = linkStack[1].code /\ linkStack' # <<>>
  <2>1. Shaped(linkStack[Len(linkStack)])
    BY <1>1, TopFacts DEF Top, LinkOf, Shaped
  <2> QED
    BY <1>1, <2>1, TopFacts, SteppedFacts DEF Linking
<1>20. Lasts'
  <2>1. \A x \in Range(exModules') : x.name = LastName => x = m
    BY <1>1, <1>9 DEF Loaded
  <2>2. Loaded(LastName)'
    BY <1>7, <1>9 DEF Loaded
  <2>3. \A i \in DOMAIN linkStack[1].code.deps :
            linkStack[1].code.deps[i].name = LastName =>
                \A x \in Range(exModules') : x.name = LastName => From(x, linkStack[1].code.deps[i].code)
    BY <1>4, <1>8, <2>1
  <2> QED
    BY <1>11, <1>19, <2>2, <2>3 DEF Lasts
<1>21. Destination' /\ Numbers'
  BY <1>1, <1>10, <1>19 DEF IInv, Destination, Linking, Numbers
<1>22. /\ Functions' /\ Units' /\ Ends' /\ Buffers' /\ BodiesFixed'
       /\ Resolved' /\ NoRedefinition'
  BY <1>1, SameUnits
<1>23. TypesAgree'
  BY <1>1, <1>10 DEF IInv, OneDefinition, TypesAgree
<1>24. Active'
  BY <1>1, SameActive
<1> QED
  BY <1>12, <1>13, <1>15, <1>18, <1>20, <1>21, <1>22, <1>23, <1>24 DEF IInv, OneDefinition

\* a class that has a size keeps it
LEMMA TypesKept ==
    ASSUME IInv, Linking, NEW S \in SUBSET Types, S \intersect Clashing = {},
           exTypes' = WithTypes(S)
    PROVE  /\ exTypes' \in [Types -> SizeOrAbsent]
           /\ \A t \in Types : exTypes[t] > 0 => exTypes'[t] = exTypes[t]
           /\ \A t \in S : Top.code.types[t] > 0 => exTypes'[t] = Top.code.types[t]
<1>1. /\ exTypes \in [Types -> SizeOrAbsent] /\ Top.code.types \in [Types -> SizeOrAbsent]
  BY TopFacts DEF IInv, Numbers, LinkOf, GoodCode
<1>2. \A t \in Types : exTypes'[t] = IF t \in S /\ Top.code.types[t] > exTypes[t]
                                     THEN Top.code.types[t] ELSE exTypes[t]
  BY DEF WithTypes
<1>3. exTypes' \in [Types -> SizeOrAbsent]
  BY <1>1 DEF WithTypes
<1>4. ASSUME NEW t \in Types
      PROVE  /\ exTypes[t] \in Int /\ exTypes[t] >= -1
             /\ Top.code.types[t] \in Int /\ Top.code.types[t] >= -1
  BY <1>1 DEF SizeOrAbsent, Absent
<1>5. ASSUME NEW t \in S, Top.code.types[t] > 0, exTypes[t] > 0
      PROVE  Top.code.types[t] = exTypes[t]
  BY <1>5 DEF Clashing
<1>6. \A t \in Types : exTypes[t] > 0 => exTypes'[t] = exTypes[t]
  BY <1>2, <1>4, <1>5
<1>7. \A t \in S : Top.code.types[t] > 0 => exTypes'[t] = Top.code.types[t]
  BY <1>2, <1>4, <1>5
<1> QED
  BY <1>3, <1>6, <1>7

LEMMA LinkTypeClashStep ==
    ASSUME IInv, LinkTypeClash
    PROVE  IInv'
<1>1. PICK S \in SUBSET (Types \ Clashing) : exTypes' = WithTypes(S)
  BY DEF LinkTypeClash
<1>2. /\ Linking /\ linkStack' = <<>> /\ dest' = 0
      /\ UNCHANGED <<cached, exModules, exFunctions, globalVarSize, units, exRegVmCode,
                     expired, exec>>
  BY DEF LinkTypeClash, Bodied, LinkFails
<1>3. S \in SUBSET Types /\ S \intersect Clashing = {}
  OBVIOUS
<1>4. /\ exTypes' \in [Types -> SizeOrAbsent]
      /\ \A t \in Types : exTypes[t] > 0 => exTypes'[t] = exTypes[t]
  BY <1>1, <1>2, <1>3, TypesKept
<1>5. Links' /\ Lasts' /\ Destination'
  BY <1>2, Idle
<1>6. Current' /\ Caches'
  BY <1>2, SameCached
<1>7. Modules'
  BY <1>2 DEF IInv, Modules
<1>8. /\ Functions' /\ Units' /\ Ends' /\ Buffers' /\ BodiesFixed'
      /\ Resolved' /\ NoRedefinition'
  BY <1>2, SameUnits
<1>9. Active'
  BY <1>2, SameActive
<1>10. TypesAgree'
  <2> SUFFICES ASSUME NEW u \in Range(units), NEW t \in Types, u.fixed, u.code.types[t] > 0
               PROVE  exTypes'[t] = u.code.types[t]
    BY <1>2 DEF TypesAgree
  <2>1. exTypes[t] = u.code.types[t]
    BY DEF IInv, OneDefinition, TypesAgree
  <2> QED
    BY <1>4, <2>1
<1>11. Numbers'
  BY <1>2, <1>4 DEF IInv, Numbers
<1> QED
  BY <1>5, <1>6, <1>7, <1>8, <1>9, <1>10, <1>11 DEF IInv, OneDefinition

-------------------------------------------------------------------------------
(* LinkCode: a unit is added.                                              *)

\* the list of functions after it: F, with n functions of the unit
Grown(c, F, n, fixed) ==
    /\ IsSeq(F) /\ Len(F) = Len(exFunctions) + n
    /\ \A i \in DOMAIN exFunctions :
          /\ F[i] = [unit |-> F[i].unit, k |-> F[i].k, body |-> F[i].body]
          /\ F[i].unit = exFunctions[i].unit /\ F[i].k = exFunctions[i].k
          /\ F[i].body # exFunctions[i].body =>
                /\ fixed /\ i = dest /\ 1 \in DOMAIN Own(c)
                /\ F[i].body = [unit |-> Len(units) + 1, k |-> 1]
    /\ \A k \in 1..n : F[Len(exFunctions) + k] = Added(k)

\* what the actions that add a unit u of bytecode c do alike
Adding(c, u, F, n, fixed, moves) ==
    /\ Linking /\ ~Depending /\ Clashing = {} /\ c = Top.code /\ u = NewUnit(fixed)
    /\ fixed \in BOOLEAN /\ moves \in BOOLEAN /\ n \in 0..Len(Own(c))
    /\ (fixed => n = Len(Own(c))) /\ \A k \in 1..n : k \notin Redefined
    /\ Grown(c, F, n, fixed) /\ exFunctions' = F
    /\ exTypes' = WithTypes(Types)
    /\ globalVarSize' = globalVarSize + Size(c)
    /\ units' = Append(units, u)
    /\ exRegVmCode' = [count |-> exRegVmCode.count + Len(Own(c)) + 1,
                       id    |-> exRegVmCode.id + IF moves THEN 1 ELSE 0]
    /\ expired' = expired \union IF moves THEN {exRegVmCode} ELSE {}

LEMMA CodeFacts ==
    ASSUME IInv, NEW c, NEW u, NEW F, NEW n, NEW fixed, NEW moves,
           Adding(c, u, F, n, fixed, moves)
    PROVE  /\ GoodCode(c) /\ Fits(c) /\ c.src \in Sources
           /\ Len(Own(c)) \in Nat /\ DOMAIN Own(c) = 1..Len(Own(c)) /\ Size(c) \in Nat
           /\ n \in Nat /\ n <= Len(Own(c)) /\ 1..n \subseteq DOMAIN Own(c)
           /\ IsSeq(c.deps) /\ DOMAIN c.deps = 1..Len(c.deps) /\ Len(c.deps) \in Nat
           /\ ~Failed
<1>1. Linking /\ c = Top.code /\ n \in 0..Len(Own(c))
  BY DEF Adding
<1>2. /\ GoodCode(c) /\ Fits(c) /\ ~Failed /\ IsSeq(c.deps)
      /\ DOMAIN c.deps = 1..Len(c.deps) /\ Len(c.deps) \in Nat
  BY <1>1, TopFacts DEF LinkOf
<1>3. c.src \in Sources
  BY <1>2 DEF GoodCode
<1>4. Len(Own(c)) \in Nat /\ DOMAIN Own(c) = 1..Len(Own(c)) /\ Size(c) \in Nat
  BY <1>3, OwnFacts
<1>5. n \in Nat /\ n <= Len(Own(c)) /\ 1..n \subseteq DOMAIN Own(c)
  BY <1>1, <1>4
<1> QED
  BY <1>2, <1>3, <1>4, <1>5

LEMMA UnitOf ==
    ASSUME NEW c, NEW u, NEW fixed, c = Top.code, u = NewUnit(fixed)
    PROVE  /\ u.code = c /\ u.start = exRegVmCode.count /\ u.first = Len(exFunctions)
           /\ u.own = globalVarSize /\ u.fixed = fixed
           /\ DOMAIN u.calls = Table(c) /\ \A e \in Table(c) : u.calls[e] = FuncRemap(e)
           /\ DOMAIN u.vars = DOMAIN c.deps
           /\ \A d \in DOMAIN c.deps : u.vars[d] = Module(c.deps[d].name).vars
BY DEF NewUnit

LEMMA UnitsAfter ==
    ASSUME IInv, NEW c, NEW u, NEW F, NEW n, NEW fixed, NEW moves,
           Adding(c, u, F, n, fixed, moves)
    PROVE  /\ IsSeq(units) /\ Len(units) \in Nat /\ DOMAIN units = 1..Len(units)
           /\ IsSeq(units') /\ Len(units') = Len(units) + 1
           /\ DOMAIN units' = 1..Len(units) + 1 /\ Range(units') = Range(units) \union {u}
           /\ \A w \in DOMAIN units : w \in DOMAIN units' /\ units'[w] = units[w]
           /\ Len(units) + 1 \in DOMAIN units' /\ units'[Len(units) + 1] = u
           /\ \A w \in DOMAIN units' : w \in DOMAIN units \/ w = Len(units) + 1
           /\ \A w \in DOMAIN units : units[w].fixed /\ units[w] \in Range(units)
           /\ \A w \in Range(units) : w.fixed
<1>1. IsSeq(units) /\ units' = Append(units, u)
  BY DEF IInv, Units, Adding
<1>2. Len(units) \in Nat /\ DOMAIN units = 1..Len(units)
  BY <1>1, SeqFacts
<1>3. /\ IsSeq(units') /\ Len(units') = Len(units) + 1
      /\ \A w \in DOMAIN units : w \in DOMAIN units' /\ units'[w] = units[w]
      /\ units'[Len(units) + 1] = u /\ Range(units') = Range(units) \union {u}
  BY <1>1, AppendSeq
<1>4. DOMAIN units' = 1..Len(units) + 1
  <2>1. DOMAIN units' = 1..Len(units')
    <3> SUFFICES ASSUME NEW q, q = units' PROVE DOMAIN q = 1..Len(q)
      OBVIOUS
    <3> QED
      BY <1>3, SeqFacts
  <2> QED
    BY <1>3, <2>1
<1>5. \A w \in Range(units) : w.fixed
  BY CodeFacts DEF Failed
<1>6. \A w \in DOMAIN units : units[w] \in Range(units)
  BY <1>1, SeqFacts
<1>7. Len(units) + 1 \in DOMAIN units' /\ \A w \in DOMAIN units' : w \in DOMAIN units \/ w = Len(units) + 1
  BY <1>2, <1>4
<1> QED
  BY <1>1, <1>2, <1>3, <1>4, <1>5, <1>6, <1>7

\* what an entry of the list is: an earlier one, or a function of the unit
OldEntry(f, i) ==
    i \in DOMAIN exFunctions /\ f.unit = exFunctions[i].unit /\ f.k = exFunctions[i].k
NewEntry(f, n) ==
    f.k \in 1..n /\ f = [unit |-> Len(units) + 1, k |-> f.k, body |-> f.body]
                 /\ f.body = [unit |-> Len(units) + 1, k |-> f.k]

LEMMA AddedFacts ==
    ASSUME IInv, NEW c, NEW u, NEW F, NEW n, NEW fixed, NEW moves,
           Adding(c, u, F, n, fixed, moves), NEW k \in 1..n
    PROVE  \/ /\ Own(c)[k].kind = "generic"
              /\ \E i \in Older(k) : Added(k) = exFunctions[i]
           \/ NewEntry(Added(k), n) /\ Added(k).k = k
<1>1. c = Top.code
  BY DEF Adding
<1>2. CASE Own(c)[k].kind = "generic" /\ Older(k) # {}
  BY <1>1, <1>2 DEF Added
<1>3. CASE ~(Own(c)[k].kind = "generic" /\ Older(k) # {})
  <2>1. Added(k) = [unit |-> Unit, k |-> k, body |-> [unit |-> Unit, k |-> k]]
    BY <1>1, <1>3 DEF Added
  <2> QED
    BY <2>1 DEF NewEntry, Unit
<1> QED
  BY <1>2, <1>3

LEMMA FunctionsAfter ==
    ASSUME IInv, NEW c, NEW u, NEW F, NEW n, NEW fixed, NEW moves,
           Adding(c, u, F, n, fixed, moves)
    PROVE  /\ IsSeq(exFunctions) /\ Len(exFunctions) \in Nat
           /\ DOMAIN exFunctions = 1..Len(exFunctions)
           /\ IsSeq(F) /\ Len(F) = Len(exFunctions) + n /\ DOMAIN F = 1..Len(exFunctions) + n
           /\ \A i \in DOMAIN exFunctions : i \in DOMAIN F /\ OldEntry(F[i], i)
           /\ \A i \in DOMAIN exFunctions : exFunctions[i] \in Range(exFunctions)
           /\ \A k \in 1..n : Len(exFunctions) + k \in DOMAIN F /\ F[Len(exFunctions) + k] = Added(k)
           /\ \A i \in DOMAIN F : i \in DOMAIN exFunctions
                                  \/ \E k \in 1..n : i = Len(exFunctions) + k /\ F[i] = Added(k)
<1>1. IsSeq(exFunctions)
  BY DEF IInv, Functions
<1>2. Len(exFunctions) \in Nat /\ DOMAIN exFunctions = 1..Len(exFunctions)
      /\ \A i \in DOMAIN exFunctions : exFunctions[i] \in Range(exFunctions)
  BY <1>1, SeqFacts
<1>3. IsSeq(F) /\ Len(F) = Len(exFunctions) + n /\ n \in Nat
      /\ \A k \in 1..n : F[Len(exFunctions) + k] = Added(k)
  BY CodeFacts DEF Adding, Grown
<1>4. DOMAIN F = 1..Len(exFunctions) + n
  BY <1>3, SeqFacts
<1>5. \A i \in DOMAIN exFunctions : OldEntry(F[i], i)
  BY DEF Adding, Grown, OldEntry
<1>6. \A i \in DOMAIN exFunctions : i \in DOMAIN F
  BY <1>2, <1>3, <1>4
<1>7. \A k \in 1..n : Len(exFunctions) + k \in DOMAIN F
  BY <1>2, <1>3, <1>4
<1>8. ASSUME NEW i \in DOMAIN F, i \notin DOMAIN exFunctions
      PROVE  \E k \in 1..n : i = Len(exFunctions) + k /\ F[i] = Added(k)
  <2>1. i - Len(exFunctions) \in 1..n /\ i = Len(exFunctions) + (i - Len(exFunctions))
    BY <1>2, <1>3, <1>4, <1>8
  <2> QED
    BY <1>3, <2>1
<1> QED
  BY <1>1, <1>2, <1>3, <1>4, <1>5, <1>6, <1>7, <1>8

\* where functions and modules were they still are
LEMMA Stays ==
    ASSUME IInv, NEW c, NEW u, NEW F, NEW n, NEW fixed, NEW moves,
           Adding(c, u, F, n, fixed, moves)
    PROVE  /\ \A i \in DOMAIN exFunctions : Fn(F[i])' = Fn(exFunctions[i])
           /\ \A i, x, k : IsFunction(i, x, k) => IsFunction(i, x, k)'
           /\ \A m, x : From(m, x) => From(m, x)'
<1>1. exFunctions' = F
  BY DEF Adding
<1>2. ASSUME NEW i \in DOMAIN exFunctions
      PROVE  /\ i \in DOMAIN F /\ F[i].unit = exFunctions[i].unit /\ F[i].k = exFunctions[i].k
             /\ units'[F[i].unit] = units[exFunctions[i].unit]
  <2>1. i \in DOMAIN F /\ OldEntry(F[i], i) /\ exFunctions[i] \in Range(exFunctions)
    BY FunctionsAfter
  <2>2. exFunctions[i].unit \in DOMAIN units
    BY <2>1 DEF IInv, Functions
  <2> QED
    BY <2>1, <2>2, UnitsAfter DEF OldEntry
<1>3. \A i \in DOMAIN exFunctions : Fn(F[i])' = Fn(exFunctions[i])
  BY <1>2 DEF Fn
<1>4. ASSUME NEW i, NEW x, NEW k, IsFunction(i, x, k) PROVE IsFunction(i, x, k)'
  <2>1. i \in DOMAIN exFunctions
    BY <1>4 DEF IsFunction
  <2>2. CASE Own(x)[k].kind = "generic"
    <3>1. Fn(exFunctions[i]).name = Own(x)[k].name
      BY <1>4, <2>2 DEF IsFunction
    <3>2. Fn(exFunctions[i])' = Fn(exFunctions[i])
      BY <1>1, <1>2, <2>1 DEF Fn
    <3> QED
      BY <1>1, <1>2, <2>1, <2>2, <3>1, <3>2 DEF IsFunction
  <2>3. CASE Own(x)[k].kind # "generic"
    BY <1>1, <1>2, <1>4, <2>1, <2>3 DEF IsFunction
  <2> QED
    BY <2>2, <2>3
<1>5. ASSUME NEW m, NEW x, From(m, x) PROVE From(m, x)'
  BY <1>5, UnitsAfter DEF From
<1> QED
  BY <1>3, <1>4, <1>5

\* the modules that the unit refers to are where its bytecode expects them
LEMMA KnownTop ==
    ASSUME IInv, NEW c, NEW u, NEW F, NEW n, NEW fixed, NEW moves,
           Adding(c, u, F, n, fixed, moves), NEW d \in DOMAIN c.deps
    PROVE  From(Module(c.deps[d].name), c.deps[d].code)
<1> DEFINE name == c.deps[d].name
<1>1. Linking /\ ~Depending /\ c = Top.code
  BY DEF Adding
<1>2. Loaded(name)
  BY <1>1, TopFacts DEF LinkOf
<1>3. Module(name) \in Range(exModules) /\ Module(name).name = name
  BY <1>2 DEF Loaded, Module
<1>4. c.deps[d] \in Range(c.deps)
  BY CodeFacts, SeqFacts
<1>5. CASE name # LastName
  BY <1>3, <1>4, <1>5, CodeFacts DEF Fits
<1>6. CASE name = LastName
  <2>1. LastName \in NamesOfCode(c)
    BY <1>4, <1>6 DEF NamesOfCode
  <2>2. Len(linkStack) = 1
    <3> SUFFICES ASSUME Len(linkStack) # 1 PROVE FALSE
      OBVIOUS
    <3>1. Len(linkStack) > 1 /\ Len(linkStack) \in DOMAIN linkStack
      BY <1>1, TopFacts
    <3>2. LastName \notin NamesOfCode(linkStack[Len(linkStack)].code)
      BY <3>1 DEF IInv, Links
    <3> QED
      BY <1>1, <2>1, <3>2 DEF Top
  <2>3. c = linkStack[1].code
    BY <1>1, <2>2 DEF Top
  <2> QED
    BY <1>1, <1>3, <1>6, <2>3 DEF IInv, Lasts
<1> QED
  BY <1>5, <1>6

\* a function of the unit is where it is expected
LEMMA PlacedNew ==
    ASSUME IInv, NEW c, NEW u, NEW F, NEW n, NEW fixed, NEW moves,
           Adding(c, u, F, n, fixed, moves), NEW k \in 1..n,
           NEW i, i = Len(exFunctions) + k
    PROVE  IsFunction(i, c, k)'
<1>1. exFunctions' = F /\ c = Top.code
  BY DEF Adding
<1>2. i \in DOMAIN F /\ F[i] = Added(k)
  BY FunctionsAfter
<1>3. CASE NewEntry(Added(k), n) /\ Added(k).k = k
  <2>1. Added(k).unit = Len(units) + 1
    BY <1>3 DEF NewEntry
  <2>2. units'[F[i].unit].code = c
    <3>1. u.code = c
      BY UnitOf DEF Adding
    <3> QED
      BY <1>2, <2>1, <3>1, UnitsAfter
  <2>3. Fn(exFunctions[i])' = Own(c)[k]
    BY <1>1, <1>2, <1>3, <2>2 DEF Fn
  <2> QED
    BY <1>1, <1>2, <1>3, <2>2, <2>3 DEF IsFunction
<1>4. CASE Own(c)[k].kind = "generic" /\ \E a \in Older(k) : Added(k) = exFunctions[a]
  <2>1. PICK a \in Older(k) : Added(k) = exFunctions[a]
    BY <1>4
  <2>2. a \in DOMAIN exFunctions /\ Fn(exFunctions[a]).name = Own(c)[k].name
    BY <1>1 DEF Older
  <2>3. exFunctions[a].unit \in DOMAIN units
    BY <2>2, FunctionsAfter DEF IInv, Functions
  <2>4. units'[exFunctions[a].unit] = units[exFunctions[a].unit]
    BY <2>3, UnitsAfter
  <2>5. Fn(exFunctions[i])' = Fn(exFunctions[a])
    BY <1>1, <1>2, <2>1, <2>4 DEF Fn
  <2> QED
    BY <1>1, <1>2, <1>4, <2>2, <2>5 DEF IsFunction
<1> QED
  BY <1>3, <1>4, AddedFacts

LEMMA TableFacts ==
    ASSUME NEW c, NEW e \in Table(c)
    PROVE  /\ e.dep = 0 \/ (e.dep # 0 /\ e.dep \in DOMAIN c.deps)
           /\ e.k \in DOMAIN Own(Meant(c, e.dep))
BY DEF Table

\* the calls of the unit are resolved
LEMMA CallsNew ==
    ASSUME IInv, NEW c, NEW u, NEW F, NEW n, NEW fixed, NEW moves,
           Adding(c, u, F, n, fixed, moves), fixed, NEW e \in Table(c)
    PROVE  IsFunction(u.calls[e], Meant(c, e.dep), e.k)'
<1>1. u.calls[e] = FuncRemap(e) /\ c = Top.code
  <2>1. c = Top.code /\ u = NewUnit(fixed)
    BY DEF Adding
  <2>2. \A x \in Table(c) : u.calls[x] = FuncRemap(x)
    BY <2>1 DEF NewUnit
  <2> QED
    BY <2>1, <2>2
<1>2. CASE e.dep = 0
  <2>1. u.calls[e] = Len(exFunctions) + e.k /\ Meant(c, e.dep) = c
    BY <1>1, <1>2 DEF FuncRemap, Meant
  <2>2. e.k \in 1..n
    <3>1. n = Len(Own(c))
      BY DEF Adding
    <3> QED
      BY <2>1, <3>1, TableFacts, CodeFacts
  <2> QED
    BY <2>1, <2>2, PlacedNew
<1>3. CASE e.dep # 0 /\ e.dep \in DOMAIN c.deps
  <2> DEFINE x == c.deps[e.dep].code
             m == Module(c.deps[e.dep].name)
  <2>1. u.calls[e] = m.start + e.k /\ Meant(c, e.dep) = x /\ e.k \in DOMAIN Own(x)
    BY <1>1, <1>3, TableFacts DEF FuncRemap, Meant
  <2>2. From(m, x)
    BY <1>3, KnownTop
  <2>3. PICK w \in Range(units) : w.code = x /\ w.first = m.start
    BY <2>2 DEF From
  <2>4. Placed(w)
    BY <2>3, UnitsAfter DEF IInv, Units
  <2>5. IsFunction(w.first + e.k, x, e.k)
    BY <2>1, <2>3, <2>4 DEF Placed
  <2>6. IsFunction(u.calls[e], x, e.k)
    BY <2>1, <2>3, <2>5
  <2> QED
    BY <2>1, <2>6, Stays
<1> QED
  BY <1>2, <1>3, TableFacts

LEMMA AddingResolved ==
    ASSUME IInv, NEW c, NEW u, NEW F, NEW n, NEW fixed, NEW moves,
           Adding(c, u, F, n, fixed, moves)
    PROVE  Resolved'
<1>1. /\ u.code = c /\ u.fixed = fixed /\ u.own = globalVarSize /\ DOMAIN u.vars = DOMAIN c.deps
      /\ \A d \in DOMAIN c.deps : u.vars[d] = Module(c.deps[d].name).vars
  BY UnitOf DEF Adding
<1>2. Range(units') = Range(units) \union {u}
  BY UnitsAfter
<1>3. CallsResolved'
  <2> SUFFICES ASSUME NEW w \in Range(units'), w.fixed, NEW e \in Table(w.code)
               PROVE  IsFunction(w.calls[e], Meant(w.code, e.dep), e.k)'
    BY DEF CallsResolved
  <2>1. CASE w \in Range(units)
    <3>1. IsFunction(w.calls[e], Meant(w.code, e.dep), e.k)
      BY <2>1 DEF IInv, Resolved, CallsResolved
    <3> QED
      BY <3>1, Stays
  <2>2. CASE w = u
    BY <1>1, <2>2, CallsNew
  <2> QED
    BY <1>2, <2>1, <2>2
<1>4. ASSUME NEW w \in Range(units'), w.fixed, NEW d \in DOMAIN w.vars
      PROVE  \E v \in Range(units') : v.code = w.code.deps[d].code /\ v.own = w.vars[d]
  <2>1. CASE w \in Range(units)
    BY <1>2, <1>4, <2>1 DEF IInv, Resolved, GlobalsResolved
  <2>2. CASE w = u
    <3>1. From(Module(c.deps[d].name), c.deps[d].code)
      BY <1>1, <1>4, <2>2, KnownTop
    <3> QED
      BY <1>1, <1>2, <1>4, <2>2, <3>1 DEF From
  <2> QED
    BY <1>2, <2>1, <2>2
<1>5. ASSUME NEW i \in DOMAIN units', NEW j \in DOMAIN units', i < j
      PROVE  units'[i].own + Size(units'[i].code) <= units'[j].own
  <2>1. i \in DOMAIN units /\ units'[i] = units[i] /\ units[i] \in Range(units)
    BY <1>5, UnitsAfter
  <2>2. CASE j \in DOMAIN units
    <3>1. units'[j] = units[j]
      BY <2>2, UnitsAfter
    <3> QED
      BY <1>5, <2>1, <2>2, <3>1 DEF IInv, Resolved, GlobalsResolved
  <2>3. CASE units'[j] = u
    BY <1>1, <2>1, <2>3 DEF IInv, Units
  <2> QED
    BY <2>2, <2>3, UnitsAfter
<1>6. GlobalsResolved'
  BY <1>4, <1>5 DEF GlobalsResolved
<1> QED
  BY <1>3, <1>6 DEF Resolved

BufferOf(C, I) == [count |-> C, id |-> I]

LEMMA BufferFacts ==
    ASSUME NEW C \in Nat, NEW I \in Nat
    PROVE  /\ BufferOf(C, I) \in [count : Nat, id : Nat]
           /\ BufferOf(C, I).count = C /\ BufferOf(C, I).id = I
BY DEF BufferOf

LEMMA AddingUnits ==
    ASSUME IInv, NEW c, NEW u, NEW F, NEW n, NEW fixed, NEW moves,
           Adding(c, u, F, n, fixed, moves)
    PROVE  Units' /\ Ends' /\ Buffers' /\ (fixed => ~Failed')
<1>1. /\ u.code = c /\ u.fixed = fixed /\ u.own = globalVarSize /\ u.start = exRegVmCode.count
      /\ u.first = Len(exFunctions) /\ DOMAIN u.calls = Table(c)
  BY UnitOf DEF Adding
<1>2. /\ exFunctions' = F /\ globalVarSize' = globalVarSize + Size(c)
      /\ exRegVmCode'.count = exRegVmCode.count + Len(Own(c)) + 1
      /\ exRegVmCode'.id = exRegVmCode.id + IF moves THEN 1 ELSE 0
      /\ exRegVmCode' = [count |-> exRegVmCode'.count, id |-> exRegVmCode'.id]
      /\ expired' = expired \union IF moves THEN {exRegVmCode} ELSE {}
      /\ moves \in BOOLEAN
  BY DEF Adding
<1>3. /\ Len(Own(c)) \in Nat /\ DOMAIN Own(c) = 1..Len(Own(c)) /\ Size(c) \in Nat /\ GoodCode(c)
  BY CodeFacts
<1>4. Len(exFunctions) \in Nat /\ Len(F) = Len(exFunctions) + n /\ n \in Nat
  BY FunctionsAfter, CodeFacts
<1>5. /\ exRegVmCode.count \in Nat /\ exRegVmCode.id \in Nat /\ globalVarSize \in Nat
  BY DEF IInv, Buffers, Numbers
<1>6. Buffers'
  <2> SUFFICES ASSUME NEW C, C = exRegVmCode.count + Len(Own(c)) + 1,
                      NEW I, I = exRegVmCode.id + IF moves THEN 1 ELSE 0
               PROVE  Buffers'
    OBVIOUS
  <2>1. /\ C \in Nat /\ I \in Nat /\ exRegVmCode.count <= C /\ exRegVmCode.id <= I
        /\ moves => exRegVmCode.id < I
    BY <1>2, <1>3, <1>5
  <2>2. exRegVmCode' = BufferOf(C, I)
    BY DEF Adding, BufferOf
  <2>3. exRegVmCode' \in [count : Nat, id : Nat] /\ exRegVmCode'.count = C /\ exRegVmCode'.id = I
    BY <2>1, <2>2, BufferFacts
  <2>4. ASSUME NEW b \in expired' PROVE b.id \in Nat /\ b.id < I /\ b.count \in Nat /\ b.count <= C
    <3>1. CASE b \in expired
      <4>1. b.id \in Nat /\ b.id < exRegVmCode.id /\ b.count \in Nat /\ b.count <= exRegVmCode.count
        BY <3>1 DEF IInv, Buffers
      <4> QED
        BY <1>5, <2>1, <4>1
    <3>2. CASE moves /\ b = exRegVmCode
      BY <1>5, <2>1, <3>2
    <3>3. b \in expired \/ (moves /\ b = exRegVmCode)
      BY <1>2
    <3> QED
      BY <3>1, <3>2, <3>3
  <2> QED
    BY <2>3, <2>4 DEF Buffers
<1>7. ASSUME NEW w \in Range(units'), w.fixed PROVE Placed(w)'
  <2>1. CASE w \in Range(units)
    <3>1. Placed(w)
      BY <1>7, <2>1 DEF IInv, Units
    <3> QED
      BY <3>1, Stays DEF Placed
  <2>2. CASE w = u
    <3>1. n = Len(Own(c))
      BY <1>1, <1>7, <2>2 DEF Adding
    <3>2. \A k \in DOMAIN Own(c) : IsFunction(w.first + k, c, k)'
      BY <1>1, <1>3, <2>2, <3>1, PlacedNew
    <3> QED
      BY <1>1, <2>2, <3>2 DEF Placed
  <2> QED
    BY <2>1, <2>2, UnitsAfter
<1>8. ASSUME NEW w \in Range(units')
      PROVE  /\ GoodCode(w.code) /\ w.start \in Nat /\ w.first \in Nat /\ w.own \in Nat
             /\ DOMAIN w.calls = Table(w.code)
             /\ CodeEnd(w) < exRegVmCode'.count /\ w.own + Size(w.code) <= globalVarSize'
  <2>1. CASE w \in Range(units)
    <3>1. /\ GoodCode(w.code) /\ w.start \in Nat /\ w.first \in Nat /\ w.own \in Nat
          /\ DOMAIN w.calls = Table(w.code)
          /\ CodeEnd(w) < exRegVmCode.count /\ w.own + Size(w.code) <= globalVarSize
      BY <2>1 DEF IInv, Units
    <3>2. Len(Own(w.code)) \in Nat /\ Size(w.code) \in Nat
      BY <3>1, OwnFacts DEF GoodCode
    <3>3. CodeEnd(w) \in Nat
      BY <3>1, <3>2 DEF CodeEnd
    <3> QED
      BY <1>2, <1>3, <1>5, <3>1, <3>2, <3>3
  <2>2. CASE w = u
    <3>1. CodeEnd(w) = exRegVmCode.count + Len(Own(c))
      BY <1>1, <2>2 DEF CodeEnd
    <3> QED
      BY <1>1, <1>2, <1>3, <1>4, <1>5, <2>2, <3>1
  <2> QED
    BY <2>1, <2>2, UnitsAfter
<1>9. ASSUME NEW i \in DOMAIN units', i < Len(units') PROVE units'[i].fixed
  <2>1. i \in DOMAIN units
    BY <1>9, UnitsAfter
  <2> QED
    BY <2>1, UnitsAfter
<1>10. Units'
  <2>1. IsSeq(units')
    BY UnitsAfter
  <2> QED
    BY <1>7, <1>8, <1>9, <2>1 DEF Units, CodeEnd
<1>11. Ends'
  <2>1. units'[Len(units')] = u
    BY UnitsAfter
  <2>2. fixed => n = Len(Own(c))
    BY DEF Adding
  <2> QED
    BY <1>1, <1>2, <1>4, <2>1, <2>2 DEF Ends
<1>12. fixed => ~Failed'
  <2> SUFFICES ASSUME fixed, NEW w \in Range(units') PROVE w.fixed
    BY DEF Failed
  <2>1. w \in Range(units) \/ w = u
    BY UnitsAfter
  <2>2. \A x \in Range(units) : x.fixed
    BY UnitsAfter
  <2>3. u.fixed
    BY <1>1, Zenon
  <2> QED
    BY <2>1, <2>2, <2>3, Zenon
<1> QED
  BY <1>6, <1>10, <1>11, <1>12

LEMMA AddingFunctions ==
    ASSUME IInv, NEW c, NEW u, NEW F, NEW n, NEW fixed, NEW moves,
           Adding(c, u, F, n, fixed, moves)
    PROVE  /\ Functions'
           /\ \A f \in Range(F) : units'[f.body.unit].fixed \/ ~fixed
           /\ \A f \in Range(F) : (\E i : OldEntry(f, i)) \/ NewEntry(f, n)
<1>1. /\ u.code = c /\ u.fixed = fixed
  BY UnitOf DEF Adding
<1>2. exFunctions' = F
  BY DEF Adding
<1> DEFINE Good(f) == /\ f = [unit |-> f.unit, k |-> f.k, body |-> f.body]
                      /\ f.unit \in DOMAIN units' /\ f.k \in DOMAIN Own(units'[f.unit].code)
                      /\ f.body.unit \in DOMAIN units'
                      /\ f.body.k \in DOMAIN Own(units'[f.body.unit].code)
<1>3. ASSUME NEW f \in Range(exFunctions)
      PROVE  Good(f)
  <2>1. /\ f = [unit |-> f.unit, k |-> f.k, body |-> f.body]
        /\ f.unit \in DOMAIN units /\ f.k \in DOMAIN Own(units[f.unit].code)
        /\ f.body.unit \in DOMAIN units /\ f.body.k \in DOMAIN Own(units[f.body.unit].code)
    BY DEF IInv, Functions
  <2> QED
    BY <2>1, UnitsAfter
<1>4. ASSUME NEW f, NewEntry(f, n) PROVE Good(f)
  <2>1. /\ f = [unit |-> Len(units) + 1, k |-> f.k, body |-> f.body] /\ f.k \in 1..n
        /\ f.body = [unit |-> Len(units) + 1, k |-> f.k]
    BY <1>4 DEF NewEntry
  <2>2. /\ f.unit = Len(units) + 1 /\ f.body.unit = Len(units) + 1 /\ f.body.k = f.k
        /\ f = [unit |-> f.unit, k |-> f.k, body |-> f.body]
    BY <2>1
  <2>3. f.k \in DOMAIN Own(c)
    BY <2>1, CodeFacts
  <2>4. Len(units) + 1 \in DOMAIN units' /\ units'[Len(units) + 1].code = c
    BY <1>1, UnitsAfter
  <2> QED
    BY <2>2, <2>3, <2>4
<1>5. ASSUME NEW f \in Range(F)
      PROVE  Good(f) /\ ((\E i : OldEntry(f, i)) \/ NewEntry(f, n))
  <2>1. PICK i \in DOMAIN F : F[i] = f
    BY FunctionsAfter, SeqFacts
  <2>2. CASE i \in DOMAIN exFunctions
    <3>1. OldEntry(f, i) /\ exFunctions[i] \in Range(exFunctions)
      BY <2>1, <2>2, FunctionsAfter
    <3>2. Good(exFunctions[i])
      BY <1>3, <3>1
    <3>3. f.unit = exFunctions[i].unit /\ f.k = exFunctions[i].k
          /\ f = [unit |-> f.unit, k |-> f.k, body |-> f.body]
      BY <2>1, <2>2 DEF Adding, Grown
    <3>4. CASE f.body = exFunctions[i].body
      BY <3>1, <3>2, <3>3, <3>4
    <3>5. CASE f.body # exFunctions[i].body
      <4>1. 1 \in DOMAIN Own(c) /\ f.body = [unit |-> Len(units) + 1, k |-> 1]
        BY <2>1, <2>2, <3>5 DEF Adding, Grown
      <4>2. f.body.unit = Len(units) + 1 /\ f.body.k = 1
        BY <4>1
      <4>3. Len(units) + 1 \in DOMAIN units' /\ units'[Len(units) + 1].code = c
        BY <1>1, UnitsAfter
      <4> QED
        BY <3>1, <3>2, <3>3, <4>1, <4>2, <4>3
    <3> QED
      BY <3>4, <3>5
  <2>3. CASE \E k \in 1..n : F[i] = Added(k)
    <3>1. PICK k \in 1..n : f = Added(k)
      BY <2>1, <2>3
    <3>2. CASE NewEntry(f, n)
      BY <1>4, <3>2
    <3>3. CASE \E a \in Older(k) : f = exFunctions[a]
      <4>1. PICK a \in Older(k) : f = exFunctions[a]
        BY <3>3
      <4>2. a \in DOMAIN exFunctions /\ f \in Range(exFunctions)
        BY <4>1, FunctionsAfter DEF Older
      <4>3. OldEntry(f, a)
        BY <4>1, <4>2 DEF OldEntry
      <4> QED
        BY <1>3, <4>2, <4>3
    <3> QED
      BY <3>1, <3>2, <3>3, AddedFacts
  <2> QED
    BY <2>1, <2>2, <2>3, FunctionsAfter
<1>6. Functions'
  BY <1>2, <1>5, FunctionsAfter DEF Functions
<1>7. ASSUME NEW f \in Range(F), fixed PROVE units'[f.body.unit].fixed
  <2>1. f.body.unit \in DOMAIN units'
    BY <1>5
  <2>2. CASE f.body.unit \in DOMAIN units
    BY <2>2, UnitsAfter
  <2>3. CASE f.body.unit = Len(units) + 1
    <3>1. units'[f.body.unit] = u
      BY <2>3, UnitsAfter
    <3> QED
      BY <1>1, <1>7, <3>1, Zenon
  <2> QED
    BY <2>1, <2>2, <2>3, UnitsAfter
<1> QED
  BY <1>5, <1>6, <1>7

LEMMA AddingBodies ==
    ASSUME IInv, NEW c, NEW u, NEW F, NEW n, NEW fixed, NEW moves,
           Adding(c, u, F, n, fixed, moves), Resolved'
    PROVE  BodiesFixed'
<1>1. exFunctions' = F /\ fixed \in BOOLEAN /\ u.fixed = fixed
  BY UnitOf DEF Adding
<1> SUFFICES ASSUME NEW w \in Range(units'), w.fixed, NEW e \in Table(w.code)
             PROVE  units'[F[w.calls[e]].body.unit].fixed
  BY <1>1 DEF BodiesFixed
<1>2. w.calls[e] \in DOMAIN F
  BY <1>1 DEF Resolved, CallsResolved, IsFunction
<1>3. F[w.calls[e]] \in Range(F)
  BY <1>2, FunctionsAfter, SeqFacts
<1>4. CASE fixed
  BY <1>3, <1>4, AddingFunctions
<1>5. CASE ~fixed
  <2>1. w \in Range(units)
    <3>1. w \in Range(units) \/ w = u
      BY UnitsAfter
    <3> QED
      BY <1>1, <1>5, <3>1, Zenon
  <2>2. w.calls[e] \in DOMAIN exFunctions
    BY <2>1 DEF IInv, Resolved, CallsResolved, IsFunction
  <2>3. F[w.calls[e]].body = exFunctions[w.calls[e]].body
    BY <1>5, <2>2 DEF Adding, Grown
  <2>4. exFunctions[w.calls[e]].body.unit \in DOMAIN units
    BY <2>2, FunctionsAfter DEF IInv, Functions
  <2> QED
    BY <2>3, <2>4, UnitsAfter
<1> QED
  BY <1>1, <1>4, <1>5

LEMMA AddingTypes ==
    ASSUME IInv, NEW c, NEW u, NEW F, NEW n, NEW fixed, NEW moves,
           Adding(c, u, F, n, fixed, moves)
    PROVE  /\ TypesAgree' /\ exTypes' \in [Types -> SizeOrAbsent]
           /\ \A t \in Types : exTypes[t] > 0 => exTypes'[t] = exTypes[t]
<1>1. Linking /\ Clashing = {} /\ c = Top.code /\ exTypes' = WithTypes(Types) /\ u.code = c
  BY UnitOf DEF Adding
<1>2. /\ exTypes' \in [Types -> SizeOrAbsent]
      /\ \A t \in Types : exTypes[t] > 0 => exTypes'[t] = exTypes[t]
      /\ \A t \in Types : c.types[t] > 0 => exTypes'[t] = c.types[t]
  BY <1>1, TypesKept
<1>3. TypesAgree'
  <2> SUFFICES ASSUME NEW w \in Range(units'), NEW t \in Types, w.fixed, w.code.types[t] > 0
               PROVE  exTypes'[t] = w.code.types[t]
    BY DEF TypesAgree
  <2>1. CASE w \in Range(units)
    <3>1. exTypes[t] = w.code.types[t]
      BY <2>1 DEF IInv, OneDefinition, TypesAgree
    <3> QED
      BY <1>2, <3>1
  <2>2. CASE w = u
    BY <1>1, <1>2, <2>2
  <2> QED
    BY <2>1, <2>2, UnitsAfter
<1> QED
  BY <1>2, <1>3

LEMMA AddingOnce ==
    ASSUME IInv, NEW c, NEW u, NEW F, NEW n, NEW fixed, NEW moves,
           Adding(c, u, F, n, fixed, moves)
    PROVE  NoRedefinition'
<1>1. exFunctions' = F /\ c = Top.code /\ u.code = c /\ \A k \in 1..n : k \notin Redefined
  BY UnitOf DEF Adding
<1>2. ASSUME NEW f, NEW i, OldEntry(f, i)
      PROVE  Fn(f)' = Fn(exFunctions[i]) /\ exFunctions[i] \in Range(exFunctions)
  <2>1. i \in DOMAIN exFunctions /\ exFunctions[i] \in Range(exFunctions)
    BY <1>2, FunctionsAfter DEF OldEntry
  <2>2. exFunctions[i].unit \in DOMAIN units
    BY <2>1 DEF IInv, Functions
  <2> QED
    BY <1>2, <2>1, <2>2, UnitsAfter DEF OldEntry, Fn
<1>3. ASSUME NEW f, NewEntry(f, n)
      PROVE  Fn(f)' = Own(c)[f.k] /\ f.unit = Len(units) + 1 /\ f.k \in DOMAIN Own(c) /\ f.k \in 1..n
  <2>1. f.unit = Len(units) + 1 /\ f.k \in 1..n
    BY <1>3 DEF NewEntry
  <2>2. units'[f.unit].code = c
    BY <1>1, <2>1, UnitsAfter
  <2> QED
    BY <2>1, <2>2, CodeFacts DEF Fn
<1>4. ASSUME NEW f, NEW g, NEW i, OldEntry(f, i), NewEntry(g, n),
             Fn(g)'.kind = "plain", Fn(f)'.name = Fn(g)'.name
      PROVE  FALSE
  <2>1. i \in Older(g.k)
    BY <1>1, <1>2, <1>3, <1>4 DEF Older, OldEntry
  <2> QED
    BY <1>1, <1>3, <1>4, <2>1 DEF Redefined
<1> SUFFICES ASSUME NEW f \in Range(F), NEW g \in Range(F),
                    Fn(f)'.kind = "plain", Fn(g)'.kind = "plain", Fn(f)'.name = Fn(g)'.name
             PROVE  f.unit = g.unit /\ f.k = g.k
  BY <1>1 DEF NoRedefinition
<1>5. CASE NewEntry(f, n) /\ NewEntry(g, n)
  <2>1. f.unit = g.unit /\ f.k \in DOMAIN Own(c) /\ g.k \in DOMAIN Own(c)
        /\ Own(c)[f.k].kind = "plain" /\ Own(c)[g.k].kind = "plain"
        /\ Own(c)[f.k].name = Own(c)[g.k].name
    BY <1>3, <1>5
  <2>2. Own(c)[f.k] \in Funcs /\ Own(c)[g.k] \in Funcs
    BY <2>1, CodeFacts, OwnFacts
  <2>3. Own(c)[f.k] = Own(c)[g.k]
    BY <2>1, <2>2 DEF Funcs
  <2> QED
    BY <2>1, <2>3, CodeFacts, OwnFacts
<1>6. CASE (\E i : OldEntry(f, i)) /\ (\E i : OldEntry(g, i))
  <2>1. PICK i : OldEntry(f, i)
    BY <1>6
  <2>2. PICK j : OldEntry(g, j)
    BY <1>6
  <2>3. exFunctions[i].unit = exFunctions[j].unit /\ exFunctions[i].k = exFunctions[j].k
    BY <1>2, <2>1, <2>2 DEF IInv, OneDefinition, NoRedefinition
  <2> QED
    BY <2>1, <2>2, <2>3 DEF OldEntry
<1>7. CASE (\E i : OldEntry(f, i)) /\ NewEntry(g, n)
  BY <1>4, <1>7
<1>8. CASE NewEntry(f, n) /\ (\E i : OldEntry(g, i))
  BY <1>4, <1>8
<1> QED
  BY <1>5, <1>6, <1>7, <1>8, AddingFunctions

\* code that was in the buffer the VM runs in is there still
LEMMA KeptAfter ==
    ASSUME IInv, NEW c, NEW u, NEW F, NEW n, NEW fixed, NEW moves,
           Adding(c, u, F, n, fixed, moves)
    PROVE  /\ \A id : \A pos \in Nat : Kept(id, pos) => Kept(id, pos)'
           /\ exRegVmCode'.count \in Nat /\ exRegVmCode'.id \in Nat
           /\ exRegVmCode.count \in Nat /\ exRegVmCode.id \in Nat
           /\ exRegVmCode.id <= exRegVmCode'.id
           /\ moves \/ exRegVmCode'.id = exRegVmCode.id
           /\ \A b \in expired' : b \in expired \/ (moves /\ b = exRegVmCode)
<1>1. Len(Own(c)) \in Nat
  BY CodeFacts
<1>2. exRegVmCode.count \in Nat /\ exRegVmCode.id \in Nat
  BY DEF IInv, Buffers
<1>3. /\ exRegVmCode'.count = exRegVmCode.count + Len(Own(c)) + 1
      /\ exRegVmCode'.id = exRegVmCode.id + IF moves THEN 1 ELSE 0
      /\ expired' = expired \union IF moves THEN {exRegVmCode} ELSE {}
      /\ moves \in BOOLEAN
  BY DEF Adding
<1>4. /\ exRegVmCode'.count \in Nat /\ exRegVmCode'.id \in Nat
      /\ exRegVmCode.count < exRegVmCode'.count
      /\ exRegVmCode.id <= exRegVmCode'.id
      /\ moves \/ exRegVmCode'.id = exRegVmCode.id
  BY <1>1, <1>2, <1>3
<1>5. ASSUME NEW id, NEW pos \in Nat, Kept(id, pos) PROVE Kept(id, pos)'
  <2>1. CASE id = exRegVmCode.id /\ pos < exRegVmCode.count /\ moves
    <3>1. exRegVmCode \in expired'
      BY <1>3, <2>1
    <3> QED
      BY <2>1, <3>1 DEF Kept
  <2>2. CASE id = exRegVmCode.id /\ pos < exRegVmCode.count /\ ~moves
    <3>1. id = exRegVmCode'.id /\ pos < exRegVmCode'.count
      BY <1>2, <1>4, <2>2
    <3> QED
      BY <3>1 DEF Kept
  <2>3. CASE \E b \in expired : b.id = id /\ pos < b.count
    BY <1>3, <2>3 DEF Kept
  <2> QED
    BY <1>5, <2>1, <2>2, <2>3 DEF Kept
<1>6. \A b \in expired' : b \in expired \/ (moves /\ b = exRegVmCode)
  BY <1>3
<1> QED
  BY <1>2, <1>4, <1>5, <1>6

\* the VM goes on in its buffer, or in the new one
Continues(F) ==
    Running =>
        \/ codeBase' = exRegVmCode'.id
        \/ /\ codeBase' = codeBase
           /\ \A i \in DOMAIN exFunctions : F[i].body = exFunctions[i].body

LEMMA AddingActive ==
    ASSUME IInv, NEW c, NEW u, NEW F, NEW n, NEW fixed, NEW moves,
           Adding(c, u, F, n, fixed, moves), frames' = frames, Continues(F),
           Functions', Units', Resolved'
    PROVE  Active'
<1>1. exFunctions' = F /\ u.code = c /\ u.start = exRegVmCode.count
  BY UnitOf DEF Adding
<1>2. CASE ~Running
  BY <1>2, NotRunning DEF Running
<1>3. ASSUME Running
      PROVE  /\ IsSeq(frames) /\ codeBase \in Nat /\ codeBase <= exRegVmCode.id
             /\ \A f \in Range(frames) :
                   /\ f.unit \in Reached /\ f.unit \in DOMAIN units' /\ units'[f.unit].fixed
                   /\ f.pos \in Nat /\ Kept(f.id, f.pos)'
  <2>1. /\ IsSeq(frames) /\ codeBase \in Nat /\ codeBase <= exRegVmCode.id
        /\ \A f \in Range(frames) :
              /\ f.unit \in Reached /\ units[f.unit].fixed /\ f.pos \in Nat /\ Kept(f.id, f.pos)
    BY <1>3 DEF IInv, Active
  <2>2. Reached \subseteq DOMAIN units
    BY DEF Reached
  <2> QED
    BY <2>1, <2>2, UnitsAfter, KeptAfter
<1>4. CASE Running /\ codeBase' = exRegVmCode'.id
  <2>1. ASSUME NEW w \in DOMAIN units' PROVE w \in Reached'
    <3>1. units'[w] \in Range(units')
      BY <2>1, SeqFacts DEF Units
    <3>2. CodeEnd(units'[w]) < exRegVmCode'.count
      BY <3>1 DEF Units, CodeEnd
    <3> QED
      BY <1>4, <3>2 DEF Reached, Kept, CodeEnd
  <2>2. ASSUME NEW w \in Reached', units'[w].fixed, NEW e \in Table(units'[w].code)
        PROVE  F[units'[w].calls[e]].body.unit \in Reached'
    <3>1. units'[w] \in Range(units')
      BY SeqFacts DEF Units, Reached
    <3>2. units'[w].calls[e] \in DOMAIN F
      BY <1>1, <2>2, <3>1 DEF Resolved, CallsResolved, IsFunction
    <3>3. F[units'[w].calls[e]] \in Range(F)
      BY <3>2, FunctionsAfter, SeqFacts
    <3>4. F[units'[w].calls[e]].body.unit \in DOMAIN units'
      BY <1>1, <3>3 DEF Functions
    <3> QED
      BY <2>1, <3>4
  <2>3. codeBase' \in Nat /\ codeBase' <= exRegVmCode'.id
    BY <1>4, KeptAfter
  <2> QED
    BY <1>1, <1>3, <1>4, <2>1, <2>2, <2>3 DEF Active
<1>5. CASE /\ Running /\ codeBase' # exRegVmCode'.id /\ codeBase' = codeBase
           /\ \A i \in DOMAIN exFunctions : F[i].body = exFunctions[i].body
  <2>1. ASSUME NEW w \in Reached PROVE w \in Reached' /\ w \in DOMAIN units /\ units'[w] = units[w]
    <3>1. w \in DOMAIN units /\ Kept(codeBase, CodeEnd(units[w]))
      BY DEF Reached
    <3>2. CodeEnd(units[w]) \in Nat
      BY <3>1, UnitFacts
    <3>3. w \in DOMAIN units' /\ units'[w] = units[w]
      BY <3>1, UnitsAfter
    <3> SUFFICES ASSUME NEW pos, pos = CodeEnd(units[w]), NEW id, id = codeBase
                 PROVE  w \in Reached'
      BY <3>1, <3>3
    <3>4. Kept(id, pos)'
      BY <3>1, <3>2, KeptAfter
    <3>5. codeBase' = id /\ CodeEnd(units'[w]) = pos
      BY <1>5, <3>3
    <3> QED
      BY <3>3, <3>4, <3>5 DEF Reached, Kept, CodeEnd
  <2>2. ASSUME NEW w \in Reached' PROVE w \in Reached
    <3>1. w \in DOMAIN units' /\ \E b \in expired' : b.id = codeBase /\ CodeEnd(units'[w]) < b.count
      BY <1>5 DEF Reached, Kept, CodeEnd
    <3>2. PICK b \in expired' : b.id = codeBase /\ CodeEnd(units'[w]) < b.count
      BY <3>1
    <3>3. b \in expired \/ b = exRegVmCode
      BY KeptAfter
    <3>4. b.count \in Nat /\ b.count <= exRegVmCode.count
      <4>1. exRegVmCode.count \in Nat
        BY KeptAfter
      <4>2. b \in expired => b.count \in Nat /\ b.count <= exRegVmCode.count
        BY DEF IInv, Buffers
      <4> QED
        BY <3>3, <4>1, <4>2
    <3>5. w \in DOMAIN units
      <4> SUFFICES ASSUME w = Len(units) + 1 PROVE FALSE
        BY <3>1, UnitsAfter
      <4>1. CodeEnd(units'[w]) = exRegVmCode.count + Len(Own(c))
        BY <1>1, UnitsAfter DEF CodeEnd
      <4>2. Len(Own(c)) \in Nat /\ exRegVmCode.count \in Nat
        BY CodeFacts, KeptAfter
      <4> QED
        BY <3>2, <3>4, <4>1, <4>2
    <3>6. CodeEnd(units[w]) < b.count
      BY <3>2, <3>5, UnitsAfter
    <3>7. Kept(codeBase, CodeEnd(units[w]))
      BY <3>2, <3>3, <3>6 DEF Kept
    <3> QED
      BY <3>5, <3>7 DEF Reached
  <2>3. ASSUME NEW w \in Reached', units'[w].fixed, NEW e \in Table(units'[w].code)
        PROVE  F[units'[w].calls[e]].body.unit \in Reached'
    <3>1. w \in Reached /\ w \in DOMAIN units /\ units'[w] = units[w]
      BY <2>1, <2>2
    <3>2. exFunctions[units[w].calls[e]].body.unit \in Reached
      BY <1>5, <2>3, <3>1 DEF IInv, Active
    <3>3. units[w].calls[e] \in DOMAIN exFunctions
      BY <2>3, <3>1, CallFacts
    <3> QED
      BY <1>5, <2>1, <3>1, <3>2, <3>3
  <2>4. codeBase' \in Nat /\ codeBase' <= exRegVmCode'.id
    BY <1>3, <1>5, KeptAfter
  <2> QED
    BY <1>1, <1>3, <1>5, <2>1, <2>3, <2>4 DEF Active
<1> QED
  BY <1>2, <1>4, <1>5 DEF Continues

\* the actions that add a unit
LEMMA UnitAdding ==
    ASSUME IInv, Bodied, Clashing = {}, NEW fixed \in BOOLEAN, NEW n \in 0..Len(Own(Top.code)),
           fixed => n = Len(Own(Top.code)), \A k \in 1..n : k \notin Redefined,
           NEW F, Grown(Top.code, F, n, fixed), AddUnit(fixed, F),
           NEW c, c = Top.code, NEW u, u = NewUnit(fixed)
    PROVE  \E moves : Adding(c, u, F, n, fixed, moves)
<1>1. PICK moves \in BOOLEAN : AddCode(moves)
  BY DEF AddUnit, MayMove
<1>2. Linking /\ ~Depending
  BY DEF Bodied
<1>3. /\ exTypes' = WithTypes(Types) /\ globalVarSize' = globalVarSize + Size(c)
      /\ units' = Append(units, u) /\ exFunctions' = F
  BY DEF AddUnit
<1>4. /\ exRegVmCode' = [count |-> exRegVmCode.count + Len(Own(c)) + 1,
                         id    |-> exRegVmCode.id + IF moves THEN 1 ELSE 0]
      /\ expired' = expired \union IF moves THEN {exRegVmCode} ELSE {}
  BY <1>1 DEF AddCode, NewCount
<1>5. Adding(c, u, F, n, fixed, moves)
  BY <1>2, <1>3, <1>4 DEF Adding
<1> QED
  BY <1>5

LEMMA AppendedFacts ==
    ASSUME IInv, NEW n \in Nat, NEW F, F = WithFunctions(n)
    PROVE  /\ IsSeq(F) /\ Len(F) = Len(exFunctions) + n /\ Len(exFunctions) \in Nat
           /\ \A i \in DOMAIN exFunctions : i \in DOMAIN F /\ F[i] = exFunctions[i]
           /\ \A k \in 1..n : Len(exFunctions) + k \in DOMAIN F /\ F[Len(exFunctions) + k] = Added(k)
           /\ \A i \in DOMAIN exFunctions : exFunctions[i] \in Range(exFunctions)
           /\ DOMAIN exFunctions = 1..Len(exFunctions)
<1> DEFINE r == [k \in 1..n |-> Added(k)]
<1>1. /\ IsSeq(exFunctions) /\ Len(exFunctions) \in Nat /\ DOMAIN exFunctions = 1..Len(exFunctions)
      /\ \A i \in DOMAIN exFunctions : exFunctions[i] \in Range(exFunctions)
  BY SeqFacts DEF IInv, Functions
<1>2. \A k \in 1..n : r[k] = Added(k)
  OBVIOUS
<1>3. DOMAIN r = 1..n /\ IsSeq(r) /\ Len(r) = n
  <2>1. r = [i \in 1..n |-> r[i]]
    BY <1>2
  <2> HIDE DEF r
  <2>2. IsSeq(r) /\ Len(r) = n
    BY <2>1, TableSeq
  <2> QED
    BY <2>2, SeqFacts
<1>4. F = exFunctions \o r
  BY DEF WithFunctions
<1> HIDE DEF r
<1>5. /\ IsSeq(F) /\ Len(F) = Len(exFunctions) + n
      /\ \A i \in DOMAIN exFunctions : i \in DOMAIN F /\ F[i] = exFunctions[i]
      /\ \A i \in DOMAIN r : Len(exFunctions) + i \in DOMAIN F /\ F[Len(exFunctions) + i] = r[i]
  BY <1>1, <1>3, <1>4, ConcatSeq
<1>6. \A k \in 1..n : Len(exFunctions) + k \in DOMAIN F /\ F[Len(exFunctions) + k] = Added(k)
  BY <1>2, <1>3, <1>5
<1> QED
  BY <1>1, <1>5, <1>6

LEMMA AppendedGrown ==
    ASSUME IInv, NEW n \in Nat, NEW F, F = WithFunctions(n), NEW c, NEW fixed
    PROVE  Grown(c, F, n, fixed)
<1>1. \A i \in DOMAIN exFunctions :
        exFunctions[i] = [unit |-> exFunctions[i].unit, k |-> exFunctions[i].k,
                          body |-> exFunctions[i].body]
  BY AppendedFacts DEF IInv, Functions
<1> QED
  BY <1>1, AppendedFacts DEF Grown

LEMMA RedirectedGrown ==
    ASSUME IInv, Linking, Len(linkStack) = 1, NEW F, F = Redirected(AllAdded),
           NEW c, c = Top.code, NEW n, n = Len(Own(c))
    PROVE  Grown(c, F, n, TRUE)
<1>1. n \in Nat /\ DOMAIN Own(c) = 1..n
  <2>1. c.src \in Sources
    BY TopFacts DEF LinkOf, GoodCode
  <2> QED
    BY <2>1, OwnFacts
<1> SUFFICES ASSUME NEW G, G = WithFunctions(n)
             PROVE  Grown(c, F, n, TRUE)
  OBVIOUS
<1>2. AllAdded = G
  BY DEF AllAdded
<1>3. CASE dest = 0
  BY <1>1, <1>2, <1>3, AppendedGrown DEF Redirected
<1>4. CASE dest # 0
  <2>1. c.src \in Overriding /\ dest \in DOMAIN exFunctions
    BY <1>4 DEF IInv, Destination, Top
  <2>2. n = 1 /\ 1 \in DOMAIN Own(c) /\ Own(c)[1].kind # "generic"
    <3>1. Len(Texts[c.src].funcs) = 1 /\ Texts[c.src].funcs[1].kind # "generic"
      BY <2>1, LinkerAssumption
    <3> QED
      BY <1>1, <3>1 DEF Own
  <2>3. /\ IsSeq(G) /\ Len(G) = Len(exFunctions) + 1 /\ Len(exFunctions) \in Nat
        /\ \A i \in DOMAIN exFunctions : i \in DOMAIN G /\ G[i] = exFunctions[i]
        /\ G[Len(exFunctions) + 1] = Added(1)
        /\ \A i \in DOMAIN exFunctions : exFunctions[i] \in Range(exFunctions)
        /\ DOMAIN exFunctions = 1..Len(exFunctions)
    <3>1. /\ IsSeq(G) /\ Len(G) = Len(exFunctions) + n /\ Len(exFunctions) \in Nat
          /\ \A i \in DOMAIN exFunctions : i \in DOMAIN G /\ G[i] = exFunctions[i]
          /\ \A k \in 1..n : G[Len(exFunctions) + k] = Added(k)
          /\ \A i \in DOMAIN exFunctions : exFunctions[i] \in Range(exFunctions)
          /\ DOMAIN exFunctions = 1..Len(exFunctions)
      BY <1>1, AppendedFacts
    <3>2. 1 \in 1..n
      BY <2>2
    <3> QED
      BY <2>2, <3>1, <3>2
  <2> DEFINE b == [unit |-> Len(units) + 1, k |-> 1]
             g == exFunctions[dest]
             h == [g EXCEPT !.body = b]
  <2>4. G[Len(G)].body = b
    BY <2>2, <2>3 DEF Added, Unit
  <2>5. F = [G EXCEPT ![dest] = h]
    BY <1>2, <1>4, <2>1, <2>3, <2>4 DEF Redirected
  <2>6. h = [unit |-> h.unit, k |-> h.k, body |-> h.body] /\ h.unit = g.unit /\ h.k = g.k /\ h.body = b
    <3>1. g = [unit |-> g.unit, k |-> g.k, body |-> g.body]
      BY <2>1, <2>3 DEF IInv, Functions
    <3> QED
      BY <3>1
  <2> HIDE DEF h
  <2>7. /\ IsSeq(F) /\ Len(F) = Len(G) /\ F[dest] = h
        /\ \A i \in DOMAIN G : i # dest => F[i] = G[i]
    BY <2>1, <2>3, <2>5, ChangedSeq
  <2>8. \A i \in DOMAIN exFunctions :
          exFunctions[i] = [unit |-> exFunctions[i].unit, k |-> exFunctions[i].k,
                            body |-> exFunctions[i].body]
    BY <2>3 DEF IInv, Functions
  <2>9. ASSUME NEW i \in DOMAIN exFunctions
        PROVE  /\ F[i] = [unit |-> F[i].unit, k |-> F[i].k, body |-> F[i].body]
               /\ F[i].unit = exFunctions[i].unit /\ F[i].k = exFunctions[i].k
               /\ F[i].body # exFunctions[i].body => i = dest /\ F[i].body = b
    <3>1. CASE i = dest
      BY <2>6, <2>7, <3>1
    <3>2. CASE i # dest
      <4>1. F[i] = exFunctions[i]
        BY <2>3, <2>7, <3>2
      <4> QED
        BY <2>8, <4>1
    <3> QED
      BY <3>1, <3>2
  <2>10. F[Len(exFunctions) + 1] = Added(1)
    <3>1. Len(exFunctions) + 1 # dest /\ Len(exFunctions) + 1 \in DOMAIN G
      BY <2>1, <2>3, SeqFacts
    <3> QED
      BY <2>3, <2>7, <3>1
  <2>11. \A k \in 1..n : k = 1
    BY <2>2
  <2> QED
    BY <2>2, <2>3, <2>7, <2>9, <2>10, <2>11 DEF Grown
<1> QED
  BY <1>3, <1>4

LEMMA LeastOf ==
    ASSUME NEW S, S \subseteq Nat, S # {}
    PROVE  \E k \in S : \A j \in S : k <= j
<1> SUFFICES ASSUME ~\E k \in S : \A j \in S : k <= j PROVE FALSE
  OBVIOUS
<1> DEFINE X == {m \in Nat : \A j \in S : m <= j}
<1>1. 0 \in X
  OBVIOUS
<1>2. ASSUME NEW m \in Nat, m \in X PROVE m + 1 \in X
  <2>1. m \notin S
    BY <1>2
  <2>2. \A j \in S : m <= j /\ j # m
    BY <1>2, <2>1
  <2> QED
    BY <2>2
<1> HIDE DEF X
<1>3. Nat \subseteq X
  BY <1>1, <1>2, SetInduction
<1>4. PICK j \in S : TRUE
  OBVIOUS
<1>5. j + 1 \in X /\ j \in Nat
  BY <1>3, <1>4
<1> QED
  BY <1>4, <1>5 DEF X

LEMMA RedefinedAdds ==
    ASSUME IInv, LinkRedefined
    PROVE  \E c, u, F, n, moves : Adding(c, u, F, n, FALSE, moves)
<1> DEFINE least == CHOOSE k \in Redefined : \A j \in Redefined : k <= j
<1>1. /\ Linking /\ Bodied /\ Clashing = {} /\ Redefined # {}
      /\ AddUnit(FALSE, WithFunctions(least - 1))
  BY DEF LinkRedefined, Bodied
<1>2. Len(Own(Top.code)) \in Nat /\ DOMAIN Own(Top.code) = 1..Len(Own(Top.code))
  <2>1. Top.code.src \in Sources
    BY <1>1, TopFacts DEF LinkOf, GoodCode
  <2> QED
    BY <2>1, OwnFacts
<1>3. Redefined \subseteq 1..Len(Own(Top.code))
  BY <1>2 DEF Redefined
<1>4. least \in Redefined /\ \A j \in Redefined : least <= j
  <2>1. Redefined \subseteq Nat
    BY <1>2, <1>3
  <2>2. \E k \in Redefined : \A j \in Redefined : k <= j
    BY <1>1, <2>1, LeastOf
  <2> QED
    BY <2>2
<1> SUFFICES ASSUME NEW n, n = least - 1, NEW F, F = WithFunctions(n),
                    NEW c, c = Top.code, NEW u, u = NewUnit(FALSE)
             PROVE  \E moves : Adding(c, u, F, n, FALSE, moves)
  OBVIOUS
<1> HIDE DEF least
<1>5. n \in Nat /\ n \in 0..Len(Own(Top.code)) /\ \A k \in 1..n : k \notin Redefined
  <2>1. least \in 1..Len(Own(Top.code))
    BY <1>3, <1>4
  <2>2. n \in Nat /\ n \in 0..Len(Own(Top.code)) /\ n < least
    BY <1>2, <2>1
  <2> QED
    BY <1>2, <1>4, <2>1, <2>2
<1>6. AddUnit(FALSE, F)
  BY <1>1
<1>7. Grown(Top.code, F, n, FALSE)
  BY <1>5, AppendedGrown
<1> QED
  BY <1>1, <1>5, <1>6, <1>7, UnitAdding

SameBodies(F) == \A i \in DOMAIN exFunctions : F[i].body = exFunctions[i].body

LEMMA ModuleAdds ==
    ASSUME IInv, LinkModule
    PROVE  \E c, u, F, n, moves :
              Adding(c, u, F, n, TRUE, moves) /\ SameBodies(F)
<1>1. Linking /\ Bodied /\ Clashing = {} /\ Redefined = {} /\ AddUnit(TRUE, AllAdded)
  BY DEF LinkModule, Bodied
<1>2. Len(Own(Top.code)) \in Nat
  <2>1. Top.code.src \in Sources
    BY <1>1, TopFacts DEF LinkOf, GoodCode
  <2> QED
    BY <2>1, OwnFacts
<1> SUFFICES ASSUME NEW n, n = Len(Own(Top.code)), NEW F, F = WithFunctions(n),
                    NEW c, c = Top.code, NEW u, u = NewUnit(TRUE)
             PROVE  \E moves :
                       Adding(c, u, F, n, TRUE, moves) /\ SameBodies(F)
  OBVIOUS
<1>3. n \in Nat /\ n \in 0..Len(Own(Top.code)) /\ AddUnit(TRUE, F)
  <2>1. n \in Nat /\ n \in 0..n
    BY <1>2
  <2>2. AllAdded = F
    BY DEF AllAdded
  <2>3. AddUnit(TRUE, F)
    BY <1>1, <2>2, Zenon
  <2> QED
    BY <2>1, <2>3
<1>4. Grown(Top.code, F, n, TRUE) /\ \A i \in DOMAIN exFunctions : F[i] = exFunctions[i]
  BY <1>3, AppendedGrown, AppendedFacts
<1> QED
  BY <1>1, <1>3, <1>4, UnitAdding DEF SameBodies

LEMMA ProgramAdds ==
    ASSUME IInv, LinkProgram
    PROVE  \E c, u, F, n, moves : Adding(c, u, F, n, TRUE, moves)
<1>1. /\ Linking /\ Bodied /\ Clashing = {} /\ Redefined = {} /\ Len(linkStack) = 1
      /\ AddUnit(TRUE, Redirected(AllAdded))
  BY DEF LinkProgram, Bodied
<1>2. Len(Own(Top.code)) \in Nat
  <2>1. Top.code.src \in Sources
    BY <1>1, TopFacts DEF LinkOf, GoodCode
  <2> QED
    BY <2>1, OwnFacts
<1> SUFFICES ASSUME NEW c, c = Top.code, NEW n, n = Len(Own(c)), NEW F, F = Redirected(AllAdded),
                    NEW u, u = NewUnit(TRUE)
             PROVE  \E moves : Adding(c, u, F, n, TRUE, moves)
  OBVIOUS
<1>3. n \in 0..Len(Own(Top.code)) /\ AddUnit(TRUE, F)
  <2>1. n \in 0..n
    BY <1>2
  <2>2. AddUnit(TRUE, F)
    BY <1>1, Zenon
  <2> QED
    BY <2>1, <2>2
<1>4. Grown(Top.code, F, n, TRUE)
  BY <1>1, RedirectedGrown
<1> QED
  BY <1>1, <1>3, <1>4, UnitAdding

LEMMA AddingCore ==
    ASSUME IInv, NEW c, NEW u, NEW F, NEW n, NEW fixed, NEW moves,
           Adding(c, u, F, n, fixed, moves), frames' = frames, Continues(F), dest' \in Nat
    PROVE  /\ Functions' /\ Units' /\ Ends' /\ Buffers' /\ BodiesFixed' /\ Resolved'
           /\ OneDefinition' /\ Active' /\ Numbers'
<1>1. Functions' /\ Units' /\ Ends' /\ Buffers' /\ Resolved'
  BY AddingFunctions, AddingUnits, AddingResolved
<1>2. BodiesFixed' /\ Active'
  BY <1>1, AddingBodies, AddingActive
<1>3. OneDefinition'
  BY AddingTypes, AddingOnce DEF OneDefinition
<1>4. Numbers'
  <2>1. globalVarSize' = globalVarSize + Size(c) /\ Size(c) \in Nat /\ globalVarSize \in Nat
    BY CodeFacts DEF Adding, IInv, Numbers
  <2>2. globalVarSize' \in Nat
    BY <2>1
  <2> QED
    BY <2>2, AddingTypes DEF Numbers
<1> QED
  BY <1>1, <1>2, <1>3, <1>4

\* the modules, when none or the module x is registered
LEMMA AddingModules ==
    ASSUME IInv, NEW c, NEW u, NEW F, NEW n, NEW fixed, NEW moves,
           Adding(c, u, F, n, fixed, moves), UNCHANGED cached,
           NEW X, IsSeq(exModules'), Range(exModules') = Range(exModules) \union X,
           \A x \in X : x.name \in Names /\ FindBytecode(x.name) = c /\ From(x, c)'
    PROVE  /\ Modules' /\ Current' /\ Caches' /\ \A y : Fits(y) => Fits(y)'
           /\ \A y : Loaded(y) => Loaded(y)'
           /\ \A y : FindBytecode(y)' = FindBytecode(y)
<1>1. cache' = cache /\ last' = last /\ built' = built
  BY DEF cached
<1>2. \A y : FindBytecode(y)' = FindBytecode(y)
  BY <1>1 DEF FindBytecode
<1>3. \A m, y : From(m, y) => From(m, y)'
  BY Stays
<1>4. \A y : Loaded(y) => Loaded(y)'
  BY DEF Loaded
<1>5. LastName \notin Names /\ c # NoCode
  <2>1. c.src \in Sources
    BY CodeFacts
  <2> QED
    BY <2>1, LinkerAssumption, NoCodeFacts
<1>6. Modules'
  <2> SUFFICES ASSUME NEW m \in Range(exModules')
               PROVE  /\ m.name \in Names \union {LastName}
                      /\ \E w \in Range(units') : w.first = m.start /\ w.own = m.vars
    BY DEF Modules
  <2>1. CASE m \in Range(exModules)
    BY <2>1, UnitsAfter DEF IInv, Modules
  <2>2. CASE m \in X
    <3>1. From(m, c)' /\ m.name \in Names
      BY <2>2
    <3> QED
      BY <3>1 DEF From
  <2> QED
    BY <2>1, <2>2
<1>7. Current'
  <2> SUFFICES ASSUME NEW m \in Range(exModules'), m.name # LastName
               PROVE  FindBytecode(m.name) = NoCode \/ From(m, FindBytecode(m.name))'
    BY <1>2 DEF Current
  <2>1. CASE m \in Range(exModules)
    <3> SUFFICES ASSUME NEW y, y = FindBytecode(m.name) PROVE y = NoCode \/ From(m, y)'
      BY <1>2
    <3>1. y = NoCode \/ From(m, y)
      BY <2>1 DEF IInv, Current
    <3> QED
      BY <1>3, <3>1
  <2>2. CASE m \in X
    <3>1. FindBytecode(m.name)' = c /\ From(m, c)'
      BY <1>2, <2>2
    <3> QED
      BY <3>1
  <2> QED
    BY <2>1, <2>2
<1>8. ASSUME NEW y, Fits(y) PROVE Fits(y)'
  <2> SUFFICES ASSUME NEW d \in Range(y.deps), d.name # LastName
               PROVE  /\ FindBytecode(d.name) \in {d.code, NoCode}
                      /\ \A m \in Range(exModules') : m.name = d.name => From(m, d.code)'
    BY <1>2 DEF Fits
  <2>1. FindBytecode(d.name) \in {d.code, NoCode}
    BY <1>8 DEF Fits
  <2>2. ASSUME NEW m \in Range(exModules'), m.name = d.name PROVE From(m, d.code)'
    <3>1. CASE m \in Range(exModules)
      BY <1>3, <1>8, <2>2, <3>1 DEF Fits
    <3>2. CASE m \in X
      <4>1. d.code = c
        BY <1>5, <2>1, <2>2, <3>2
      <4> QED
        BY <3>2, <4>1
    <3> QED
      BY <3>1, <3>2
  <2> QED
    BY <2>1, <2>2
<1>9. Caches'
  <2>1. Held' = Held
    BY <1>1 DEF Held
  <2> QED
    BY <1>1, <1>8, <2>1 DEF IInv, Caches
<1> QED
  BY <1>2, <1>4, <1>6, <1>7, <1>8, <1>9

LEMMA LinkRedefinedStep ==
    ASSUME IInv, LinkRedefined
    PROVE  IInv'
<1>1. PICK c, u, F, n, moves : Adding(c, u, F, n, FALSE, moves)
  BY RedefinedAdds
<1>2. linkStack' = <<>> /\ dest' = 0 /\ UNCHANGED <<cached, exModules, exec>>
  BY DEF LinkRedefined, LinkFails
<1>3. frames' = frames /\ codeBase' = codeBase
  BY <1>2 DEF exec
<1>4. Continues(F)
  BY <1>1, <1>3 DEF Adding, Grown, Continues
<1>5. /\ Functions' /\ Units' /\ Ends' /\ Buffers' /\ BodiesFixed' /\ Resolved'
      /\ OneDefinition' /\ Active' /\ Numbers'
  <2>1. dest' \in Nat
    BY <1>2
  <2> QED
    BY <1>1, <1>3, <1>4, <2>1, AddingCore
<1>6. Links' /\ Lasts' /\ Destination'
  BY <1>2, Idle
<1>7. Modules' /\ Current' /\ Caches'
  <2> DEFINE X == {}
  <2>1. IsSeq(exModules') /\ Range(exModules') = Range(exModules) \union X
    BY <1>2 DEF IInv, Modules
  <2>2. \A x \in X : x.name \in Names /\ FindBytecode(x.name) = c /\ From(x, c)'
    OBVIOUS
  <2> HIDE DEF X
  <2> QED
    BY <1>1, <1>2, <2>1, <2>2, AddingModules
<1> QED
  BY <1>5, <1>6, <1>7 DEF IInv

LEMMA LinkProgramStep ==
    ASSUME IInv, LinkProgram
    PROVE  IInv'
<1>1. PICK c, u, F, n, moves : Adding(c, u, F, n, TRUE, moves)
  BY ProgramAdds
<1>2. /\ linkStack' = <<>> /\ dest' = 0 /\ UNCHANGED <<cached, exModules, frames>>
      /\ Running => codeBase' = exRegVmCode'.id
  BY DEF LinkProgram
<1>3. Continues(F)
  BY <1>2 DEF Continues
<1>4. /\ Functions' /\ Units' /\ Ends' /\ Buffers' /\ BodiesFixed' /\ Resolved'
      /\ OneDefinition' /\ Active' /\ Numbers'
  <2>1. dest' \in Nat /\ frames' = frames
    BY <1>2
  <2> QED
    BY <1>1, <1>3, <2>1, AddingCore
<1>5. Links' /\ Lasts' /\ Destination'
  BY <1>2, Idle
<1>6. Modules' /\ Current' /\ Caches'
  <2> DEFINE X == {}
  <2>1. IsSeq(exModules') /\ Range(exModules') = Range(exModules) \union X
    BY <1>2 DEF IInv, Modules
  <2>2. \A x \in X : x.name \in Names /\ FindBytecode(x.name) = c /\ From(x, c)'
    OBVIOUS
  <2> HIDE DEF X
  <2> QED
    BY <1>1, <1>2, <2>1, <2>2, AddingModules
<1> QED
  BY <1>4, <1>5, <1>6 DEF IInv

LEMMA LinkModuleStep ==
    ASSUME IInv, LinkModule
    PROVE  IInv'
<1> DEFINE top == Len(linkStack)
<1>1. PICK c, u, F, n, moves : Adding(c, u, F, n, TRUE, moves) /\ SameBodies(F)
  BY ModuleAdds
<1>2. /\ Linking /\ c = Top.code /\ exFunctions' = F /\ globalVarSize' = globalVarSize + Size(c)
      /\ u = NewUnit(TRUE) /\ n = Len(Own(c))
  BY <1>1 DEF Adding
<1> SUFFICES ASSUME NEW importer, importer = linkStack[Len(linkStack) - 1],
                    NEW q, q = Front(linkStack), NEW name, name = Top.name,
                    NEW m, m = [name  |-> name,
                                start |-> Len(exFunctions') - Len(Own(importer.code.deps[importer.next].code)),
                                vars  |-> globalVarSize' - Size(c)]
             PROVE  IInv'
  OBVIOUS
<1>3. /\ top > 1 /\ exModules' = Append(exModules, m) /\ UNCHANGED <<cached, dest, exec>>
  BY <1>2 DEF LinkModule, Registered
<1>4. /\ top \in Nat /\ top \in DOMAIN linkStack /\ DOMAIN linkStack = 1..top
      /\ IsSeq(linkStack) /\ ~Failed
  BY <1>2, TopFacts
<1>5. /\ name \in Names /\ FindBytecode(name) = c /\ LastName \notin NamesOfCode(c)
      /\ importer.next \in DOMAIN importer.code.deps
      /\ importer.code.deps[importer.next].name = name
      /\ importer.code.deps[importer.next].code = c
  BY <1>2, <1>3, <1>4 DEF IInv, Links, Top
<1>6. /\ IsSeq(q) /\ Len(q) = top - 1 /\ \A i \in 1..top - 1 : q[i] = linkStack[i]
      /\ DOMAIN q = 1..top - 1 /\ q # <<>>
  <2>1. IsSeq(q) /\ Len(q) = top - 1 /\ \A i \in 1..top - 1 : q[i] = linkStack[i]
    BY <1>2, <1>4, FrontSeq DEF Linking
  <2>2. Len(q) # 0
    BY <1>3, <1>4, <2>1
  <2> QED
    BY <2>1, <2>2, SeqFacts
<1>7. linkStack' = Stepped(q)
  BY <1>6 DEF LinkModule, Stepped
<1>8. m.name = name /\ m.start = u.first /\ m.vars = u.own
  <2>1. /\ Len(F) = Len(exFunctions) + n /\ Len(exFunctions) \in Nat /\ n \in Nat
        /\ Size(c) \in Nat
    BY <1>1, FunctionsAfter, CodeFacts
  <2>2. globalVarSize \in Nat
    BY DEF IInv, Numbers
  <2>3. u.first = Len(exFunctions) /\ u.own = globalVarSize
    BY <1>2 DEF NewUnit
  <2>4. m.name = name /\ m.start = Len(F) - n /\ m.vars = globalVarSize' - Size(c)
    BY <1>2, <1>5
  <2>5. Len(F) - n = Len(exFunctions) /\ globalVarSize' - Size(c) = globalVarSize
    BY <1>2, <2>1, <2>2
  <2> QED
    BY <2>3, <2>4, <2>5, Zenon
<1>9. From(m, c)'
  <2>1. u \in Range(units')
    BY <1>1, UnitsAfter
  <2>2. u.code = c
    BY <1>2 DEF NewUnit
  <2> QED
    BY <1>8, <2>1, <2>2 DEF From
<1>10. IsSeq(exModules') /\ Range(exModules') = Range(exModules) \union {m}
  BY <1>3, AppendSeq DEF IInv, Modules
<1>11. /\ Modules' /\ Current' /\ Caches' /\ Keeps
  <2> DEFINE X == {m}
  <2>1. \A x \in X : x.name \in Names /\ FindBytecode(x.name) = c /\ From(x, c)'
    BY <1>5, <1>8, <1>9
  <2>2. Range(exModules') = Range(exModules) \union X
    BY <1>10
  <2> HIDE DEF X
  <2>3. /\ Modules' /\ Current' /\ Caches' /\ \A y : Fits(y) => Fits(y)'
        /\ \A y : Loaded(y) => Loaded(y)'
        /\ \A y : FindBytecode(y)' = FindBytecode(y)
    BY <1>1, <1>3, <1>10, <2>1, <2>2, AddingModules
  <2> QED
    BY <2>3 DEF Keeps
<1>12. frames' = frames /\ codeBase' = codeBase /\ dest' = dest /\ dest' \in Nat
  BY <1>3 DEF exec, IInv, Numbers
<1>13. Continues(F)
  BY <1>1, <1>12 DEF Continues, SameBodies
<1>14. /\ Functions' /\ Units' /\ Ends' /\ Buffers' /\ BodiesFixed' /\ Resolved'
       /\ OneDefinition' /\ Active' /\ Numbers'
  BY <1>1, <1>12, <1>13, AddingCore
<1>15. ~Failed'
  BY <1>1, AddingUnits
<1>16. Links'
  <2>1. q[Len(q)] = importer
    BY <1>3, <1>4, <1>6
  <2>2. Arrived(q)
    BY <1>5, <1>8, <1>10, <2>1 DEF Arrived
  <2>3. Initial(q)
    BY <1>4, <1>6 DEF Initial
  <2> QED
    BY <1>6, <1>7, <1>11, <1>15, <2>2, <2>3, Stepping DEF IInv
<1>17. linkStack'[1].code = linkStack[1].code /\ linkStack' # <<>>
  <2>1. q[Len(q)] \in Range(linkStack)
    <3>1. q[Len(q)] = linkStack[top - 1] /\ top - 1 \in DOMAIN linkStack
      BY <1>3, <1>4, <1>6
    <3> QED
      BY <1>4, <3>1, SeqFacts
  <2>2. Shaped(q[Len(q)])
    BY <2>1 DEF IInv, Links, LinkOf, Shaped
  <2>3. linkStack' # <<>> /\ \A j \in DOMAIN q : linkStack'[j].code = q[j].code
    BY <1>6, <1>7, <2>2, SteppedFacts
  <2>4. 1 \in DOMAIN q /\ q[1] = linkStack[1]
    BY <1>3, <1>4, <1>6
  <2> QED
    BY <2>3, <2>4
<1>18. Lasts'
  <2> DEFINE d == linkStack[1].code.deps
  <2> SUFFICES ASSUME NEW i \in DOMAIN d, d[i].name = LastName
               PROVE  /\ \A x \in Range(exModules') :
                             x.name = LastName => From(x, linkStack[1].code.deps[i].code)'
                      /\ Loaded(LastName)'
    BY <1>17 DEF Lasts
  <2>1. Loaded(LastName)
    BY <1>2, <1>3, <1>4 DEF IInv, Lasts
  <2>2. LastName \notin Names
    BY LinkerAssumption
  <2> SUFFICES ASSUME NEW y, y = d[i].code, NEW x \in Range(exModules'), x.name = LastName
               PROVE  From(x, y)'
    BY <1>11, <1>17, <2>1 DEF Keeps
  <2>3. x \in Range(exModules)
    BY <1>5, <1>8, <1>10, <2>2
  <2>4. From(x, y)
    BY <1>2, <2>3 DEF IInv, Lasts
  <2> QED
    BY <1>1, <2>4, Stays
<1>19. Destination'
  <2> SUFFICES ASSUME dest # 0 PROVE Destination'
    BY <1>12 DEF Destination
  <2>1. linkStack[1].code.src \in Overriding /\ dest \in DOMAIN exFunctions
    BY DEF IInv, Destination
  <2>2. dest \in DOMAIN F
    BY <1>1, <2>1, FunctionsAfter
  <2> QED
    BY <1>2, <1>12, <1>17, <2>1, <2>2 DEF Destination, Linking
<1> QED
  BY <1>11, <1>14, <1>16, <1>18, <1>19 DEF IInv

-------------------------------------------------------------------------------
(* The invariant holds.                                                    *)

LEMMA InitInv == Init => IInv
<1> SUFFICES ASSUME Init PROVE IInv
  OBVIOUS
<1>1. /\ cache = <<>> /\ last = NoCode /\ built = {}
      /\ exModules = <<>> /\ exFunctions = <<>> /\ exTypes = [t \in Types |-> Absent]
      /\ globalVarSize = 0 /\ units = <<>>
      /\ exRegVmCode = [count |-> 0, id |-> 0] /\ expired = {}
      /\ linkStack = <<>> /\ dest = 0 /\ codeBase = 0 /\ frames = <<>>
  BY DEF Init
<1>2. IsSeq(<<>>) /\ Len(<<>>) = 0 /\ Range(<<>>) = {} /\ DOMAIN <<>> = {}
  BY EmptyIsSeq
<1>3. Current /\ Modules /\ Functions /\ Units /\ Ends
  BY <1>1, <1>2 DEF Current, Modules, Functions, Units, Ends
<1>4. Buffers
  BY <1>1 DEF Buffers
<1>5. Links /\ Lasts /\ Destination
  <2>1. ~Linking
    BY <1>1 DEF Linking
  <2> QED
    BY <1>1, <1>2, <2>1 DEF Links, Lasts, Destination
<1>6. BodiesFixed /\ Active
  BY <1>1, <1>2 DEF BodiesFixed, Active, Running
<1>7. Numbers
  BY <1>1 DEF Numbers, SizeOrAbsent
<1>8. CallsResolved /\ TypesAgree /\ NoRedefinition
  BY <1>1, <1>2 DEF CallsResolved, TypesAgree, NoRedefinition
<1>9. GlobalsResolved
  BY <1>1, <1>2 DEF GlobalsResolved
<1>10. Caches
  <2>1. Held = {NoCode}
    BY <1>1, <1>2 DEF Held
  <2>2. Fits(NoCode)
    BY NoCodeFacts DEF Fits
  <2>3. IsInjective([i \in DOMAIN cache |-> cache[i].name])
    BY <1>1, <1>2 DEF IsInjective
  <2>4. IsSeq(cache) /\ Range(cache) = {} /\ NoCode \notin built
    BY <1>1, <1>2
  <2> QED
    BY <2>1, <2>2, <2>3, <2>4 DEF Caches
<1> QED
  BY <1>3, <1>4, <1>5, <1>6, <1>7, <1>8, <1>9, <1>10 DEF IInv, Resolved, OneDefinition

LEMMA SameAll == IInv /\ UNCHANGED vars => IInv'
<1> SUFFICES ASSUME IInv, UNCHANGED vars PROVE IInv'
  OBVIOUS
<1>1. UNCHANGED <<cached, linked, link, exec>>
  BY DEF vars
<1>2. linkStack' = linkStack /\ dest' = dest
  BY <1>1 DEF link
<1>3. exModules' = exModules /\ units' = units /\ last' = last /\ exFunctions' = exFunctions
      /\ cache' = cache
  BY <1>1 DEF linked, cached
<1>4. /\ \A x : FindBytecode(x)' = FindBytecode(x)
      /\ \A x : Loaded(x)' <=> Loaded(x)
      /\ \A m, x : From(m, x)' <=> From(m, x)
      /\ \A x : Unlinked(x)' = Unlinked(x)
      /\ Failed' <=> Failed
      /\ \A x : Fits(x)' <=> Fits(x)
  <2>1. \A x : Fits(x)' <=> Fits(x)
    BY <1>1, SameCached DEF linked
  <2> QED
    BY <1>3, <2>1 DEF FindBytecode, Loaded, From, Unlinked, Failed
<1>5. Links'
  <2>1. \A l : LinkOf(l)' <=> LinkOf(l)
    BY <1>4 DEF LinkOf
  <2> QED
    BY <1>2, <1>4, <2>1 DEF IInv, Links, Linking
<1>6. Lasts'
  BY <1>2, <1>3, <1>4 DEF IInv, Lasts, Linking
<1>7. Destination' /\ dest' \in Nat
  BY <1>2, <1>3 DEF IInv, Destination, Linking, Numbers
<1> QED
  BY <1>1, <1>5, <1>6, <1>7, OnlyLinks

LEMMA NextInv ==
    ASSUME WithCare, IInv, Next
    PROVE  IInv'
<1>1. CASE Clean
  BY <1>1, CleanStep
<1>2. CASE \E s \in Sources : LoadModuleBySource(s) \/ \E keep \in BOOLEAN : Build(s, keep)
  BY <1>2, LoadModuleStep, BuildStep
<1>3. CASE \E n \in Names : RemoveModule(n)
  BY <1>3, RemoveModuleStep
<1>4. CASE \E c \in built : Link(c)
  BY <1>4, LinkBeginStep
<1>5. CASE \E i \in DOMAIN exFunctions : Run(i)
  BY <1>5, RunStep
<1>6. CASE \E e \in IF Running THEN DOMAIN Caller.calls ELSE {} :
               Call(e) \/ \E s \in Overriding : Override(Caller.calls[e], s)
  <2>1. Running
    BY <1>6
  <2>2. PICK e \in DOMAIN Caller.calls :
            Call(e) \/ \E s \in Overriding : Override(Caller.calls[e], s)
    BY <1>6, <2>1
  <2>3. CASE Call(e)
    BY <2>1, <2>3, CallStep
  <2>4. CASE \E s \in Overriding : Override(Caller.calls[e], s)
    <3>1. PICK s \in Overriding : Override(Caller.calls[e], s)
      BY <2>4
    <3> QED
      BY <2>1, <3>1, OverrideStep
  <2> QED
    BY <2>2, <2>3, <2>4
<1>7. CASE LinkStep
  <2>1. CASE LinkLoaded
    BY <2>1, LinkLoadedStep
  <2>2. CASE LinkNested
    BY <2>2, LinkNestedStep
  <2>3. CASE LinkLast
    BY <2>3, LinkLastStep
  <2>4. CASE LinkTypeClash
    BY <2>4, LinkTypeClashStep
  <2>5. CASE LinkRedefined
    BY <2>5, LinkRedefinedStep
  <2>6. CASE LinkModule
    BY <2>6, LinkModuleStep
  <2>7. CASE LinkProgram
    BY <2>7, LinkProgramStep
  <2> QED
    BY <1>7, <2>1, <2>2, <2>3, <2>4, <2>5, <2>6, <2>7 DEF LinkStep
<1>8. CASE Return
  BY <1>8, ReturnStep
<1> QED
  BY <1>1, <1>2, <1>3, <1>4, <1>5, <1>6, <1>7, <1>8 DEF Next

LEMMA Invariant ==
    ASSUME WithCare
    PROVE  Spec => []IInv
<1>1. Init => IInv
  BY InitInv
<1>2. IInv /\ [Next]_vars => IInv'
  BY NextInv, SameAll
<1> QED
  BY <1>1, <1>2, PTL DEF Spec

-------------------------------------------------------------------------------
(* What the invariant says.                                                *)

LEMMA InvTypeOK == IInv => TypeOK
<1> SUFFICES ASSUME IInv PROVE TypeOK
  OBVIOUS
<1>1. \A m \in Range(cache) : m.name \in Names /\ m.code.src \in Sources
  BY DEF IInv, Caches, GoodCode
<1>2. \A m \in Range(exModules) :
          m.name \in Names \union {LastName} /\ m.start \in Nat /\ m.vars \in Nat
  <2> SUFFICES ASSUME NEW m \in Range(exModules)
               PROVE  m.name \in Names \union {LastName} /\ m.start \in Nat /\ m.vars \in Nat
    OBVIOUS
  <2>1. PICK w \in Range(units) : w.first = m.start /\ w.own = m.vars
    BY DEF IInv, Modules
  <2>2. w.first \in Nat /\ w.own \in Nat
    BY DEF IInv, Units
  <2> QED
    BY <2>1, <2>2 DEF IInv, Modules
<1>3. \A f \in Range(exFunctions) : f.unit \in DOMAIN units /\ f.body.unit \in DOMAIN units
  BY DEF IInv, Functions
<1>4. exTypes \in [Types -> Nat \union {Absent}] /\ globalVarSize \in Nat
  BY DEF IInv, Numbers, SizeOrAbsent
<1>5. dest \in 0..Len(exFunctions)
  <2>1. dest \in Nat
    BY DEF IInv, Numbers
  <2>2. Len(exFunctions) \in Nat /\ DOMAIN exFunctions = 1..Len(exFunctions)
    BY SeqFacts DEF IInv, Functions
  <2>3. dest # 0 => dest \in DOMAIN exFunctions
    BY DEF IInv, Destination
  <2> QED
    BY <2>1, <2>2, <2>3
<1>6. exRegVmCode.count \in Nat
  BY DEF IInv, Buffers
<1>7. IsInjective([i \in DOMAIN cache |-> cache[i].name])
  BY DEF IInv, Caches
<1> QED
  BY <1>1, <1>2, <1>3, <1>4, <1>5, <1>6, <1>7 DEF TypeOK

LEMMA InvCodeAlive == IInv => CodeAlive
<1> SUFFICES ASSUME IInv, NEW f \in Range(frames)
             PROVE  /\ Kept(f.id, f.pos) /\ units[f.unit].fixed
                    /\ ~Linking => \A i \in DOMAIN units[f.unit].calls :
                           LET body == exFunctions[units[f.unit].calls[i]].body
                           IN  Kept(codeBase, units[body.unit].start + body.k)
  BY DEF CodeAlive
<1>1. Running
  BY EmptyIsSeq DEF Running
<1>2. f.unit \in Reached /\ units[f.unit].fixed /\ Kept(f.id, f.pos)
  BY <1>1 DEF IInv, Active
<1>3. f.unit \in DOMAIN units
  BY <1>2 DEF Reached
<1>4. ASSUME NEW i \in DOMAIN units[f.unit].calls
      PROVE  LET body == exFunctions[units[f.unit].calls[i]].body
             IN  Kept(codeBase, units[body.unit].start + body.k)
  <2> DEFINE body == exFunctions[units[f.unit].calls[i]].body
  <2>1. i \in Table(units[f.unit].code)
    BY <1>3, UnitFacts DEF IInv, Units
  <2>2. body.unit \in DOMAIN units /\ body.k \in DOMAIN Own(units[body.unit].code)
    BY <1>2, <1>3, <2>1, CallFacts
  <2>3. body.unit \in Reached
    BY <1>1, <1>2, <2>1 DEF IInv, Active
  <2> QED
    BY <2>2, <2>3, BodyKept DEF Reached
<1> QED
  BY <1>2, <1>4

\* the inner action of LinkAdds
Adds ==
    units' # <<>> =>
         /\ IsPrefix(units, units')
         /\ \A i \in DOMAIN exFunctions :
                /\ exFunctions'[i].unit = exFunctions[i].unit
                /\ exFunctions'[i].k = exFunctions[i].k
                /\ exFunctions'[i].body # exFunctions[i].body =>
                       /\ i = dest
                       /\ exFunctions'[i].body = [unit |-> Len(units'), k |-> 1]
         /\ \A t \in Types : exTypes[t] > 0 => exTypes'[t] = exTypes[t]

LEMMA SameAdds ==
    ASSUME IInv, units' = units, exFunctions' = exFunctions,
           \A t \in Types : exTypes[t] > 0 => exTypes'[t] = exTypes[t]
    PROVE  Adds
<1>1. IsSeq(units) /\ Len(units) \in Nat
  BY SeqFacts DEF IInv, Units
<1>2. IsPrefix(units, units)
  BY <1>1, PrefixOf
<1> QED
  BY <1>2 DEF Adds

LEMMA AddingAdds ==
    ASSUME IInv, NEW c, NEW u, NEW F, NEW n, NEW fixed, NEW moves,
           Adding(c, u, F, n, fixed, moves)
    PROVE  Adds
<1>1. IsPrefix(units, units')
  <2> SUFFICES ASSUME NEW r, r = units' PROVE IsPrefix(units, r)
    OBVIOUS
  <2>1. /\ IsSeq(units) /\ IsSeq(r) /\ Len(units) \in Nat /\ Len(r) = Len(units) + 1
        /\ \A i \in DOMAIN units : r[i] = units[i]
    BY UnitsAfter
  <2>2. Len(units) <= Len(r)
    BY <2>1
  <2> QED
    BY <2>1, <2>2, PrefixOf
<1>2. \A i \in DOMAIN exFunctions :
          /\ exFunctions'[i].unit = exFunctions[i].unit
          /\ exFunctions'[i].k = exFunctions[i].k
          /\ exFunctions'[i].body # exFunctions[i].body =>
                 /\ i = dest
                 /\ exFunctions'[i].body = [unit |-> Len(units) + 1, k |-> 1]
  BY DEF Adding, Grown
<1>3. Len(units') = Len(units) + 1
  BY UnitsAfter
<1>4. \A t \in Types : exTypes[t] > 0 => exTypes'[t] = exTypes[t]
  BY AddingTypes
<1> QED
  BY <1>1, <1>2, <1>3, <1>4 DEF Adds

LEMMA NextAdds == IInv /\ [Next]_vars => Adds
<1> SUFFICES ASSUME IInv, [Next]_vars PROVE Adds
  OBVIOUS
<1>1. CASE UNCHANGED linked
  BY <1>1, SameAdds DEF linked
<1>2. CASE units' = <<>>
  BY <1>2 DEF Adds
<1>3. CASE LinkLast
  BY <1>3, SameAdds DEF LinkLast
<1>4. CASE LinkTypeClash
  <2>1. PICK S \in SUBSET (Types \ Clashing) : exTypes' = WithTypes(S)
    BY <1>4 DEF LinkTypeClash
  <2>2. Linking /\ units' = units /\ exFunctions' = exFunctions
    BY <1>4 DEF LinkTypeClash, Bodied
  <2>3. S \in SUBSET Types /\ S \intersect Clashing = {}
    OBVIOUS
  <2>4. \A t \in Types : exTypes[t] > 0 => exTypes'[t] = exTypes[t]
    BY <2>1, <2>2, <2>3, TypesKept
  <2> QED
    BY <2>2, <2>4, SameAdds
<1>5. CASE LinkRedefined
  BY <1>5, RedefinedAdds, AddingAdds
<1>6. CASE LinkModule
  BY <1>6, ModuleAdds, AddingAdds
<1>7. CASE LinkProgram
  BY <1>7, ProgramAdds, AddingAdds
<1>8. Clean \/ (\E s \in Sources : LoadModuleBySource(s)) => units' = <<>>
  BY DEF Clean, LoadModuleBySource, CleanCode
<1>9. ASSUME NEW s, NEW keep, Build(s, keep) PROVE UNCHANGED linked
  BY <1>9 DEF Build
<1>10. ASSUME NEW n, RemoveModule(n) PROVE UNCHANGED linked
  BY <1>10 DEF RemoveModule
<1>11. ASSUME NEW c, Link(c) PROVE UNCHANGED linked
  BY <1>11 DEF Link
<1>12. ASSUME NEW i, Run(i) PROVE UNCHANGED linked
  BY <1>12 DEF Run
<1>13. ASSUME NEW e, Call(e) PROVE UNCHANGED linked
  BY <1>13 DEF Call
<1>14. ASSUME NEW i, NEW s, Override(i, s) PROVE UNCHANGED linked
  BY <1>14 DEF Override
<1>15. Return \/ LinkLoaded \/ LinkNested \/ UNCHANGED vars => UNCHANGED linked
  BY DEF Return, LinkLoaded, LinkNested, vars
<1> QED
  BY <1>1, <1>2, <1>3, <1>4, <1>5, <1>6, <1>7, <1>8, <1>9, <1>10, <1>11, <1>12, <1>13, <1>14,
     <1>15 DEF Next, LinkStep

-------------------------------------------------------------------------------
(* With the care of the host, every variable has its shape: entries of the *)
(* lists of the linker refer to units that are linked, and the cache has   *)
(* no name twice. (Linker.cpp, BinaryCache.cpp)                            *)
THEOREM LinkerTyped ==
    ASSUME WithCare
    PROVE  Spec => []TypeOK
<1>1. Spec => []IInv
  BY Invariant
<1> QED
  BY <1>1, InvTypeOK, PTL

(* With the care of the host, every call and every global of linked code   *)
(* is the one that the compiler meant, however many modules, versions of   *)
(* modules and units there were before. (LinkCode, funcRemap)              *)
THEOREM LinkerResolves ==
    ASSUME WithCare
    PROVE  Spec => []Resolved
<1>1. Spec => []IInv
  BY Invariant
<1>2. IInv => Resolved
  BY DEF IInv
<1> QED
  BY <1>1, <1>2, PTL

(* With the care of the host, a class has one size in all units, and no    *)
(* two functions that are neither generic nor local have one name.         *)
(* (LinkCode: the checks of types and of functions)                        *)
THEOREM LinkerDefinesOnce ==
    ASSUME WithCare
    PROVE  Spec => []OneDefinition
<1>1. Spec => []IInv
  BY Invariant
<1>2. IInv => OneDefinition
  BY DEF IInv
<1> QED
  BY <1>1, <1>2, PTL

(* With the care of the host, code that is active is fixed and has not     *)
(* been freed, and what it can call is in the buffer the VM runs in, also  *)
(* when a program linked and its buffer was too small. (exRegVmCode)       *)
THEOREM LinkerKeepsCode ==
    ASSUME WithCare
    PROVE  Spec => []CodeAlive
<1>1. Spec => []IInv
  BY Invariant
<1> QED
  BY <1>1, InvCodeAlive, PTL

(* With the care of the host, a link adds: units, entries and sizes that   *)
(* were there stay, also after a link that fails, and override redirects   *)
(* the function it was asked for only. (LinkCode, nullcRedirectFunction)   *)
THEOREM LinkerAdds ==
    ASSUME WithCare
    PROVE  Spec => LinkAdds
<1>1. Spec => []IInv
  BY Invariant
<1>2. IInv /\ [Next]_vars => [Adds]_vars
  BY NextAdds
<1>3. Spec => [][Adds]_vars
  BY <1>1, <1>2, PTL DEF Spec
<1> QED
  BY <1>3 DEF LinkAdds, Adds

===============================================================================
