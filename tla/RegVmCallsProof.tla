--------------------------- MODULE RegVmCallsProof ----------------------------
(***************************************************************************)
(* Proofs about RegVmCalls, for any functions, any sizes of the stacks and *)
(* any depth of calls and callbacks.                                       *)
(*                                                                         *)
(* What Run and ExecCall keep in their local variables is related frame by *)
(* frame to what the frames below use, and the size of callStack to the    *)
(* frames that pushed an address.                                          *)
(***************************************************************************)
EXTENDS RegVmCalls, TLAPS, SequenceTheorems, FiniteSetTheorems, WellFoundedInduction

\* no collection between an error and its handling, no second call after a
\* failed one
Careful == QuietErrors /\ ~Patient

-------------------------------------------------------------------------------
(* The frames on the native stack.                                         *)

CodeKinds == {"run", "call"}
Fails     == {"callback", "try", "throw"}

FrameType == [kind : CodeKinds \union Natives, fn : Function, pushed : BOOLEAN,
              final : Nat, data : Globals..DataMax, regs : Nat, failed : BOOLEAN]

\* the return addresses of the first k frames of s
PushedIn(s, k) == Cardinality({j \in 1..k : s[j].pushed})

Base == [data |-> Globals, regs |-> 0]
End(frame) == [data |-> frame.data + frame.fn.data, regs |-> frame.regs + frame.fn.regs]
Start(frame) == [data |-> frame.data, regs |-> frame.regs]

\* which frames stand on which
Placed(s, k) ==
    /\ k = 1 => s[k].kind = "run" /\ s[k].final = 0 /\ Start(s[k]) = Base
    /\ k > 1 => Start(s[k]) = End(s[k - 1])
    /\ s[k].kind = "run" => ~s[k].pushed /\ (k > 1 => s[k - 1].kind \in Natives)
    /\ s[k].kind = "call" => s[k].pushed
    /\ s[k].kind \in Natives => s[k].fn = Nothing
    /\ s[k].pushed => k > 1 /\ s[k - 1].kind \in CodeKinds
    /\ s[k].kind \in Natives /\ ~s[k].pushed => k = 2 /\ s[1].fn = Nothing
    /\ s[k].failed => k = Len(s) /\ s[k].kind \in Fails

\* the innermost Run among the first n frames
IsLast(s, n, r) == r \in 1..n /\ s[r].kind = "run" /\ \A k \in (r + 1)..n : s[k].kind # "run"

Finals(s, f) ==
    /\ s = <<>> => f = 0
    /\ \A r : IsLast(s, Len(s), r) => f = PushedIn(s, r - 1)
    /\ \A q \in 1..Len(s) : s[q].kind = "run" =>
          \A r : IsLast(s, q - 1, r) => s[q].final = PushedIn(s, r - 1)

Built(s, f) ==
    /\ s \in Seq(FrameType)
    /\ \A k \in 1..Len(s) : Placed(s, k)
    /\ Finals(s, f)

LEMMA PushedFacts ==
    ASSUME NEW s, NEW k \in Nat
    PROVE  /\ PushedIn(s, 0) = 0
           /\ PushedIn(s, k) \in Nat
           /\ s[k + 1].pushed => PushedIn(s, k + 1) = PushedIn(s, k) + 1
           /\ ~s[k + 1].pushed => PushedIn(s, k + 1) = PushedIn(s, k)
           /\ \A j \in 1..k : s[j].pushed => PushedIn(s, k) > 0
<1> DEFINE S(n) == {j \in 1..n : s[j].pushed}
<1>1. \A n \in Nat : IsFiniteSet(S(n)) /\ Cardinality(S(n)) \in Nat /\ PushedIn(s, n) = Cardinality(S(n))
  <2> SUFFICES ASSUME NEW n \in Nat
               PROVE  IsFiniteSet(S(n)) /\ Cardinality(S(n)) \in Nat /\ PushedIn(s, n) = Cardinality(S(n))
    OBVIOUS
  <2>1. IsFiniteSet(1..n) /\ S(n) \subseteq 1..n
    BY FS_Interval
  <2>2. IsFiniteSet(S(n))
    BY <2>1, FS_Subset
  <2> QED
    BY <2>2, FS_CardinalityType DEF PushedIn
<1>2. S(0) = {}
  OBVIOUS
<1>3. ASSUME s[k + 1].pushed PROVE S(k + 1) = S(k) \union {k + 1} /\ k + 1 \notin S(k)
  BY <1>3
<1>4. ASSUME ~s[k + 1].pushed PROVE S(k + 1) = S(k)
  BY <1>4
<1>5. ASSUME NEW j \in 1..k, s[j].pushed PROVE S(k) # {}
  BY <1>5
<1> HIDE DEF S
<1>6. Cardinality(S(0)) = 0
  BY <1>2, FS_EmptySet
<1>7. ASSUME s[k + 1].pushed PROVE Cardinality(S(k + 1)) = Cardinality(S(k)) + 1
  BY <1>1, <1>3, <1>7, FS_AddElement
<1>8. ASSUME NEW j \in 1..k, s[j].pushed PROVE Cardinality(S(k)) # 0
  BY <1>1, <1>5, <1>8, FS_EmptySet
<1> QED
  BY <1>1, <1>4, <1>6, <1>7, <1>8

LEMMA PushedSame ==
    ASSUME NEW s, NEW t, NEW k \in Nat, \A j \in 1..k : s[j].pushed <=> t[j].pushed
    PROVE  PushedIn(s, k) = PushedIn(t, k)
<1>1. {j \in 1..k : s[j].pushed} = {j \in 1..k : t[j].pushed}
  OBVIOUS
<1> QED
  BY <1>1 DEF PushedIn

LEMMA PushedMore ==
    ASSUME NEW s, NEW k \in Nat, NEW j \in 0..k
    PROVE  PushedIn(s, j) <= PushedIn(s, k)
<1>1. {i \in 1..j : s[i].pushed} \subseteq {i \in 1..k : s[i].pushed}
  OBVIOUS
<1>2. IsFiniteSet(1..k) /\ {i \in 1..k : s[i].pushed} \subseteq 1..k
  BY FS_Interval
<1>3. IsFiniteSet({i \in 1..k : s[i].pushed})
  BY <1>2, FS_Subset
<1> QED
  BY <1>1, <1>3, FS_Subset DEF PushedIn

\* a frame more: fr may stand on s, with g as the new final return
Stands(s, f, g, fr) ==
    /\ Built(s, f) /\ fr \in FrameType /\ ~fr.failed
    /\ s = <<>> => fr.kind = "run" /\ fr.final = 0 /\ Start(fr) = Base
    /\ s # <<>> => Start(fr) = End(s[Len(s)]) /\ ~s[Len(s)].failed
    /\ fr.kind = "run" => /\ ~fr.pushed /\ g = PushedIn(s, Len(s))
                          /\ s # <<>> => s[Len(s)].kind \in Natives /\ fr.final = f
    /\ fr.kind # "run" => g = f /\ (fr.pushed => s[Len(s)].kind \in CodeKinds)
    /\ fr.kind = "call" => fr.pushed
    /\ fr.kind \in Natives => fr.fn = Nothing /\ (fr.pushed \/ (Len(s) = 1 /\ s[1].fn = Nothing))

Longer(s, g, fr, t) ==
    /\ Built(t, g) /\ Len(t) = Len(s) + 1 /\ t[Len(s) + 1] = fr /\ t # <<>>
    /\ \A k \in 1..Len(s) : t[k] = s[k]
    /\ PushedIn(t, Len(s)) = PushedIn(s, Len(s))

LEMMA Pushing ==
    ASSUME NEW s, NEW f, NEW g, NEW fr, Stands(s, f, g, fr), NEW t, t = Append(s, fr)
    PROVE  Longer(s, g, fr, t)
<1> USE DEF Stands
<1> DEFINE n == Len(s)
<1>1. s \in Seq(FrameType) /\ n \in Nat /\ (s = <<>> <=> n = 0)
  BY LenProperties, EmptySeq DEF Built
<1>2. /\ t \in Seq(FrameType) /\ Len(t) = n + 1 /\ t[n + 1] = fr
      /\ \A k \in 1..n : t[k] = s[k]
  BY <1>1, AppendProperties
<1>3. t # <<>> /\ \A k \in 1..(n + 1) : k \in 1..n \/ k = n + 1
  BY <1>1, <1>2, EmptySeq
<1>4. \A k \in 0..n : PushedIn(t, k) = PushedIn(s, k)
  <2> SUFFICES ASSUME NEW k \in 0..n PROVE PushedIn(t, k) = PushedIn(s, k)
    OBVIOUS
  <2>1. k \in Nat /\ \A j \in 1..k : j \in 1..n
    BY <1>1
  <2>2. \A j \in 1..k : t[j].pushed <=> s[j].pushed
    BY <1>2, <2>1
  <2> QED
    BY <2>1, <2>2, PushedSame
<1>5. ASSUME NEW m \in 0..n, NEW r PROVE IsLast(t, m, r) <=> IsLast(s, m, r)
  <2>1. \A k \in 1..m : t[k] = s[k]
    BY <1>1, <1>2
  <2>2. r \in 1..m => \A k \in (r + 1)..m : k \in 1..m
    BY <1>1
  <2> QED
    BY <2>1, <2>2 DEF IsLast
<1>6. ASSUME NEW k \in 1..n PROVE Placed(t, k)
  <2>1. Placed(s, k) /\ t[k] = s[k] /\ (k > 1 => t[k - 1] = s[k - 1]) /\ t[1] = s[1]
    BY <1>1, <1>2 DEF Built
  <2>2. ~s[k].failed
    BY <1>1, <2>1 DEF Placed
  <2> QED
    BY <2>1, <2>2 DEF Placed
<1>7. Placed(t, n + 1)
  <2>1. t[n + 1] = fr /\ (n + 1 > 1 => t[(n + 1) - 1] = s[n] /\ t[1] = s[1])
    BY <1>1, <1>2
  <2>2. n + 1 = 1 => s = <<>>
    BY <1>1
  <2>3. n + 1 > 1 => s # <<>>
    BY <1>1
  <2>4. fr.kind \in Natives => fr.kind # "run" /\ fr.kind # "call"
    BY DEF Natives
  <2>5. fr.pushed => fr.kind # "run" /\ n + 1 > 1 /\ s[n].kind \in CodeKinds
    BY <1>1
  <2>6. fr.kind \in Natives /\ ~fr.pushed => n + 1 = 2 /\ t[1].fn = Nothing
    BY <1>1, <2>1
  <2> QED
    BY <2>1, <2>2, <2>3, <2>4, <2>5, <2>6 DEF Placed
<1>8. \A r : IsLast(t, n + 1, r) => g = PushedIn(t, r - 1)
  <2> SUFFICES ASSUME NEW r, IsLast(t, n + 1, r) PROVE g = PushedIn(t, r - 1)
    OBVIOUS
  <2>1. CASE r = n + 1
    <3>1. fr.kind = "run" /\ r - 1 = n
      BY <1>1, <1>2, <2>1 DEF IsLast
    <3> QED
      BY <1>1, <1>4, <3>1
  <2>2. CASE r # n + 1
    <3>1. r \in 1..n /\ n + 1 \in (r + 1)..(n + 1) /\ r - 1 \in 0..n
      BY <1>1, <2>2 DEF IsLast
    <3>2. fr.kind # "run"
      BY <1>2, <3>1 DEF IsLast
    <3>3. IsLast(t, n, r)
      BY <1>1, <3>1 DEF IsLast
    <3>4. IsLast(s, n, r)
      BY <1>1, <1>5, <3>3
    <3> QED
      BY <1>4, <3>1, <3>2, <3>4 DEF Built, Finals
  <2> QED
    BY <2>1, <2>2
<1>9. \A q \in 1..(n + 1) : t[q].kind = "run" => \A r : IsLast(t, q - 1, r) => t[q].final = PushedIn(t, r - 1)
  <2> SUFFICES ASSUME NEW q \in 1..(n + 1), t[q].kind = "run", NEW r, IsLast(t, q - 1, r)
               PROVE  t[q].final = PushedIn(t, r - 1)
    OBVIOUS
  <2>1. q - 1 \in 0..n /\ r - 1 \in 0..n /\ r \in 1..(q - 1)
    BY <1>1 DEF IsLast
  <2>2. IsLast(s, q - 1, r) /\ PushedIn(t, r - 1) = PushedIn(s, r - 1)
    BY <1>4, <1>5, <2>1
  <2>3. CASE q \in 1..n
    BY <1>2, <2>2, <2>3 DEF Built, Finals
  <2>4. CASE q = n + 1
    <3>1. n # 0 /\ q - 1 = n
      BY <1>1, <2>1, <2>4
    <3>2. fr.final = f
      BY <1>1, <1>2, <2>4, <3>1
    <3> QED
      BY <1>2, <2>2, <2>4, <3>1, <3>2 DEF Built, Finals
  <2> QED
    BY <1>3, <2>3, <2>4
<1>10. Built(t, g)
  BY <1>2, <1>3, <1>6, <1>7, <1>8, <1>9 DEF Built, Finals
<1> QED
  BY <1>1, <1>2, <1>3, <1>4, <1>10 DEF Longer

\* a frame less: g is the final return after it
Ends(s, f, g) ==
    /\ s # <<>> /\ Built(s, f)
    /\ s[Len(s)].kind = "run" => g = s[Len(s)].final
    /\ s[Len(s)].kind # "run" => g = f

Shorter(s, g, t) ==
    /\ Built(t, g) /\ Len(s) \in Nat /\ Len(s) > 0 /\ Len(t) = Len(s) - 1 /\ Placed(s, Len(s))
    /\ \A k \in 1..Len(t) : t[k] = s[k] /\ ~t[k].failed
    /\ PushedIn(t, Len(t)) = PushedIn(s, Len(s) - 1)

LEMMA Popping ==
    ASSUME NEW s, NEW f, NEW g, Ends(s, f, g), NEW t, t = Front(s)
    PROVE  Shorter(s, g, t)
<1> USE DEF Ends
<1> DEFINE n == Len(s) - 1
<1>1. s \in Seq(FrameType) /\ Len(s) \in Nat /\ Len(s) = n + 1 /\ n \in Nat
  BY LenProperties, EmptySeq DEF Built
<1>2. \A k \in 1..n : k \in 1..Len(s) /\ s[k] \in FrameType /\ 1 + k - 1 = k
  BY <1>1, ElementOfSeq
<1>3. t \in Seq(FrameType) /\ Len(t) = n /\ \A k \in 1..n : t[k] = s[k]
  <2>1. t = SubSeq(s, 1, n)
    BY <1>1 DEF Front
  <2>2. /\ t \in Seq(FrameType)
        /\ Len(t) = IF 1 <= n THEN n - 1 + 1 ELSE 0
        /\ \A k \in 1..(n - 1 + 1) : t[k] = s[1 + k - 1]
    BY <1>1, <1>2, <2>1, SubSeqProperties
  <2>3. n - 1 + 1 = n /\ (~(1 <= n) => n = 0)
    BY <1>1
  <2>4. Len(t) = n
    BY <2>2, <2>3
  <2>5. \A k \in 1..n : t[k] = s[k]
    BY <1>2, <2>2, <2>3
  <2> QED
    BY <2>2, <2>4, <2>5
<1>4. \A k \in 0..n : PushedIn(t, k) = PushedIn(s, k)
  <2> SUFFICES ASSUME NEW k \in 0..n PROVE PushedIn(t, k) = PushedIn(s, k)
    OBVIOUS
  <2>1. k \in Nat /\ \A j \in 1..k : j \in 1..n
    BY <1>1
  <2>2. \A j \in 1..k : t[j].pushed <=> s[j].pushed
    BY <1>3, <2>1
  <2> QED
    BY <2>1, <2>2, PushedSame
<1>5. ASSUME NEW m \in 0..n, NEW r PROVE IsLast(t, m, r) <=> IsLast(s, m, r)
  <2>1. \A k \in 1..m : t[k] = s[k]
    BY <1>1, <1>3
  <2>2. r \in 1..m => \A k \in (r + 1)..m : k \in 1..m
    BY <1>1
  <2> QED
    BY <2>1, <2>2 DEF IsLast
<1>6. ASSUME NEW k \in 1..n PROVE Placed(t, k) /\ ~t[k].failed
  <2>1. Placed(s, k) /\ t[k] = s[k] /\ (k > 1 => t[k - 1] = s[k - 1]) /\ t[1] = s[1]
    BY <1>1, <1>3 DEF Built
  <2>2. ~s[k].failed
    BY <1>1, <2>1 DEF Placed
  <2> QED
    BY <2>1, <2>2 DEF Placed
<1>7. \A r : IsLast(t, n, r) => g = PushedIn(t, r - 1)
  <2> SUFFICES ASSUME NEW r, IsLast(t, n, r) PROVE g = PushedIn(t, r - 1)
    OBVIOUS
  <2>0. n \in 0..n /\ r \in 1..n
    BY <1>1 DEF IsLast
  <2>1. r \in 1..n /\ r - 1 \in 0..n /\ IsLast(s, n, r)
    BY <1>1, <1>5, <2>0
  <2>2. CASE s[n + 1].kind = "run"
    <3>1. n + 1 \in 1..Len(s) /\ (n + 1) - 1 = n
      BY <1>1
    <3> QED
      BY <1>1, <1>4, <2>1, <2>2, <3>1 DEF Built, Finals
  <2>3. CASE s[n + 1].kind # "run"
    <3>1. IsLast(s, n + 1, r)
      BY <1>1, <2>1, <2>3 DEF IsLast
    <3> QED
      BY <1>1, <1>4, <2>1, <2>3, <3>1 DEF Built, Finals
  <2> QED
    BY <2>2, <2>3
<1>8. \A q \in 1..n : t[q].kind = "run" => \A r : IsLast(t, q - 1, r) => t[q].final = PushedIn(t, r - 1)
  <2> SUFFICES ASSUME NEW q \in 1..n, t[q].kind = "run", NEW r, IsLast(t, q - 1, r)
               PROVE  t[q].final = PushedIn(t, r - 1)
    OBVIOUS
  <2>1. q - 1 \in 0..n /\ r - 1 \in 0..n /\ q \in 1..Len(s)
    BY <1>1 DEF IsLast
  <2> QED
    BY <1>3, <1>4, <1>5, <2>1 DEF Built, Finals
<1>9. t = <<>> => g = 0
  <2>1. t = <<>> => n = 0
    BY <1>3, EmptySeq
  <2>2. Placed(s, n + 1)
    BY <1>1 DEF Built
  <2> QED
    BY <1>1, <2>1, <2>2 DEF Placed
<1>10. Built(t, g)
  BY <1>3, <1>6, <1>7, <1>8, <1>9 DEF Built, Finals
<1>11. Placed(s, Len(s)) /\ Len(s) > 0
  BY <1>1 DEF Built
<1> QED
  BY <1>1, <1>3, <1>4, <1>6, <1>10, <1>11 DEF Shorter

\* a native function takes note of a failed call, or recovers
Marks(s, f, b) ==
    /\ s # <<>> /\ Built(s, f) /\ b \in BOOLEAN
    /\ b => s[Len(s)].kind \in Fails

Marked(s, f, b, t) ==
    /\ Built(t, f) /\ Len(s) \in Nat /\ Len(s) > 0 /\ Len(t) = Len(s) /\ t # <<>>
    /\ t[Len(s)].kind = s[Len(s)].kind /\ End(t[Len(s)]) = End(s[Len(s)])
    /\ t[Len(s)].pushed = s[Len(s)].pushed /\ t[Len(s)].failed = b
    /\ PushedIn(t, Len(s)) = PushedIn(s, Len(s))

LEMMA Marking ==
    ASSUME NEW s, NEW f, NEW b, Marks(s, f, b), NEW t, t = [s EXCEPT ![Len(s)].failed = b]
    PROVE  Marked(s, f, b, t)
<1> USE DEF Marks
<1> DEFINE n == Len(s)
           fr == [s[n] EXCEPT !.failed = b]
<1>1. s \in Seq(FrameType) /\ n \in Nat /\ n > 0 /\ n \in 1..n
  BY LenProperties, EmptySeq DEF Built
<1>2. s[n] \in FrameType
  BY <1>1, ElementOfSeq
<1>3. /\ fr \in FrameType /\ fr.kind = s[n].kind /\ fr.fn = s[n].fn /\ fr.pushed = s[n].pushed
      /\ fr.final = s[n].final /\ fr.data = s[n].data /\ fr.regs = s[n].regs /\ fr.failed = b
  BY <1>2 DEF FrameType
<1>4. t = [s EXCEPT ![n] = fr]
  OBVIOUS
<1> HIDE DEF fr
<1>5. t \in Seq(FrameType) /\ Len(t) = n /\ t[n] = fr /\ \A k \in 1..n : k # n => t[k] = s[k]
  BY <1>1, <1>3, <1>4, ExceptSeq
<1>6. \A k \in 1..n : /\ t[k].kind = s[k].kind /\ t[k].fn = s[k].fn /\ t[k].pushed = s[k].pushed
                      /\ t[k].final = s[k].final /\ t[k].data = s[k].data /\ t[k].regs = s[k].regs
  BY <1>3, <1>5
<1>7. \A k \in 0..n : PushedIn(t, k) = PushedIn(s, k)
  <2> SUFFICES ASSUME NEW k \in 0..n PROVE PushedIn(t, k) = PushedIn(s, k)
    OBVIOUS
  <2>1. k \in Nat /\ \A j \in 1..k : j \in 1..n
    BY <1>1
  <2>2. \A j \in 1..k : t[j].pushed <=> s[j].pushed
    BY <1>6, <2>1
  <2> QED
    BY <2>1, <2>2, PushedSame
<1>8. ASSUME NEW m \in 0..n, NEW r PROVE IsLast(t, m, r) <=> IsLast(s, m, r)
  <2>1. \A k \in 1..m : t[k].kind = s[k].kind
    BY <1>1, <1>6
  <2>2. r \in 1..m => \A k \in (r + 1)..m : k \in 1..m
    BY <1>1
  <2> QED
    BY <2>1, <2>2 DEF IsLast
<1>9. ASSUME NEW k \in 1..n PROVE Placed(t, k)
  <2>1. Placed(s, k) /\ 1 \in 1..n /\ (k > 1 => k - 1 \in 1..n)
    BY <1>1 DEF Built
  <2>2. t[k].failed => k = Len(t) /\ t[k].kind \in Fails
    BY <1>3, <1>5, <2>1 DEF Placed
  <2>3. /\ Start(t[k]) = Start(s[k]) /\ t[1].fn = s[1].fn
        /\ k > 1 => End(t[k - 1]) = End(s[k - 1]) /\ t[k - 1].kind = s[k - 1].kind
    BY <1>6, <2>1 DEF Start, End
  <2> QED
    BY <1>6, <2>1, <2>2, <2>3 DEF Placed
<1>10. Finals(t, f)
  <2>1. t # <<>>
    BY <1>1, <1>5, EmptySeq
  <2>2. \A r : IsLast(t, n, r) => f = PushedIn(t, r - 1)
    <3> SUFFICES ASSUME NEW r, IsLast(t, n, r) PROVE f = PushedIn(t, r - 1)
      OBVIOUS
    <3>1. IsLast(s, n, r) /\ r - 1 \in 0..n
      BY <1>1, <1>8 DEF IsLast
    <3> QED
      BY <1>7, <3>1 DEF Built, Finals
  <2>3. \A q \in 1..n : t[q].kind = "run" => \A r : IsLast(t, q - 1, r) => t[q].final = PushedIn(t, r - 1)
    <3> SUFFICES ASSUME NEW q \in 1..n, t[q].kind = "run", NEW r, IsLast(t, q - 1, r)
                 PROVE  t[q].final = PushedIn(t, r - 1)
      OBVIOUS
    <3>1. IsLast(s, q - 1, r) /\ r - 1 \in 0..n
      BY <1>1, <1>8 DEF IsLast
    <3> QED
      BY <1>6, <1>7, <3>1 DEF Built, Finals
  <2> QED
    BY <1>5, <2>1, <2>2, <2>3 DEF Finals
<1>11. Built(t, f) /\ t # <<>>
  BY <1>1, <1>5, <1>9, <1>10, EmptySeq DEF Built
<1>13. End(t[n]) = End(s[n]) /\ t[n].kind = s[n].kind /\ t[n].pushed = s[n].pushed /\ t[n].failed = b
  BY <1>3, <1>5 DEF End
<1>14. PushedIn(t, n) = PushedIn(s, n)
  <2>1. n \in 0..n
    BY <1>1
  <2> QED
    BY <1>7, <2>1
<1> QED
  BY <1>1, <1>5, <1>11, <1>13, <1>14 DEF Marked

\* there is an innermost Run
LEMMA LastExists ==
    ASSUME NEW s, NEW f, s # <<>>, Built(s, f)
    PROVE  \E r : IsLast(s, Len(s), r)
<1> DEFINE Back == {m \in Nat : m < Len(s) /\ s[Len(s) - m].kind = "run"}
<1>1. Len(s) \in Nat /\ Len(s) > 0
  BY LenProperties, EmptySeq DEF Built
<1>2. Len(s) - 1 \in Back
  <2>1. Placed(s, 1) /\ Len(s) - (Len(s) - 1) = 1
    BY <1>1 DEF Built
  <2> QED
    BY <1>1, <2>1 DEF Placed
<1>3. \E m \in Back : \A x \in Back : ~(x < m)
  <2>1. PICK m \in Back : \A x \in Back : ~(<<x, m>> \in OpToRel(<, Nat))
    BY <1>2, NatLessThanWellFounded, WFMin
  <2>2. \A x \in Back : x < m => <<x, m>> \in OpToRel(<, Nat)
    BY DEF OpToRel
  <2> QED
    BY <2>1, <2>2
<1>4. PICK m \in Back : \A x \in Back : ~(x < m)
  BY <1>3
<1>5. m \in Nat /\ m < Len(s) /\ s[Len(s) - m].kind = "run"
  OBVIOUS
<1>6. ASSUME NEW k \in (Len(s) - m + 1)..Len(s), s[k].kind = "run" PROVE FALSE
  <2>1. Len(s) - k \in Nat /\ Len(s) - k < Len(s) /\ Len(s) - (Len(s) - k) = k /\ Len(s) - k < m
    BY <1>1, <1>5
  <2>2. Len(s) - k \in Back
    BY <1>6, <2>1
  <2> QED
    BY <1>4, <2>1, <2>2
<1>7. IsLast(s, Len(s), Len(s) - m)
  BY <1>1, <1>5, <1>6 DEF IsLast
<1> QED
  BY <1>7

-------------------------------------------------------------------------------
(* The invariant.                                                          *)

Types ==
    /\ calls \in Nat /\ final \in Nat /\ errorDepth \in Nat
    /\ data \in Globals..DataMax /\ regs \in Nat
    /\ codeRunning \in BOOLEAN /\ callContinue \in BOOLEAN
    /\ ret \in {"none", "ok", "error", "void"}

Ended == ret \in {"ok", "void"}

\* the data and registers in use end where the innermost frame's do
Matches == [data |-> data, regs |-> regs] = End(Top)

\* one address for each frame that pushed one
Counted == calls = PushedIn(frames, Len(frames))

Idle ==
    frames = <<>> => ret = "none" /\ data = Globals /\ regs = 0 /\ (codeRunning => calls = 0)

InCode ==
    frames # <<>> /\ Top.kind \in CodeKinds =>
        /\ ret = "none" => codeRunning /\ Counted /\ Matches
        /\ Ended /\ Top.kind = "run" =>
             /\ callContinue /\ (codeRunning => Counted)
             /\ ~codeRunning /\ Len(frames) > 1 => ~frames[Len(frames) - 1].pushed
        /\ Ended /\ Top.kind = "call" =>
             ret = "ok" /\ codeRunning /\ calls + 1 = PushedIn(frames, Len(frames))

\* after an error the way to Run is errorDepth
Recorded == errorDepth = PushedIn(frames, Len(frames))

InNative ==
    frames # <<>> /\ Top.kind \in Natives =>
        /\ Matches
        /\ codeRunning => Counted
        /\ callContinue /\ ~codeRunning => ~Top.pushed
        /\ Ended => callContinue
        /\ ret = "error" => Recorded
        /\ ret = "none" /\ ~Top.failed /\ ~callContinue => Top.kind = "alloc"
        /\ Top.failed => ret = "none" /\ ~callContinue /\ (Top.kind = "try" => Recorded)

Flags == (codeRunning => callContinue) /\ (ret = "error" => ~callContinue)

IInv == Types /\ Built(frames, final) /\ Idle /\ InCode /\ InNative /\ Flags

LEMMA FnFacts ==
    /\ \A fn \in Functions \union {Global} : fn \in Function /\ fn.data \in Nat /\ fn.regs \in Nat
    /\ Global.data = 0 /\ Global \notin Functions
    /\ Nothing \in Function /\ Nothing.data = 0 /\ Nothing.regs = 0
    /\ Globals \in Nat /\ DataMax \in Nat /\ Globals <= DataMax /\ Globals \in Globals..DataMax
    /\ MaxFrames \in Nat
BY CallsAssumption DEF Function, Global, Nothing

\* the innermost frame
LEMMA TopFacts ==
    ASSUME IInv, frames # <<>>
    PROVE  /\ Len(frames) \in Nat /\ Len(frames) > 0 /\ Top = frames[Len(frames)]
           /\ Top \in FrameType /\ Placed(frames, Len(frames))
           /\ Top.kind \in CodeKinds \/ Top.kind \in Natives
           /\ Top.kind \in CodeKinds => Top.kind \notin Natives /\ (Top.kind = "run" \/ Top.kind = "call")
<1>1. frames \in Seq(FrameType) /\ Len(frames) \in Nat /\ Len(frames) > 0
  BY LenProperties, EmptySeq DEF IInv, Built
<1>2. Top = frames[Len(frames)]
  BY DEF Top, Last
<1>3. Top \in FrameType
  BY <1>1, <1>2, ElementOfSeq
<1>4. Placed(frames, Len(frames))
  BY <1>1 DEF IInv, Built
<1> QED
  BY <1>1, <1>2, <1>3, <1>4 DEF FrameType, CodeKinds, Natives

LEMMA TopNext == frames' # <<>> => Top' = frames'[Len(frames')]
BY DEF Top, Last

-------------------------------------------------------------------------------
(* Run.                                                                    *)

\* when nothing runs, or only a native function that the host called, the
\* stacks are empty
LEMMA FromEmpty ==
    ASSUME IInv, frames # <<>>, Top.kind \in Natives, ~Top.pushed
    PROVE  /\ data = Globals /\ regs = 0 /\ final = 0
           /\ PushedIn(frames, Len(frames)) = 0
<1>1. Len(frames) = 2 /\ frames[1].fn = Nothing /\ Top = frames[2] /\ Placed(frames, 2)
  BY TopFacts DEF Placed
<1>2. Placed(frames, 1) /\ frames[1].kind = "run" /\ ~frames[1].pushed /\ ~frames[2].pushed
  <2>1. Placed(frames, 1)
    BY <1>1 DEF IInv, Built
  <2> QED
    BY <1>1, <2>1 DEF Placed
<1>3. PushedIn(frames, 0) = 0 /\ PushedIn(frames, 1) = 0 /\ PushedIn(frames, 2) = 0
  <2>1. PushedIn(frames, 0) = 0 /\ PushedIn(frames, 0 + 1) = PushedIn(frames, 0)
    BY <1>2, PushedFacts
  <2>2. PushedIn(frames, 1 + 1) = PushedIn(frames, 1)
    BY <1>2, PushedFacts
  <2> QED
    BY <2>1, <2>2
<1>4. final = 0
  <2>1. IsLast(frames, 2, 1)
    BY <1>1, <1>2 DEF IsLast, Natives
  <2>2. final = PushedIn(frames, 1 - 1)
    BY <1>1, <2>1 DEF IInv, Built, Finals
  <2> QED
    BY <1>3, <2>2
<1>5. End(frames[1]) = Base /\ Start(frames[2]) = Base /\ frames[2].fn = Nothing
  BY <1>1, <1>2, FnFacts DEF Placed, End, Start, Base
<1>6. [data |-> data, regs |-> regs] = Base
  BY <1>1, <1>5, FnFacts DEF IInv, InNative, Matches, End, Start, Base
<1> QED
  BY <1>1, <1>3, <1>4, <1>6 DEF Base

LEMMA RunStep ==
    ASSUME IInv, ret = "none", NEW fn \in Functions \union {Global}, StartRun(fn),
           frames # <<>> => /\ Top.kind \in Natives /\ ~Top.failed /\ fn # Global
                            /\ codeRunning \/ Top.kind # "alloc"
    PROVE  IInv'
<1> DEFINE fresh == Fresh(fn)
           depth == IF fresh THEN 0 ELSE calls
           used  == IF fresh THEN Globals ELSE data
           file  == IF fresh THEN 0 ELSE regs
           outer == IF fresh THEN 0 ELSE final
           fits  == fn = Global \/ used + fn.data < DataMax
           fr    == [kind |-> "run", fn |-> fn, pushed |-> FALSE, failed |-> FALSE,
                     final |-> outer, data |-> used, regs |-> file]
<1>1. /\ frames' = Append(frames, fr) /\ final' = depth
      /\ errorDepth' = IF fresh THEN 0 ELSE errorDepth
      /\ fits => /\ calls' = depth /\ data' = used + fn.data /\ regs' = file + fn.regs
                 /\ codeRunning' = TRUE /\ ret' = "none" /\ callContinue' = (fresh \/ callContinue)
      /\ ~fits => /\ calls' = depth + 1 /\ data' = used /\ regs' = file
                  /\ codeRunning' = FALSE /\ callContinue' = FALSE /\ ret' = "error"
  BY DEF StartRun
<1>2. /\ used \in Globals..DataMax /\ file \in Nat /\ outer \in Nat /\ depth \in Nat
      /\ fn \in Function /\ fn.data \in Nat /\ fn.regs \in Nat /\ errorDepth \in Nat
  BY FnFacts DEF IInv, Types
<1>3. fr \in FrameType
  BY <1>2 DEF FrameType, CodeKinds
<1>4. ~fresh => codeRunning /\ callContinue
  BY DEF Fresh, IInv, Flags
<1>5. /\ depth = PushedIn(frames, Len(frames))
      /\ frames = <<>> => outer = 0 /\ used = Globals /\ file = 0
      /\ frames # <<>> => outer = final /\ [data |-> used, regs |-> file] = End(Top)
  <2>1. CASE frames = <<>>
    <3>1. used = Globals /\ file = 0 /\ outer = 0 /\ depth = 0
      BY <1>4, <2>1 DEF IInv, Idle, Built, Finals
    <3>2. PushedIn(frames, Len(frames)) = 0
      BY <2>1, EmptySeq, PushedFacts
    <3> QED
      BY <2>1, <3>1, <3>2
  <2>2. CASE frames # <<>> /\ codeRunning
    <3>1. ~fresh
      BY <2>2 DEF Fresh
    <3> QED
      BY <2>2, <3>1 DEF IInv, InNative, Counted, Matches
  <2>3. CASE frames # <<>> /\ ~codeRunning
    <3>1. fresh /\ ~Top.pushed
      BY <2>3 DEF Fresh, IInv, InNative
    <3>2. /\ data = Globals /\ regs = 0 /\ final = 0 /\ PushedIn(frames, Len(frames)) = 0
          /\ [data |-> data, regs |-> regs] = End(Top)
      BY <2>3, <3>1, FromEmpty DEF IInv, InNative, Matches
    <3> QED
      BY <2>3, <3>1, <3>2
  <2> QED
    BY <2>1, <2>2, <2>3
<1>6. fr.kind = "run" /\ ~fr.pushed /\ ~fr.failed /\ fr.final = outer /\ fr.fn = fn
      /\ Start(fr) = [data |-> used, regs |-> file]
      /\ End(fr) = [data |-> used + fn.data, regs |-> file + fn.regs]
  BY DEF Start, End
<1> HIDE DEF fr, fits, outer, used, file, depth, fresh
<1>7. /\ Built(frames', depth) /\ Len(frames') = Len(frames) + 1 /\ frames'[Len(frames) + 1] = fr
      /\ frames' # <<>> /\ PushedIn(frames', Len(frames)) = PushedIn(frames, Len(frames))
  <2>1. frames # <<>> => Top = frames[Len(frames)]
    BY TopFacts
  <2>2. fr.kind \notin Natives /\ fr.kind # "call"
    BY <1>6 DEF Natives
  <2>3. Built(frames, final)
    BY DEF IInv
  <2>4. frames = <<>> => fr.kind = "run" /\ fr.final = 0 /\ Start(fr) = Base
    BY <1>5, <1>6 DEF Base
  <2>5. frames # <<>> => Start(fr) = End(frames[Len(frames)]) /\ ~frames[Len(frames)].failed
    BY <1>5, <1>6, <2>1
  <2>6. fr.kind = "run" => /\ ~fr.pushed /\ depth = PushedIn(frames, Len(frames))
                           /\ frames # <<>> => frames[Len(frames)].kind \in Natives /\ fr.final = final
    BY <1>5, <1>6, <2>1
  <2>7. Stands(frames, final, depth, fr)
    BY <1>3, <1>6, <2>2, <2>3, <2>4, <2>5, <2>6 DEF Stands
  <2>8. Longer(frames, depth, fr, frames')
    BY <1>1, <2>7, Pushing
  <2> QED
    BY <2>8 DEF Longer
<1>8. Top' = fr /\ fr.kind \notin Natives /\ Len(frames) \in Nat
  <2>1. frames \in Seq(FrameType)
    BY DEF IInv, Built
  <2> QED
    BY <1>6, <1>7, <2>1, TopNext, LenProperties DEF Natives
<1>9. PushedIn(frames', Len(frames')) = depth
  BY <1>5, <1>6, <1>7, <1>8, PushedFacts
<1>10. CASE fits
  <2>1. used + fn.data \in Globals..DataMax
    BY <1>2, <1>10, FnFacts DEF fits
  <2>2. callContinue' = TRUE
    BY <1>1, <1>4, <1>10
  <2>3. Types'
    BY <1>1, <1>2, <1>10, <2>1, <2>2 DEF Types
  <2>4. InCode'
    BY <1>1, <1>6, <1>7, <1>8, <1>9, <1>10 DEF InCode, Counted, Matches, Ended
  <2> QED
    BY <1>1, <1>7, <1>8, <1>10, <2>2, <2>3, <2>4 DEF IInv, Idle, InNative, Flags
<1>11. CASE ~fits
  <2>1. Types'
    <3>1. calls' \in Nat /\ final' \in Nat /\ errorDepth' \in Nat
      BY <1>1, <1>2, <1>11
    <3>2. data' \in Globals..DataMax /\ regs' \in Nat
      BY <1>1, <1>2, <1>11
    <3>3. codeRunning' \in BOOLEAN /\ callContinue' \in BOOLEAN
      BY <1>1, <1>11
    <3>4. ret' \in {"none", "ok", "error", "void"}
      BY <1>1, <1>11
    <3> QED
      BY <3>1, <3>2, <3>3, <3>4 DEF Types
  <2>2. InCode'
    BY <1>1, <1>11 DEF InCode, Ended
  <2> QED
    BY <1>1, <1>7, <1>8, <1>11, <2>1, <2>2 DEF IInv, Idle, InNative, Flags
<1> QED
  BY <1>10, <1>11

LEMMA FinishRunStep ==
    ASSUME IInv, FinishRun
    PROVE  IInv'
<1> DEFINE n == Len(frames)
<1>1. /\ frames # <<>> /\ ret # "none" /\ Top.kind = "run"
      /\ frames' = Front(frames) /\ data' = Top.data /\ regs' = Top.regs /\ final' = Top.final
      /\ ret' = (IF n = 1 THEN "none" ELSE ret) /\ calls' = calls
      /\ ret = "error" => errorDepth' = final /\ codeRunning' = FALSE /\ callContinue' = FALSE
      /\ ret # "error" => UNCHANGED <<errorDepth, codeRunning, callContinue>>
  BY DEF FinishRun
<1>2. /\ n \in Nat /\ n > 0 /\ Top = frames[n] /\ Top \in FrameType /\ Placed(frames, n)
      /\ Top.kind \in CodeKinds /\ ~Top.pushed
  BY <1>1, TopFacts DEF CodeKinds, Placed
<1>3. /\ Built(frames', final') /\ Len(frames') = n - 1
      /\ \A k \in 1..(n - 1) : frames'[k] = frames[k] /\ ~frames'[k].failed
      /\ PushedIn(frames', n - 1) = PushedIn(frames, n - 1)
  <2>1. Built(frames, final) /\ final' = frames[n].final /\ frames[n].kind = "run"
    BY <1>1, <1>2 DEF IInv
  <2>2. /\ Built(frames', final') /\ Len(frames') = n - 1
        /\ \A k \in 1..Len(frames') : frames'[k] = frames[k] /\ ~frames'[k].failed
        /\ PushedIn(frames', Len(frames')) = PushedIn(frames, n - 1)
    <3>1. Ends(frames, final, final')
      BY <1>1, <2>1 DEF Ends
    <3>2. Shorter(frames, final', frames')
      BY <1>1, <3>1, Popping
    <3> QED
      BY <3>2 DEF Shorter
  <2> QED
    BY <2>2
<1>4. PushedIn(frames, n) = PushedIn(frames, n - 1) /\ n - 1 \in Nat
  <2>1. n - 1 \in Nat /\ (n - 1) + 1 = n
    BY <1>2
  <2> QED
    BY <1>2, <2>1, PushedFacts
<1>5. final = PushedIn(frames, n - 1)
  <2>1. IsLast(frames, n, n)
    BY <1>1, <1>2 DEF IsLast
  <2> QED
    BY <2>1 DEF IInv, Built, Finals
<1>6. Types'
  BY <1>1, <1>2 DEF IInv, Types, FrameType
<1>7. Flags'
  BY <1>1 DEF IInv, Flags
<1>8. ret = "error" \/ (Ended /\ callContinue /\ (codeRunning => calls = PushedIn(frames, n - 1)))
  BY <1>1, <1>2, <1>4 DEF IInv, Types, InCode, Ended, Counted
<1>9. CASE n = 1
  <2>1. frames' = <<>>
    BY <1>3, <1>9, EmptySeq DEF Built
  <2>2. data' = Globals /\ regs' = 0
    BY <1>1, <1>2, <1>9 DEF Placed, Start, Base
  <2>3. PushedIn(frames, n - 1) = 0
    BY <1>9, PushedFacts
  <2>4. codeRunning' => calls' = 0
    BY <1>1, <1>8, <2>3
  <2>5. ret' = "none"
    BY <1>1, <1>9
  <2> QED
    BY <1>3, <1>6, <1>7, <2>1, <2>2, <2>4, <2>5 DEF IInv, Idle, InCode, InNative
<1>10. CASE n # 1
  <2>1. /\ frames' # <<>> /\ n - 1 \in 1..(n - 1) /\ frames[n - 1].kind \in Natives
        /\ Start(Top) = End(frames[n - 1]) /\ n > 1
    BY <1>1, <1>2, <1>3, <1>10, EmptySeq DEF Placed
  <2>2. Top' = frames[n - 1] /\ ~Top'.failed
    BY <1>3, <2>1, TopNext
  <2>3. Matches'
    BY <1>1, <2>1, <2>2 DEF Matches, Start
  <2>4. codeRunning' => Counted'
    BY <1>1, <1>3, <1>8 DEF Counted
  <2>5. ret' = ret
    BY <1>1, <1>10
  <2>6. ret = "error" => Recorded'
    BY <1>1, <1>3, <1>5 DEF Recorded
  <2>7. ret # "error" /\ ~codeRunning => ~Top'.pushed
    BY <1>1, <1>2, <1>8, <2>1, <2>2 DEF IInv, InCode
  <2>8. InNative'
    BY <1>1, <1>8, <2>2, <2>3, <2>4, <2>5, <2>6, <2>7 DEF InNative, Ended
  <2>9. InCode'
    BY <2>1, <2>2 DEF InCode, CodeKinds, Natives
  <2> QED
    BY <1>3, <1>6, <1>7, <2>1, <2>8, <2>9 DEF IInv, Idle
<1> QED
  BY <1>9, <1>10

\* the host runs a native function
LEMMA HostRunNativeStep ==
    ASSUME IInv, HostRunNative
    PROVE  IInv'
<1>1. PICK kind \in Natives :
        LET fresh == ~codeRunning
            run == [kind |-> "run", fn |-> Nothing, pushed |-> FALSE, failed |-> FALSE,
                    final |-> IF fresh THEN 0 ELSE final,
                    data |-> IF fresh THEN Globals ELSE data,
                    regs |-> IF fresh THEN 0 ELSE regs]
        IN /\ calls' = (IF fresh THEN 0 ELSE calls)
           /\ final' = calls'
           /\ data' = run.data /\ regs' = run.regs
           /\ codeRunning' = TRUE
           /\ callContinue' = (fresh \/ callContinue)
           /\ errorDepth' = (IF fresh THEN 0 ELSE errorDepth)
           /\ frames' = <<run, [run EXCEPT !.kind = kind, !.final = final']>>
  BY DEF HostRunNative
<1>2. frames = <<>> /\ ret = "none" /\ ret' = "none" /\ final = 0 /\ data = Globals /\ regs = 0
      /\ (codeRunning => calls = 0 /\ callContinue)
  BY DEF HostRunNative, IInv, Idle, Flags, Built, Finals
<1> DEFINE run == [kind |-> "run", fn |-> Nothing, pushed |-> FALSE, failed |-> FALSE,
                   final |-> 0, data |-> Globals, regs |-> 0]
           nat == [run EXCEPT !.kind = kind, !.final = 0]
           one == <<run>>
<1>3. /\ calls' = 0 /\ final' = 0 /\ data' = Globals /\ regs' = 0
      /\ codeRunning' = TRUE /\ callContinue' = TRUE /\ frames' = <<run, nat>>
      /\ errorDepth' = 0 \/ errorDepth' = errorDepth
  <2> DEFINE fresh == ~codeRunning
             first == [kind |-> "run", fn |-> Nothing, pushed |-> FALSE, failed |-> FALSE,
                       final |-> IF fresh THEN 0 ELSE final,
                       data |-> IF fresh THEN Globals ELSE data,
                       regs |-> IF fresh THEN 0 ELSE regs]
  <2>1. first = run
    BY <1>2
  <2>2. /\ calls' = (IF fresh THEN 0 ELSE calls) /\ final' = calls'
        /\ data' = first.data /\ regs' = first.regs
        /\ codeRunning' = TRUE /\ callContinue' = (fresh \/ callContinue)
        /\ errorDepth' = (IF fresh THEN 0 ELSE errorDepth)
        /\ frames' = <<first, [first EXCEPT !.kind = kind, !.final = final']>>
    BY <1>1
  <2> HIDE DEF first
  <2>3. calls' = 0 /\ final' = 0 /\ codeRunning' = TRUE
    BY <1>2, <2>2
  <2>4. data' = Globals /\ regs' = 0
    BY <2>1, <2>2
  <2>5. callContinue' = TRUE
    BY <1>2, <2>2
  <2>6. errorDepth' = 0 \/ errorDepth' = errorDepth
    BY <2>2
  <2>7. frames' = <<run, nat>>
    <3> HIDE DEF run
    <3> QED
      BY <2>1, <2>2, <2>3
  <2> QED
    BY <2>3, <2>4, <2>5, <2>6, <2>7
<1>4. one = Append(frames, run) /\ frames' = Append(one, nat)
  <2> HIDE DEF run, nat
  <2>1. <<run>> = Append(<<>>, run) /\ <<run, nat>> = Append(<<run>>, nat)
    OBVIOUS
  <2> QED
    BY <1>2, <1>3, <2>1
<1>5. run \in FrameType /\ nat \in FrameType
  <2>1. run \in FrameType
    BY FnFacts DEF FrameType, CodeKinds
  <2> HIDE DEF run
  <2>2. nat \in FrameType
    BY <1>1, <2>1 DEF FrameType
  <2> QED
    BY <2>1, <2>2
<1>6. /\ run.kind = "run" /\ ~run.pushed /\ ~run.failed /\ run.final = 0 /\ run.fn = Nothing
      /\ Start(run) = Base /\ End(run) = Base
      /\ nat.kind = kind /\ ~nat.pushed /\ ~nat.failed /\ nat.final = 0 /\ nat.fn = Nothing
      /\ Start(nat) = Base /\ End(nat) = Base
  BY FnFacts DEF Start, End, Base
<1>7. kind # "run" /\ kind # "call" /\ kind \in Natives /\ run.kind \notin Natives
  BY <1>1 DEF Natives
<1> HIDE DEF run, nat, one
<1>8. Len(frames) = 0 /\ PushedIn(frames, Len(frames)) = 0
  BY <1>2, PushedFacts, EmptySeq
<1>9. Longer(frames, 0, run, one)
  <2>1. Stands(frames, final, 0, run)
    BY <1>2, <1>5, <1>6, <1>7, <1>8 DEF Stands, IInv
  <2> QED
    BY <1>4, <2>1, Pushing
<1>10. Built(one, 0) /\ Len(one) = 1 /\ one[1] = run /\ one # <<>>
  BY <1>8, <1>9 DEF Longer
<1>11. Longer(one, 0, nat, frames')
  <2>1. Stands(one, 0, 0, nat)
    BY <1>5, <1>6, <1>7, <1>10 DEF Stands
  <2> QED
    BY <1>4, <2>1, Pushing
<1>12. Built(frames', 0) /\ Len(frames') = 2 /\ frames'[2] = nat /\ frames' # <<>> /\ frames'[1] = run
  BY <1>10, <1>11 DEF Longer
<1>13. Top' = nat
  BY <1>12, TopNext
<1>14. PushedIn(frames', 2) = 0
  <2>1. PushedIn(frames', 0) = 0 /\ PushedIn(frames', 0 + 1) = PushedIn(frames', 0)
    BY <1>6, <1>12, PushedFacts
  <2>2. PushedIn(frames', 1 + 1) = PushedIn(frames', 1)
    BY <1>6, <1>12, PushedFacts
  <2> QED
    BY <2>1, <2>2
<1>15. Types'
  BY <1>2, <1>3, FnFacts DEF Types, IInv
<1>16. Matches' /\ Counted'
  BY <1>3, <1>6, <1>12, <1>13, <1>14 DEF Matches, Counted, Base
<1>17. InNative' /\ InCode'
  BY <1>2, <1>3, <1>6, <1>7, <1>13, <1>16 DEF InNative, InCode, Ended, CodeKinds
<1> QED
  BY <1>2, <1>3, <1>12, <1>15, <1>17 DEF IInv, Idle, Flags

-------------------------------------------------------------------------------
(* ExecCall.                                                               *)

\* code runs in the innermost frame
LEMMA CodeFacts ==
    ASSUME IInv, Code
    PROVE  /\ frames # <<>> /\ ret = "none" /\ Top.kind \in CodeKinds /\ Top.kind \notin Natives
           /\ codeRunning /\ callContinue /\ Counted /\ Matches /\ ~Top.failed
           /\ Len(frames) \in Nat /\ Len(frames) > 0 /\ Top = frames[Len(frames)]
           /\ Top \in FrameType /\ Placed(frames, Len(frames))
<1>1. frames # <<>> /\ ret = "none" /\ Top.kind \in CodeKinds
  BY DEF Code, CodeKinds
<1>2. Top.kind \notin Fails
  BY <1>1 DEF CodeKinds, Fails
<1> QED
  BY <1>1, <1>2, TopFacts DEF IInv, InCode, Flags, Placed

\* an error leaves the frames to Run
LEMMA Failing ==
    ASSUME IInv, Code, UNCHANGED <<frames, final, data, errorDepth>>,
           calls' \in Nat, regs' \in Nat,
           codeRunning' = FALSE, callContinue' = FALSE, ret' = "error"
    PROVE  IInv'
<1>1. frames # <<>> /\ Top.kind \notin Natives /\ Top' = Top
  BY CodeFacts DEF Top
<1>2. Types'
  BY DEF IInv, Types
<1> QED
  BY <1>1, <1>2 DEF IInv, Idle, InCode, InNative, Flags, Ended

LEMMA CallFunctionStep ==
    ASSUME IInv, CallFunction
    PROVE  IInv'
<1>1. PICK fn \in Functions :
        /\ calls' = calls + 1
        /\ IF data + fn.data >= DataMax
           THEN /\ codeRunning' = FALSE /\ callContinue' = FALSE
                /\ ret' = "error"
                /\ UNCHANGED <<data, regs, frames>>
           ELSE IF regs + fn.regs >= RegMax
           THEN /\ codeRunning' = FALSE /\ callContinue' = FALSE
                /\ regs' = regs + fn.regs
                /\ ret' = "error"
                /\ UNCHANGED <<data, frames>>
           ELSE /\ Len(frames) < MaxFrames
                /\ frames' = Append(frames, Frame("call", fn, TRUE))
                /\ data' = data + fn.data
                /\ regs' = regs + fn.regs
                /\ UNCHANGED <<codeRunning, callContinue, ret>>
  BY DEF CallFunction
<1>2. Code /\ UNCHANGED <<final, errorDepth>>
  BY DEF CallFunction
<1>3. /\ calls \in Nat /\ final \in Nat /\ data \in Globals..DataMax /\ regs \in Nat
      /\ fn \in Function /\ fn.data \in Nat /\ fn.regs \in Nat
  BY FnFacts DEF IInv, Types
<1>4. CASE data + fn.data >= DataMax \/ regs + fn.regs >= RegMax
  <2>1. calls' \in Nat /\ regs' \in Nat
    <3>1. calls' = calls + 1 /\ (regs' = regs \/ regs' = regs + fn.regs)
      BY <1>1, <1>4
    <3> QED
      BY <1>3, <3>1
  <2>2. codeRunning' = FALSE /\ callContinue' = FALSE /\ ret' = "error"
    BY <1>1, <1>4
  <2>3. UNCHANGED <<frames, final, data, errorDepth>>
    BY <1>1, <1>2, <1>4
  <2> QED
    BY <1>2, <2>1, <2>2, <2>3, Failing
<1>5. CASE ~(data + fn.data >= DataMax) /\ ~(regs + fn.regs >= RegMax)
  <2> DEFINE fr == Frame("call", fn, TRUE)
             n == Len(frames)
  <2>1. /\ frames' = Append(frames, fr) /\ calls' = calls + 1
        /\ data' = data + fn.data /\ regs' = regs + fn.regs
        /\ UNCHANGED <<codeRunning, callContinue, ret>>
    BY <1>1, <1>5
  <2>2. /\ fr \in FrameType /\ fr.kind = "call" /\ fr.pushed /\ ~fr.failed
        /\ Start(fr) = [data |-> data, regs |-> regs]
        /\ End(fr) = [data |-> data + fn.data, regs |-> regs + fn.regs]
    BY <1>3 DEF Frame, FrameType, CodeKinds, Start, End
  <2> HIDE DEF fr
  <2>3. fr.kind \notin Natives /\ fr.kind # "run" /\ fr.kind \in CodeKinds
    BY <2>2 DEF Natives, CodeKinds
  <2>4. Longer(frames, final, fr, frames')
    <3>1. Stands(frames, final, final, fr)
      BY <1>2, <2>2, <2>3, CodeFacts DEF Stands, Matches, IInv
    <3> QED
      BY <2>1, <3>1, Pushing
  <2>5. /\ Built(frames', final) /\ Len(frames') = n + 1 /\ frames'[n + 1] = fr /\ frames' # <<>>
        /\ PushedIn(frames', n) = PushedIn(frames, n) /\ n \in Nat
    BY <1>2, <2>4, CodeFacts DEF Longer
  <2>6. Top' = fr
    BY <2>5, TopNext
  <2>7. Counted'
    <3>1. PushedIn(frames', n + 1) = PushedIn(frames', n) + 1
      BY <2>2, <2>5, PushedFacts
    <3> QED
      BY <1>2, <2>1, <2>5, <3>1, CodeFacts DEF Counted
  <2>8. Matches'
    BY <2>1, <2>2, <2>6 DEF Matches
  <2>9. Types'
    <3>1. data' \in Globals..DataMax
      BY <1>3, <1>5, <2>1, FnFacts
    <3> QED
      BY <1>2, <1>3, <2>1, <3>1 DEF IInv, Types
  <2>10. InCode' /\ InNative'
    BY <1>2, <2>1, <2>3, <2>6, <2>7, <2>8, CodeFacts DEF InCode, InNative, Ended
  <2>11. Flags'
    BY <2>1 DEF IInv, Flags
  <2> QED
    BY <1>2, <2>5, <2>9, <2>10, <2>11 DEF IInv, Idle
<1> QED
  BY <1>4, <1>5

LEMMA FinishCallStep ==
    ASSUME IInv, FinishCall
    PROVE  IInv'
<1> DEFINE n == Len(frames)
<1>1. /\ frames # <<>> /\ ret # "none" /\ Top.kind = "call"
      /\ frames' = Front(frames)
      /\ ret = "error" => UNCHANGED <<data, regs, ret>>
      /\ ret # "error" => data' = Top.data /\ regs' = Top.regs /\ ret' = "none"
      /\ UNCHANGED <<calls, final, codeRunning, callContinue, errorDepth>>
  BY DEF FinishCall
<1>2. /\ n \in Nat /\ n > 1 /\ Top = frames[n] /\ Top \in FrameType /\ Top.kind \in CodeKinds
      /\ Top.pushed /\ frames[n - 1].kind \in CodeKinds /\ Start(Top) = End(frames[n - 1])
  BY <1>1, TopFacts DEF CodeKinds, Placed
<1>3. Shorter(frames, final, frames')
  <2>1. Ends(frames, final, final)
    BY <1>1, <1>2 DEF Ends, IInv
  <2> QED
    BY <1>1, <2>1, Popping
<1>4. /\ Built(frames', final) /\ Len(frames') = n - 1 /\ n - 1 \in 1..(n - 1)
      /\ frames'[n - 1] = frames[n - 1]
      /\ PushedIn(frames', n - 1) = PushedIn(frames, n - 1)
  BY <1>2, <1>3 DEF Shorter
<1>5. frames' # <<>> /\ Top' = frames[n - 1] /\ Top'.kind \in CodeKinds /\ Top'.kind \notin Natives
  <2>1. frames' # <<>>
    BY <1>2, <1>4, EmptySeq
  <2> QED
    BY <1>2, <1>4, <2>1, TopNext DEF CodeKinds, Natives
<1>6. PushedIn(frames, n) = PushedIn(frames, n - 1) + 1 /\ PushedIn(frames, n - 1) \in Nat
  <2>1. n - 1 \in Nat /\ (n - 1) + 1 = n
    BY <1>2
  <2> QED
    BY <1>2, <2>1, PushedFacts
<1>7. CASE ret = "error"
  <2>1. Types'
    BY <1>1, <1>7 DEF IInv, Types
  <2>2. ret' = "error" /\ Flags'
    BY <1>1, <1>7 DEF IInv, Flags
  <2>3. Idle' /\ InCode' /\ InNative'
    BY <1>5, <2>2 DEF Idle, InCode, InNative, Ended
  <2>4. Built(frames', final')
    BY <1>1, <1>4
  <2> QED
    BY <2>1, <2>2, <2>3, <2>4 DEF IInv
<1>8. CASE ret # "error"
  <2>1. ret = "ok" /\ codeRunning /\ calls + 1 = PushedIn(frames, n)
    BY <1>1, <1>8 DEF IInv, Types, InCode, Ended, CodeKinds
  <2>2. Counted'
    BY <1>1, <1>4, <1>6, <2>1 DEF Counted, IInv, Types
  <2>3. Matches'
    BY <1>1, <1>2, <1>5, <1>8 DEF Matches, Start
  <2>4. Types'
    BY <1>1, <1>2, <1>8 DEF IInv, Types, FrameType
  <2>5. InCode' /\ InNative'
    BY <1>1, <1>5, <1>8, <2>1, <2>2, <2>3 DEF InCode, InNative, Ended
  <2>6. Idle' /\ Flags'
    BY <1>1, <1>5, <1>8 DEF IInv, Idle, Flags
  <2>7. Built(frames', final')
    BY <1>1, <1>4
  <2> QED
    BY <2>4, <2>5, <2>6, <2>7 DEF IInv
<1> QED
  BY <1>7, <1>8

\* an address that the frames above the last Run pushed
LEMMA FinalBelow ==
    ASSUME IInv, frames # <<>>
    PROVE  /\ Top.kind = "run" => final = PushedIn(frames, Len(frames) - 1)
           /\ Top.kind # "run" => final <= PushedIn(frames, Len(frames) - 1)
<1> DEFINE n == Len(frames)
<1>1. PICK r : IsLast(frames, n, r)
  BY LastExists DEF IInv
<1>2. final = PushedIn(frames, r - 1) /\ r \in 1..n /\ frames[r].kind = "run"
      /\ \A k \in (r + 1)..n : frames[k].kind # "run"
  BY <1>1 DEF IInv, Built, Finals, IsLast
<1>3. n \in Nat /\ n > 0 /\ Top = frames[n]
  BY TopFacts
<1>4. CASE r = n
  BY <1>2, <1>3, <1>4
<1>5. CASE r # n
  <2>1. n \in (r + 1)..n /\ n - 1 \in Nat /\ r - 1 \in 0..(n - 1)
    BY <1>2, <1>3, <1>5
  <2>2. Top.kind # "run"
    BY <1>2, <1>3, <2>1
  <2>3. PushedIn(frames, r - 1) <= PushedIn(frames, n - 1)
    BY <2>1, PushedMore
  <2> QED
    BY <1>2, <2>2, <2>3
<1> QED
  BY <1>4, <1>5

\* the count without the innermost frame
LEMMA CountedBelow ==
    ASSUME IInv, frames # <<>>
    PROVE  /\ PushedIn(frames, Len(frames) - 1) \in Nat
           /\ Top.pushed => PushedIn(frames, Len(frames)) = PushedIn(frames, Len(frames) - 1) + 1
           /\ ~Top.pushed => PushedIn(frames, Len(frames)) = PushedIn(frames, Len(frames) - 1)
           /\ PushedIn(frames, Len(frames) - 1) = 0 /\ Len(frames) > 1
                => ~frames[Len(frames) - 1].pushed
<1> DEFINE n == Len(frames)
<1>1. n - 1 \in Nat /\ (n - 1) + 1 = n /\ Top = frames[n]
  BY TopFacts
<1>2. n > 1 => n - 1 \in 1..(n - 1)
  BY <1>1
<1> QED
  BY <1>1, <1>2, PushedFacts

LEMMA ReturnStep ==
    ASSUME IInv, Return
    PROVE  IInv'
<1> DEFINE n == Len(frames)
           below == PushedIn(frames, n - 1)
<1>1. /\ Code /\ ret' = "ok"
      /\ calls = final => UNCHANGED calls /\ codeRunning' = (codeRunning /\ final # 0)
      /\ calls # final => calls' = calls - 1 /\ UNCHANGED codeRunning
      /\ UNCHANGED <<final, data, regs, callContinue, errorDepth, frames>>
  BY DEF Return
<1>2. /\ frames # <<>> /\ Top.kind \in CodeKinds /\ Top.kind \notin Natives
      /\ codeRunning /\ callContinue /\ calls = PushedIn(frames, n)
      /\ Placed(frames, n) /\ Top = frames[n] /\ n > 0
  BY <1>1, CodeFacts DEF Counted
<1>3. Top' = Top /\ UNCHANGED frames
  BY <1>1 DEF Top
<1>4. CASE Top.kind = "run"
  <2>1. calls = final /\ final = below /\ ~Top.pushed
    BY <1>2, <1>4, FinalBelow, CountedBelow DEF Placed
  <2>2. CASE final = 0
    <3>1. codeRunning' = FALSE /\ UNCHANGED calls
      BY <1>1, <2>1, <2>2
    <3>2. Types'
      BY <1>1, <3>1 DEF IInv, Types
    <3>3. n > 1 => ~frames[n - 1].pushed
      BY <1>2, <2>1, <2>2, CountedBelow
    <3>4. InCode'
      BY <1>1, <1>2, <1>3, <1>4, <3>1, <3>3 DEF InCode, Ended
    <3> QED
      BY <1>1, <1>2, <1>3, <3>1, <3>2, <3>4 DEF IInv, Idle, InNative, Flags
  <2>3. CASE final # 0
    <3>1. codeRunning' = TRUE /\ UNCHANGED calls
      BY <1>1, <1>2, <2>1, <2>3
    <3>2. Types'
      BY <1>1, <3>1 DEF IInv, Types
    <3>3. InCode'
      BY <1>1, <1>2, <1>3, <1>4, <3>1 DEF InCode, Ended, Counted
    <3> QED
      BY <1>1, <1>2, <1>3, <3>1, <3>2, <3>3 DEF IInv, Idle, InNative, Flags
  <2> QED
    BY <2>2, <2>3
<1>5. CASE Top.kind = "call"
  <2>1. calls = below + 1 /\ final <= below /\ below \in Nat /\ final \in Nat
    BY <1>2, <1>5, FinalBelow, CountedBelow DEF Placed, IInv, Types
  <2>2. calls' = calls - 1 /\ UNCHANGED codeRunning /\ calls' \in Nat /\ calls' + 1 = calls
    BY <1>1, <2>1
  <2>3. Types'
    BY <1>1, <2>2 DEF IInv, Types
  <2>4. InCode'
    BY <1>1, <1>2, <1>3, <1>5, <2>2 DEF InCode, Ended
  <2> QED
    BY <1>1, <1>2, <1>3, <2>2, <2>3, <2>4 DEF IInv, Idle, InNative, Flags
<1> QED
  BY <1>2, <1>4, <1>5 DEF CodeKinds

LEMMA FallOffStep ==
    ASSUME IInv, FallOff
    PROVE  IInv'
<1> DEFINE n == Len(frames)
<1>1. /\ Code /\ calls' = calls + 1 /\ codeRunning' = FALSE
      /\ calls # 0 => callContinue' = FALSE /\ ret' = "error"
      /\ calls = 0 => ret' \in {"ok", "void"} /\ UNCHANGED callContinue
      /\ UNCHANGED <<final, data, regs, errorDepth, frames>>
  BY DEF FallOff
<1>2. calls \in Nat /\ calls' \in Nat /\ regs' \in Nat
  BY <1>1 DEF IInv, Types
<1>3. CASE calls # 0
  BY <1>1, <1>2, <1>3, Failing
<1>4. CASE calls = 0
  <2>1. /\ frames # <<>> /\ Top.kind \in CodeKinds /\ Top.kind \notin Natives
        /\ callContinue /\ PushedIn(frames, n) = 0 /\ Placed(frames, n) /\ Top = frames[n] /\ n > 0
    BY <1>1, <1>4, CodeFacts DEF Counted
  <2>2. ~Top.pushed
    BY <2>1, CountedBelow
  <2>3. Top.kind = "run" /\ (n > 1 => ~frames[n - 1].pushed)
    BY <2>1, <2>2, CountedBelow DEF Placed, CodeKinds
  <2>4. Types'
    BY <1>1, <1>2, <1>4 DEF IInv, Types
  <2>5. Top' = Top /\ UNCHANGED frames
    BY <1>1 DEF Top
  <2>6. ret' # "none" /\ ret' # "error"
    BY <1>1, <1>4
  <2>7. InCode'
    BY <1>1, <1>4, <2>1, <2>3, <2>5, <2>6 DEF InCode, Ended
  <2> QED
    BY <1>1, <2>1, <2>4, <2>5, <2>6, <2>7 DEF IInv, Idle, InNative, Flags
<1> QED
  BY <1>3, <1>4

LEMMA InstructionFailsStep ==
    ASSUME IInv, InstructionFails
    PROVE  IInv'
<1>1. /\ Code /\ codeRunning' = FALSE /\ callContinue' = FALSE /\ ret' = "error"
      /\ UNCHANGED <<frames, final, data, errorDepth>>
  BY DEF InstructionFails
<1>2. calls' \in Nat /\ regs' \in Nat
  BY DEF InstructionFails, IInv, Types
<1> QED
  BY <1>1, <1>2, Failing

-------------------------------------------------------------------------------
(* Native functions.                                                       *)

LEMMA CallNativeStep ==
    ASSUME IInv, CallNative
    PROVE  IInv'
<1>1. PICK kind \in Natives : frames' = Append(frames, Frame(kind, Nothing, TRUE))
  BY DEF CallNative
<1>2. /\ Code /\ calls' = calls + 1
      /\ UNCHANGED <<final, data, regs, codeRunning, callContinue, errorDepth, ret>>
  BY DEF CallNative
<1> DEFINE fr == Frame(kind, Nothing, TRUE)
           n == Len(frames)
<1>3. /\ calls \in Nat /\ final \in Nat /\ data \in Globals..DataMax /\ regs \in Nat
      /\ data \in Nat
  BY FnFacts DEF IInv, Types
<1>4. /\ fr \in FrameType /\ fr.kind = kind /\ fr.fn = Nothing /\ fr.pushed /\ ~fr.failed
      /\ Start(fr) = [data |-> data, regs |-> regs]
      /\ End(fr) = [data |-> data, regs |-> regs]
  BY <1>1, <1>3, FnFacts DEF Frame, FrameType, Start, End
<1>5. kind \in Natives /\ kind \notin CodeKinds /\ kind # "run" /\ kind # "call"
  BY <1>1 DEF Natives, CodeKinds
<1> HIDE DEF fr
<1>6. Longer(frames, final, fr, frames')
  <2>1. Stands(frames, final, final, fr)
    BY <1>2, <1>4, <1>5, CodeFacts DEF Stands, Matches, IInv
  <2> QED
    BY <1>1, <2>1, Pushing DEF fr
<1>7. /\ Built(frames', final) /\ Len(frames') = n + 1 /\ frames'[n + 1] = fr /\ frames' # <<>>
      /\ PushedIn(frames', n) = PushedIn(frames, n) /\ n \in Nat
  BY <1>2, <1>6, CodeFacts DEF Longer
<1>8. Top' = fr
  BY <1>7, TopNext
<1>9. Counted'
  <2>1. PushedIn(frames', n + 1) = PushedIn(frames', n) + 1
    BY <1>4, <1>7, PushedFacts
  <2> QED
    BY <1>2, <1>7, <2>1, CodeFacts DEF Counted
<1>10. Matches'
  BY <1>2, <1>4, <1>8 DEF Matches
<1>11. Types'
  BY <1>2, <1>3 DEF IInv, Types
<1>12. InCode' /\ InNative'
  BY <1>2, <1>4, <1>5, <1>8, <1>9, <1>10, CodeFacts DEF InCode, InNative, Ended
<1> QED
  BY <1>2, <1>7, <1>11, <1>12 DEF IInv, Idle, Flags

LEMMA NativeReturnsStep ==
    ASSUME IInv, NativeReturns
    PROVE  IInv'
<1> DEFINE n == Len(frames)
<1>1. /\ frames # <<>> /\ ret = "none" /\ Top.kind \in Natives
      /\ Top.kind = "try" => ~Top.failed
      /\ Top.kind = "throw" => Top.failed
  BY DEF NativeReturns, Native
<1>2. /\ frames' = Front(frames)
      /\ ~Top.pushed => ret' = (IF callContinue THEN "ok" ELSE "error") /\ UNCHANGED calls
      /\ Top.pushed /\ callContinue => calls' = calls - 1 /\ ret' = "none"
      /\ Top.pushed /\ ~callContinue => ret' = "error" /\ UNCHANGED calls
      /\ UNCHANGED <<final, data, regs, codeRunning, callContinue, errorDepth>>
  BY DEF NativeReturns, LeaveNative
<1>3. /\ n \in Nat /\ n > 0 /\ Top = frames[n] /\ Placed(frames, n) /\ Top.kind # "run"
  BY <1>1, TopFacts DEF Natives
<1>4. Shorter(frames, final, frames')
  <2>1. Ends(frames, final, final)
    BY <1>1, <1>3 DEF Ends, IInv
  <2> QED
    BY <1>2, <2>1, Popping
<1>5. /\ Built(frames', final') /\ Len(frames') = n - 1 /\ n > 1 /\ n - 1 \in 1..(n - 1)
      /\ frames'[n - 1] = frames[n - 1] /\ frames' # <<>>
      /\ PushedIn(frames', n - 1) = PushedIn(frames, n - 1)
  <2>1. n > 1
    BY <1>1, <1>3 DEF Placed
  <2> QED
    BY <1>2, <1>3, <1>4, <2>1, EmptySeq DEF Shorter
<1>6. Top' = frames[n - 1]
  BY <1>5, TopNext
<1>7. CASE ~Top.pushed
  <2>1. n = 2 /\ frames[1].kind = "run" /\ PushedIn(frames, n) = PushedIn(frames, n - 1)
    <3>1. Placed(frames, 1) /\ n = 2
      BY <1>1, <1>3, <1>7 DEF IInv, Built, Placed
    <3> QED
      BY <1>1, <1>7, <3>1, CountedBelow DEF Placed
  <2>2. Top'.kind = "run" /\ Top'.kind \notin Natives /\ ~(Len(frames') > 1) /\ Top'.kind # "call"
    BY <1>5, <1>6, <2>1 DEF Natives
  <2>3. codeRunning' => Counted'
    BY <1>1, <1>2, <1>5, <1>7, <2>1 DEF IInv, InNative, Counted
  <2>4. callContinue => ret' = "ok"
    BY <1>2, <1>7
  <2>5. ~callContinue => ret' = "error"
    BY <1>2, <1>7
  <2>6. Types'
    BY <1>2, <1>7, <2>4, <2>5 DEF IInv, Types
  <2>7. InCode' /\ InNative'
    BY <1>2, <2>2, <2>3, <2>4, <2>5 DEF InCode, InNative, Ended
  <2>8. Flags'
    BY <1>2, <2>4, <2>5 DEF IInv, Flags
  <2> QED
    BY <1>5, <2>6, <2>7, <2>8 DEF IInv, Idle
<1>8. CASE Top.pushed
  <2>1. /\ Top'.kind \in CodeKinds /\ Top'.kind \notin Natives
        /\ Start(Top) = End(Top') /\ Top.fn = Nothing /\ Top \in FrameType
        /\ PushedIn(frames, n) = PushedIn(frames, n - 1) + 1 /\ PushedIn(frames, n - 1) \in Nat
    BY <1>1, <1>3, <1>5, <1>6, <1>8, TopFacts, CountedBelow DEF Placed, CodeKinds, Natives
  <2>2. CASE callContinue
    <3>1. codeRunning /\ Counted /\ Matches
      BY <1>1, <1>8, <2>2 DEF IInv, InNative
    <3>2. calls' = PushedIn(frames', n - 1) /\ ret' = "none"
      BY <1>2, <1>5, <1>8, <2>1, <2>2, <3>1 DEF Counted
    <3>3. Counted'
      BY <1>5, <3>2 DEF Counted
    <3>4. End(Top) = Start(Top)
      <4>1. Top.data \in Nat /\ Top.regs \in Nat
        BY <2>1, FnFacts DEF FrameType
      <4> QED
        BY <2>1, <4>1, FnFacts DEF End, Start
    <3>5. Matches'
      BY <1>2, <2>1, <3>1, <3>4 DEF Matches
    <3>6. Types'
      BY <1>2, <1>5, <2>1, <3>2 DEF IInv, Types
    <3>7. InCode' /\ InNative'
      BY <1>2, <2>1, <3>1, <3>2, <3>3, <3>5 DEF InCode, InNative, Ended
    <3>8. Flags'
      BY <1>2, <3>2 DEF IInv, Flags
    <3> QED
      BY <1>5, <3>6, <3>7, <3>8 DEF IInv, Idle
  <2>3. CASE ~callContinue
    <3>1. ret' = "error" /\ UNCHANGED calls
      BY <1>2, <1>8, <2>3
    <3>2. Types'
      BY <1>2, <3>1 DEF IInv, Types
    <3>3. InCode' /\ InNative' /\ Idle'
      BY <1>5, <2>1, <3>1 DEF InCode, InNative, Ended, Idle
    <3>4. Flags'
      BY <1>2, <2>3, <3>1 DEF IInv, Flags
    <3> QED
      BY <1>5, <3>2, <3>3, <3>4 DEF IInv
  <2> QED
    BY <2>2, <2>3
<1> QED
  BY <1>7, <1>8

LEMMA CallReturnsStep ==
    ASSUME IInv, CallReturns
    PROVE  IInv'
<1> DEFINE n == Len(frames)
           b == Top.failed \/ (ret = "error" /\ Top.kind # "alloc")
<1>1. /\ frames # <<>> /\ ret # "none" /\ Top.kind \in Natives /\ ret' = "none"
      /\ UNCHANGED <<calls, final, data, regs, codeRunning, callContinue, errorDepth>>
  BY DEF CallReturns, vm
<1>2. n \in Nat /\ Top = frames[n] /\ Top.failed = FALSE /\ Top.kind \notin CodeKinds
  <2>1. Top \in FrameType /\ ~Top.failed
    BY <1>1, TopFacts DEF IInv, InNative
  <2> QED
    BY <1>1, <2>1, TopFacts DEF FrameType
<1>3. frames' = [frames EXCEPT ![n].failed = b] /\ b \in BOOLEAN
  <2>1. frames' = [frames EXCEPT ![n].failed = frames[n].failed \/ (ret = "error" /\ Top.kind # "alloc")]
    BY DEF CallReturns
  <2> QED
    BY <1>2, <2>1
<1>4. b => ret = "error" /\ Top.kind # "alloc"
  BY <1>2
<1>5. ret = "error" => b \/ Top.kind = "alloc"
  OBVIOUS
<1> HIDE DEF b
<1>6. Marked(frames, final, b, frames')
  <2>1. Marks(frames, final, b)
    BY <1>1, <1>2, <1>3, <1>4 DEF Marks, Natives, Fails, IInv
  <2> QED
    BY <1>3, <2>1, Marking
<1>7. /\ Built(frames', final) /\ frames' # <<>> /\ Top'.kind = Top.kind /\ End(Top') = End(Top)
      /\ Top'.pushed = Top.pushed /\ Top'.failed = b
      /\ PushedIn(frames', Len(frames')) = PushedIn(frames, n)
  BY <1>2, <1>6, TopNext DEF Marked
<1>8. Matches' /\ (codeRunning' => Counted')
  BY <1>1, <1>7 DEF IInv, InNative, Matches, Counted
<1>9. callContinue' /\ ~codeRunning' => ~Top'.pushed
  BY <1>1, <1>7 DEF IInv, InNative
<1>10. ~callContinue => ret = "error"
  BY <1>1 DEF IInv, InNative, Ended, Types
<1>11. ret = "error" => ~callContinue /\ Recorded
  BY <1>1 DEF IInv, InNative, Flags
<1>12. ret = "error" => Recorded'
  BY <1>1, <1>7, <1>11 DEF Recorded
<1>13. InNative' /\ InCode'
  <2>1. /\ frames' # <<>> /\ Top'.kind \in Natives /\ Top'.kind \notin CodeKinds /\ ret' = "none"
        /\ Matches' /\ (codeRunning' => Counted') /\ (callContinue' /\ ~codeRunning' => ~Top'.pushed)
    BY <1>1, <1>2, <1>7, <1>8, <1>9
  <2>2. CASE b = TRUE
    <3>1. Top'.failed = TRUE /\ ~callContinue' /\ Recorded'
      BY <1>1, <1>4, <1>7, <1>11, <1>12, <2>2
    <3> QED
      BY <2>1, <3>1 DEF InNative, InCode, Ended
  <2>3. CASE b = FALSE
    <3>1. Top'.failed = FALSE /\ (~callContinue' => Top'.kind = "alloc")
      BY <1>1, <1>5, <1>7, <1>10, <2>3
    <3> QED
      BY <2>1, <3>1 DEF InNative, InCode, Ended
  <2> QED
    BY <1>3, <2>2, <2>3
<1>14. Types'
  BY <1>1 DEF IInv, Types
<1> QED
  BY <1>1, <1>7, <1>13, <1>14 DEF IInv, Idle, Flags

LEMMA ThrowStep ==
    ASSUME IInv, Throw
    PROVE  IInv'
<1> DEFINE n == Len(frames)
<1>1. /\ frames # <<>> /\ ret = "none" /\ Top.kind = "throw"
      /\ codeRunning' = FALSE /\ callContinue' = FALSE
      /\ frames' = [frames EXCEPT ![n].failed = TRUE]
      /\ UNCHANGED <<calls, final, data, regs, errorDepth, ret>>
  BY DEF Throw, Native
<1>2. Marked(frames, final, TRUE, frames') /\ Top = frames[n] /\ n \in Nat
  <2>1. Marks(frames, final, TRUE)
    BY <1>1, TopFacts DEF Marks, Fails, IInv
  <2> QED
    BY <1>1, <2>1, Marking, TopFacts
<1>3. /\ Built(frames', final) /\ frames' # <<>> /\ Top'.kind = "throw" /\ End(Top') = End(Top)
      /\ Top'.kind \in Natives /\ Top'.kind \notin CodeKinds /\ Top'.failed = TRUE
  BY <1>1, <1>2, TopNext DEF Marked, Natives, CodeKinds
<1>4. Matches'
  BY <1>1, <1>3 DEF IInv, InNative, Matches, Natives
<1>5. Types'
  BY <1>1 DEF IInv, Types
<1>6. InNative' /\ InCode'
  BY <1>1, <1>3, <1>4 DEF InNative, InCode, Ended
<1> QED
  BY <1>1, <1>3, <1>5, <1>6 DEF IInv, Idle, Flags

LEMMA RecoverStep ==
    ASSUME IInv, Recover
    PROVE  IInv'
<1> DEFINE n == Len(frames)
<1>1. /\ frames # <<>> /\ ret = "none" /\ Top.kind = "try" /\ Top.failed
      /\ calls' = errorDepth /\ codeRunning' = TRUE /\ callContinue' = TRUE
      /\ frames' = [frames EXCEPT ![n].failed = FALSE]
      /\ UNCHANGED <<final, data, regs, errorDepth, ret>>
  BY DEF Recover, Native
<1>2. Marked(frames, final, FALSE, frames') /\ Top = frames[n] /\ n \in Nat
  <2>1. Marks(frames, final, FALSE)
    BY <1>1 DEF Marks, IInv
  <2> QED
    BY <1>1, <2>1, Marking, TopFacts
<1>3. /\ Built(frames', final) /\ frames' # <<>> /\ Top'.kind = "try" /\ End(Top') = End(Top)
      /\ Top'.kind \in Natives /\ Top'.kind \notin CodeKinds /\ Top'.failed = FALSE
      /\ PushedIn(frames', Len(frames')) = PushedIn(frames, n)
  BY <1>1, <1>2, TopNext DEF Marked, Natives, CodeKinds
<1>4. Matches /\ Recorded
  BY <1>1 DEF IInv, InNative, Natives
<1>5. Matches' /\ Counted'
  BY <1>1, <1>3, <1>4 DEF Matches, Counted, Recorded
<1>6. Types'
  BY <1>1 DEF IInv, Types
<1>7. InNative' /\ InCode'
  BY <1>1, <1>3, <1>5 DEF InNative, InCode, Ended
<1> QED
  BY <1>1, <1>3, <1>6, <1>7 DEF IInv, Idle, Flags

\* a native function calls back
LEMMA CallBackStep ==
    ASSUME Careful, IInv, Collect \/ CallBack
    PROVE  IInv'
<1>1. PICK fn \in Functions : StartRun(fn)
  BY DEF Collect, CallBack
<1>2. /\ frames # <<>> /\ ret = "none" /\ Top.kind \in Natives
  BY DEF Collect, CallBack, Native, Natives
<1>3. ~Top.failed /\ (codeRunning \/ Top.kind # "alloc")
  <2>1. codeRunning => ~Top.failed
    BY <1>2 DEF IInv, InNative, Flags
  <2>2. CASE Collect
    BY <2>1, <2>2 DEF Collect, Careful
  <2>3. CASE CallBack
    BY <2>3 DEF CallBack, Careful, Native
  <2> QED
    BY <2>2, <2>3
<1>4. fn # Global /\ fn \in Functions \union {Global}
  BY FnFacts
<1> QED
  BY <1>1, <1>2, <1>3, <1>4, RunStep

-------------------------------------------------------------------------------
(* The invariant holds.                                                    *)

LEMMA InitIInv == Init => IInv
<1> SUFFICES ASSUME Init PROVE IInv
  OBVIOUS
<1>1. /\ calls = 0 /\ final = 0 /\ data = Globals /\ regs = 0
      /\ codeRunning = FALSE /\ callContinue = TRUE /\ errorDepth = 0
      /\ frames = <<>> /\ ret = "none"
  BY DEF Init
<1>2. Types
  BY <1>1, FnFacts DEF Types
<1>3. Built(frames, final)
  <2>1. frames \in Seq(FrameType) /\ Len(frames) = 0
    BY <1>1, EmptySeq
  <2>2. ~(1 <= 0) /\ 1..0 = {}
    OBVIOUS
  <2>3. Finals(frames, final)
    BY <1>1, <2>1, <2>2 DEF Finals, IsLast
  <2> QED
    BY <2>1, <2>2, <2>3 DEF Built
<1> QED
  BY <1>1, <1>2, <1>3 DEF IInv, Idle, InCode, InNative, Flags

LEMMA NextIInv ==
    ASSUME Careful, IInv, [Next]_vars
    PROVE  IInv'
<1>1. CASE HostRun
  <2>1. PICK fn \in Functions \union {Global} : StartRun(fn)
    BY <1>1 DEF HostRun
  <2>2. frames = <<>> /\ ret = "none"
    BY <1>1 DEF HostRun, IInv, Idle
  <2> QED
    BY <2>1, <2>2, RunStep
<1>2. CASE HostRunNative
  BY <1>2, HostRunNativeStep
<1>3. CASE FinishRun
  BY <1>3, FinishRunStep
<1>4. CASE CallFunction
  BY <1>4, CallFunctionStep
<1>5. CASE FinishCall
  BY <1>5, FinishCallStep
<1>6. CASE Return
  BY <1>6, ReturnStep
<1>7. CASE FallOff
  BY <1>7, FallOffStep
<1>8. CASE InstructionFails
  BY <1>8, InstructionFailsStep
<1>9. CASE CallNative
  BY <1>9, CallNativeStep
<1>10. CASE Collect \/ CallBack
  BY <1>10, CallBackStep
<1>11. CASE CallReturns
  BY <1>11, CallReturnsStep
<1>12. CASE Throw
  BY <1>12, ThrowStep
<1>13. CASE Recover
  BY <1>13, RecoverStep
<1>14. CASE NativeReturns
  BY <1>14, NativeReturnsStep
<1>15. CASE UNCHANGED vars
  <2>1. UNCHANGED <<calls, final, data, regs, codeRunning, callContinue, errorDepth, frames, ret>>
    BY <1>15 DEF vars, vm
  <2> QED
    BY <2>1 DEF IInv, Types, Idle, InCode, InNative, Flags, Matches, Counted, Recorded, Ended, Top
<1> QED
  BY <1>1, <1>2, <1>3, <1>4, <1>5, <1>6, <1>7, <1>8, <1>9, <1>10, <1>11, <1>12, <1>13, <1>14, <1>15
  DEF Next

\* The frames, the stacks and the flags of the executor agree in every state,
\* when no collection starts between an error and its handling and a native
\* function makes no call after a failed one.
THEOREM Invariant ==
    ASSUME Careful
    PROVE  Spec => []IInv
<1>1. IInv /\ [Next]_vars => IInv'
  BY NextIInv
<1> QED
  BY <1>1, InitIInv, PTL DEF Spec

\* The stacks, the frames and the flags keep their types: callStack never
\* shrinks below nothing, and dataStack stays within its limits.
THEOREM Typed ==
    ASSUME Careful
    PROVE  Spec => []TypeOK
<1>1. IInv => TypeOK
  BY DEF IInv, Types, TypeOK
<1> QED
  BY <1>1, Invariant, PTL

LEMMA BalancedHolds ==
    ASSUME IInv
    PROVE  Balanced
<1>1. CodeIsRunning
  <2> SUFFICES ASSUME Code PROVE codeRunning /\ callContinue
    BY DEF CodeIsRunning
  <2> QED
    BY CodeFacts
<1>2. ASSUME frames # <<>>, ret = "none", codeRunning, ~Top.failed
      PROVE  StacksMatch
  <2> DEFINE n == Len(frames)
  <2>1. n \in Nat /\ n > 0 /\ Top = frames[n] /\ frames \in Seq(FrameType) /\ DOMAIN frames = 1..n
    BY <1>2, TopFacts, LenProperties DEF IInv, Built
  <2>2. Counted /\ Matches
    BY <1>2, TopFacts DEF IInv, InCode, InNative
  <2>3. \A k : Pushed(k) = PushedIn(frames, k)
    BY DEF Pushed, PushedIn
  <2>4. calls = Pushed(n)
    BY <2>2, <2>3 DEF Counted
  <2>5. ASSUME NEW r \in DOMAIN frames, LastRun(r) PROVE final = Pushed(r - 1)
    <3>1. IsLast(frames, n, r)
      BY <2>1, <2>5 DEF LastRun, IsLast
    <3> QED
      BY <2>3, <3>1 DEF IInv, Built, Finals
  <2>6. Head(frames).data = Globals /\ Head(frames).regs = 0
    <3>1. Head(frames) = frames[1] /\ Placed(frames, 1)
      BY <1>2, <2>1, HeadTailProperties DEF IInv, Built
    <3> QED
      BY <3>1 DEF Placed, Start, Base
  <2>7. ASSUME NEW k \in DOMAIN frames
        PROVE  Above(k) = [data |-> frames[k].data + frames[k].fn.data,
                           regs |-> frames[k].regs + frames[k].fn.regs]
    <3>1. CASE k = n
      BY <2>1, <2>2, <3>1 DEF Above, Matches, End
    <3>2. CASE k # n
      <4>1. Placed(frames, k + 1) /\ k + 1 > 1 /\ (k + 1) - 1 = k
        BY <2>1, <3>2 DEF IInv, Built
      <4>2. Start(frames[k + 1]) = End(frames[k])
        BY <4>1 DEF Placed
      <4> QED
        BY <3>2, <4>2 DEF Above, Start, End
    <3> QED
      BY <3>1, <3>2
  <2> QED
    BY <2>4, <2>5, <2>6, <2>7 DEF StacksMatch
<1> QED
  BY <1>1, <1>2 DEF Balanced

\* Code runs only with codeRunning set, and whenever code or a native function
\* runs and no error is on its way, callStack holds one address for each call
\* of nullc code, lastFinalReturn those outside the innermost Run, and the data
\* and registers of the frames lie end to end (ExecCall, ExecReturn, Run).
THEOREM StacksBalanced ==
    ASSUME Careful
    PROVE  Spec => []Balanced
<1>1. IInv => Balanced
  BY BalancedHolds
<1> QED
  BY <1>1, Invariant, PTL

LEMMA PropagateStep ==
    ASSUME IInv, [Next]_vars, Len(frames') < Len(frames),
           Top.kind \in {"callback", "throw"}, Top.failed
    PROVE  ret' = "error"
<1>1. frames \in Seq(FrameType) /\ Len(frames) \in Nat
  BY LenProperties DEF IInv, Built
<1>2. ASSUME NEW fr, frames' = Append(frames, fr) PROVE FALSE
  <2>1. Len(Append(frames, fr)) = Len(frames) + 1
    BY <1>1
  <2> QED
    BY <1>1, <1>2, <2>1
<1>3. ASSUME frames' = frames PROVE FALSE
  BY <1>1, <1>3
<1>4. ASSUME NEW b, frames' = [frames EXCEPT ![Len(frames)].failed = b] PROVE FALSE
  <2>1. Len(frames') = Len(frames)
    BY <1>1, <1>4
  <2> QED
    BY <1>1, <2>1
<1>5. ASSUME NEW fn, StartRun(fn) PROVE FALSE
  BY <1>2, <1>5 DEF StartRun
<1>6. CASE HostRun \/ Collect \/ CallBack
  BY <1>5, <1>6 DEF HostRun, Collect, CallBack
<1>7. CASE HostRunNative
  <2>1. Len(frames) = 0 /\ \E x, y : frames' = <<x, y>>
    BY <1>7, EmptySeq DEF HostRunNative
  <2>2. \A x, y : Len(<<x, y>>) = 2
    OBVIOUS
  <2>3. Len(frames') = 2
    BY <2>1, <2>2
  <2> QED
    BY <2>1, <2>3
<1>8. CASE FinishRun \/ FinishCall
  BY <1>8 DEF FinishRun, FinishCall
<1>9. CASE CallFunction
  <2>1. frames' = frames \/ \E fr : frames' = Append(frames, fr)
    BY <1>9 DEF CallFunction
  <2> QED
    BY <1>2, <1>3, <2>1
<1>10. CASE Return \/ FallOff \/ InstructionFails
  BY <1>3, <1>10 DEF Return, FallOff, InstructionFails
<1>11. CASE CallNative
  BY <1>2, <1>11 DEF CallNative
<1>12. CASE CallReturns \/ Throw \/ Recover
  <2>1. \E b : frames' = [frames EXCEPT ![Len(frames)].failed = b]
    BY <1>12 DEF CallReturns, Throw, Recover
  <2> QED
    BY <1>4, <2>1
<1>13. CASE NativeReturns
  <2>1. frames # <<>> /\ Top.kind \in Natives
    BY <1>13 DEF NativeReturns, Native
  <2>2. callContinue = FALSE
    BY <2>1 DEF IInv, InNative, Types
  <2> QED
    BY <1>13, <2>2 DEF NativeReturns, LeaveNative
<1>14. CASE UNCHANGED vars
  BY <1>3, <1>14 DEF vars
<1> QED
  BY <1>6, <1>7, <1>8, <1>9, <1>10, <1>11, <1>12, <1>13, <1>14 DEF Next

\* A native function whose call failed hands the error on when it returns: the
\* code that called it stops (ExecCall looks at callContinue).
THEOREM ErrorsHandedOn ==
    ASSUME Careful
    PROVE  Spec => ErrorsPropagate
<1>1. IInv /\ [Next]_vars
        => [Len(frames') < Len(frames) /\ Top.kind \in {"callback", "throw"} /\ Top.failed
              => ret' = "error"]_vars
  BY PropagateStep
<1> QED
  BY <1>1, Invariant, PTL DEF Spec, ErrorsPropagate
===============================================================================
