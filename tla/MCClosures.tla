---------------------------- MODULE MCClosures ------------------------------
EXTENDS Closures, TLC

\* f(x) { for(i) { block { switch } } }   coroutine g(a) { block }
CONSTANTS f, i, b, w, g, l, c1, c2

SmallScopes == {f, i, b, w, g, l}
SmallParent == (f :> None) @@ (i :> f) @@ (b :> i) @@ (w :> b) @@ (g :> None) @@ (l :> g)
SmallKind   == (f :> "function") @@ (i :> "for") @@ (b :> "block") @@ (w :> "switch")
               @@ (g :> "coroutine") @@ (l :> "block")
SmallEncl   == (f :> {f}) @@ (i :> {f, i}) @@ (b :> {f, i, b}) @@ (w :> {f, i, b, w})
               @@ (g :> {g}) @@ (l :> {g, l})
Breaks      == (f :> 0) @@ (i :> 1) @@ (b :> 1) @@ (w :> 2) @@ (g :> 0) @@ (l :> 0)
Continues   == (f :> 0) @@ (i :> 1) @@ (b :> 1) @@ (w :> 1) @@ (g :> 0) @@ (l :> 0)

OneBody  == c1 :> g
TwoBodies == (c1 :> g) @@ (c2 :> g)

Symmetry == Permutations(Ids)
=============================================================================
