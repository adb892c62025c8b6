------------------------------- MODULE MCLinker -------------------------------
(***************************************************************************)
(* Instances of Linker: a chain of two modules, a second version of the    *)
(* lower one, programs that import them or the last program, and a         *)
(* function for override.                                                  *)
(***************************************************************************)
EXTENDS Linker, TLC

F(n, kind)  == [name |-> n, kind |-> kind]
NoTypes     == [t \in Types |-> Absent]
Text(n, imports, funcs, size, types) ==
    [name |-> n, imports |-> imports, funcs |-> funcs, vars |-> size, types |-> types]

LibTexts ==
    [low  |-> Text("low.nc", <<>>, <<F("f", "plain"), F("g", "generic")>>, 1, [t \in Types |-> 0]),
     high |-> Text("high.nc", <<"low.nc">>, <<F("h", "plain"), F("x", "local")>>, 2, NoTypes),
     prog |-> Text("", <<"high.nc">>, <<F("p", "plain"), F("g", "generic")>>, 1, [t \in Types |-> 2]),
     next |-> Text("", <<LastName, "low.nc">>, <<F("q", "plain")>>, 1, [t \in Types |-> 3]),
     more |-> Text("", <<>>, <<F("r", "plain"), F("x", "plain")>>, 0, NoTypes),
     over |-> Text("", <<LastName>>, <<F("o", "local")>>, 0, NoTypes)]

\* for Risks = {"replaced"}: two versions of the lower module
VersionTexts ==
    [s \in {"low", "high", "prog"} |-> LibTexts[s]] @@
    [low2 |-> Text("low.nc", <<>>, <<F("e", "plain"), F("f", "plain"), F("g", "generic")>>, 2, NoTypes)]
===============================================================================
