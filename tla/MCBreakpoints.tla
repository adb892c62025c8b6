---------------------------- MODULE MCBreakpoints -----------------------------
EXTENDS Breakpoints

I(op, arg) == [op |-> op, kind |-> "none", arg |-> arg]

\* Global code with a loop, a call and a native function that calls back; one
\* function that computes; and the return that InitExecution adds.
SmallProgram == << I("call", 5), I("jz", 1), I("callx", 0), I("ret", 0),
                   I("op", 0), I("ret", 0), I("ret", 0) >>
==============================================================================
