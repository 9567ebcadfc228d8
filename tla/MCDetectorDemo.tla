---------------------------- MODULE MCDetectorDemo ----------------------------
(***************************************************************************)
(* Instances of DetectorDemo for TLC.                                      *)
(***************************************************************************)
EXTENDS DetectorDemo, MCSyscallCatalog

Allocate == <<1, 1>>
Protect == <<1, 2>>
QueryTime == <<1, 3>>

\* Where the three functions are in memory: the time, which a function may tell
\* that is no system call, comes last, before protecting, or before allocating.
Orders == {<<1, 2, 3>>, <<1, 3, 2>>, <<2, 3, 1>>}
DemoTable(order) ==
    LET names == [i \in 1 .. 6 |-> IF i <= 3 THEN <<1, i>> ELSE <<2, i - 3>>]
    IN  [i \in 1 .. 6 |-> [FunctionName |-> names[i], Address |-> Start(1, order[names[i][2]])]]
DemoProcesses ==
    {ProcessWith(DemoTable(order), [i \in 1 .. 3 |-> IF i = order[3] THEN kind ELSE "stub"],
                 Ntdll, "loadable", TRUE, BlockSize) : order \in Orders, kind \in Kinds}

AllProcesses == SmallProcesses \cup DemoProcesses
=============================================================================
