----------------------------- MODULE MCSignatures -----------------------------
(***************************************************************************)
(* An instance of SignatureGenerator for TLC: the table that is checked in *)
(* and tables generated from small headers.  Names are strings, compared   *)
(* character by character.                                                 *)
(***************************************************************************)
EXTENDS SignatureGenerator, SignatureTable, SequencesExt

Letters == "0123456789ABCDEFGHIJKLMNOPQRSTUVWXYZ_abcdefghijklmnopqrstuvwxyz"
Letter(name, i) == SubSeq(name, i, i)
Code == [c \in {Letter(Letters, i) : i \in 1 .. Len(Letters)} |->
             CHOOSE i \in 1 .. Len(Letters) : Letter(Letters, i) = c]

StartsWith(name, prefix) ==
    Len(name) >= Len(prefix) /\ SubSeq(name, 1, Len(prefix)) = prefix
NameIsNt(name) == StartsWith(name, "Nt")
NameIsZw(name) == StartsWith(name, "Zw")
NameIsWow64(name) == StartsWith(name, "NtWow64")
NtNameOf(export) == "Nt" \o SubSeq(export, 3, Len(export))

-----------------------------------------------------------------------------
(* The table that is checked in, looked up by all its names and by names   *)
(* it lacks: before the first, behind the last, and next to others.        *)

ShippedTable == Registrations
OtherNames == {"DbgUiConnectToDbg", "NtAcceptConnectPor", "NtAcceptConnectPortEx", "NtClos",
               "NtWow64AllocateVirtualMemory64", "NtYieldExecutionEx", "RtlZeroMemory", "ZwAccept",
               "ZwYieldExecutio", "ZwYieldExecutionEx", "yield"}
AllShippedNames == {Name(Registrations[i]) : i \in 1 .. Len(Registrations)} \cup OtherNames

-----------------------------------------------------------------------------
(* Small headers: one to three branches, with a block of two branches or a *)
(* prototype in each, and every truth of the conditions.  The prototypes   *)
(* are those of the list, in this order and over again.                    *)

Declare(name, types) == [Directive |-> "none", Name |-> name, Types |-> types]
Directive(directive, condition) == [Directive |-> directive, Condition |-> condition]
Open(c) == <<Directive("if", c)>>
Other(c) == <<Directive("elif", c)>>
Otherwise == <<Directive("else", FALSE)>>
Close == <<Directive("endif", FALSE)>>

Six(fifth) == <<"HANDLE", "PVOID", "PVOID", "PVOID", fifth, "ULONG">>
PrototypeList == <<Declare("NtB", <<"HANDLE">>), Declare("NtA", Six("PULONG")),
                   Declare("NtWow64A", <<>>), Declare("ZwB", <<>>), Declare("LdrA", <<"PVOID">>),
                   Declare("NtB", <<"ULONG">>), Declare("NtC", <<>>)>>
Prototype == <<Declare("", <<>>)>>
Numbered(h) ==
    [l \in DOMAIN h |->
        IF h[l].Directive = "none"
        THEN PrototypeList[1 + (Cardinality({k \in 1 .. l - 1 : h[k].Directive = "none"})
                                % Len(PrototypeList))]
        ELSE h[l]]

Inner == {Open(c) \o Prototype \o Otherwise \o Prototype \o Close : c \in BOOLEAN}
Bodies == {Prototype} \cup Inner
Blocks == {Open(c) \o x \o Close : c \in BOOLEAN, x \in Bodies}
          \cup {Open(c) \o x \o Otherwise \o y \o Close : c \in BOOLEAN, x \in Bodies, y \in Bodies}
          \cup {Open(c) \o x \o Other(d) \o y \o Otherwise \o z \o Close :
                    c \in BOOLEAN, d \in BOOLEAN, x \in Bodies, y \in Bodies, z \in {Prototype}}

\* Service 0 is NtMapUserPhysicalPagesScatter or NtAccessCheck, as Windows has it;
\* in the small tables it is NtA, which has a fifth and a sixth argument, too.
ZeroNames == {"NtMapUserPhysicalPagesScatter", "NtAccessCheck", "NtA"}
\* Calls with no argument and with six.
CalledBeside == {"NtYieldExecution", "NtA"}

\* Blocks with a prototype around them; a header that is cut off before another
\* one; directives outside of a block.
SmallHeaders ==
    {<<Numbered(Prototype \o b \o Prototype)>> : b \in Blocks}
    \cup {<<Numbered(Open(FALSE) \o Prototype), Numbered(Prototype \o Prototype)>>,
          <<Numbered(Prototype \o Otherwise \o Prototype \o Close \o Other(FALSE) \o Prototype)>>}

\* A type, a count, or a function has changed.
LaterHeaders ==
    {<<<<Declare("NtB", <<"ULONG">>), Declare("NtA", Six("PVOID")), Declare("NtC", <<>>)>>>>,
     <<<<Declare("NtB", <<"HANDLE">>), Declare("NtA", <<"HANDLE">>), Declare("NtC", <<"PVOID">>)>>>>,
     <<<<Declare("NtB", <<"HANDLE">>)>>>>}

SmallExports == {{"NtA", "NtB", "ZwB", "LdrA", "NtWow64A"}, {"NtC", "ZwA", "ZwB", "ZwC"}}

-----------------------------------------------------------------------------
AllStrings == STRING

NameLess(m, n) ==
    \E i \in 1 .. Len(n) :
        /\ i <= Len(m) + 1
        /\ SubSeq(m, 1, i - 1) = SubSeq(n, 1, i - 1)
        /\ i <= Len(m) => Code[Letter(m, i)] < Code[Letter(n, i)]
=============================================================================
