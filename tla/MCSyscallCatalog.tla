--------------------------- MODULE MCSyscallCatalog ---------------------------
(***************************************************************************)
(* Instances of SyscallCatalog for TLC: small ntdll and win32u images made *)
(* of blocks of 32 bytes, with the stubs as Windows x64 has them.          *)
(***************************************************************************)
EXTENDS SyscallCatalog, SequencesExt

BlockSize == 32
Block(code) == code \o [i \in 1 .. BlockSize - Len(code) |-> 204]

\* mov r10,rcx; mov eax,number; test byte ptr [7FFE0308h],1; jne; syscall; ret;
\* int 2Eh; ret
StubCode(number) == <<76, 139, 209, 184>> \o number \o
    <<246, 4, 37, 8, 3, 254, 127, 1, 117, 3, 15, 5, 195, 205, 46, 195>>
\* A function of another kind; one that returns a constant; one whose number
\* is not an immediate.
PlainCode == <<72, 137, 92, 36, 8, 195>>
ConstCode == <<184, 5, 0, 0, 0, 195>>
LoadedCode == <<76, 139, 209, 139, 5, 8, 0, 0, 0, 15, 5, 195>>
Code(kind, number) == Block(CASE kind = "stub" -> StubCode(number)
                              [] kind = "plain" -> PlainCode
                              [] kind = "const" -> ConstCode
                              [] kind = "loaded" -> LoadedCode)

\* An image is its directory, with code right behind it.
Image(kinds, number(_)) == [i \in 1 .. BlockSize |-> 0] \o
    FlattenSeq([i \in 1 .. Len(kinds) |-> Code(kinds[i], number(i))])
Start(base, i) == base + i * BlockSize

\* Names in the order of the name table: some that precede Nt, then Nt, a
\* forwarder, a hole, and the Zw aliases.
Named(prefix, base, is) ==
    [k \in 1 .. Len(is) |-> [FunctionName |-> <<prefix, is[k]>>, Address |-> Start(base, is[k])]]
ExportTable(base, kinds) ==
    LET of(stubs) == SelectSeq([i \in 1 .. Len(kinds) |-> i],
                               LAMBDA i : (kinds[i] = "stub") = stubs)
    IN  Named(0, base, of(FALSE)) \o Named(1, base, of(TRUE))
        \o <<[FunctionName |-> <<1, 8>>, Address |-> base + 5],
             [FunctionName |-> <<1, 9>>, Address |-> 0]>>
        \o Named(2, base, of(TRUE))
StubsOf(base, kinds, number(_)) ==
    {[FunctionAddress |-> Start(base, i), Number |-> number(i),
      SyscallAddress |-> Start(base, i) + 18] : i \in {j \in DOMAIN kinds : kinds[j] = "stub"}}

\* win32u has names of its own, and no Zw aliases.
Win32uTable(base) == <<[FunctionName |-> <<1, 7>>, Address |-> Start(base, 1)]>>

Ntdll(i) == <<i, 0, 0, 0>>
Win32u(i) == <<i, 16, 0, 0>>

ProcessWith(exports, kinds, number(_), state, readable, size) ==
    LET other == <<"stub">>
        base == 1 + (Len(kinds) + 1) * BlockSize
    IN  [Memory |-> Image(kinds, number) \o Image(other, Win32u),
         Modules |-> <<[Module |-> "loaded", Readable |-> TRUE,
                        Directory |-> [VirtualAddress |-> 1, Size |-> BlockSize],
                        Exports |-> exports],
                       [Module |-> state, Readable |-> readable,
                        Directory |-> [VirtualAddress |-> base, Size |-> size],
                        Exports |-> Win32uTable(base)]>>,
         Stubs |-> StubsOf(1, kinds, number) \cup StubsOf(base, other, Win32u)]

ProcessOf(kinds, number(_), state, readable, size) ==
    ProcessWith(ExportTable(1, kinds), kinds, number, state, readable, size)

Kinds == {"stub", "plain", "const", "loaded"}
SmallProcesses ==
    {ProcessOf(kinds, Ntdll, "loadable", TRUE, BlockSize) : kinds \in [1 .. 3 -> Kinds]}
    \cup {ProcessOf(<<"plain", "stub">>, Ntdll, state, readable, size) :
             state \in {"loaded", "loadable", "missing"}, readable \in BOOLEAN,
             size \in {0, BlockSize}}

\* Service B8h, between two others.
B8(i) == IF i = 2 THEN <<184, 0, 0, 0>> ELSE <<i, 0, 0, 0>>
ServiceB8 == {ProcessOf(<<"stub", "stub", "stub">>, B8, "loaded", TRUE, BlockSize)}
=============================================================================
