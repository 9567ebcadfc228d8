---------------------------- MODULE MCAllocMonitor ----------------------------
(***************************************************************************)
(* An instance of AllocMonitor for TLC: stubs as Windows x64 has them,     *)
(* among them one whose number is the opcode that is searched for, one     *)
(* that loads its number from memory, and one without syscall.             *)
(***************************************************************************)
EXTENDS AllocMonitor, TLC

Bytes(code) == code \o [i \in 1 .. 32 - Len(code) |-> 204]

\* mov r10,rcx; mov eax,number; test byte ptr [7FFE0308h],1; jne; syscall; ret;
\* int 2Eh; ret
StubOf(number) == Bytes(<<76, 139, 209, 184>> \o number \o
    <<246, 4, 37, 8, 3, 254, 127, 1, 117, 3, 15, 5, 195, 205, 46, 195>>)
Loaded == Bytes(<<76, 139, 209, 139, 5, 8, 0, 0, 0, 15, 5, 195>>)
Plain == Bytes(<<76, 139, 209, 184, 24, 0, 0, 0, 195>>)

AllNumbers == (StubOf(<<24, 0, 0, 0>>) :> <<24, 0, 0, 0>>) @@ (StubOf(<<184, 0, 0, 0>>) :> <<184, 0, 0, 0>>)
              @@ (Loaded :> <<24, 0, 0, 0>>) @@ (Plain :> <<24, 0, 0, 0>>)
AllStubs == DOMAIN AllNumbers
=============================================================================
