---------------------------- MODULE SyscallCatalog ----------------------------
(***************************************************************************)
(* SyscallCatalog::BuildForCurrentProcess: the scan of the exports of the  *)
(* modules, the decoder of system-call stubs, one byte per step, the       *)
(* catalog with its two indexes, and the queries of it that classify a     *)
(* system call.                                                            *)
(*                                                                         *)
(* A system-call number is the sequence of its bytes, as it stands in      *)
(* memory.  The process is a record: its memory, its modules in the order  *)
(* of ModuleSpecs and, apart from what the code can see of them, the       *)
(* stubs that really are in that memory.                                   *)
(***************************************************************************)
EXTENDS Naturals, Sequences, FiniteSets

CONSTANTS Processes,      \* the processes a catalog may be built in
          ScanByteCount,  \* how far the decoder reads, 96 in the code
          ImmediateSize   \* sizeof(std::uint32_t), 4

Byte == 0 .. 255
MovEaxImmediate == 184  \* 0xB8
SyscallByte0 == 15      \* 0x0F
SyscallByte1 == 5       \* 0x05

\* Addresses are those of the process, where the code adds the image's base to an
\* offset; 0 is the offset of an export with no code.  Exports stand in the order
\* of the name table.
Export == [FunctionName : Nat \X Nat, Address : Nat]
Module == [Module : {"loaded", "loadable", "missing"}, Readable : BOOLEAN,
           Directory : [VirtualAddress : Nat, Size : Nat], Exports : Seq(Export)]
Number == [1 .. ImmediateSize -> Byte]
Stub == [FunctionAddress : Nat \ {0}, Number : Number, SyscallAddress : Nat]
Process == [Memory : Seq(Byte), Modules : Seq(Module), Stubs : SUBSET Stub]

ASSUME CatalogAssumption ==
    /\ Processes \subseteq Process
    /\ ScanByteCount \in Nat /\ ImmediateSize \in Nat \ {0}

VARIABLES process,               \* the process, which the scan never changes
          pc,                    \* "module", "export", "decode" or "built"
          module,                \* the module that is scanned
          export,                \* index of the export that is scanned
          index,                 \* the decoder's index
          syscallNumber,         \* the number it has met, <<>> for none
          m_entries,
          m_warnings,            \* modules with a warning
          m_ownedModules,
          m_returnAddressIndex,  \* return address -> position in m_entries
          m_syscallNumberIndex   \* pairs of a number and a position

scanVars == <<pc, module, export, index, syscallNumber>>
moduleVars == <<m_warnings, m_ownedModules>>
entryVars == <<m_entries, m_returnAddressIndex, m_syscallNumberIndex>>
vars == <<process, scanVars, moduleVars, entryVars>>

Init ==
    /\ process \in Processes
    /\ pc = "module" /\ module = 1 /\ export = 1 /\ index = 0 /\ syscallNumber = <<>>
    /\ m_entries = <<>> /\ m_warnings = {} /\ m_ownedModules = {}
    /\ m_returnAddressIndex = <<>> /\ m_syscallNumberIndex = {}

Modules == process.Modules
Exports == Modules[module].Exports
FunctionAddress == Exports[export].Address
\* Beyond the code there is the zeroed rest of its last page.
ByteAt(a) == IF a \in DOMAIN process.Memory THEN process.Memory[a] ELSE 0

-----------------------------------------------------------------------------
(* ScanModuleExports.                                                      *)

Loaded(m) == m.Module # "missing"
HasExports(m) == m.Directory.VirtualAddress # 0 /\ m.Directory.Size # 0
Usable(m) == Loaded(m) /\ m.Readable /\ HasExports(m)

\* GetOrLoadModuleForCatalog and the checks of the image.  A module that the
\* process had not loaded stays the catalog's own, also when it is of no use.
ScanModule ==
    /\ pc = "module" /\ module <= Len(Modules)
    /\ LET m == Modules[module]
       IN  /\ m_ownedModules' = m_ownedModules \cup
                  (IF m.Module = "loadable" THEN {module} ELSE {})
           /\ IF Usable(m)
              THEN pc' = "export" /\ export' = 1 /\ UNCHANGED <<module, m_warnings>>
              ELSE /\ m_warnings' = m_warnings \cup {module}
                   /\ module' = module + 1
                   /\ UNCHANGED <<pc, export>>
    /\ UNCHANGED <<process, index, syscallNumber, entryVars>>

Built == pc = "module" /\ module > Len(Modules) /\ pc' = "built"
         /\ UNCHANGED <<process, module, export, index, syscallNumber, moduleVars, entryVars>>

IsForwardedOrLast(rva, directory) ==  \* a mutant: the end is included
    rva >= directory.VirtualAddress /\ rva <= directory.VirtualAddress + directory.Size
IsForwardedExport(rva, directory) ==
    rva >= directory.VirtualAddress /\ rva < directory.VirtualAddress + directory.Size

IsCode(x, m) == x.Address # 0 /\ ~IsForwardedExport(x.Address, m.Directory)

SkipExport ==
    /\ pc = "export" /\ export <= Len(Exports)
    /\ ~IsCode(Exports[export], Modules[module])
    /\ export' = export + 1
    /\ UNCHANGED <<process, pc, module, index, syscallNumber, moduleVars, entryVars>>

BeginDecode ==
    /\ pc = "export" /\ export <= Len(Exports)
    /\ IsCode(Exports[export], Modules[module])
    /\ pc' = "decode" /\ index' = 0 /\ syscallNumber' = <<>>
    /\ UNCHANGED <<process, module, export, moduleVars, entryVars>>

EndModule ==
    /\ pc = "export" /\ export > Len(Exports)
    /\ pc' = "module" /\ module' = module + 1
    /\ UNCHANGED <<process, export, index, syscallNumber, moduleVars, entryVars>>

-----------------------------------------------------------------------------
(* DecodeSyscallStub.                                                      *)

Decoding == pc = "decode" /\ index + ImmediateSize < ScanByteCount
Here == FunctionAddress + index

OpcodeAsNumber(a) == [i \in 1 .. ImmediateSize |-> ByteAt(a + i - 1)]  \* a mutant
NumberAt(a) == [i \in 1 .. ImmediateSize |-> ByteAt(a + i)]
IsMov(a) == ByteAt(a) = MovEaxImmediate
IsSyscall(a) == ByteAt(a) = SyscallByte0 /\ ByteAt(a + 1) = SyscallByte1

\* A mutant: the first immediate is kept.
TakeFirstNumber ==
    /\ Decoding /\ IsMov(Here)
    /\ syscallNumber' = IF syscallNumber = <<>> THEN NumberAt(Here) ELSE syscallNumber
    /\ index' = index + 1
    /\ UNCHANGED <<process, pc, module, export, moduleVars, entryVars>>

\* The next byte read is the first of the immediate itself.
TakeNumber ==
    /\ Decoding /\ IsMov(Here)
    /\ syscallNumber' = NumberAt(Here)
    /\ index' = index + 1
    /\ UNCHANGED <<process, pc, module, export, moduleVars, entryVars>>

PassByte ==
    /\ Decoding /\ ~IsMov(Here)
    /\ ~(IsSyscall(Here) /\ syscallNumber # <<>>)
    /\ index' = index + 1
    /\ UNCHANGED <<process, pc, module, export, syscallNumber, moduleVars, entryVars>>

NotAStub ==
    /\ pc = "decode" /\ ~Decoding
    /\ pc' = "export" /\ export' = export + 1
    /\ UNCHANGED <<process, module, index, syscallNumber, moduleVars, entryVars>>

ReturnToSyscall(s) == s  \* a mutant
ReturnAddress(s) == s + 2

SyscallEntry == [Number : Number, Module : Nat, FunctionName : Nat \X Nat,
                 FunctionAddress : Nat, SyscallAddress : Nat]
ExpectedReturnAddress(e) == ReturnAddress(e.SyscallAddress)

PositionBefore == Len(m_entries)  \* a mutant: off by one
NewPosition == Len(m_entries) + 1

\* A mutant: the index by number is a map, which keeps one entry for each.
AddEntryByNumber(e) ==
    LET at == ExpectedReturnAddress(e)
        known == m_returnAddressIndex
    IN  /\ m_entries' = Append(m_entries, e)
        /\ m_returnAddressIndex' =
               [r \in DOMAIN known \cup {at} |->
                   IF r \in DOMAIN known THEN known[r] ELSE NewPosition]
        /\ m_syscallNumberIndex' = m_syscallNumberIndex \cup
               (IF \E p \in m_syscallNumberIndex : p[1] = e.Number
                THEN {} ELSE {<<e.Number, NewPosition>>})

\* emplace keeps what an index by a unique key already holds.
AddEntry(e) ==
    LET at == ExpectedReturnAddress(e)
        known == m_returnAddressIndex
    IN  /\ m_entries' = Append(m_entries, e)
        /\ m_returnAddressIndex' =
               [r \in DOMAIN known \cup {at} |->
                   IF r \in DOMAIN known THEN known[r] ELSE NewPosition]
        /\ m_syscallNumberIndex' = m_syscallNumberIndex \cup {<<e.Number, NewPosition>>}

FoundSyscall ==
    /\ Decoding /\ ~IsMov(Here) /\ IsSyscall(Here) /\ syscallNumber # <<>>
    /\ AddEntry([Number |-> syscallNumber, Module |-> module,
                 FunctionName |-> Exports[export].FunctionName,
                 FunctionAddress |-> FunctionAddress, SyscallAddress |-> Here])
    /\ pc' = "export" /\ export' = export + 1
    /\ UNCHANGED <<process, module, index, syscallNumber, moduleVars>>

Done == pc = "built" /\ UNCHANGED vars

Next ==
    \/ ScanModule \/ Built \/ SkipExport \/ BeginDecode \/ EndModule
    \/ TakeNumber \/ PassByte \/ NotAStub \/ FoundSyscall
    \/ Done

Spec == Init /\ [][Next]_vars

-----------------------------------------------------------------------------
(* The queries.  Names are pairs of a prefix and the rest.                 *)

NoEntry == <<>>
Zw == 2  \* the prefix that FindPrimaryBySyscallNumber would rather not return

FindByReturnAddress(r) ==
    IF r \in DOMAIN m_returnAddressIndex THEN m_entries[m_returnAddressIndex[r]] ELSE NoEntry

Positions == 1 .. Len(m_entries)
\* The first entry of a set of positions.
First(S) ==
    IF S = {} THEN NoEntry ELSE m_entries[CHOOSE i \in S : \A j \in S : i <= j]

FindByFunctionName(name) == First({i \in Positions : m_entries[i].FunctionName = name})

FindPrimaryBySyscallNumber(number) ==
    LET found == {i \in Positions : m_entries[i].Number = number}
        preferred == {i \in found : m_entries[i].FunctionName[1] # Zw}
    IN  IF preferred # {} THEN First(preferred) ELSE First(found)

FindBySyscallNumber(number) ==
    {m_entries[p[2]] : p \in {q \in m_syscallNumberIndex : q[1] = number}}

ExpectedReturnsForSyscall(number) ==
    {ExpectedReturnAddress(e) : e \in FindBySyscallNumber(number)}

\* DetectorSession::Classify, for a query that succeeded.
Classify(previousPc, number) ==
    LET owner == FindByReturnAddress(previousPc)
    IN  IF FindPrimaryBySyscallNumber(number) = NoEntry THEN "UnknownSyscall"
        ELSE IF owner = NoEntry THEN "RawDirectSyscall"
        ELSE IF owner.Number # number THEN "SyscallGadgetMismatch"
        ELSE "Clean"

-----------------------------------------------------------------------------
(* Properties.                                                             *)

(* Type correctness of the scan and the catalog.                           *)
TypeOK ==
    /\ process \in Processes
    /\ pc \in {"module", "export", "decode", "built"}
    /\ module \in Nat \ {0} /\ export \in Nat \ {0} /\ index \in Nat
    /\ pc \in {"export", "decode"} => module <= Len(Modules)
    /\ pc = "decode" => export <= Len(Exports)
    /\ syscallNumber \in Number \cup {<<>>}
    /\ m_entries \in Seq(SyscallEntry)
    /\ m_warnings \subseteq 1 .. Len(Modules)
    /\ m_ownedModules \subseteq 1 .. Len(Modules)
    /\ \A r \in DOMAIN m_returnAddressIndex : m_returnAddressIndex[r] \in Positions
    /\ m_syscallNumberIndex \subseteq Number \X Positions

(* Two entries with one return address have one number, although they were *)
(* decoded from different functions and the index keeps the first of them: *)
(* which one the index holds cannot change a verdict.                      *)
OneNumberPerReturn ==
    \A i, j \in Positions :
        m_entries[i].SyscallAddress = m_entries[j].SyscallAddress
            => m_entries[i].Number = m_entries[j].Number

\* The first mov of a stub carries its number and no byte between it and the
\* stub's syscall reads as another mov or as a syscall.
Plain(s) ==
    \E m \in s.FunctionAddress .. s.SyscallAddress - 1 :
        /\ ByteAt(m) = 184 /\ \A i \in 1 .. ImmediateSize : ByteAt(m + i) = s.Number[i]
        /\ ByteAt(s.SyscallAddress) = 15 /\ ByteAt(s.SyscallAddress + 1) = 5
        /\ s.SyscallAddress + ImmediateSize < s.FunctionAddress + ScanByteCount
        /\ \A a \in s.FunctionAddress .. s.SyscallAddress - 1 :
              /\ ByteAt(a) = 184 => a = m
              /\ ByteAt(a) = 15 /\ ByteAt(a + 1) = 5 => a < m

\* The stubs that some export names, and not as a forwarder.
ExportedStubs ==
    {s \in process.Stubs :
        \E i \in DOMAIN Modules :
            LET m == Modules[i]
                first == m.Directory.VirtualAddress
            IN  /\ Usable(m)
                /\ s.FunctionAddress \notin first .. first + m.Directory.Size - 1
                /\ \E x \in DOMAIN m.Exports : m.Exports[x].Address = s.FunctionAddress}

(* What is recovered from a stub is that stub's own number and syscall     *)
(* instruction, not those of a function that follows it in memory.         *)
EntriesRight ==
    \A i \in Positions, s \in process.Stubs :
        Plain(s) /\ m_entries[i].FunctionAddress = s.FunctionAddress
            => /\ m_entries[i].Number = s.Number
               /\ m_entries[i].SyscallAddress = s.SyscallAddress

(* Once the catalog is built, a call of an exported stub's service is      *)
(* Clean when it returns behind that stub's syscall instruction, a         *)
(* mismatch behind another stub's, and raw anywhere else.                  *)
VerdictsRight ==
    pc = "built" =>
        \A s \in ExportedStubs :
            /\ \A r \in ExportedStubs :
                  Classify(r.SyscallAddress + 2, s.Number) =
                      IF r.Number = s.Number THEN "Clean" ELSE "SyscallGadgetMismatch"
            /\ Classify(0, s.Number) = "RawDirectSyscall"

(* The indexes and the linear searches see the same catalog: an entry that *)
(* is found by name is found by its number and by its return address, and  *)
(* the primary entry of its number is no Zw alias when there is another.   *)
QueriesAgree ==
    \A i \in Positions :
        LET e == FindByFunctionName(m_entries[i].FunctionName)
            primary == FindPrimaryBySyscallNumber(e.Number)
        IN  /\ e \in FindBySyscallNumber(e.Number)
            /\ ExpectedReturnAddress(primary) \in ExpectedReturnsForSyscall(e.Number)
            /\ FindByReturnAddress(ExpectedReturnAddress(e)).Number = e.Number
            /\ e.FunctionName[1] # Zw => primary.FunctionName[1] # Zw

(* The user-mode stubs carry their number as the immediate of the mov: the *)
(* catalog has every exported stub, with its number.                       *)
StubsRecovered ==
    pc = "built" =>
        \A s \in ExportedStubs : \E i \in Positions :
            /\ m_entries[i].FunctionAddress = s.FunctionAddress
            /\ m_entries[i].Number = s.Number
            /\ m_entries[i].SyscallAddress = s.SyscallAddress
=============================================================================
