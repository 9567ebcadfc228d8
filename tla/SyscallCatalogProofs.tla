------------------------- MODULE SyscallCatalogProofs -------------------------
(***************************************************************************)
(* What the decoder recovers from a stub, that it recovers every stub that *)
(* an export names, and what the queries make of it, in any process.       *)
(***************************************************************************)
EXTENDS SyscallCatalog, WellFoundedInduction, TLAPS

USE DEF Positions

(* The process is of the type of its record.                               *)
LEMMA ProcessType ==
    ASSUME TypeOK
    PROVE  /\ process.Memory \in Seq(Byte) /\ Modules \in Seq(Module)
           /\ process.Stubs \subseteq Stub
  BY CatalogAssumption DEF TypeOK, Process, Modules

(* The elements of a sequence.                                             *)
LEMMA InSeq == \A S : \A s \in Seq(S) : \A i \in 1 .. Len(s) : s[i] \in S
  OBVIOUS

(* Memory holds bytes, and a number is never the empty one that the        *)
(* decoder starts with.                                                    *)
LEMMA NumberType ==
    ASSUME TypeOK, NEW a
    PROVE  ByteAt(a) \in Byte /\ NumberAt(a) \in Number /\ NumberAt(a) # <<>>
  <1>2. \A b : ByteAt(b) \in Byte
    <2> SUFFICES ASSUME NEW b PROVE ByteAt(b) \in Byte
      OBVIOUS
    <2>1. DOMAIN process.Memory = 1 .. Len(process.Memory)
      BY ProcessType
    <2>2. \A i \in 1 .. Len(process.Memory) : process.Memory[i] \in Byte
      BY ProcessType, InSeq
    <2>3. 0 \in Byte
      BY DEF Byte
    <2> QED  BY <2>1, <2>2, <2>3 DEF ByteAt
  <1>1. ByteAt(a) \in Byte
    BY <1>2
  <1>3. NumberAt(a) \in Number
    BY <1>2 DEF NumberAt, Number
  <1>4. NumberAt(a) # <<>>
    <2>1. DOMAIN NumberAt(a) = 1 .. ImmediateSize
      BY DEF NumberAt
    <2>2. 1 \in 1 .. ImmediateSize
      BY CatalogAssumption
    <2>3. DOMAIN <<>> = {}
      BY SMT
    <2> QED  BY <2>1, <2>2, <2>3
  <1> QED  BY <1>1, <1>3, <1>4

(* Where the scan is, there is an export of a module.                      *)
LEMMA ScanType ==
    ASSUME TypeOK
    PROVE  /\ pc \in {"export", "decode"} => /\ Modules[module] \in Module
                                             /\ Exports \in Seq(Export)
           /\ (pc \in {"export", "decode"} /\ export <= Len(Exports))
                  => Exports[export] \in Export /\ FunctionAddress \in Nat
  <1>1. pc \in {"export", "decode"} => Modules[module] \in Module
    BY ProcessType DEF TypeOK
  <1>2. pc \in {"export", "decode"} => Exports \in Seq(Export)
    BY <1>1 DEF Exports, Module
  <1>3. (pc \in {"export", "decode"} /\ export <= Len(Exports)) => Exports[export] \in Export
    BY <1>2 DEF TypeOK
  <1>4. (pc \in {"export", "decode"} /\ export <= Len(Exports)) => FunctionAddress \in Nat
    BY <1>3 DEF FunctionAddress, Export
  <1> QED  BY <1>1, <1>2, <1>3, <1>4

-----------------------------------------------------------------------------
(* Type correctness.                                                       *)

(* The catalog keeps its types as an entry is added.                       *)
LEMMA AddEntryType ==
    ASSUME TypeOK, NEW e \in SyscallEntry, AddEntry(e)
    PROVE  /\ m_entries' = Append(m_entries, e)
           /\ m_entries' \in Seq(SyscallEntry)
           /\ \A r \in DOMAIN m_returnAddressIndex' : m_returnAddressIndex'[r] \in Positions'
           /\ m_syscallNumberIndex' \subseteq Number \X Positions'
  <1>1. m_entries \in Seq(SyscallEntry)
    BY DEF TypeOK
  <1>2. m_entries' = Append(m_entries, e) /\ m_entries' \in Seq(SyscallEntry)
    BY <1>1 DEF AddEntry
  <1>3. Len(m_entries') = Len(m_entries) + 1 /\ Len(m_entries) \in Nat
    BY <1>1, <1>2
  <1>4. NewPosition \in Positions' /\ Positions \subseteq Positions'
    BY <1>3 DEF NewPosition
  <1>5. \A r \in DOMAIN m_returnAddressIndex' : m_returnAddressIndex'[r] \in Positions'
    BY <1>4 DEF AddEntry, TypeOK
  <1>6. e.Number \in Number
    BY DEF SyscallEntry
  <1>7. m_syscallNumberIndex' = m_syscallNumberIndex \cup {<<e.Number, NewPosition>>}
    BY DEF AddEntry
  <1>8. m_syscallNumberIndex \subseteq Number \X Positions
    BY DEF TypeOK
  <1>9. m_syscallNumberIndex' \subseteq Number \X Positions'
    BY <1>4, <1>6, <1>7, <1>8
  <1> QED  BY <1>2, <1>5, <1>9

(* Every step keeps the types.                                             *)
LEMMA TypeStep == TypeOK /\ [Next]_vars => TypeOK'
  <1> SUFFICES ASSUME TypeOK, [Next]_vars PROVE TypeOK'
    OBVIOUS
  <1>0. Modules \in Seq(Module) /\ Len(Modules) \in Nat /\ module \in Nat /\ export \in Nat /\ index \in Nat
    BY ProcessType DEF TypeOK
  <1>1. ASSUME ScanModule PROVE TypeOK'
    <2>1. module \in 1 .. Len(Modules) /\ process' = process /\ Modules' = Modules
      BY <1>0, <1>1 DEF ScanModule, TypeOK, Modules
    <2>2. m_ownedModules' \subseteq 1 .. Len(Modules) /\ m_warnings' \subseteq 1 .. Len(Modules)
      BY <1>1, <2>1 DEF ScanModule, TypeOK
    <2>3. /\ pc' \in {"module", "export"} /\ module' \in Nat \ {0} /\ export' \in Nat \ {0}
          /\ pc' = "export" => module' <= Len(Modules)
      BY <1>0, <1>1, <2>1 DEF ScanModule, TypeOK
    <2>4. UNCHANGED <<index, syscallNumber, entryVars>>
      BY <1>1 DEF ScanModule
    <2> QED  BY <2>1, <2>2, <2>3, <2>4 DEF TypeOK, entryVars
  <1>2. ASSUME Built PROVE TypeOK'
    BY <1>0, <1>2 DEF Built, TypeOK, entryVars, moduleVars, Modules, Exports
  <1>3. ASSUME SkipExport PROVE TypeOK'
    BY <1>0, <1>3 DEF SkipExport, TypeOK, entryVars, moduleVars, Modules, Exports
  <1>4. ASSUME BeginDecode PROVE TypeOK'
    BY <1>0, <1>4 DEF BeginDecode, TypeOK, entryVars, moduleVars, Modules, Exports
  <1>5. ASSUME EndModule PROVE TypeOK'
    BY <1>0, <1>5 DEF EndModule, TypeOK, entryVars, moduleVars, Modules, Exports
  <1>6. ASSUME TakeNumber PROVE TypeOK'
    BY <1>0, <1>6, NumberType DEF TakeNumber, Decoding, TypeOK, entryVars, moduleVars, Modules, Exports
  <1>7. ASSUME PassByte PROVE TypeOK'
    BY <1>0, <1>7 DEF PassByte, Decoding, TypeOK, entryVars, moduleVars, Modules, Exports
  <1>8. ASSUME NotAStub PROVE TypeOK'
    BY <1>0, <1>8 DEF NotAStub, TypeOK, entryVars, moduleVars, Modules, Exports
  <1>9. ASSUME FoundSyscall PROVE TypeOK'
    <2> DEFINE e == [Number |-> syscallNumber, Module |-> module,
                     FunctionName |-> Exports[export].FunctionName,
                     FunctionAddress |-> FunctionAddress, SyscallAddress |-> Here]
    <2>1. AddEntry(e) /\ pc = "decode" /\ syscallNumber # <<>>
      BY <1>9 DEF FoundSyscall, Decoding
    <2>2. Exports[export] \in Export /\ FunctionAddress \in Nat
      BY <2>1, ScanType DEF TypeOK
    <2>3. e \in SyscallEntry
      BY <1>0, <2>1, <2>2 DEF SyscallEntry, Export, TypeOK, Here
    <2>4. /\ m_entries' \in Seq(SyscallEntry)
          /\ \A r \in DOMAIN m_returnAddressIndex' : m_returnAddressIndex'[r] \in Positions'
          /\ m_syscallNumberIndex' \subseteq Number \X Positions'
      BY <2>1, <2>3, AddEntryType
    <2>5. /\ pc' = "export" /\ export' = export + 1
          /\ UNCHANGED <<process, module, index, syscallNumber, m_warnings, m_ownedModules>>
      BY <1>9 DEF FoundSyscall, moduleVars
    <2> QED  BY <1>0, <2>1, <2>4, <2>5 DEF TypeOK, Modules, Exports
  <1>10. ASSUME UNCHANGED vars PROVE TypeOK'
    BY <1>10 DEF vars, scanVars, moduleVars, entryVars, TypeOK, Modules, Exports
  <1> QED
    BY <1>1, <1>2, <1>3, <1>4, <1>5, <1>6, <1>7, <1>8, <1>9, <1>10 DEF Next, Done

(* The types hold before the scan.                                         *)
LEMMA InitType == Init => TypeOK
  <1> SUFFICES ASSUME Init PROVE TypeOK
    OBVIOUS
  <1>1. process \in Processes /\ m_entries \in Seq(SyscallEntry)
    BY DEF Init
  <1>2. DOMAIN m_returnAddressIndex = {}
    BY DEF Init
  <1> QED  BY <1>1, <1>2 DEF Init, TypeOK

(* TypeOK holds in every process: the scan stays inside the tables it      *)
(* reads and the indexes inside the entries.                               *)
THEOREM TypeCorrect == Spec => []TypeOK
  BY InitType, TypeStep, PTL DEF Spec

-----------------------------------------------------------------------------
(* What the decoder has read of the function it decodes.                   *)

\* m is the last mov from first on and before last.
LastMov(m, first, last) ==
    /\ m \in Nat /\ first <= m /\ m < last /\ IsMov(m)
    /\ \A a \in m + 1 .. last - 1 : ~IsMov(a)

\* No syscall from first on and before last has a mov before it.
NoSyscallBefore(first, last) ==
    \A a \in first .. last - 1 : IsSyscall(a) => \A b \in first .. a - 1 : ~IsMov(b)

\* An entry's number is the one of the last mov before its syscall, which is
\* the first that has a mov before it.
Decoded(e) ==
    /\ \E m \in Nat : LastMov(m, e.FunctionAddress, e.SyscallAddress) /\ e.Number = NumberAt(m)
    /\ IsSyscall(e.SyscallAddress)
    /\ NoSyscallBefore(e.FunctionAddress, e.SyscallAddress)

DecodeInv ==
    pc = "decode" =>
        /\ syscallNumber = <<>> => \A a \in FunctionAddress .. Here - 1 : ~IsMov(a)
        /\ syscallNumber # <<>> =>
               \E m \in Nat : LastMov(m, FunctionAddress, Here) /\ syscallNumber = NumberAt(m)
        /\ NoSyscallBefore(FunctionAddress, Here)

EntriesInv == \A i \in Positions : Decoded(m_entries[i])

CatalogInv == TypeOK /\ DecodeInv /\ EntriesInv

(* What the memory holds does not change.                                  *)
LEMMA MemoryConstant ==
    ASSUME process' = process
    PROVE  /\ \A a : (IsMov(a)' <=> IsMov(a)) /\ (IsSyscall(a)' <=> IsSyscall(a))
           /\ \A a : NumberAt(a)' = NumberAt(a)
  BY DEF IsMov, IsSyscall, NumberAt, ByteAt

(* An entry once decoded stays so.                                         *)
LEMMA DecodedKept ==
    ASSUME process' = process, NEW i, m_entries'[i] = m_entries[i]
    PROVE  Decoded(m_entries[i])' <=> Decoded(m_entries[i])
  BY DEF Decoded, LastMov, NoSyscallBefore, IsMov, IsSyscall, NumberAt, ByteAt

(* Reading one more byte of a function.                                    *)
LEMMA DecodeStep ==
    ASSUME CatalogInv, TakeNumber \/ PassByte
    PROVE  DecodeInv'
  <1> DEFINE F == FunctionAddress
             H == Here
  <1>1. F \in Nat /\ index \in Nat /\ H \in Nat /\ F <= H
    BY ScanType DEF CatalogInv, TypeOK, TakeNumber, PassByte, Decoding, Here
  <1>2. /\ process' = process /\ FunctionAddress' = F /\ Here' = H + 1
        /\ pc = "decode" /\ pc' = "decode"
    <2>1. /\ UNCHANGED <<process, pc, module, export>> /\ index' = index + 1
          /\ pc = "decode"
      BY DEF TakeNumber, PassByte, Decoding
    <2>2. FunctionAddress' = FunctionAddress
      BY <2>1 DEF FunctionAddress, Exports, Modules
    <2>3. Here' = FunctionAddress' + index'
      BY DEF Here
    <2>4. Here = FunctionAddress + index
      BY DEF Here
    <2>5. Here' = Here + 1
      BY <1>1, <2>1, <2>2, <2>3, <2>4
    <2> QED  BY <2>1, <2>2, <2>5
  <1>3. /\ syscallNumber = <<>> => \A a \in F .. H - 1 : ~IsMov(a)
        /\ syscallNumber # <<>> => \E m \in Nat : LastMov(m, F, H) /\ syscallNumber = NumberAt(m)
        /\ NoSyscallBefore(F, H)
    BY <1>2 DEF CatalogInv, DecodeInv
  <1>4. ASSUME TakeNumber PROVE DecodeInv'
    <2>1. IsMov(H) /\ ~IsSyscall(H)
      BY <1>4 DEF TakeNumber, IsMov, IsSyscall, MovEaxImmediate, SyscallByte0
    <2>2. syscallNumber' = NumberAt(H) /\ syscallNumber' # <<>>
      BY <1>4, NumberType DEF TakeNumber, CatalogInv
    <2>3. LastMov(H, F, H + 1)
      BY <1>1, <2>1 DEF LastMov
    <2>4. NoSyscallBefore(F, H + 1)
      BY <1>1, <1>3, <2>1 DEF NoSyscallBefore
    <2> QED  BY <1>1, <1>2, <2>2, <2>3, <2>4, MemoryConstant DEF DecodeInv, LastMov, NoSyscallBefore
  <1>5. ASSUME PassByte PROVE DecodeInv'
    <2>1. ~IsMov(H) /\ (IsSyscall(H) => syscallNumber = <<>>) /\ syscallNumber' = syscallNumber
      BY <1>5 DEF PassByte
    <2>2. syscallNumber = <<>> => \A a \in F .. H : ~IsMov(a)
      BY <1>1, <1>3, <2>1
    <2>3. ASSUME syscallNumber # <<>>
          PROVE  \E m \in Nat : LastMov(m, F, H + 1) /\ syscallNumber = NumberAt(m)
      <3>1. PICK m \in Nat : LastMov(m, F, H) /\ syscallNumber = NumberAt(m)
        BY <1>3, <2>3
      <3>2. LastMov(m, F, H + 1)
        BY <1>1, <2>1, <3>1 DEF LastMov
      <3> QED  BY <3>1, <3>2
    <2>4. NoSyscallBefore(F, H + 1)
      BY <1>1, <1>3, <2>1, <2>2 DEF NoSyscallBefore
    <2> QED
      BY <1>1, <1>2, <2>1, <2>2, <2>3, <2>4, MemoryConstant DEF DecodeInv, LastMov, NoSyscallBefore
  <1> QED  BY <1>4, <1>5

(* A step that leaves the entries alone keeps what holds of them.          *)
LEMMA EntriesKept ==
    ASSUME EntriesInv, process' = process, m_entries' = m_entries
    PROVE  EntriesInv'
  BY DecodedKept DEF EntriesInv

(* The entry that is added is decoded.                                     *)
LEMMA EntriesGrow ==
    ASSUME CatalogInv, FoundSyscall
    PROVE  EntriesInv'
  <1> DEFINE e == [Number |-> syscallNumber, Module |-> module,
                   FunctionName |-> Exports[export].FunctionName,
                   FunctionAddress |-> FunctionAddress, SyscallAddress |-> Here]
             last == Len(m_entries) + 1
  <1>1. /\ m_entries' = Append(m_entries, e) /\ process' = process
        /\ pc = "decode" /\ syscallNumber # <<>> /\ IsSyscall(Here)
    BY DEF FoundSyscall, AddEntry, Decoding
  <1> HIDE DEF e
  <1>2. m_entries \in Seq(SyscallEntry) /\ Len(m_entries) \in Nat
    BY DEF CatalogInv, TypeOK
  <1>3. /\ Positions' = Positions \cup {last} /\ m_entries'[last] = e
        /\ \A i \in Positions : m_entries'[i] = m_entries[i]
    BY <1>1, <1>2
  <1>4. /\ e.FunctionAddress = FunctionAddress /\ e.SyscallAddress = Here
        /\ e.Number = syscallNumber
    BY DEF e
  <1>5. Decoded(e)
    BY <1>1, <1>4 DEF CatalogInv, DecodeInv, Decoded
  <1>6. ASSUME NEW i, i = last PROVE Decoded(m_entries[i])'
    <2>1. m_entries'[i] = e
      BY <1>3, <1>6
    <2> QED
      BY <1>1, <1>5, <2>1 DEF Decoded, LastMov, NoSyscallBefore, IsMov, IsSyscall, NumberAt, ByteAt
  <1>7. \A i \in Positions : Decoded(m_entries[i])'
    BY <1>1, <1>3, DecodedKept DEF CatalogInv, EntriesInv
  <1>8. ASSUME NEW i \in Positions' PROVE Decoded(m_entries[i])'
    BY <1>3, <1>6, <1>7, <1>8
  <1> QED  BY <1>8 DEF EntriesInv

(* Every step keeps the invariant.                                         *)
LEMMA CatalogStep == CatalogInv /\ [Next]_vars => CatalogInv'
  <1> SUFFICES ASSUME CatalogInv, [Next]_vars PROVE CatalogInv'
    OBVIOUS
  <1>0. TypeOK'
    BY TypeStep DEF CatalogInv
  <1>1. ASSUME TakeNumber \/ PassByte PROVE DecodeInv' /\ EntriesInv'
    <2>1. process' = process /\ m_entries' = m_entries
      BY <1>1 DEF TakeNumber, PassByte, entryVars
    <2> QED  BY <1>1, <2>1, DecodeStep, EntriesKept DEF CatalogInv
  <1>2. ASSUME FoundSyscall PROVE DecodeInv' /\ EntriesInv'
    BY <1>2, EntriesGrow DEF DecodeInv, FoundSyscall
  <1>3. ASSUME ScanModule \/ Built \/ SkipExport \/ EndModule \/ NotAStub
        PROVE  DecodeInv' /\ EntriesInv'
    <2>1. process' = process /\ m_entries' = m_entries /\ pc' # "decode"
      BY <1>3 DEF ScanModule, Built, SkipExport, EndModule, NotAStub, entryVars
    <2> QED  BY <2>1, EntriesKept DEF CatalogInv, DecodeInv
  <1>4. ASSUME BeginDecode PROVE DecodeInv' /\ EntriesInv'
    <2>1. /\ process' = process /\ m_entries' = m_entries /\ UNCHANGED <<module, export>>
          /\ pc = "export" /\ export <= Len(Exports) /\ index' = 0 /\ syscallNumber' = <<>>
      BY <1>4 DEF BeginDecode, entryVars
    <2>2. FunctionAddress \in Nat
      BY <2>1, ScanType DEF CatalogInv
    <2>3. FunctionAddress' = FunctionAddress
      BY <2>1 DEF FunctionAddress, Exports, Modules
    <2>4. Here' = FunctionAddress'
      BY <2>1, <2>2, <2>3 DEF Here
    <2>5. \A a \in FunctionAddress' .. Here' - 1 : FALSE
      BY <2>2, <2>3, <2>4
    <2>6. NoSyscallBefore(FunctionAddress, Here)'
      BY <2>5 DEF NoSyscallBefore
    <2>7. DecodeInv'
      BY <2>1, <2>5, <2>6 DEF DecodeInv
    <2> QED  BY <2>1, <2>7, EntriesKept DEF CatalogInv
  <1>5. ASSUME UNCHANGED vars PROVE DecodeInv' /\ EntriesInv'
    <2>1. /\ UNCHANGED <<process, pc, module, export, index, syscallNumber, m_entries>>
      BY <1>5 DEF vars, scanVars, entryVars
    <2>2. DecodeInv'
      BY <2>1 DEF CatalogInv, DecodeInv, LastMov, NoSyscallBefore, IsMov, IsSyscall, NumberAt,
                  ByteAt, FunctionAddress, Exports, Modules, Here
    <2> QED  BY <2>1, <2>2, EntriesKept DEF CatalogInv
  <1> QED
    BY <1>0, <1>1, <1>2, <1>3, <1>4, <1>5 DEF CatalogInv, Next, Done

(* CatalogInv holds in every process.                                      *)
LEMMA CatalogCorrect == Spec => []CatalogInv
  <1>1. Init => CatalogInv
    <2> SUFFICES ASSUME Init PROVE DecodeInv /\ EntriesInv /\ TypeOK
      BY DEF CatalogInv
    <2>1. pc # "decode" /\ Positions = {}
      BY DEF Init
    <2>2. TypeOK
      BY InitType
    <2> QED  BY <2>1, <2>2 DEF DecodeInv, EntriesInv
  <1> QED  BY <1>1, CatalogStep, PTL DEF Spec

-----------------------------------------------------------------------------
(* What the catalog holds.                                                 *)

(* Wherever a decoder began, it found one mov last.                        *)
LEMMA OneLastMov ==
    ASSUME NEW f, NEW g, NEW last \in Nat, NEW m \in Nat, NEW n \in Nat,
           LastMov(m, f, last), LastMov(n, g, last)
    PROVE  m = n
  BY DEF LastMov

(* What an entry of the catalog is.                                        *)
LEMMA EntryType ==
    ASSUME TypeOK, NEW i \in Positions
    PROVE  /\ m_entries[i] \in SyscallEntry
           /\ m_entries[i].FunctionAddress \in Nat /\ m_entries[i].SyscallAddress \in Nat
  <1>1. m_entries[i] \in SyscallEntry
    BY InSeq DEF TypeOK
  <1> QED  BY <1>1 DEF SyscallEntry

(* OneNumberPerReturn holds in every process: the verdict of a call cannot *)
(* depend on which of the entries of one return address the index holds.   *)
THEOREM OneNumber == Spec => []OneNumberPerReturn
  <1>1. CatalogInv => OneNumberPerReturn
    <2> SUFFICES ASSUME CatalogInv, NEW i \in Positions, NEW j \in Positions,
                        m_entries[i].SyscallAddress = m_entries[j].SyscallAddress
                 PROVE  m_entries[i].Number = m_entries[j].Number
      BY DEF OneNumberPerReturn
    <2>1. m_entries[i].SyscallAddress \in Nat
      BY EntryType DEF CatalogInv
    <2>2. Decoded(m_entries[i]) /\ Decoded(m_entries[j])
      BY DEF CatalogInv, EntriesInv
    <2>3. PICK m \in Nat : /\ LastMov(m, m_entries[i].FunctionAddress, m_entries[i].SyscallAddress)
                           /\ m_entries[i].Number = NumberAt(m)
      BY <2>2 DEF Decoded
    <2>4. PICK n \in Nat : /\ LastMov(n, m_entries[j].FunctionAddress, m_entries[j].SyscallAddress)
                           /\ m_entries[j].Number = NumberAt(n)
      BY <2>2 DEF Decoded
    <2>5. m = n
      BY <2>1, <2>3, <2>4, OneLastMov
    <2> QED  BY <2>3, <2>4, <2>5
  <1> QED  BY <1>1, CatalogCorrect, PTL

(* EntriesRight holds in every process: in a stub whose bytes show one mov *)
(* and one syscall, the decoder recovers that mov's number and stops there.*)
THEOREM RightEntries == Spec => []EntriesRight
  <1>1. CatalogInv => EntriesRight
    <2> SUFFICES ASSUME CatalogInv, NEW i \in Positions, NEW s \in process.Stubs, Plain(s),
                        m_entries[i].FunctionAddress = s.FunctionAddress
                 PROVE  /\ m_entries[i].Number = s.Number
                        /\ m_entries[i].SyscallAddress = s.SyscallAddress
      BY DEF EntriesRight
    <2> DEFINE f == s.FunctionAddress
               found == m_entries[i].SyscallAddress
               meant == s.SyscallAddress
    <2>1. f \in Nat /\ found \in Nat /\ meant \in Nat /\ s.Number \in Number
      <3>1. s \in Stub
        BY ProcessType DEF CatalogInv
      <3> QED  BY <3>1, EntryType DEF CatalogInv, Stub
    <2>2. PICK m0 \in f .. meant - 1 :
              /\ IsMov(m0) /\ \A k \in 1 .. ImmediateSize : ByteAt(m0 + k) = s.Number[k]
              /\ IsSyscall(meant)
              /\ \A a \in f .. meant - 1 : /\ IsMov(a) => a = m0
                                           /\ IsSyscall(a) => a < m0
      BY DEF Plain, IsMov, IsSyscall, MovEaxImmediate, SyscallByte0, SyscallByte1
    <2>3. /\ \E m \in Nat : LastMov(m, f, found) /\ m_entries[i].Number = NumberAt(m)
          /\ IsSyscall(found) /\ NoSyscallBefore(f, found)
      BY DEF CatalogInv, EntriesInv, Decoded
    <2>4. PICK m \in Nat : LastMov(m, f, found) /\ m_entries[i].Number = NumberAt(m)
      BY <2>3
    <2>5. f <= m /\ m < found /\ IsMov(m)
      BY <2>4 DEF LastMov
    <2> HIDE DEF f, found, meant
    <2>6. ~(found < meant)
      <3> SUFFICES ASSUME found < meant PROVE FALSE
        OBVIOUS
      <3>1. m \in f .. meant - 1 /\ found \in f .. meant - 1
        BY <2>1, <2>5
      <3>2. m = m0 /\ found < m0
        BY <2>2, <2>3, <2>5, <3>1
      <3> QED  BY <2>1, <2>5, <3>2
    <2>7. ~(meant < found)
      <3> SUFFICES ASSUME meant < found PROVE FALSE
        OBVIOUS
      <3>1. meant \in f .. found - 1
        BY <2>1, <2>2
      <3>2. \A b \in f .. meant - 1 : ~IsMov(b)
        BY <2>2, <2>3, <3>1 DEF NoSyscallBefore
      <3> QED  BY <2>2, <3>2
    <2>8. found = meant
      BY <2>1, <2>6, <2>7
    <2>9. m = m0
      BY <2>1, <2>2, <2>5, <2>8
    <2>10. NumberAt(m0) = s.Number
      BY <2>1, <2>2 DEF NumberAt, Number
    <2> QED  BY <2>4, <2>8, <2>9, <2>10 DEF found, meant
  <1> QED  BY <1>1, CatalogCorrect, PTL
-----------------------------------------------------------------------------
(* What the indexes hold.                                                  *)

\* The index by number has every entry under its number, that by return address
\* an entry of that return address for each entry.
IndexesInv ==
    /\ \A i \in Positions : <<m_entries[i].Number, i>> \in m_syscallNumberIndex
    /\ \A p \in m_syscallNumberIndex : m_entries[p[2]].Number = p[1]
    /\ \A i \in Positions : ExpectedReturnAddress(m_entries[i]) \in DOMAIN m_returnAddressIndex
    /\ \A r \in DOMAIN m_returnAddressIndex :
           ExpectedReturnAddress(m_entries[m_returnAddressIndex[r]]) = r

(* The indexes follow the entries.                                         *)
LEMMA IndexesGrow ==
    ASSUME TypeOK, IndexesInv, FoundSyscall
    PROVE  IndexesInv'
  <1> DEFINE e == [Number |-> syscallNumber, Module |-> module,
                   FunctionName |-> Exports[export].FunctionName,
                   FunctionAddress |-> FunctionAddress, SyscallAddress |-> Here]
             last == Len(m_entries) + 1
             known == m_returnAddressIndex
             back == ExpectedReturnAddress(e)
  <1>1. AddEntry(e)
    BY DEF FoundSyscall
  <1> HIDE DEF e
  <1>2. m_entries \in Seq(SyscallEntry) /\ Len(m_entries) \in Nat
    BY DEF TypeOK
  <1>3. /\ Positions' = Positions \cup {last} /\ m_entries'[last] = e
        /\ \A i \in Positions : m_entries'[i] = m_entries[i]
        /\ last \notin Positions
    BY <1>1, <1>2 DEF AddEntry
  <1>4. m_syscallNumberIndex' = m_syscallNumberIndex \cup {<<e.Number, last>>}
    BY <1>1 DEF AddEntry, NewPosition
  <1>5. m_returnAddressIndex' = [r \in DOMAIN known \cup {back} |->
                                     IF r \in DOMAIN known THEN known[r] ELSE last]
    BY <1>1 DEF AddEntry, NewPosition
  <1>6. /\ \A r \in DOMAIN known : known[r] \in Positions
        /\ m_syscallNumberIndex \subseteq Number \X Positions
    BY DEF TypeOK
  <1>7. \A i \in Positions' : <<m_entries'[i].Number, i>> \in m_syscallNumberIndex'
    BY <1>3, <1>4 DEF IndexesInv
  <1>8. \A p \in m_syscallNumberIndex' : m_entries'[p[2]].Number = p[1]
    BY <1>3, <1>4, <1>6 DEF IndexesInv
  <1>9. \A i \in Positions' : ExpectedReturnAddress(m_entries'[i]) \in DOMAIN m_returnAddressIndex'
    BY <1>3, <1>5 DEF IndexesInv
  <1>10. \A r \in DOMAIN m_returnAddressIndex' :
             ExpectedReturnAddress(m_entries'[m_returnAddressIndex'[r]]) = r
    BY <1>3, <1>5, <1>6 DEF IndexesInv
  <1> QED  BY <1>7, <1>8, <1>9, <1>10 DEF IndexesInv, ExpectedReturnAddress, ReturnAddress

(* IndexesInv holds in every process.                                      *)
LEMMA IndexesCorrect == Spec => []IndexesInv
  <1>1. Init => IndexesInv
    <2> SUFFICES ASSUME Init PROVE IndexesInv
      OBVIOUS
    <2>1. Positions = {} /\ m_syscallNumberIndex = {} /\ DOMAIN m_returnAddressIndex = {}
      BY DEF Init
    <2> QED  BY <2>1 DEF IndexesInv
  <1>2. TypeOK /\ IndexesInv /\ [Next]_vars => IndexesInv'
    <2> SUFFICES ASSUME TypeOK, IndexesInv, [Next]_vars, ~FoundSyscall PROVE IndexesInv'
      BY IndexesGrow
    <2>1. UNCHANGED entryVars
      BY DEF Next, Done, vars, ScanModule, Built, SkipExport, BeginDecode, EndModule,
             TakeNumber, PassByte, NotAStub
    <2> QED  BY <2>1 DEF entryVars, IndexesInv, ExpectedReturnAddress
  <1> QED  BY <1>1, <1>2, TypeCorrect, PTL DEF Spec

-----------------------------------------------------------------------------
(* What the queries find.                                                  *)

(* A set of numbers that is not empty has a least one.                     *)
LEMMA LeastPosition ==
    ASSUME NEW S \in SUBSET Nat, S # {}
    PROVE  \E i \in S : \A j \in S : i <= j
  <1>1. PICK i \in S : \A j \in S : <<j, i>> \notin OpToRel(<, Nat)
    BY NatLessThanWellFounded, WFMin
  <1>2. \A j \in S : ~(j < i)
    BY <1>1 DEF OpToRel
  <1> QED  BY <1>2

(* First finds an entry of the set, which is not NoEntry.                  *)
LEMMA FirstFinds ==
    ASSUME TypeOK, NEW S \in SUBSET Positions, S # {}
    PROVE  (\E i \in S : First(S) = m_entries[i]) /\ First(S) # NoEntry
  <1>1. Positions \subseteq Nat
    OBVIOUS
  <1>2. \E i \in S : \A j \in S : i <= j
    BY <1>1, LeastPosition
  <1>3. PICK i \in S : First(S) = m_entries[i]
    BY <1>2 DEF First
  <1>4. m_entries[i] \in SyscallEntry
    BY InSeq DEF TypeOK
  <1>5. "Number" \in DOMAIN m_entries[i]
    BY <1>4 DEF SyscallEntry
  <1>6. DOMAIN NoEntry = {}
    BY SMT DEF NoEntry
  <1> QED  BY <1>3, <1>5, <1>6

(* The primary entry of a number that the catalog has is one of its        *)
(* entries, and no Zw alias if there is another.                           *)
LEMMA PrimaryFinds ==
    ASSUME TypeOK, NEW i \in Positions
    PROVE  LET primary == FindPrimaryBySyscallNumber(m_entries[i].Number)
           IN  /\ primary # NoEntry
               /\ \E j \in Positions : /\ primary = m_entries[j]
                                       /\ primary.Number = m_entries[i].Number
               /\ m_entries[i].FunctionName[1] # Zw => primary.FunctionName[1] # Zw
  <1> DEFINE number == m_entries[i].Number
             found == {j \in Positions : m_entries[j].Number = number}
             preferred == {j \in found : m_entries[j].FunctionName[1] # Zw}
             primary == FindPrimaryBySyscallNumber(number)
  <1>1. found \in SUBSET Positions /\ i \in found /\ preferred \subseteq found
    OBVIOUS
  <1>2. primary = IF preferred # {} THEN First(preferred) ELSE First(found)
    BY DEF FindPrimaryBySyscallNumber
  <1>3. m_entries[i].FunctionName[1] # Zw => i \in preferred
    BY <1>1
  <1>4. CASE preferred # {}
    <2>1. primary # NoEntry /\ \E j \in preferred : primary = m_entries[j]
      BY <1>1, <1>2, <1>4, FirstFinds
    <2> QED  BY <2>1
  <1>5. CASE preferred = {}
    <2>1. primary # NoEntry /\ \E j \in found : primary = m_entries[j]
      BY <1>1, <1>2, <1>5, FirstFinds
    <2>2. ~(m_entries[i].FunctionName[1] # Zw)
      BY <1>3, <1>5
    <2> QED  BY <2>1, <2>2
  <1> QED  BY <1>4, <1>5

(* By its return address, an entry of the same number is found.            *)
LEMMA OwnerFound ==
    ASSUME TypeOK, OneNumberPerReturn, IndexesInv, NEW i \in Positions
    PROVE  /\ FindByReturnAddress(ExpectedReturnAddress(m_entries[i])) # NoEntry
           /\ FindByReturnAddress(ExpectedReturnAddress(m_entries[i])).Number
                  = m_entries[i].Number
  <1> DEFINE r == ExpectedReturnAddress(m_entries[i])
             k == m_returnAddressIndex[r]
  <1>1. r \in DOMAIN m_returnAddressIndex
    BY DEF IndexesInv
  <1>2. k \in Positions /\ ExpectedReturnAddress(m_entries[k]) = r
    BY <1>1 DEF TypeOK, IndexesInv
  <1>3. m_entries[k].SyscallAddress \in Nat /\ m_entries[i].SyscallAddress \in Nat
    BY <1>2, EntryType
  <1>4. m_entries[k].SyscallAddress = m_entries[i].SyscallAddress
    BY <1>2, <1>3 DEF ExpectedReturnAddress, ReturnAddress
  <1>5. m_entries[k].Number = m_entries[i].Number
    BY <1>2, <1>4 DEF OneNumberPerReturn
  <1>6. FindByReturnAddress(r) = m_entries[k]
    BY <1>1 DEF FindByReturnAddress
  <1>7. m_entries[k] \in SyscallEntry
    BY <1>2, EntryType
  <1>8. "Number" \in DOMAIN m_entries[k] /\ DOMAIN NoEntry = {}
    BY <1>7, SMT DEF SyscallEntry, NoEntry
  <1>9. m_entries[k] # NoEntry
    BY <1>8
  <1> QED  BY <1>5, <1>6, <1>9

(* QueriesAgree holds in every process: the entry that the demo finds by a *)
(* name is found by its number and by its return address too, whatever     *)
(* other entries share its name, its number or its return address.         *)
THEOREM QueriesFindTheSame == Spec => []QueriesAgree
  <1>1. TypeOK /\ OneNumberPerReturn /\ IndexesInv => QueriesAgree
    <2> SUFFICES ASSUME TypeOK, OneNumberPerReturn, IndexesInv, NEW i \in Positions
                 PROVE  LET e == FindByFunctionName(m_entries[i].FunctionName)
                            primary == FindPrimaryBySyscallNumber(e.Number)
                        IN  /\ e \in FindBySyscallNumber(e.Number)
                            /\ ExpectedReturnAddress(primary) \in ExpectedReturnsForSyscall(e.Number)
                            /\ FindByReturnAddress(ExpectedReturnAddress(e)).Number = e.Number
                            /\ e.FunctionName[1] # Zw => primary.FunctionName[1] # Zw
      BY DEF QueriesAgree
    <2> DEFINE name == m_entries[i].FunctionName
               named == {j \in Positions : m_entries[j].FunctionName = name}
               e == FindByFunctionName(name)
               primary == FindPrimaryBySyscallNumber(e.Number)
    <2>1. PICK j \in Positions : e = m_entries[j]
      <3>1. named \in SUBSET Positions /\ i \in named
        OBVIOUS
      <3>2. \E j \in named : First(named) = m_entries[j]
        BY <3>1, FirstFinds
      <3> QED  BY <3>2 DEF FindByFunctionName
    <2>2. \A k \in Positions : m_entries[k] \in FindBySyscallNumber(m_entries[k].Number)
      <3> SUFFICES ASSUME NEW k \in Positions
                   PROVE  m_entries[k] \in FindBySyscallNumber(m_entries[k].Number)
        OBVIOUS
      <3> DEFINE p == <<m_entries[k].Number, k>>
      <3>1. p \in m_syscallNumberIndex /\ p[1] = m_entries[k].Number /\ p[2] = k
        BY DEF IndexesInv
      <3>2. m_entries[p[2]] \in FindBySyscallNumber(m_entries[k].Number)
        BY <3>1 DEF FindBySyscallNumber
      <3> QED  BY <3>1, <3>2
    <2>3. /\ \E k \in Positions : primary = m_entries[k] /\ primary.Number = e.Number
          /\ e.FunctionName[1] # Zw => primary.FunctionName[1] # Zw
      BY <2>1, PrimaryFinds
    <2>4. primary \in FindBySyscallNumber(e.Number)
      BY <2>2, <2>3
    <2>5. ExpectedReturnAddress(primary) \in ExpectedReturnsForSyscall(e.Number)
      BY <2>4 DEF ExpectedReturnsForSyscall
    <2>6. FindByReturnAddress(ExpectedReturnAddress(e)).Number = e.Number
      BY <2>1, OwnerFound
    <2> QED  BY <2>1, <2>2, <2>3, <2>5, <2>6
  <1> QED  BY <1>1, TypeCorrect, OneNumber, IndexesCorrect, PTL
-----------------------------------------------------------------------------
(* Completeness: which stubs the scan has recovered.                       *)

\* Every stub that an export names reads as one.
PlainStubs == \A s \in ExportedStubs : Plain(s)

\* An entry of the catalog is that of the stub.
InCatalog(s) ==
    \E i \in Positions : /\ m_entries[i].FunctionAddress = s.FunctionAddress
                         /\ m_entries[i].Number = s.Number
                         /\ m_entries[i].SyscallAddress = s.SyscallAddress

\* Export x of module i is code, and the stub's.
Exporting(i, x, s) ==
    /\ Usable(Modules[i]) /\ IsCode(Modules[i].Exports[x], Modules[i])
    /\ Modules[i].Exports[x].Address = s.FunctionAddress

\* The scan has left export x of module i behind.
Scanned(i, x) == i < module \/ (i = module /\ pc \in {"export", "decode"} /\ x < export)

(* A plain stub is in the catalog once the scan has passed an export that  *)
(* names it, because the decoder cannot read past its syscall.             *)
CoverInv ==
    /\ pc = "built" => module > Len(Modules)
    /\ \A s \in process.Stubs : Plain(s) =>
          /\ \A i \in DOMAIN Modules : \A x \in DOMAIN Modules[i].Exports :
                 Exporting(i, x, s) /\ Scanned(i, x) => InCatalog(s)
          /\ pc = "decode" /\ FunctionAddress = s.FunctionAddress => Here <= s.SyscallAddress

(* What a stub is depends on the process alone.                            *)
LEMMA StubConstant ==
    ASSUME process' = process
    PROVE  /\ Modules' = Modules
           /\ \A s : Plain(s)' = Plain(s)
           /\ \A s, i, x : Exporting(i, x, s)' = Exporting(i, x, s)
           /\ ExportedStubs' = ExportedStubs
  BY DEF Modules, Plain, Exporting, ExportedStubs, Usable, Loaded, HasExports, IsCode,
         IsForwardedExport, ByteAt

(* What a plain stub looks like.                                           *)
LEMMA PlainStub ==
    ASSUME TypeOK, NEW s \in process.Stubs, Plain(s)
    PROVE  /\ s.FunctionAddress \in Nat \ {0} /\ s.SyscallAddress \in Nat
           /\ s.Number \in Number /\ s.FunctionAddress < s.SyscallAddress
           /\ s.SyscallAddress + ImmediateSize < s.FunctionAddress + ScanByteCount
           /\ IsSyscall(s.SyscallAddress) /\ ~IsMov(s.SyscallAddress)
           /\ \E m \in s.FunctionAddress .. s.SyscallAddress - 1 : IsMov(m)
  <1>1. s \in Stub
    BY ProcessType
  <1>2. s.FunctionAddress \in Nat \ {0} /\ s.SyscallAddress \in Nat /\ s.Number \in Number
    BY <1>1 DEF Stub
  <1>3. PICK m \in s.FunctionAddress .. s.SyscallAddress - 1 : IsMov(m)
    BY DEF Plain, IsMov, MovEaxImmediate
  <1>4. /\ s.SyscallAddress + ImmediateSize < s.FunctionAddress + ScanByteCount
        /\ ByteAt(s.SyscallAddress) = 15 /\ ByteAt(s.SyscallAddress + 1) = 5
    BY DEF Plain
  <1>5. IsSyscall(s.SyscallAddress) /\ ~IsMov(s.SyscallAddress)
    BY <1>4 DEF IsSyscall, IsMov, MovEaxImmediate, SyscallByte0, SyscallByte1
  <1> QED  BY <1>2, <1>3, <1>4, <1>5

(* A step that adds no entry keeps the entries of the stubs.               *)
LEMMA InCatalogKept ==
    ASSUME TypeOK, m_entries' = m_entries \/ FoundSyscall
    PROVE  \A s : InCatalog(s) => InCatalog(s)'
  <1>1. CASE m_entries' = m_entries
    BY <1>1 DEF InCatalog
  <1>2. CASE FoundSyscall
    <2>1. m_entries \in Seq(SyscallEntry) /\ \E e : m_entries' = Append(m_entries, e)
      BY <1>2 DEF FoundSyscall, AddEntry, TypeOK
    <2>2. \A i \in Positions : i \in Positions' /\ m_entries'[i] = m_entries[i]
      BY <2>1
    <2> QED  BY <2>2 DEF InCatalog
  <1> QED  BY <1>1, <1>2

(* Reading one more byte of a plain stub stays before or at its syscall.   *)
LEMMA StaysInStub ==
    ASSUME CatalogInv, CoverInv, TakeNumber \/ PassByte,
           NEW s \in process.Stubs, Plain(s), FunctionAddress = s.FunctionAddress
    PROVE  Here + 1 <= s.SyscallAddress
  <1>1. pc = "decode" /\ FunctionAddress \in Nat /\ Here \in Nat /\ s.SyscallAddress \in Nat
        /\ FunctionAddress <= Here
    <2>1. pc = "decode"
      BY DEF TakeNumber, PassByte, Decoding
    <2>2. TypeOK /\ index \in Nat /\ export <= Len(Exports)
      BY <2>1 DEF CatalogInv, TypeOK
    <2>3. FunctionAddress \in Nat /\ s.SyscallAddress \in Nat
      BY <2>1, <2>2, ScanType, PlainStub
    <2> QED  BY <2>1, <2>2, <2>3 DEF Here
  <1>2. Here <= s.SyscallAddress
    BY <1>1 DEF CoverInv
  <1>3. ASSUME Here = s.SyscallAddress PROVE FALSE
    <2>1. IsSyscall(Here) /\ ~IsMov(Here)
      BY <1>3, PlainStub DEF CatalogInv
    <2>2. syscallNumber = <<>>
      BY <2>1 DEF TakeNumber, PassByte
    <2>3. \A a \in FunctionAddress .. Here - 1 : ~IsMov(a)
      BY <1>1, <2>2 DEF CatalogInv, DecodeInv
    <2>4. \E m \in s.FunctionAddress .. s.SyscallAddress - 1 : IsMov(m)
      BY PlainStub DEF CatalogInv
    <2> QED  BY <1>3, <2>3, <2>4
  <1> QED  BY <1>1, <1>2, <1>3

(* The decoder does not give up inside a plain stub.                       *)
LEMMA StubIsFound ==
    ASSUME CatalogInv, CoverInv, NotAStub,
           NEW s \in process.Stubs, Plain(s), FunctionAddress = s.FunctionAddress
    PROVE  FALSE
  <1>1. pc = "decode" /\ ~(index + ImmediateSize < ScanByteCount)
    BY DEF NotAStub, Decoding
  <1>2. /\ FunctionAddress \in Nat /\ index \in Nat /\ s.SyscallAddress \in Nat
        /\ ScanByteCount \in Nat /\ ImmediateSize \in Nat
    BY <1>1, ScanType, PlainStub, CatalogAssumption DEF CatalogInv, TypeOK
  <1>3. FunctionAddress + index <= s.SyscallAddress
    BY <1>1 DEF CoverInv, Here
  <1>4. s.SyscallAddress + ImmediateSize < FunctionAddress + ScanByteCount
    BY PlainStub DEF CatalogInv
  <1> QED  BY <1>1, <1>2, <1>3, <1>4

(* The entry that is added is that of the stub whose export is decoded.    *)
LEMMA StubIsAdded ==
    ASSUME CatalogInv, EntriesRight', FoundSyscall,
           NEW s \in process.Stubs, Plain(s), FunctionAddress = s.FunctionAddress
    PROVE  InCatalog(s)'
  <1> DEFINE last == Len(m_entries) + 1
  <1>1. /\ process' = process
        /\ last \in Positions' /\ m_entries'[last].FunctionAddress = FunctionAddress
    <2>1. m_entries \in Seq(SyscallEntry) /\ process' = process
      BY DEF CatalogInv, TypeOK, FoundSyscall
    <2>2. PICK e : m_entries' = Append(m_entries, e) /\ e.FunctionAddress = FunctionAddress
      BY DEF FoundSyscall, AddEntry
    <2>3. last \in Positions' /\ m_entries'[last] = e
      BY <2>1, <2>2
    <2> QED  BY <2>1, <2>2, <2>3
  <1>2. s \in process.Stubs' /\ Plain(s)'
    BY <1>1, StubConstant
  <1>3. /\ m_entries'[last].Number = s.Number
        /\ m_entries'[last].SyscallAddress = s.SyscallAddress
    BY <1>1, <1>2 DEF EntriesRight
  <1> QED  BY <1>1, <1>3 DEF InCatalog

(* Every step keeps the invariant.                                         *)
LEMMA CoverStep ==
    ASSUME CatalogInv, CoverInv, EntriesRight', [Next]_vars
    PROVE  CoverInv'
  <1>0. /\ process' = process /\ (m_entries' = m_entries \/ FoundSyscall)
        /\ Modules' = Modules /\ module \in Nat /\ export \in Nat
    BY StubConstant
    DEF Next, Done, vars, entryVars, ScanModule, Built, SkipExport, BeginDecode, EndModule,
        TakeNumber, PassByte, NotAStub, FoundSyscall, CatalogInv, TypeOK
  <1>1. pc' = "built" => module' > Len(Modules')
    BY <1>0
    DEF Next, Done, vars, scanVars, ScanModule, Built, SkipExport, BeginDecode, EndModule,
        TakeNumber, PassByte, NotAStub, FoundSyscall, Decoding, CoverInv
  <1> SUFFICES ASSUME NEW s \in process.Stubs, Plain(s)
               PROVE  /\ \A i \in DOMAIN Modules : \A x \in DOMAIN Modules[i].Exports :
                             Exporting(i, x, s) /\ Scanned(i, x)' => InCatalog(s)'
                      /\ pc' = "decode" /\ FunctionAddress' = s.FunctionAddress =>
                             Here' <= s.SyscallAddress
    BY <1>0, <1>1, StubConstant DEF CoverInv
  <1>2. InCatalog(s) => InCatalog(s)'
    BY <1>0, InCatalogKept DEF CatalogInv
  <1>3. \A i \in DOMAIN Modules : \A x \in DOMAIN Modules[i].Exports :
            Exporting(i, x, s) /\ Scanned(i, x) => InCatalog(s)'
    BY <1>2 DEF CoverInv
  <1>4. DOMAIN Modules = 1 .. Len(Modules) /\ Len(Modules) \in Nat
        /\ \A i \in DOMAIN Modules : Modules[i] \in Module
    BY ProcessType, InSeq DEF CatalogInv
  <1>5. \A i \in DOMAIN Modules : DOMAIN Modules[i].Exports = 1 .. Len(Modules[i].Exports)
    BY <1>4 DEF Module
  <1>6. CASE ScanModule
    <2>1. pc = "module" /\ pc' # "decode"
      BY <1>6 DEF ScanModule
    <2>2. \/ Usable(Modules[module]) /\ module' = module /\ export' = 1
          \/ ~Usable(Modules[module]) /\ module' = module + 1 /\ pc' = "module"
      BY <1>6 DEF ScanModule
    <2> QED  BY <1>0, <1>3, <1>4, <1>5, <2>1, <2>2 DEF Scanned, Exporting
  <1>7. CASE Built
    BY <1>0, <1>3, <1>4, <1>7 DEF Built, Scanned
  <1>8. CASE EndModule
    <2>1. /\ pc = "export" /\ export > Len(Modules[module].Exports)
          /\ module' = module + 1 /\ pc' = "module"
      BY <1>8 DEF EndModule, Exports
    <2> QED  BY <1>0, <1>3, <1>4, <1>5, <2>1 DEF Scanned
  <1>9. CASE SkipExport \/ NotAStub \/ FoundSyscall
    <2>1. /\ pc \in {"export", "decode"} /\ pc' = "export" /\ module' = module
          /\ export' = export + 1
      BY <1>9 DEF SkipExport, NotAStub, FoundSyscall, Decoding
    <2>2. Exporting(module, export, s) => InCatalog(s)'
      <3> SUFFICES ASSUME Exporting(module, export, s) PROVE InCatalog(s)'
        OBVIOUS
      <3>1. FunctionAddress = s.FunctionAddress /\ ~SkipExport
        BY DEF Exporting, FunctionAddress, Exports, SkipExport
      <3> QED  BY <1>9, <3>1, StubIsFound, StubIsAdded
    <2> QED  BY <1>0, <1>3, <1>4, <1>5, <2>1, <2>2 DEF Scanned
  <1>10. CASE BeginDecode
    <2>1. /\ pc = "export" /\ export <= Len(Exports) /\ pc' = "decode" /\ index' = 0
          /\ UNCHANGED <<process, module, export>>
      BY <1>10 DEF BeginDecode
    <2>2. FunctionAddress' = FunctionAddress /\ FunctionAddress \in Nat
      BY <1>0, <2>1, ScanType DEF FunctionAddress, Exports, CatalogInv
    <2>3. FunctionAddress = s.FunctionAddress => Here' <= s.SyscallAddress
      BY <2>1, <2>2, PlainStub DEF Here, CatalogInv
    <2> QED  BY <1>3, <2>1, <2>2, <2>3 DEF Scanned
  <1>11. CASE TakeNumber \/ PassByte
    <2>1. /\ pc = "decode" /\ index' = index + 1 /\ UNCHANGED <<process, pc, module, export>>
          /\ index \in Nat
      BY <1>11 DEF TakeNumber, PassByte, Decoding, CatalogInv, TypeOK
    <2>2. FunctionAddress' = FunctionAddress /\ FunctionAddress \in Nat
      BY <1>0, <2>1, ScanType DEF FunctionAddress, Exports, CatalogInv, TypeOK
    <2>3. Here' = Here + 1
      BY <2>1, <2>2 DEF Here
    <2>4. FunctionAddress = s.FunctionAddress => Here' <= s.SyscallAddress
      BY <1>11, <2>3, StaysInStub
    <2> QED  BY <1>3, <2>1, <2>2, <2>4 DEF Scanned
  <1>12. CASE UNCHANGED vars
    <2>1. UNCHANGED <<process, pc, module, export, index>>
      BY <1>12 DEF vars, scanVars
    <2>2. FunctionAddress' = FunctionAddress /\ Here' = Here
      BY <2>1 DEF FunctionAddress, Exports, Modules, Here
    <2> QED  BY <1>3, <2>1, <2>2 DEF Scanned, CoverInv
  <1> QED
    BY <1>6, <1>7, <1>8, <1>9, <1>10, <1>11, <1>12 DEF Next, Done

(* CoverInv holds in every process.                                        *)
LEMMA CoverCorrect == Spec => []CoverInv
  <1>1. Init => CoverInv
    <2> SUFFICES ASSUME Init PROVE CoverInv
      OBVIOUS
    <2>1. pc = "module" /\ module = 1 /\ TypeOK
      BY InitType DEF Init
    <2>2. DOMAIN Modules = 1 .. Len(Modules) /\ Len(Modules) \in Nat
      BY <2>1, ProcessType
    <2> QED  BY <2>1, <2>2 DEF CoverInv, Scanned
  <1>2. CatalogInv /\ CoverInv /\ EntriesRight' /\ [Next]_vars => CoverInv'
    BY CoverStep
  <1> QED  BY <1>1, <1>2, CatalogCorrect, RightEntries, PTL DEF Spec

(* The stubs of the process stay plain.                                    *)
LEMMA StubsStayPlain == Spec /\ PlainStubs => []PlainStubs
  <1>1. PlainStubs /\ [Next]_vars => PlainStubs'
    <2> SUFFICES ASSUME PlainStubs, [Next]_vars PROVE PlainStubs'
      OBVIOUS
    <2>1. process' = process
      BY DEF Next, Done, vars, ScanModule, Built, SkipExport, BeginDecode, EndModule,
             TakeNumber, PassByte, NotAStub, FoundSyscall
    <2> QED  BY <2>1, StubConstant DEF PlainStubs
  <1> QED  BY <1>1, PTL DEF Spec

(* In a process whose exported stubs all read as stubs the catalog, once   *)
(* built, has each of them: in any order of modules and exports, with      *)
(* modules that cannot be used, aliases, forwarders and code in between.   *)
THEOREM EveryStubRecovered == Spec /\ PlainStubs => []StubsRecovered
  <1>1. TypeOK /\ CoverInv /\ PlainStubs => StubsRecovered
    <2> SUFFICES ASSUME TypeOK, CoverInv, PlainStubs, pc = "built", NEW s \in ExportedStubs
                 PROVE  InCatalog(s)
      BY DEF StubsRecovered, InCatalog
    <2>1. s \in process.Stubs /\ Plain(s)
      BY DEF PlainStubs, ExportedStubs
    <2>2. PICK i \in DOMAIN Modules :
              /\ Usable(Modules[i])
              /\ s.FunctionAddress \notin
                     Modules[i].Directory.VirtualAddress ..
                     Modules[i].Directory.VirtualAddress + Modules[i].Directory.Size - 1
              /\ \E x \in DOMAIN Modules[i].Exports :
                     Modules[i].Exports[x].Address = s.FunctionAddress
      BY DEF ExportedStubs
    <2>3. PICK x \in DOMAIN Modules[i].Exports : Modules[i].Exports[x].Address = s.FunctionAddress
      BY <2>2
    <2>4. /\ Modules[i] \in Module /\ DOMAIN Modules = 1 .. Len(Modules)
          /\ Len(Modules) \in Nat /\ module \in Nat
      BY ProcessType, InSeq DEF TypeOK
    <2>5. Modules[i].Directory.VirtualAddress \in Nat /\ Modules[i].Directory.Size \in Nat
      BY <2>4 DEF Module
    <2>6. IsCode(Modules[i].Exports[x], Modules[i])
      BY <2>1, <2>2, <2>3, <2>5, PlainStub DEF IsCode, IsForwardedExport
    <2>7. Exporting(i, x, s) /\ Scanned(i, x)
      BY <2>2, <2>3, <2>4, <2>6 DEF Exporting, Scanned, CoverInv
    <2> QED  BY <2>1, <2>7 DEF CoverInv
  <1> QED  BY <1>1, TypeCorrect, CoverCorrect, StubsStayPlain, PTL

(* With such a catalog the classification of a call of a stub's service is *)
(* right: Clean behind any stub of that number, a mismatch behind any      *)
(* other stub, raw where no entry's syscall instruction can be.            *)
THEOREM RightVerdicts == Spec /\ PlainStubs => []VerdictsRight
  <1>1. TypeOK /\ OneNumberPerReturn /\ IndexesInv /\ StubsRecovered => VerdictsRight
    <2> SUFFICES ASSUME TypeOK, OneNumberPerReturn, IndexesInv, StubsRecovered, pc = "built",
                        NEW s \in ExportedStubs
                 PROVE  /\ \A r \in ExportedStubs :
                              Classify(r.SyscallAddress + 2, s.Number) =
                                  IF r.Number = s.Number THEN "Clean"
                                                         ELSE "SyscallGadgetMismatch"
                        /\ Classify(0, s.Number) = "RawDirectSyscall"
      BY DEF VerdictsRight
    <2>1. \A r \in ExportedStubs : \E i \in Positions :
              m_entries[i].Number = r.Number /\ m_entries[i].SyscallAddress = r.SyscallAddress
      BY DEF StubsRecovered
    <2>2. FindPrimaryBySyscallNumber(s.Number) # NoEntry
      BY <2>1, PrimaryFinds
    <2>3. ASSUME NEW r \in ExportedStubs
          PROVE  Classify(r.SyscallAddress + 2, s.Number) =
                     IF r.Number = s.Number THEN "Clean" ELSE "SyscallGadgetMismatch"
      <3> DEFINE owner == FindByReturnAddress(r.SyscallAddress + 2)
      <3>1. PICK i \in Positions :
                m_entries[i].Number = r.Number /\ m_entries[i].SyscallAddress = r.SyscallAddress
        BY <2>1
      <3>2. ExpectedReturnAddress(m_entries[i]) = r.SyscallAddress + 2
        BY <3>1 DEF ExpectedReturnAddress, ReturnAddress
      <3>3. owner # NoEntry /\ owner.Number = r.Number
        BY <3>1, <3>2, OwnerFound
      <3> QED  BY <2>2, <3>3 DEF Classify
    <2>4. 0 \notin DOMAIN m_returnAddressIndex
      <3> SUFFICES ASSUME 0 \in DOMAIN m_returnAddressIndex PROVE FALSE
        OBVIOUS
      <3> DEFINE k == m_returnAddressIndex[0]
      <3>1. k \in Positions /\ ExpectedReturnAddress(m_entries[k]) = 0
        BY DEF TypeOK, IndexesInv
      <3>2. m_entries[k].SyscallAddress \in Nat
        BY <3>1, EntryType
      <3> QED  BY <3>1, <3>2 DEF ExpectedReturnAddress, ReturnAddress
    <2>5. Classify(0, s.Number) = "RawDirectSyscall"
      BY <2>2, <2>4 DEF Classify, FindByReturnAddress
    <2> QED  BY <2>3, <2>5
  <1> QED  BY <1>1, TypeCorrect, OneNumber, IndexesCorrect, EveryStubRecovered, PTL
-----------------------------------------------------------------------------
(* Where the entries come from, for those who look them up by name.        *)

\* An entry is that of an export that is code, of a module that can be used.
FromExport(e) ==
    \E i \in DOMAIN Modules : \E x \in DOMAIN Modules[i].Exports :
        /\ Usable(Modules[i]) /\ IsCode(Modules[i].Exports[x], Modules[i])
        /\ Modules[i].Exports[x].FunctionName = e.FunctionName
        /\ Modules[i].Exports[x].Address = e.FunctionAddress

SourceInv ==
    /\ pc \in {"export", "decode"} => Usable(Modules[module])
    /\ pc = "decode" => IsCode(Exports[export], Modules[module])
    /\ \A i \in Positions : FromExport(m_entries[i])

(* The entry that is added comes from the export that is decoded.          *)
LEMMA SourceOfNew ==
    ASSUME TypeOK, SourceInv, FoundSyscall
    PROVE  \A i \in Positions' : FromExport(m_entries'[i])
  <1> DEFINE e == [Number |-> syscallNumber, Module |-> module,
                   FunctionName |-> Exports[export].FunctionName,
                   FunctionAddress |-> FunctionAddress, SyscallAddress |-> Here]
             last == Len(m_entries) + 1
  <1>1. m_entries' = Append(m_entries, e) /\ pc = "decode"
    BY DEF FoundSyscall, AddEntry, Decoding
  <1>2. module \in DOMAIN Modules /\ export \in DOMAIN Modules[module].Exports
    BY <1>1, ScanType, ProcessType DEF TypeOK, Exports
  <1>3. FromExport(e)
    BY <1>1, <1>2 DEF SourceInv, FromExport, Exports, FunctionAddress
  <1> HIDE DEF e
  <1>4. /\ Positions' = Positions \cup {last} /\ m_entries'[last] = e
        /\ \A i \in Positions : m_entries'[i] = m_entries[i]
    BY <1>1 DEF TypeOK
  <1> QED  BY <1>3, <1>4 DEF SourceInv

(* Every step keeps the invariant.                                         *)
LEMMA SourceStep ==
    ASSUME TypeOK, SourceInv, [Next]_vars
    PROVE  SourceInv'
  <1>1. process' = process /\ Modules' = Modules
    BY StubConstant
    DEF Next, Done, vars, ScanModule, Built, SkipExport, BeginDecode, EndModule,
        TakeNumber, PassByte, NotAStub, FoundSyscall
  <1>2. \A i \in Positions' : FromExport(m_entries'[i])
    <2>1. CASE FoundSyscall
      BY <2>1, SourceOfNew
    <2>2. CASE m_entries' = m_entries
      BY <2>2 DEF SourceInv
    <2> QED
      BY <2>1, <2>2
      DEF Next, Done, vars, entryVars, ScanModule, Built, SkipExport, BeginDecode, EndModule,
          TakeNumber, PassByte, NotAStub
  <1>3. \A i \in Positions' : FromExport(m_entries[i])'
    BY <1>1, <1>2 DEF FromExport
  <1>4. /\ pc' \in {"export", "decode"} => Usable(Modules[module])'
        /\ pc' = "decode" => IsCode(Exports[export], Modules[module])'
    <2>1. CASE ScanModule
      BY <1>1, <2>1 DEF ScanModule
    <2>2. CASE BeginDecode
      BY <1>1, <2>2 DEF BeginDecode, SourceInv, Exports
    <2>3. CASE Built \/ EndModule
      BY <2>3 DEF Built, EndModule
    <2>4. CASE SkipExport \/ NotAStub \/ FoundSyscall
      BY <1>1, <2>4 DEF SkipExport, NotAStub, FoundSyscall, Decoding, SourceInv
    <2>5. CASE TakeNumber \/ PassByte
      BY <1>1, <2>5 DEF TakeNumber, PassByte, Decoding, SourceInv, Exports
    <2>6. CASE UNCHANGED vars
      BY <1>1, <2>6 DEF vars, scanVars, SourceInv, Exports
    <2> QED  BY <2>1, <2>2, <2>3, <2>4, <2>5, <2>6 DEF Next, Done
  <1> QED  BY <1>3, <1>4 DEF SourceInv

(* SourceInv holds in every process.                                       *)
LEMMA SourceCorrect == Spec => []SourceInv
  <1>1. Init => SourceInv
    <2> SUFFICES ASSUME Init PROVE SourceInv
      OBVIOUS
    <2>1. pc = "module" /\ Positions = {}
      BY DEF Init
    <2> QED  BY <2>1 DEF SourceInv
  <1>2. TypeOK /\ SourceInv /\ [Next]_vars => SourceInv'
    BY SourceStep
  <1> QED  BY <1>1, <1>2, TypeCorrect, PTL DEF Spec
=============================================================================
