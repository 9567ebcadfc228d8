-------------------------- MODULE DetectorDemoProofs --------------------------
(***************************************************************************)
(* Proofs about DetectorDemo: an object of main answers for every memory   *)
(* that the probes have obtained, until it has released it; and what the   *)
(* demo's exit code says of detection, from the theorems of the catalog    *)
(* that the demo builds.                                                   *)
(***************************************************************************)
EXTENDS DetectorDemo, SyscallCatalogProofs

Verdicts == {"Clean", "RawDirectSyscall", "SyscallGadgetMismatch", "UnknownSyscall",
             "QueryFailed", "WorkerFailed"}

Typed ==
    /\ step \in {"load", "build", "install", "construct", "allocate", "probe", "expect",
                 "unwind", "exited"}
    /\ constructed \in 0 .. 4
    /\ events \in Seq(Verdicts)
    /\ baseAddress \in [Probes -> BOOLEAN]
    /\ memory \in [Probes -> {"none", "live", "freed", "refused"}]

\* An allocation is constructed before its probe, and destroyed on the way out.
InStep ==
    /\ step \in {"load", "build", "install"} => constructed = 0 /\ Len(events) = 0
    /\ step = "construct" => constructed = Len(events) /\ Len(events) < 4
    /\ step \in {"allocate", "probe"} => constructed = Len(events) + 1
    /\ step = "exited" => constructed = 0

Owned == \A a \in Probes : memory[a] = "live" => a <= constructed /\ baseAddress[a]

DemoInv == Typed /\ InStep /\ Owned

LEMMA ClassifyType == \A r, number : Classify(r, number) \in Verdicts
  BY DEF Classify, Verdicts

LEMMA OutcomeType ==
    ASSUME NEW probe, NEW outcome \in Outcomes(probe)
    PROVE  outcome[1] \in Verdicts
  <1>1. CASE outcome = <<Verdict(Call(probe)), TRUE>>
    BY <1>1, ClassifyType DEF Verdict
  <1>2. CASE outcome = <<"QueryFailed", TRUE>>
    BY <1>2 DEF Verdicts
  <1>3. CASE outcome \in {"WorkerFailed"} \X BOOLEAN
    BY <1>3 DEF Verdicts
  <1> QED
    BY <1>1, <1>2, <1>3 DEF Outcomes

LEMMA DemoInitInv == DemoInit => DemoInv
  BY DEF DemoInit, DemoInv, Typed, InStep, Owned, Probes

LEMMA SetupKeepsInv ==
    ASSUME DemoInv, Load \/ BuildForCurrentProcess \/ ConfigureTestSyscalls \/ OpenSession
    PROVE  DemoInv'
  <1> USE DEF DemoInv, Typed, InStep, Owned, demoVars, allocationVars, Return
  <1>1. CASE Load
    BY <1>1 DEF Load
  <1>2. CASE BuildForCurrentProcess
    BY <1>2 DEF BuildForCurrentProcess
  <1>3. CASE ConfigureTestSyscalls
    BY <1>3 DEF ConfigureTestSyscalls
  <1>4. CASE OpenSession
    BY <1>4 DEF OpenSession
  <1> QED
    BY <1>1, <1>2, <1>3, <1>4

LEMMA ProbesKeepInv ==
    ASSUME DemoInv, Construct \/ AllocateForProbe \/ RunProbe \/ ExpectVerdicts
    PROVE  DemoInv'
  <1> USE DEF DemoInv, Typed, InStep, Owned, allocationVars, Return
  <1>1. CASE Construct
    BY <1>1 DEF Construct, Probe
  <1>2. CASE AllocateForProbe
    <2>1. constructed \in Probes /\ constructed' = constructed /\ events' = events
      BY <1>2 DEF AllocateForProbe, Probes
    <2>2. CASE step' = "probe" /\ baseAddress' = [baseAddress EXCEPT ![constructed] = TRUE]
               /\ memory' = [memory EXCEPT ![constructed] = "live"]
      BY <1>2, <2>1, <2>2 DEF AllocateForProbe, Probes
    <2>3. CASE step' = "unwind" /\ UNCHANGED <<baseAddress, memory>>
      BY <1>2, <2>1, <2>3
    <2> QED
      BY <1>2, <2>2, <2>3 DEF AllocateForProbe
  <1>3. CASE RunProbe
    <2>1. PICK outcome \in Outcomes(Probe), ok \in MayFail("allocate") :
              LET obtained == outcome[2] /\ Probe \in Allocates /\ Obtains(Probe) /\ ok
              IN  /\ events' = Append(events, outcome[1])
                  /\ baseAddress' = [baseAddress EXCEPT ![constructed] = @ \/ obtained]
                  /\ memory' = [memory EXCEPT ![constructed] = IF obtained THEN "live" ELSE @]
      BY <1>3 DEF RunProbe
    <2>2. events' \in Seq(Verdicts) /\ Len(events') = Len(events) + 1
      BY <2>1, OutcomeType
    <2>3. constructed' = constructed /\ constructed = Len(events) + 1
      BY <1>3 DEF RunProbe
    <2>4. step' = IF constructed = 4 THEN "expect" ELSE "construct"
      BY <1>3, <2>3 DEF RunProbe, Probe
    <2>5. Typed'
      BY <2>1, <2>2, <2>3, <2>4 DEF Probes
    <2>6. Owned'
      <3> DEFINE obtained == outcome[2] /\ Probe \in Allocates /\ Obtains(Probe) /\ ok
      <3>1. CASE obtained
        <4>1. memory' = [memory EXCEPT ![constructed] = "live"]
              /\ baseAddress' = [baseAddress EXCEPT ![constructed] = TRUE]
          BY <2>1, <3>1
        <4> QED
          BY <4>1, <2>3 DEF Probes
      <3>2. CASE ~obtained
        <4>1. memory' = memory /\ baseAddress' = baseAddress
          BY <2>1, <3>2
        <4> QED
          BY <4>1, <2>3
      <3> QED
        BY <3>1, <3>2
    <2> QED
      BY <2>2, <2>3, <2>4, <2>5, <2>6
  <1>4. CASE ExpectVerdicts
    BY <1>4 DEF ExpectVerdicts
  <1> QED
    BY <1>1, <1>2, <1>3, <1>4

LEMMA WayOutKeepsInv ==
    ASSUME DemoInv, Destroy \/ Exit \/ Exited
    PROVE  DemoInv'
  <1> USE DEF DemoInv, Typed, InStep, Owned, demoVars, allocationVars
  <1>1. CASE Destroy
    <2>1. constructed \in Probes /\ constructed' = constructed - 1 /\ step' = "unwind"
      BY <1>1 DEF Destroy, Present, Probes
    <2>2. memory' \in [Probes -> {"none", "live", "freed", "refused"}]
      BY <1>1, <2>1 DEF Destroy
    <2>3. \A a \in Probes : memory'[a] = "live" => memory[a] = "live" /\ a # constructed
      BY <1>1, <2>1 DEF Destroy
    <2> QED
      BY <1>1, <2>1, <2>2, <2>3 DEF Destroy, Probes
  <1>2. CASE Exit
    BY <1>2 DEF Exit, Present
  <1>3. CASE Exited
    BY <1>3 DEF Exited
  <1> QED
    BY <1>1, <1>2, <1>3

LEMMA DemoInvHolds == DemoSpec => []DemoInv
  <1>1. DemoInv /\ [DemoNext]_<<vars, demoVars>> => DemoInv'
    <2> SUFFICES ASSUME DemoInv, [DemoNext]_<<vars, demoVars>>
                 PROVE  DemoInv'
      OBVIOUS
    <2>1. CASE DemoNext
      BY <2>1, SetupKeepsInv, ProbesKeepInv, WayOutKeepsInv DEF DemoNext
    <2>2. CASE UNCHANGED <<vars, demoVars>>
      BY <2>2 DEF DemoInv, Typed, InStep, Owned, demoVars, allocationVars
    <2> QED
      BY <2>1, <2>2
  <1> QED
    BY DemoInitInv, <1>1, PTL DEF DemoSpec

(* Whichever way main returns, and whatever the probes have come to, each  *)
(* NativeVirtualAllocation releases the memory that was obtained with it.  *)
THEOREM ReleasesAllocations == DemoSpec => []EveryAllocationReleased
  <1>1. DemoInv => EveryAllocationReleased
    BY DEF DemoInv, Typed, InStep, Owned, EveryAllocationReleased, Probes
  <1> QED
    BY DemoInvHolds, <1>1, PTL

-----------------------------------------------------------------------------
(* The catalog in the demo.                                                *)

(* The demo builds its catalog as any program does, and leaves it alone.   *)
THEOREM DemoBuildsCatalog == DemoSpec => Spec
  <1>1. DemoInit => Init
    BY DEF DemoInit
  <1>2. [DemoNext]_<<vars, demoVars>> => [Next]_vars
    BY DEF DemoNext, Load, BuildForCurrentProcess, ConfigureTestSyscalls, OpenSession, Construct,
           AllocateForProbe, RunProbe, ExpectVerdicts, Destroy, Exit, Exited
  <1> QED
    BY <1>1, <1>2, PTL DEF DemoSpec, Spec

\* The function to allocate with, and the one to protect with, has one address,
\* whichever module exports it.
OneAddress ==
    \A i, j \in DOMAIN Modules :
        \A x \in DOMAIN Modules[i].Exports, y \in DOMAIN Modules[j].Exports :
            /\ Modules[i].Exports[x].FunctionName \in {AllocateName, ProtectName}
            /\ Modules[j].Exports[y].FunctionName = Modules[i].Exports[x].FunctionName
            => Modules[j].Exports[y].Address = Modules[i].Exports[x].Address

\* The numbers of services have 16 bits.
ShortNumbers == \A s \in process.Stubs : s.Number[3] = 0 /\ s.Number[4] = 0

\* Behind a mov of a stub's number, the next syscall before another mov is the stub's.
OwnNumbers ==
    \A s \in ExportedStubs : \A m, a \in Nat :
        LastMov(m, m, a) /\ NumberAt(m) = s.Number /\ IsSyscall(a) /\ NoSyscallBefore(m, a)
            => a = s.SyscallAddress

\* A process as Windows has them.
OrdinaryProcess == PlainStubs /\ OneAddress /\ ShortNumbers /\ OwnNumbers

(* What a process is does not change.                                      *)
LEMMA ProcessConstant ==
    ASSUME OrdinaryProcess, process' = process
    PROVE  OrdinaryProcess'
  <1>1. OneAddress' /\ ShortNumbers'
    BY DEF OrdinaryProcess, OneAddress, ShortNumbers, Modules
  <1>2. PlainStubs' /\ ExportedStubs' = ExportedStubs
    BY StubConstant DEF OrdinaryProcess, PlainStubs
  <1>3. OwnNumbers'
    BY <1>2 DEF OrdinaryProcess, OwnNumbers, LastMov, NoSyscallBefore, IsMov, IsSyscall, NumberAt, ByteAt
  <1> QED
    BY <1>1, <1>2, <1>3 DEF OrdinaryProcess

LEMMA StaysOrdinary == Spec /\ OrdinaryProcess => []OrdinaryProcess
  <1>1. OrdinaryProcess /\ [Next]_vars => OrdinaryProcess'
    <2> SUFFICES ASSUME OrdinaryProcess, [Next]_vars PROVE OrdinaryProcess'
      OBVIOUS
    <2>1. process' = process
      BY DEF Next, Done, vars, ScanModule, Built, SkipExport, BeginDecode, EndModule,
             TakeNumber, PassByte, NotAStub, FoundSyscall
    <2> QED
      BY <2>1, ProcessConstant
  <1> QED
    BY <1>1, PTL DEF Spec

-----------------------------------------------------------------------------
(* What the demo has of the catalog, and its events.                       *)

\* The helpers have been given what the finished catalog answers.
FromCatalog ==
    /\ pc = "built" /\ NoEntry \notin Entries
    /\ testSyscalls = TestSyscalls(FindByFunctionName(AllocateName),
                                   FindByFunctionName(ProtectName),
                                   FindByFunctionName(QueryTimeName))

Configured ==
    \/ step \in {"install", "construct", "allocate", "probe", "expect"}
    \/ Len(events) > 0 \/ status \in {0, 1}

EventOf(probe, event) == event \in {"QueryFailed", "WorkerFailed"} \/ event = Verdict(Call(probe))

JudgeInv ==
    /\ step = "build" => Resolved
    /\ step \in {"load", "build"} => testSyscalls = <<>>
    /\ testSyscalls = <<>> \/ FromCatalog
    /\ Configured => Resolved /\ FromCatalog
    /\ \A k \in 1 .. Len(events) : EventOf(k, events[k])
    /\ Len(events) <= 4
    /\ step = "expect" => Len(events) = 4
    /\ status \in {Running, 0, 1, SetupFailureExitCode}
    /\ step \notin {"unwind", "exited"} => status = Running
    /\ status \in {0, 1} => Len(events) = 4 /\ (status = 0 <=> Passed)

(* Nothing is asked anew of a catalog that nobody changes.                 *)
LEMMA AnswersConstant ==
    ASSUME UNCHANGED vars
    PROVE  /\ Resolved' = Resolved
           /\ FindByFunctionName(AllocateName)' = FindByFunctionName(AllocateName)
           /\ FindByFunctionName(ProtectName)' = FindByFunctionName(ProtectName)
           /\ FindByFunctionName(QueryTimeName)' = FindByFunctionName(QueryTimeName)
           /\ StubOf(AllocateName)' = StubOf(AllocateName)
           /\ StubOf(ProtectName)' = StubOf(ProtectName)
           /\ \A r, number : Classify(r, number)' = Classify(r, number)
  <1>1. process' = process /\ m_entries' = m_entries
        /\ m_returnAddressIndex' = m_returnAddressIndex
    BY DEF vars, entryVars
  <1>2. Modules' = Modules
    BY <1>1 DEF Modules
  <1>3. Resolved' = Resolved
    BY <1>2 DEF Resolved
  <1>5. /\ FindByFunctionName(AllocateName)' = FindByFunctionName(AllocateName)
        /\ FindByFunctionName(ProtectName)' = FindByFunctionName(ProtectName)
        /\ FindByFunctionName(QueryTimeName)' = FindByFunctionName(QueryTimeName)
    BY <1>1 DEF FindByFunctionName, First, Positions
  <1>6. /\ StubOf(AllocateName)' = StubOf(AllocateName)
        /\ StubOf(ProtectName)' = StubOf(ProtectName)
    BY <1>1, <1>2 DEF StubOf
  <1>7. \A r, number : Classify(r, number)' = Classify(r, number)
    BY <1>1 DEF Classify, FindByReturnAddress, FindPrimaryBySyscallNumber, First,
                Positions
  <1> QED
    BY <1>3, <1>5, <1>6, <1>7

(* The events and the helpers' numbers keep their meaning as long as the   *)
(* catalog and the helpers are left alone.                                 *)
LEMMA MeaningConstant ==
    ASSUME UNCHANGED <<vars, testSyscalls>>
    PROVE  /\ FromCatalog' = FromCatalog
           /\ \A k, event : EventOf(k, event)' = EventOf(k, event)
  <1>1. pc' = pc
    BY DEF vars, scanVars
  <1>2. Entries' = Entries
    BY AnswersConstant DEF Entries
  <1>3. FromCatalog' = FromCatalog
    BY <1>1, <1>2, AnswersConstant DEF FromCatalog
  <1>4. \A k : Call(k)' = Call(k)
    BY AnswersConstant DEF Call
  <1>5. \A k : Verdict(Call(k))' = Verdict(Call(k))
    BY <1>4, AnswersConstant DEF Verdict
  <1> QED
    BY <1>3, <1>5 DEF EventOf

LEMMA OutcomesAreEvents ==
    ASSUME NEW probe, NEW outcome \in Outcomes(probe)
    PROVE  EventOf(probe, outcome[1])
  <1>1. CASE outcome = <<Verdict(Call(probe)), TRUE>>
    BY <1>1 DEF EventOf
  <1>2. CASE outcome = <<"QueryFailed", TRUE>>
    BY <1>2 DEF EventOf
  <1>3. CASE outcome \in {"WorkerFailed"} \X BOOLEAN
    BY <1>3 DEF EventOf
  <1> QED
    BY <1>1, <1>2, <1>3 DEF Outcomes

(* Every step keeps the invariant.                                         *)
LEMMA JudgeSetup ==
    ASSUME DemoInv, JudgeInv, Load \/ BuildForCurrentProcess \/ ConfigureTestSyscalls
    PROVE  JudgeInv'
  <1>1. Len(events) = 0 /\ ~Configured /\ events' = events /\ status = Running
    BY DEF DemoInv, InStep, JudgeInv, Configured, Load, BuildForCurrentProcess,
           ConfigureTestSyscalls, demoVars, Running
  <1>2. CASE Load
    <2>1. UNCHANGED <<vars, testSyscalls>> /\ Resolved' = Resolved
      BY <1>2, AnswersConstant DEF Load
    <2>2. \/ step' = "build" /\ status' = Running /\ Resolved
          \/ step' = "unwind" /\ status' = SetupFailureExitCode
      BY <1>1, <1>2 DEF Load, Return
    <2> QED
      BY <1>1, <1>2, <2>1, <2>2, MeaningConstant
      DEF JudgeInv, Configured, Running, SetupFailureExitCode, Load
  <1>3. CASE BuildForCurrentProcess
    <2>1. step = "build" /\ step' = "build" /\ status' = Running /\ testSyscalls' = <<>>
      BY <1>1, <1>3 DEF BuildForCurrentProcess, demoVars, JudgeInv
    <2>2. process' = process
      BY <1>3
      DEF BuildForCurrentProcess, Next, Done, vars, ScanModule, Built, SkipExport, BeginDecode,
          EndModule, TakeNumber, PassByte, NotAStub, FoundSyscall
    <2>3. Resolved'
      BY <2>1, <2>2 DEF JudgeInv, Resolved, Modules
    <2> QED
      BY <1>1, <2>1, <2>3 DEF JudgeInv, Configured, Running, SetupFailureExitCode
  <1>4. CASE ConfigureTestSyscalls
    <2>1. UNCHANGED vars /\ Resolved' /\ pc' = "built" /\ Entries' = Entries
      <3>1. UNCHANGED vars /\ Resolved /\ pc = "built"
        BY <1>4 DEF ConfigureTestSyscalls, JudgeInv
      <3> QED
        BY <3>1, AnswersConstant DEF vars, scanVars, Entries
    <2>2. \/ step' = "unwind" /\ status' = SetupFailureExitCode /\ testSyscalls' = <<>>
          \/ /\ step' = "install" /\ status' = Running /\ NoEntry \notin Entries
             /\ testSyscalls' = TestSyscalls(FindByFunctionName(AllocateName),
                                             FindByFunctionName(ProtectName),
                                             FindByFunctionName(QueryTimeName))
      BY <1>1, <1>4 DEF ConfigureTestSyscalls, Return, JudgeInv
    <2>3. step' = "install" => FromCatalog'
      BY <2>1, <2>2, AnswersConstant DEF FromCatalog, TestSyscalls
    <2> QED
      BY <1>1, <2>1, <2>2, <2>3 DEF JudgeInv, Configured, Running, SetupFailureExitCode
  <1> QED
    BY <1>2, <1>3, <1>4

LEMMA JudgeProbes ==
    ASSUME DemoInv, JudgeInv, RunProbe
    PROVE  JudgeInv'
  <1>1. PICK outcome \in Outcomes(Probe) : events' = Append(events, outcome[1])
    BY DEF RunProbe
  <1>2. /\ UNCHANGED <<vars, testSyscalls>> /\ status' = status /\ status = Running
        /\ step = "probe" /\ step' = IF Probe = 4 THEN "expect" ELSE "construct"
        /\ Len(events) < 4 /\ Resolved /\ FromCatalog
    BY DEF RunProbe, JudgeInv, Configured, DemoInv, InStep, Typed
  <1>3. /\ Len(events') = Len(events) + 1 /\ events'[Probe] = outcome[1]
        /\ Len(events) \in Nat /\ Probe = Len(events) + 1
        /\ \A k \in 1 .. Len(events) : events'[k] = events[k]
    BY <1>1 DEF DemoInv, Typed, Probe
  <1>4. \A k \in 1 .. Len(events') : EventOf(k, events'[k])
    BY <1>1, <1>3, OutcomesAreEvents DEF JudgeInv
  <1>5. \A k \in 1 .. Len(events') : EventOf(k, events[k])'
    BY <1>2, <1>4, MeaningConstant
  <1>6. Resolved' /\ FromCatalog'
    BY <1>2, AnswersConstant, MeaningConstant
  <1> QED
    BY <1>2, <1>3, <1>5, <1>6 DEF JudgeInv, Configured, Running, SetupFailureExitCode

LEMMA JudgeRest ==
    ASSUME DemoInv, JudgeInv,
           \/ OpenSession \/ Construct \/ AllocateForProbe \/ ExpectVerdicts
           \/ Destroy \/ Exit \/ UNCHANGED <<vars, demoVars>>
    PROVE  JudgeInv'
  <1>1. UNCHANGED <<vars, testSyscalls, events>>
    BY DEF OpenSession, Construct, AllocateForProbe, ExpectVerdicts, Destroy, Exit, demoVars
  <1>2. /\ Resolved' = Resolved /\ FromCatalog' = FromCatalog
        /\ \A k, event : EventOf(k, event)' = EventOf(k, event)
        /\ Passed' = Passed /\ Len(events) \in Nat
    BY <1>1, AnswersConstant, MeaningConstant DEF Passed, DemoInv, Typed
  <1>3. \A k \in 1 .. Len(events') : EventOf(k, events[k])'
    BY <1>1, <1>2 DEF JudgeInv
  <1>4. CASE OpenSession
    BY <1>1, <1>2, <1>3, <1>4
    DEF OpenSession, Return, JudgeInv, Configured, Running, SetupFailureExitCode
  <1>5. CASE Construct
    BY <1>1, <1>2, <1>3, <1>5
    DEF Construct, JudgeInv, Configured, DemoInv, InStep
  <1>6. CASE AllocateForProbe
    <2>1. /\ step = "allocate" /\ Len(events) < 4
          /\ \/ step' = "probe" /\ status' = status
             \/ step' = "unwind" /\ status' = SetupFailureExitCode
      BY <1>6 DEF AllocateForProbe, Return, DemoInv, InStep, Typed
    <2> QED
      BY <1>1, <1>2, <1>3, <2>1 DEF JudgeInv, Configured, Running, SetupFailureExitCode
  <1>7. CASE ExpectVerdicts
    <2>1. /\ step = "expect" /\ step' = "unwind" /\ Len(events) = 4
          /\ status' = IF Passed THEN 0 ELSE 1
      BY <1>7 DEF ExpectVerdicts, Return, JudgeInv
    <2> QED
      BY <1>1, <1>2, <1>3, <2>1 DEF JudgeInv, Configured, Running, SetupFailureExitCode
  <1>8. CASE Destroy \/ Exit
    BY <1>1, <1>2, <1>3, <1>8 DEF Destroy, Exit, JudgeInv, Configured
  <1>9. CASE UNCHANGED <<vars, demoVars>>
    BY <1>1, <1>2, <1>3, <1>9 DEF demoVars, JudgeInv, Configured
  <1> QED
    BY <1>4, <1>5, <1>6, <1>7, <1>8, <1>9

LEMMA JudgeHolds == DemoSpec => []JudgeInv
  <1>1. DemoInit => JudgeInv
    BY DEF DemoInit, JudgeInv, Configured, Running
  <1>2. DemoInv /\ JudgeInv /\ [DemoNext]_<<vars, demoVars>> => JudgeInv'
    BY JudgeSetup, JudgeProbes, JudgeRest DEF DemoNext, Exited
  <1> QED
    BY <1>1, <1>2, DemoInvHolds, PTL DEF DemoSpec

-----------------------------------------------------------------------------
(* What the calls of the probes deserve.                                   *)

CatalogFacts ==
    TypeOK /\ CatalogInv /\ OneNumberPerReturn /\ EntriesRight /\ IndexesInv /\ SourceInv
    /\ VerdictsRight /\ OrdinaryProcess

(* The entry that is found by a name is one of those that have the name.   *)
LEMMA FoundByName ==
    ASSUME TypeOK, NEW name, FindByFunctionName(name) # NoEntry
    PROVE  \E i \in Positions : /\ FindByFunctionName(name) = m_entries[i]
                                /\ m_entries[i].FunctionName = name
  <1> DEFINE named == {i \in Positions : m_entries[i].FunctionName = name}
  <1>1. FindByFunctionName(name) = First(named)
    BY DEF FindByFunctionName
  <1>2. named # {} /\ named \in SUBSET Positions
    BY <1>1 DEF First
  <1>3. \E i \in named : First(named) = m_entries[i]
    BY <1>2, FirstFinds
  <1> QED
    BY <1>1, <1>3

(* The stub of a function that the demo calls is where ntdll says.         *)
LEMMA StubOfName ==
    ASSUME TypeOK, Resolved, NEW name \in {AllocateName, ProtectName}
    PROVE  /\ StubOf(name) \in process.Stubs
           /\ NtdllModule \in DOMAIN Modules
           /\ \E x \in DOMAIN Modules[NtdllModule].Exports :
                 /\ Modules[NtdllModule].Exports[x].FunctionName = name
                 /\ Modules[NtdllModule].Exports[x].Address = StubOf(name).FunctionAddress
  <1>1. process \in Processes /\ NtdllModule \in DOMAIN Modules
    BY DemoAssumption DEF TypeOK, Modules
  <1>2. PICK x \in DOMAIN Modules[NtdllModule].Exports :
            Modules[NtdllModule].Exports[x].FunctionName = name
    BY DEF Resolved
  <1>3. PICK s \in process.Stubs :
            s.FunctionAddress = Modules[NtdllModule].Exports[x].Address
    BY <1>1, <1>2, ServicesAreStubs DEF Modules
  <1>4. Modules[NtdllModule].Exports[x] = [FunctionName |-> name, Address |-> s.FunctionAddress]
    <2>1. Modules[NtdllModule] \in Module
      BY <1>1, ProcessType, InSeq
    <2>2. Modules[NtdllModule].Exports \in Seq(Export)
      BY <2>1 DEF Module
    <2>3. Modules[NtdllModule].Exports[x] \in Export
      BY <1>2, <2>2, InSeq
    <2> QED
      BY <1>2, <1>3, <2>3 DEF Export
  <1>5. /\ StubOf(name) \in process.Stubs
        /\ \E y \in DOMAIN Modules[NtdllModule].Exports :
              Modules[NtdllModule].Exports[y] =
                  [FunctionName |-> name, Address |-> StubOf(name).FunctionAddress]
    BY <1>3, <1>4 DEF StubOf
  <1> QED
    BY <1>1, <1>5

(* What the catalog finds by the name is that stub, which an export names. *)
LEMMA EntryOfName ==
    ASSUME CatalogFacts, Resolved, NEW name \in {AllocateName, ProtectName},
           FindByFunctionName(name) # NoEntry
    PROVE  /\ StubOf(name) \in ExportedStubs
           /\ FindByFunctionName(name).Number = StubOf(name).Number
  <1>1. PICK i \in Positions : /\ FindByFunctionName(name) = m_entries[i]
                               /\ m_entries[i].FunctionName = name
    BY FoundByName DEF CatalogFacts
  <1>2. PICK k \in DOMAIN Modules : \E x \in DOMAIN Modules[k].Exports :
            /\ Usable(Modules[k]) /\ IsCode(Modules[k].Exports[x], Modules[k])
            /\ Modules[k].Exports[x].FunctionName = name
            /\ Modules[k].Exports[x].Address = m_entries[i].FunctionAddress
    BY <1>1 DEF CatalogFacts, SourceInv, FromExport
  <1>3. PICK x \in DOMAIN Modules[k].Exports :
            /\ Usable(Modules[k]) /\ IsCode(Modules[k].Exports[x], Modules[k])
            /\ Modules[k].Exports[x].FunctionName = name
            /\ Modules[k].Exports[x].Address = m_entries[i].FunctionAddress
    BY <1>2
  <1>4. StubOf(name) \in process.Stubs
        /\ Modules[k].Exports[x].Address = StubOf(name).FunctionAddress
    BY <1>3, StubOfName DEF CatalogFacts, OrdinaryProcess, OneAddress
  <1>5. StubOf(name) \in ExportedStubs
    <2>1. Modules[k] \in Module
      BY ProcessType, InSeq DEF CatalogFacts
    <2>2. /\ Modules[k].Directory.VirtualAddress \in Nat /\ Modules[k].Directory.Size \in Nat
          /\ StubOf(name) \in Stub
      BY <1>4, <2>1, ProcessType DEF Module, CatalogFacts
    <2>3. StubOf(name).FunctionAddress \notin
              Modules[k].Directory.VirtualAddress ..
              Modules[k].Directory.VirtualAddress + Modules[k].Directory.Size - 1
      BY <1>3, <1>4, <2>2 DEF IsCode, IsForwardedExport, Stub
    <2> QED
      BY <1>3, <1>4, <2>3 DEF ExportedStubs
  <1>6. Plain(StubOf(name))
    BY <1>5 DEF CatalogFacts, OrdinaryProcess, PlainStubs
  <1>7. m_entries[i].Number = StubOf(name).Number
    BY <1>3, <1>4, <1>6 DEF CatalogFacts, EntriesRight
  <1> QED
    BY <1>1, <1>5, <1>7

(* A service's number is its own 16 bits.                                  *)
LEMMA NumberIsShort ==
    ASSUME CatalogFacts, NEW s \in process.Stubs
    PROVE  SystemCallNumber(s.Number) = s.Number
  <1>1. s.Number \in [1 .. 4 -> Byte] /\ s.Number[3] = 0 /\ s.Number[4] = 0
    BY ProcessType, DemoAssumption DEF CatalogFacts, Stub, Number, OrdinaryProcess, ShortNumbers
  <1> QED
    BY <1>1 DEF SystemCallNumber

(* A call of a stub's service behind an entry's syscall instruction, which *)
(* need not be a stub's, is Clean in the stub and a mismatch elsewhere.    *)
LEMMA GadgetVerdict ==
    ASSUME CatalogFacts, NEW s \in ExportedStubs, pc = "built", NEW i \in Positions
    PROVE  Classify(ReturnAddress(m_entries[i].SyscallAddress), s.Number) =
               IF m_entries[i].SyscallAddress = s.SyscallAddress
               THEN "Clean" ELSE "SyscallGadgetMismatch"
  <1> DEFINE e == m_entries[i]
             owner == FindByReturnAddress(ReturnAddress(e.SyscallAddress))
  <1>1. owner # NoEntry /\ owner.Number = e.Number
    BY OwnerFound DEF CatalogFacts, ExpectedReturnAddress
  <1>2. FindPrimaryBySyscallNumber(s.Number) # NoEntry
    BY DEF CatalogFacts, VerdictsRight, Classify
  <1>3. CASE e.SyscallAddress = s.SyscallAddress
    <2>1. Classify(s.SyscallAddress + 2, s.Number) = "Clean"
      BY DEF CatalogFacts, VerdictsRight
    <2> QED
      BY <1>3, <2>1 DEF ReturnAddress
  <1>4. CASE e.SyscallAddress # s.SyscallAddress
    <2>1. PICK m \in Nat : LastMov(m, e.FunctionAddress, e.SyscallAddress) /\ e.Number = NumberAt(m)
      BY DEF CatalogFacts, CatalogInv, EntriesInv, Decoded
    <2>2. IsSyscall(e.SyscallAddress) /\ NoSyscallBefore(e.FunctionAddress, e.SyscallAddress)
      BY DEF CatalogFacts, CatalogInv, EntriesInv, Decoded
    <2>3. e.FunctionAddress \in Nat /\ e.SyscallAddress \in Nat
      BY EntryType DEF CatalogFacts
    <2>4. LastMov(m, m, e.SyscallAddress) /\ e.FunctionAddress <= m
      BY <2>1 DEF LastMov
    <2>5. NoSyscallBefore(m, e.SyscallAddress)
      BY <2>2, <2>3, <2>4 DEF NoSyscallBefore
    <2>6. e.Number # s.Number
      BY <1>4, <2>1, <2>2, <2>3, <2>4, <2>5 DEF CatalogFacts, OrdinaryProcess, OwnNumbers
    <2> QED
      BY <1>1, <1>2, <1>4, <2>6 DEF Classify
  <1> QED
    BY <1>3, <1>4

(* The verdicts of the probes, when nothing fails.                         *)
LEMMA ProbeVerdicts ==
    ASSUME CatalogFacts, Resolved, FromCatalog
    PROVE  /\ Verdict(Call(1)) = "Clean"
           /\ Verdict(Call(2)) = "RawDirectSyscall" /\ Verdict(Call(3)) = "RawDirectSyscall"
           /\ Verdict(Call(4)) = IF testSyscalls.Gadget = StubOf(ProtectName).SyscallAddress
                                 THEN "Clean" ELSE "SyscallGadgetMismatch"
  <1>1. /\ FindByFunctionName(AllocateName) # NoEntry /\ FindByFunctionName(ProtectName) # NoEntry
        /\ FindByFunctionName(QueryTimeName) # NoEntry /\ pc = "built"
    BY DEF FromCatalog, Entries
  <1>2. /\ StubOf(AllocateName) \in ExportedStubs /\ StubOf(ProtectName) \in ExportedStubs
        /\ testSyscalls.Allocate = StubOf(AllocateName).Number
        /\ testSyscalls.Protect = StubOf(ProtectName).Number
        /\ testSyscalls.Gadget = FindByFunctionName(QueryTimeName).SyscallAddress
    BY <1>1, EntryOfName DEF FromCatalog, TestSyscalls
  <1>3. /\ SystemCallNumber(StubOf(AllocateName).Number) = StubOf(AllocateName).Number
        /\ SystemCallNumber(StubOf(ProtectName).Number) = StubOf(ProtectName).Number
    BY <1>2, NumberIsShort DEF ExportedStubs
  <1>4. Verdict(Call(1)) = "Clean"
    <2>1. Call(1) = <<StubOf(AllocateName).Number,
                      ReturnAddress(StubOf(AllocateName).SyscallAddress)>>
      BY DEF Call
    <2>2. Classify(StubOf(AllocateName).SyscallAddress + 2, StubOf(AllocateName).Number) = "Clean"
      BY <1>1, <1>2 DEF CatalogFacts, VerdictsRight
    <2> QED
      BY <1>3, <2>1, <2>2 DEF Verdict, ReturnAddress
  <1>5. Verdict(Call(2)) = "RawDirectSyscall" /\ Verdict(Call(3)) = "RawDirectSyscall"
    <2>1. /\ Call(2) = <<StubOf(AllocateName).Number, 0>>
          /\ Call(3) = <<StubOf(ProtectName).Number, 0>>
      BY <1>2 DEF Call, OutsideTheCatalog
    <2>2. /\ Classify(0, StubOf(AllocateName).Number) = "RawDirectSyscall"
          /\ Classify(0, StubOf(ProtectName).Number) = "RawDirectSyscall"
      BY <1>1, <1>2 DEF CatalogFacts, VerdictsRight
    <2> QED
      BY <1>3, <2>1, <2>2 DEF Verdict
  <1>6. Verdict(Call(4)) = IF testSyscalls.Gadget = StubOf(ProtectName).SyscallAddress
                           THEN "Clean" ELSE "SyscallGadgetMismatch"
    <2>1. Call(4) = <<StubOf(ProtectName).Number, ReturnAddress(testSyscalls.Gadget)>>
      BY <1>2 DEF Call
    <2>2. PICK i \in Positions : FindByFunctionName(QueryTimeName) = m_entries[i]
      BY <1>1, FoundByName DEF CatalogFacts
    <2>3. testSyscalls.Gadget = m_entries[i].SyscallAddress
      BY <1>2, <2>2
    <2> QED
      BY <1>1, <1>2, <1>3, <2>1, <2>3, GadgetVerdict DEF Verdict
  <1> QED
    BY <1>4, <1>5, <1>6

LEMMA FactsHold == DemoSpec /\ OrdinaryProcess => []CatalogFacts
  <1>1. OrdinaryProcess => PlainStubs
    BY DEF OrdinaryProcess
  <1> QED
    BY <1>1, DemoBuildsCatalog, TypeCorrect, CatalogCorrect, OneNumber, RightEntries,
       IndexesCorrect, SourceCorrect, RightVerdicts, StaysOrdinary, PTL DEF CatalogFacts

(* What the events are, once a probe has run.                              *)
LEMMA EventVerdicts ==
    ASSUME CatalogFacts, DemoInv, JudgeInv, NEW k \in 1 .. Len(events)
    PROVE  /\ k \in Probes
           /\ \/ events[k] \in {"QueryFailed", "WorkerFailed"}
              \/ events[k] = CASE k = 1 -> "Clean"
                               [] k = 2 -> "RawDirectSyscall"
                               [] k = 3 -> "RawDirectSyscall"
                               [] k = 4 -> IF testSyscalls.Gadget = StubOf(ProtectName).SyscallAddress
                                           THEN "Clean" ELSE "SyscallGadgetMismatch"
  <1>1. Len(events) \in Nat /\ Len(events) <= 4
    BY DEF DemoInv, Typed, JudgeInv
  <1>2. Resolved /\ FromCatalog
    BY <1>1 DEF JudgeInv, Configured
  <1>3. events[k] \in {"QueryFailed", "WorkerFailed"} \/ events[k] = Verdict(Call(k))
    BY DEF JudgeInv, EventOf
  <1>4. k \in 1 .. 4
    BY <1>1
  <1> QED
    BY <1>2, <1>3, <1>4, ProbeVerdicts DEF Probes

LEMMA TestSyscallsType ==
    ASSUME TypeOK, JudgeInv
    PROVE  testSyscalls \in {<<>>} \cup [Allocate : Number, Protect : Number, Gadget : Nat]
  <1>1. CASE testSyscalls = <<>>
    BY <1>1
  <1>2. CASE FromCatalog
    <2>1. ASSUME NEW name, FindByFunctionName(name) # NoEntry
          PROVE  /\ FindByFunctionName(name).Number \in Number
                 /\ FindByFunctionName(name).SyscallAddress \in Nat
      <3>1. PICK i \in Positions : FindByFunctionName(name) = m_entries[i]
        BY <2>1, FoundByName
      <3>2. m_entries[i] \in SyscallEntry
        BY EntryType
      <3> QED
        BY <3>1, <3>2 DEF SyscallEntry
    <2> QED
      BY <1>2, <2>1 DEF FromCatalog, Entries, TestSyscalls
  <1> QED
    BY <1>1, <1>2 DEF JudgeInv

(* In an ordinary process every variable of the demo has its type, and no  *)
(* probe's call is unknown to the catalog.                                 *)
THEOREM DemoTypes == DemoSpec /\ OrdinaryProcess => []DemoTypeOK
  <1>1. CatalogFacts /\ DemoInv /\ JudgeInv => DemoTypeOK
    <2> SUFFICES ASSUME CatalogFacts, DemoInv, JudgeInv PROVE DemoTypeOK
      OBVIOUS
    <2> DEFINE Known == {"Clean", "RawDirectSyscall", "SyscallGadgetMismatch", "QueryFailed",
                         "WorkerFailed"}
    <2>1. \A k \in 1 .. Len(events) : events[k] \in Known
      BY EventVerdicts DEF Probes
    <2>2. events \in Seq(Known)
      BY <2>1 DEF DemoInv, Typed
    <2>3. testSyscalls \in {<<>>} \cup [Allocate : Number, Protect : Number, Gadget : Nat]
      BY TestSyscallsType DEF CatalogFacts
    <2> QED
      BY <2>2, <2>3 DEF DemoInv, Typed, JudgeInv, DemoTypeOK
  <1> QED
    BY <1>1, FactsHold, DemoInvHolds, JudgeHolds, PTL

(* In an ordinary process the demo exits with success exactly when every   *)
(* probe has been watched and its gadget is not the protecting stub's own: *)
(* whatever module the scan began with, whatever stands around the stubs,  *)
(* and whatever the function that tells the time is.                       *)
THEOREM ExitCodeTells == DemoSpec /\ OrdinaryProcess => []ExitTellsDetection
  <1>1. CatalogFacts /\ DemoInv /\ JudgeInv => ExitTellsDetection
    <2> SUFFICES ASSUME CatalogFacts, DemoInv, JudgeInv, status \in {0, 1}
                 PROVE  status = 0 <=>
                            /\ \A probe \in Probes :
                                  events[probe] \notin {"QueryFailed", "WorkerFailed"}
                            /\ testSyscalls.Gadget # StubOf(ProtectName).SyscallAddress
      BY DEF ExitTellsDetection
    <2>1. Len(events) = 4 /\ (status = 0 <=> Passed)
      BY DEF JudgeInv
    <2>2. \A k \in Probes : k \in 1 .. Len(events)
      BY <2>1 DEF Probes
    <2>3. ASSUME NEW k \in Probes
          PROVE  \/ events[k] \in {"QueryFailed", "WorkerFailed"}
                 \/ events[k] = IF k = 4 /\ testSyscalls.Gadget = StubOf(ProtectName).SyscallAddress
                                THEN "Clean" ELSE Expected[k]
      BY <2>2, EventVerdicts DEF Probes, Expected
    <2>4. \A k \in Probes : Expected[k] \notin {"QueryFailed", "WorkerFailed"}
      BY DEF Probes, Expected
    <2>5. Expected[4] # "Clean" /\ 4 \in Probes
      BY DEF Probes, Expected
    <2>6. Passed <=> \A k \in Probes : events[k] = Expected[k]
      BY DEF Passed
    <2> QED
      BY <2>1, <2>3, <2>4, <2>5, <2>6
  <1> QED
    BY <1>1, FactsHold, DemoInvHolds, JudgeHolds, PTL
=============================================================================
