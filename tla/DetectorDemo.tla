----------------------------- MODULE DetectorDemo -----------------------------
(***************************************************************************)
(* The demo program: it builds the catalog, hands what it finds there to   *)
(* the test system calls, runs four probes in a session, and judges the    *)
(* events that it gets.  A NativeVirtualAllocation releases its memory     *)
(* whichever way main returns.                                             *)
(*                                                                         *)
(* RunProbe is what ProbeContract promises for a probe of one system call. *)
(***************************************************************************)
EXTENDS SyscallCatalog, Integers

CONSTANTS AllocateName, ProtectName, QueryTimeName,  \* the functions it looks for
          NtdllModule, Win32uModule,                 \* positions in Modules
          Faults                                     \* what may go wrong outside this code

FaultNames == {"lookup", "install", "worker", "query", "allocate", "free"}

ASSUME DemoAssumption ==
    /\ {AllocateName, ProtectName, QueryTimeName} \subseteq Nat \X Nat
    /\ \A p \in Processes : {NtdllModule, Win32uModule} \subseteq DOMAIN p.Modules
    /\ ImmediateSize = 4
    /\ Faults \subseteq FaultNames

\* Allocating and protecting are system calls in every Windows; the time is not.
ASSUME ServicesAreStubs ==
    \A p \in Processes : \A x \in DOMAIN p.Modules[NtdllModule].Exports :
        LET found == p.Modules[NtdllModule].Exports[x]
        IN  found.FunctionName \in {AllocateName, ProtectName}
                => \E s \in p.Stubs : s.FunctionAddress = found.Address

VARIABLES step,          \* of main
          status,        \* what main is returning
          testSyscalls,  \* the globals that ConfigureTestSyscalls sets
          events,        \* the verdicts of the probes, in their order
          constructed,   \* how many NativeVirtualAllocations there are
          baseAddress,   \* for each, whether m_baseAddress is set
          memory         \* and what has become of the memory there

Running == -1
SetupFailureExitCode == 2

\* The probes and the allocation that each has: baseline, raw allocate, raw
\* protect and gadget protect.
Probes == 1 .. 4
Allocates == {1, 2}

allocationVars == <<constructed, baseAddress, memory>>
demoVars == <<step, status, testSyscalls, events, allocationVars>>

DemoInit ==
    /\ Init
    /\ step = "load" /\ status = Running
    /\ testSyscalls = <<>> /\ events = <<>>
    /\ constructed = 0
    /\ baseAddress = [a \in Probes |-> FALSE]
    /\ memory = [a \in Probes |-> "none"]

MayFail(fault) == {TRUE} \cup (IF fault \in Faults THEN {FALSE} ELSE {})

Return(code) == step' = "unwind" /\ status' = code

-----------------------------------------------------------------------------
(* The setup.                                                              *)

\* The procedures of NativeProcedureTable.
Resolved ==
    \A name \in {AllocateName, ProtectName} :
        \E x \in DOMAIN Modules[NtdllModule].Exports :
            Modules[NtdllModule].Exports[x].FunctionName = name

\* ntdll and its procedures are looked up.
Load ==
    /\ step = "load"
    /\ \/ Resolved /\ step' = "build" /\ UNCHANGED status
       \/ (~Resolved \/ "lookup" \in Faults) /\ Return(SetupFailureExitCode)
    /\ UNCHANGED <<vars, testSyscalls, events, allocationVars>>

BuildForCurrentProcess ==
    /\ step = "build" /\ pc # "built" /\ Next
    /\ UNCHANGED demoVars

Entries == {FindByFunctionName(name) : name \in {AllocateName, ProtectName, QueryTimeName}}
HasWin32uEntry == \E i \in Positions : m_entries[i].Module = Win32uModule

\* A mutant: the numbers change places.
SwappedTestSyscalls(allocate, protect, queryTime) ==
    [Allocate |-> protect.Number, Protect |-> allocate.Number,
     Gadget |-> queryTime.SyscallAddress]
TestSyscalls(allocate, protect, queryTime) ==
    [Allocate |-> allocate.Number, Protect |-> protect.Number,
     Gadget |-> queryTime.SyscallAddress]

ConfigureTestSyscalls ==
    /\ step = "build" /\ pc = "built"
    /\ IF NoEntry \in Entries \/ ~HasWin32uEntry
       THEN Return(SetupFailureExitCode) /\ UNCHANGED testSyscalls
       ELSE /\ testSyscalls' = TestSyscalls(FindByFunctionName(AllocateName),
                                            FindByFunctionName(ProtectName),
                                            FindByFunctionName(QueryTimeName))
            /\ step' = "install" /\ UNCHANGED status
    /\ UNCHANGED <<vars, events, allocationVars>>

OpenSession ==
    /\ step = "install"
    /\ \/ step' = "construct" /\ UNCHANGED status
       \/ "install" \in Faults /\ Return(SetupFailureExitCode)
    /\ UNCHANGED <<vars, testSyscalls, events, allocationVars>>

-----------------------------------------------------------------------------
(* The probes.                                                             *)

Probe == Len(events) + 1

Construct ==
    /\ step = "construct" /\ constructed' = constructed + 1
    /\ step' = IF Probe \in Allocates THEN "probe" ELSE "allocate"
    /\ UNCHANGED <<vars, status, testSyscalls, events, baseAddress, memory>>

\* NativeVirtualAllocation::Allocate; its Reset finds no memory here.
AllocateForProbe ==
    /\ step = "allocate" /\ ~baseAddress[constructed]
    /\ \E ok \in MayFail("allocate") :
          IF ok THEN /\ baseAddress' = [baseAddress EXCEPT ![constructed] = TRUE]
                     /\ memory' = [memory EXCEPT ![constructed] = "live"]
                     /\ step' = "probe" /\ UNCHANGED status
                ELSE Return(SetupFailureExitCode) /\ UNCHANGED <<baseAddress, memory>>
    /\ UNCHANGED <<vars, testSyscalls, events, constructed>>

\* The stub of a function of ntdll, as it is.
StubOf(name) ==
    CHOOSE s \in process.Stubs :
        \E x \in DOMAIN Modules[NtdllModule].Exports :
            Modules[NtdllModule].Exports[x] =
                [FunctionName |-> name, Address |-> s.FunctionAddress]

OutsideTheCatalog == 0  \* where the MASM helpers have their syscall instructions

\* The system call of a probe: its number, and where it returns to.
Call(probe) ==
    CASE probe = 1 -> <<StubOf(AllocateName).Number,
                        ReturnAddress(StubOf(AllocateName).SyscallAddress)>>
      [] probe = 2 -> <<testSyscalls.Allocate, OutsideTheCatalog>>
      [] probe = 3 -> <<testSyscalls.Protect, OutsideTheCatalog>>
      [] probe = 4 -> <<testSyscalls.Protect, ReturnAddress(testSyscalls.Gadget)>>

\* SystemCallNumber is 16 bits wide.
SystemCallNumber(number) == [number EXCEPT ![3] = 0, ![4] = 0]

Verdict(call) == Classify(call[2], SystemCallNumber(call[1]))

\* The verdict of the probe's event, and whether the probe has run.
Outcomes(probe) ==
    {<<Verdict(Call(probe)), TRUE>>}
    \cup (IF "query" \in Faults THEN {<<"QueryFailed", TRUE>>} ELSE {})
    \cup (IF "worker" \in Faults THEN {"WorkerFailed"} \X BOOLEAN ELSE {})

\* The kernel allocates when it is asked to, whoever asks.
Obtains(probe) == Call(probe)[1] = StubOf(AllocateName).Number

RunProbe ==
    /\ step = "probe"
    /\ \E outcome \in Outcomes(Probe), ok \in MayFail("allocate") :
          LET obtained == outcome[2] /\ Probe \in Allocates /\ Obtains(Probe) /\ ok
          IN  /\ events' = Append(events, outcome[1])
              /\ baseAddress' = [baseAddress EXCEPT ![constructed] = @ \/ obtained]
              /\ memory' = [memory EXCEPT ![constructed] = IF obtained THEN "live" ELSE @]
    /\ step' = IF Probe = 4 THEN "expect" ELSE "construct"
    /\ UNCHANGED <<vars, status, testSyscalls, constructed>>

Expected == <<"Clean", "RawDirectSyscall", "RawDirectSyscall", "SyscallGadgetMismatch">>
Passed == \A probe \in Probes : events[probe] = Expected[probe]

ExpectVerdicts ==
    /\ step = "expect" /\ Return(IF Passed THEN 0 ELSE 1)
    /\ UNCHANGED <<vars, testSyscalls, events, allocationVars>>

-----------------------------------------------------------------------------
(* The way out: the destructors, from the last allocation to the first.    *)

ResetAfterProbe == constructed \in 1 .. Len(events)  \* a mutant: when it was probed
Present == constructed > 0

\* A failed NtFreeVirtualMemory leaves the memory where it is.
Destroy ==
    /\ step = "unwind" /\ Present
    /\ constructed' = constructed - 1
    /\ IF baseAddress[constructed]
       THEN \E ok \in MayFail("free") :
               memory' = [memory EXCEPT ![constructed] = IF ok THEN "freed" ELSE "refused"]
       ELSE UNCHANGED memory
    /\ UNCHANGED <<vars, step, status, testSyscalls, events, baseAddress>>

\* The session, the catalog and main itself.
Exit ==
    /\ step = "unwind" /\ ~Present /\ step' = "exited"
    /\ UNCHANGED <<vars, status, testSyscalls, events, allocationVars>>

Exited == step = "exited" /\ UNCHANGED <<vars, demoVars>>

DemoNext ==
    \/ Load \/ BuildForCurrentProcess \/ ConfigureTestSyscalls \/ OpenSession
    \/ Construct \/ AllocateForProbe \/ RunProbe \/ ExpectVerdicts
    \/ Destroy \/ Exit \/ Exited

DemoSpec == DemoInit /\ [][DemoNext]_<<vars, demoVars>>

-----------------------------------------------------------------------------
(* Properties.                                                             *)

(* Type correctness of the demo, whose catalog has a type of its own.  The *)
(* catalog knows the number of whatever a probe calls.                     *)
DemoTypeOK ==
    /\ step \in {"load", "build", "install", "construct", "allocate", "probe", "expect",
                 "unwind", "exited"}
    /\ status \in {Running, 0, 1, SetupFailureExitCode}
    /\ testSyscalls \in {<<>>} \cup [Allocate : Number, Protect : Number, Gadget : Nat]
    /\ events \in Seq({"Clean", "RawDirectSyscall", "SyscallGadgetMismatch", "QueryFailed",
                       "WorkerFailed"})
    /\ Len(events) <= 4
    /\ constructed \in 0 .. 4
    /\ baseAddress \in [Probes -> BOOLEAN]
    /\ memory \in [Probes -> {"none", "live", "freed", "refused"}]

(* Whichever way main returns, after whichever probe, every allocation has *)
(* been released, or the kernel has refused to: until then an object of    *)
(* main answers for it.                                                    *)
EveryAllocationReleased ==
    \A a \in Probes : memory[a] = "live" => a <= constructed /\ step # "exited"

(* The demo tells success exactly when every probe has been watched, and   *)
(* the gadget lies in no stub of the function that it is used for: the     *)
(* catalog gives the helpers the right numbers, and gives no call of this  *)
(* process another verdict than its stubs deserve.                         *)
ExitTellsDetection ==
    status \in {0, 1} =>
        (status = 0 <=> /\ \A probe \in Probes : events[probe] \notin {"QueryFailed", "WorkerFailed"}
                        /\ testSyscalls.Gadget # StubOf(ProtectName).SyscallAddress)
=============================================================================
