----------------------------- MODULE AllocMonitor -----------------------------
(***************************************************************************)
(* The standalone allocation monitor: a worker allocates memory through a  *)
(* system call of its own, the thunk holds it on its way back, a monitor   *)
(* looks at what the thunk has stored, and main waits for both and judges. *)
(*                                                                         *)
(* Only the worker's direct call stores anything in the thunk: every other *)
(* return of the process passes through it with another previous PC, and   *)
(* g_AllocCbCount, which counts those, is only printed.                    *)
(***************************************************************************)
EXTENDS Integers, Sequences, FiniteSets

CONSTANTS Stubs,       \* what ntdll!NtAllocateVirtualMemory may be: 32 bytes
          NumberOf,    \* the number that each of them loads: four bytes
          QueryLimit,  \* attempts at ThreadLastSystemCall, 8 in the code
          Faults       \* what may go wrong outside this code

FaultNames == {"lookup", "install", "clear", "workerThread", "monitorThread", "allocate", "free"}

Byte == 0 .. 255
Number == [1 .. 4 -> Byte]

ASSUME AllocAssumption ==
    /\ Stubs \subseteq [1 .. 32 -> Byte]
    /\ NumberOf \in [Stubs -> Number]
    /\ QueryLimit \in Nat \ {0}
    /\ Faults \subseteq FaultNames

\* What the thunk stores of a direct call, in its order.  Values that are only
\* printed are left out.
Fields == <<"DirectHits", "PrevPc", "DecodedSyscall", "StackArg5", "StackArg6">>

VARIABLES stub, syscallNumber,  \* the bytes, g_AllocSyscallNumber
          installed,            \* whether the kernel enters the thunk
          mainPc, exitCode,     \* of main; exitCode is Running until it returns
          workerPc, status,     \* of the worker; WorkerStatus, "none" at first
          stored,               \* how many of Fields the thunk has stored
          monitorPc, attempts,  \* of the monitor, with its queries
          begin, ready, ack,    \* g_AllocBegin, g_AllocCbReady, g_AllocCbAck
          workerStarted, workerDone, monitorDone,
          sawSnapshot, sawLastSyscall,  \* what the monitor has found
          workerBase,           \* g_State.WorkerBase is not 0
          memory                \* what the worker allocates

Running == -1
Zero == [k \in 1 .. 4 |-> 0]

mainVars == <<stub, syscallNumber, installed, mainPc, exitCode>>
workerVars == <<workerPc, status, stored, ready, workerStarted, workerDone, workerBase>>
monitorVars == <<monitorPc, attempts, begin, ack, monitorDone, sawSnapshot, sawLastSyscall>>
vars == <<mainVars, workerVars, monitorVars, memory>>

Init ==
    /\ stub \in Stubs /\ syscallNumber = Zero /\ installed = FALSE
    /\ mainPc = "extract" /\ exitCode = Running
    /\ workerPc = "none" /\ status = "none" /\ stored = 0
    /\ monitorPc = "none" /\ attempts = 0
    /\ begin = FALSE /\ ready = FALSE /\ ack = FALSE
    /\ workerStarted = FALSE /\ workerDone = FALSE /\ monitorDone = FALSE
    /\ sawSnapshot = FALSE /\ sawLastSyscall = FALSE
    /\ workerBase = FALSE /\ memory = "none"

MayFail(fault) == {TRUE} \cup (IF fault \in Faults THEN {FALSE} ELSE {})

-----------------------------------------------------------------------------
(* main.                                                                   *)

Main(from, to) == mainPc = from /\ mainPc' = to
Threads == UNCHANGED <<workerVars, monitorVars, memory>>

HasSyscall(i) == \E j \in i + 5 .. 31 : stub[j] = 15 /\ stub[j + 1] = 5

Candidates == {i \in 1 .. 32 : stub[i] = 184 /\ HasSyscall(i)}
\* A mutant: the last one is taken.
Last(positions) == CHOOSE i \in positions : \A j \in positions : i >= j
First(positions) == CHOOSE i \in positions : \A j \in positions : i <= j

\* The procedures of ntdll are resolved, then the number is read.
ExtractSyscallNumber ==
    /\ \E ok \in MayFail("lookup") :
          LET found == ok /\ Candidates # {}
          IN  /\ Main("extract", IF found THEN "install" ELSE "exited")
              /\ exitCode' = IF found THEN exitCode ELSE 2
              /\ syscallNumber' = IF found THEN [k \in 1 .. 4 |-> stub[First(Candidates) + k]]
                                  ELSE syscallNumber
    /\ Threads /\ UNCHANGED <<stub, installed>>

\* The status is printed and no more.
SetCallback ==
    /\ Main("install", "createWorker")
    /\ installed' \in MayFail("install")
    /\ Threads /\ UNCHANGED <<stub, syscallNumber, exitCode>>

CreateWorker ==
    /\ Main("createWorker", "createMonitor")
    /\ \E ok \in MayFail("workerThread") : workerPc' = IF ok THEN "start" ELSE "none"
    /\ UNCHANGED <<stub, syscallNumber, installed, exitCode, monitorVars, memory, status, stored,
                   ready, workerStarted, workerDone, workerBase>>

CreateMonitor ==
    /\ \E ok \in MayFail("monitorThread") :
          /\ monitorPc' = IF ok THEN "start" ELSE "none"
          /\ Main("createMonitor", IF ok /\ workerPc # "none" THEN "wait" ELSE "abandon")
    /\ UNCHANGED <<stub, syscallNumber, installed, exitCode, workerVars, memory, attempts, begin,
                   ack, monitorDone, sawSnapshot, sawLastSyscall>>

Cleared == {FALSE} \cup (IF "clear" \in Faults THEN {installed} ELSE {})

\* The callback is cleared, and the thread that was created ends with the process.
Abandon ==
    /\ Main("abandon", "exited") /\ exitCode' = 2
    /\ installed' \in Cleared
    /\ Threads /\ UNCHANGED <<stub, syscallNumber>>

OnlyMonitorDone == monitorDone  \* a mutant: the worker is not waited for
BothDone == workerDone /\ monitorDone

WaitForBoth ==
    /\ Main("wait", "clear") /\ BothDone
    /\ Threads /\ UNCHANGED <<stub, syscallNumber, installed, exitCode>>

ClearCallback ==
    /\ Main("clear", IF workerBase THEN "free" ELSE "judge")
    /\ installed' \in Cleared
    /\ Threads /\ UNCHANGED <<stub, syscallNumber, exitCode>>

Free ==
    /\ Main("free", "judge")
    /\ \E ok \in MayFail("free") : memory' = IF ok THEN "freed" ELSE "refused"
    /\ UNCHANGED <<stub, syscallNumber, installed, exitCode, workerVars, monitorVars>>

\* What the thunk has stored, as main and the monitor compare it.  All fields are
\* 0 before, and the number is decoded whole from behind the direct call.
IsStored(field) == \E i \in 1 .. stored : Fields[i] = field
DecodedSyscall == IF IsStored("DecodedSyscall") THEN syscallNumber ELSE Zero
NumberMatches == DecodedSyscall = [syscallNumber EXCEPT ![3] = 0, ![4] = 0]  \* & 0xffff

Judge ==
    /\ Main("judge", "exited")
    /\ exitCode' = IF /\ IsStored("DirectHits") /\ NumberMatches
                      /\ IsStored("StackArg5") /\ IsStored("StackArg6")
                   THEN 0 ELSE 1
    /\ Threads /\ UNCHANGED <<stub, syscallNumber, installed>>

-----------------------------------------------------------------------------
(* The worker, in its function and in the thunk.                           *)

Alive == exitCode = Running
Worker(from, to) ==
    /\ Alive /\ workerPc = from /\ workerPc' = to
    /\ UNCHANGED <<mainVars, monitorVars>>

Start == Worker("start", "begin") /\ workerStarted' = TRUE
         /\ UNCHANGED <<status, stored, ready, workerDone, workerBase, memory>>

SeeBegin == Worker("begin", "call") /\ begin
            /\ UNCHANGED <<status, stored, ready, workerStarted, workerDone, workerBase, memory>>

\* DirectNtAllocateVirtualMemory, up to the kernel's return.
Allocate ==
    /\ Worker("call", IF installed THEN "thunk" ELSE "returned")
    /\ \E ok \in MayFail("allocate") :
          /\ memory' = IF ok THEN "allocated" ELSE memory
          /\ status' = IF ok THEN "success" ELSE "failure"
    /\ UNCHANGED <<stored, ready, workerStarted, workerDone, workerBase>>

\* A mutant: the thunk announces its fields before it has stored the last.
AlmostStored == stored >= Len(Fields) - 1
AllStored == stored = Len(Fields)

Store ==
    /\ Worker("thunk", "thunk") /\ stored < Len(Fields) /\ stored' = stored + 1
    /\ UNCHANGED <<status, ready, workerStarted, workerDone, workerBase, memory>>

SetReady ==
    /\ Worker("thunk", "thunk") /\ AllStored /\ ~ready /\ ready' = TRUE
    /\ UNCHANGED <<status, stored, workerStarted, workerDone, workerBase, memory>>

LeaveThunk ==
    /\ Worker("thunk", "returned") /\ ready /\ ack
    /\ UNCHANGED <<status, stored, ready, workerStarted, workerDone, workerBase, memory>>

\* The worker writes to its memory, if it has any.
UseMemory ==
    /\ Worker("returned", "report")
    /\ UNCHANGED <<status, stored, ready, workerStarted, workerDone, workerBase, memory>>

Report ==
    /\ Worker("report", "done")
    /\ workerBase' = (status = "success")
    /\ UNCHANGED <<status, stored, ready, workerStarted, workerDone, memory>>

SetWorkerDone ==
    /\ Worker("done", "gone") /\ workerDone' = TRUE
    /\ UNCHANGED <<status, stored, ready, workerStarted, workerBase, memory>>

WorkerStep ==
    Start \/ SeeBegin \/ Allocate \/ Store \/ SetReady \/ LeaveThunk \/ UseMemory \/ Report
    \/ SetWorkerDone

-----------------------------------------------------------------------------
(* The monitor.                                                            *)

Monitor(from, to) ==
    /\ Alive /\ monitorPc = from /\ monitorPc' = to
    /\ UNCHANGED <<mainVars, workerVars, memory>>

LetBegin ==
    /\ Monitor("start", "poll") /\ workerStarted /\ begin' = TRUE
    /\ UNCHANGED <<attempts, ack, monitorDone, sawSnapshot, sawLastSyscall>>

\* The loop ends with Ready, or without it when its spins run out: they are a
\* number and no time, so they may run out at any point.
EndPoll ==
    /\ Monitor("poll", "test")
    /\ UNCHANGED <<attempts, begin, ack, monitorDone, sawSnapshot, sawLastSyscall>>

TestReady ==
    /\ Monitor("test", IF ready THEN "compare" ELSE "acknowledge")
    /\ UNCHANGED <<attempts, begin, ack, monitorDone, sawSnapshot, sawLastSyscall>>

Compare ==
    /\ Monitor("compare", "query")
    /\ sawSnapshot' = /\ IsStored("PrevPc") /\ NumberMatches
                      /\ IsStored("StackArg5") /\ IsStored("StackArg6")
    /\ UNCHANGED <<attempts, begin, ack, monitorDone, sawLastSyscall>>

\* A mutant: one attempt too many.
OnceMore == attempts < QueryLimit
TriesAgain == attempts + 1 < QueryLimit

\* The kernel refuses to say, or tells the latest call of the worker, which is
\* the direct one as long as the thunk holds it.
Query ==
    /\ \E answered \in BOOLEAN :
          LET found == answered /\ workerPc = "thunk"
          IN  /\ sawLastSyscall' = found
              /\ Monitor("query", IF found \/ ~TriesAgain THEN "acknowledge" ELSE "query")
    /\ attempts' = attempts + 1
    /\ UNCHANGED <<begin, ack, monitorDone, sawSnapshot>>

AckIfReady == ready  \* a mutant: a call that comes later is held for ever
Acknowledged == TRUE

Acknowledge ==
    /\ Monitor("acknowledge", "done") /\ ack' = Acknowledged
    /\ UNCHANGED <<attempts, begin, monitorDone, sawSnapshot, sawLastSyscall>>

SetMonitorDone ==
    /\ Monitor("done", "gone") /\ monitorDone' = TRUE
    /\ UNCHANGED <<attempts, begin, ack, sawSnapshot, sawLastSyscall>>

MonitorStep ==
    LetBegin \/ EndPoll \/ TestReady \/ Compare \/ Query \/ Acknowledge \/ SetMonitorDone

-----------------------------------------------------------------------------
MainStep ==
    ExtractSyscallNumber \/ SetCallback \/ CreateWorker \/ CreateMonitor \/ Abandon
    \/ WaitForBoth \/ ClearCallback \/ Free \/ Judge

\* YieldProcessor, or pause: every wait of this program is a loop.
Spin ==
    /\ \/ mainPc = "wait" /\ ~BothDone
       \/ workerPc = "begin" /\ ~begin
       \/ workerPc = "thunk" /\ ready /\ ~ack
       \/ monitorPc = "start" /\ ~workerStarted
    /\ UNCHANGED vars

Exited == mainPc = "exited" /\ UNCHANGED vars

Next == MainStep \/ WorkerStep \/ MonitorStep \/ Spin \/ Exited

Fairness == WF_vars(MainStep) /\ WF_vars(WorkerStep) /\ WF_vars(MonitorStep)

Spec == Init /\ [][Next]_vars
FairSpec == Spec /\ Fairness

-----------------------------------------------------------------------------
(* Properties.                                                             *)

TypeOK ==
    /\ stub \in Stubs /\ syscallNumber \in Number
    /\ installed \in BOOLEAN
    /\ mainPc \in {"extract", "install", "createWorker", "createMonitor", "abandon", "wait",
                   "clear", "free", "judge", "exited"}
    /\ exitCode \in {Running, 0, 1, 2}
    /\ workerPc \in {"none", "start", "begin", "call", "thunk", "returned", "report", "done", "gone"}
    /\ status \in {"none", "success", "failure"}
    /\ stored \in 0 .. Len(Fields)
    /\ monitorPc \in {"none", "start", "poll", "test", "compare", "query", "acknowledge", "done",
                      "gone"}
    /\ attempts \in 0 .. QueryLimit
    /\ {begin, ready, ack, workerStarted, workerDone, monitorDone, sawSnapshot, sawLastSyscall,
        workerBase} \subseteq BOOLEAN
    /\ memory \in {"none", "allocated", "freed", "refused"}

\* The direct call is behind the worker.
Called == workerPc \in {"thunk", "returned", "report", "done", "gone"}

(* The direct call asks for the service that the stub in ntdll asks for,   *)
(* whatever bytes its number has.                                          *)
CallsAllocate == Called => syscallNumber = NumberOf[stub]

(* While the monitor compares what the thunk has stored, and asks about    *)
(* the worker, the thunk has stored it all and holds the worker, although  *)
(* the monitor may have stopped to wait for it long ago.                   *)
HeldWhileJudged ==
    monitorPc \in {"compare", "query"} =>
        /\ workerPc = "thunk" /\ ready /\ ~ack
        /\ stored = Len(Fields)

(* main judges later than the monitor and from the same variables: where   *)
(* the monitor has looked at all, the two come to one verdict.             *)
VerdictsAgree ==
    exitCode \in {0, 1} /\ attempts > 0 => (exitCode = 0 <=> sawSnapshot)

(* The worker writes to memory that it has, and whichever way main returns *)
(* the memory is released, unless the kernel has refused to.               *)
MemoryReleased ==
    /\ workerPc = "returned" /\ status = "success" => memory = "allocated"
    /\ exitCode # Running => memory # "allocated"

(* main always returns: nobody waits for a thread that waits for him,      *)
(* however the call and the monitor's spins race.                          *)
Returns == <>(exitCode # Running)
=============================================================================
