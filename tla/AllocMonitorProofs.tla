-------------------------- MODULE AllocMonitorProofs --------------------------
(***************************************************************************)
(* Proofs about AllocMonitor: its type invariant, that the worker is held  *)
(* while it is judged, that main and the monitor agree, that the memory is *)
(* released, whatever fails and whenever the spins run out, and that the   *)
(* call is one of the service that it is meant to be.                      *)
(***************************************************************************)
EXTENDS AllocMonitor, WellFoundedInduction, TLAPS

Behind == {"returned", "report", "done", "gone"}

\* The thunk announces what it has stored, and lets the worker go when the
\* monitor has acknowledged it.
ThunkInv ==
    /\ ready => stored = Len(Fields)
    /\ stored # 0 => Called
    /\ workerPc \in Behind /\ stored # 0 => ready /\ ack
    /\ begin = FALSE => workerPc \in {"none", "start", "begin"}

\* The monitor acknowledges as the last thing, and only judges what is announced.
MonitorInv ==
    /\ ack => monitorPc \in {"done", "gone"}
    /\ monitorDone => monitorPc = "gone"
    /\ monitorPc \in {"compare", "query"} => ready
    /\ monitorPc \in {"none", "start"} => ~begin
    /\ monitorPc \in {"none", "start", "poll", "test", "compare"} => attempts = 0
    /\ monitorPc = "query" => attempts < QueryLimit
    /\ attempts > 0 => ready
    /\ monitorPc = "query" \/ attempts > 0 => (sawSnapshot <=> NumberMatches)

\* How far main and the two threads have come.
MainInv ==
    /\ exitCode # Running <=> mainPc = "exited"
    /\ workerDone => workerPc = "gone"
    /\ mainPc \in {"extract", "install", "createWorker", "createMonitor"} => monitorPc = "none"
    /\ mainPc \in {"extract", "install", "createWorker"} => workerPc = "none"
    /\ mainPc = "abandon" => workerPc = "none" \/ monitorPc = "none"
    /\ mainPc \in {"clear", "free", "judge"} => workerPc = "gone"
    /\ exitCode \in {0, 1} =>
          /\ workerPc = "gone"
          /\ exitCode = 0 <=> stored = Len(Fields) /\ NumberMatches

MemoryInv ==
    /\ workerPc \in {"none", "start", "begin", "call"} => memory = "none" /\ status = "none"
    /\ workerPc \in {"thunk", "returned", "report"} =>
          memory = IF status = "success" THEN "allocated" ELSE "none"
    /\ workerPc \in {"done", "gone"} => workerBase = (status = "success")
    /\ memory = "allocated" => status = "success"
    /\ mainPc = "judge" => memory # "allocated"
    /\ mainPc = "free" => workerBase
    /\ mainPc = "exited" => memory # "allocated"

Inv == TypeOK /\ ThunkInv /\ MonitorInv /\ MainInv /\ MemoryInv

-----------------------------------------------------------------------------
LEMMA FieldsAreFive == Len(Fields) = 5
  BY DEF Fields

LEMMA MayFailType == \A fault : MayFail(fault) \subseteq BOOLEAN
  BY DEF MayFail

LEMMA LeastExists ==
    ASSUME NEW T \in SUBSET Nat, T # {}
    PROVE  \E x \in T : \A y \in T : x <= y
  <1>1. PICK x \in T : \A y \in T : <<y, x>> \notin OpToRel(<, Nat)
    BY NatLessThanWellFounded, WFMin
  <1>2. \A y \in T : ~(y < x)
    BY <1>1 DEF OpToRel
  <1> QED
    BY <1>2

LEMMA NumberTyped ==
    ASSUME TypeOK, Candidates # {}
    PROVE  [k \in 1 .. 4 |-> stub[First(Candidates) + k]] \in Number
  <1>1. First(Candidates) \in Candidates
    <2>1. Candidates \in SUBSET Nat
      BY DEF Candidates
    <2>2. \E x \in Candidates : \A y \in Candidates : x <= y
      BY <2>1, LeastExists
    <2> QED
      BY <2>2 DEF First
  <1>2. First(Candidates) \in 1 .. 26
    BY <1>1 DEF Candidates, HasSyscall
  <1> QED
    <2>1. stub \in [1 .. 32 -> Byte]
      BY AllocAssumption DEF TypeOK
    <2>2. \A k \in 1 .. 4 : First(Candidates) + k \in 1 .. 32
      BY <1>2
    <2> QED
      BY <2>1, <2>2 DEF Number

LEMMA InitInv == Init => Inv
  <1> SUFFICES ASSUME Init PROVE Inv
    OBVIOUS
  <1>1. TypeOK
    <2>1. syscallNumber \in Number
      BY DEF Init, Zero, Number, Byte
    <2>2. QueryLimit \in Nat
      BY AllocAssumption
    <2> QED
      <3>1. {begin, ready, ack, workerStarted, workerDone, monitorDone, sawSnapshot,
             sawLastSyscall, workerBase} \subseteq BOOLEAN
        BY DEF Init
      <3>2. attempts \in 0 .. QueryLimit /\ stored \in 0 .. Len(Fields)
        BY <2>2, FieldsAreFive DEF Init
      <3> QED
        BY <2>1, <3>1, <3>2 DEF Init, TypeOK
  <1>2. ThunkInv /\ MonitorInv /\ MainInv /\ MemoryInv
    BY FieldsAreFive DEF Init, ThunkInv, MonitorInv, MainInv, MemoryInv, Called, Behind, Running
  <1> QED
    BY <1>1, <1>2 DEF Inv

\* What the fields hold depends on how many are stored and on the number alone.
LEMMA SameNumber ==
    ASSUME UNCHANGED <<stored, syscallNumber>>
    PROVE  NumberMatches' <=> NumberMatches
  BY DEF NumberMatches, DecodedSyscall, IsStored

LEMMA FullyStored ==
    ASSUME stored = Len(Fields), NEW field \in {Fields[i] : i \in 1 .. Len(Fields)}
    PROVE  IsStored(field)
  BY DEF IsStored

LEMMA MainKeepsInv ==
    ASSUME Inv, MainStep
    PROVE  Inv'
  <1> USE FieldsAreFive, MayFailType DEF Inv
  <1>1. CASE ExtractSyscallNumber
    <2>1. TypeOK'
      BY <1>1, NumberTyped DEF ExtractSyscallNumber, Main, Threads, workerVars, monitorVars, TypeOK
    <2>2. ThunkInv'
      BY <1>1 DEF ExtractSyscallNumber, Main, Threads, workerVars, monitorVars, TypeOK, ThunkInv,
         MonitorInv, Called, Behind
    <2>3. MonitorInv'
      BY <1>1 DEF ExtractSyscallNumber, Main, Threads, workerVars, monitorVars, TypeOK, ThunkInv,
         MonitorInv, MainInv, Called, Behind, NumberMatches, DecodedSyscall, IsStored
    <2>4. MainInv'
      BY <1>1 DEF ExtractSyscallNumber, Main, Threads, workerVars, monitorVars, TypeOK, ThunkInv,
         MonitorInv, MainInv, NumberMatches, DecodedSyscall, IsStored, Called, Behind, Running
    <2>5. MemoryInv'
      BY <1>1 DEF ExtractSyscallNumber, Main, Threads, workerVars, monitorVars, TypeOK, ThunkInv,
         MonitorInv, MainInv, MemoryInv, Called
    <2> QED
      BY <2>1, <2>2, <2>3, <2>4, <2>5
  <1>2. CASE SetCallback
    <2>1. TypeOK'
      BY <1>2 DEF SetCallback, Main, Threads, workerVars, monitorVars, TypeOK
    <2>2. ThunkInv'
      BY <1>2 DEF SetCallback, Main, Threads, workerVars, monitorVars, TypeOK, ThunkInv,
         MonitorInv, Called, Behind
    <2>3. MonitorInv'
      BY <1>2, SameNumber DEF SetCallback, Main, Threads, workerVars, monitorVars, TypeOK,
         ThunkInv, MonitorInv, MainInv, Called, Behind
    <2>4. MainInv'
      BY <1>2, SameNumber DEF SetCallback, Main, Threads, workerVars, monitorVars, TypeOK,
         ThunkInv, MonitorInv, MainInv, Called, Behind, Running
    <2>5. MemoryInv'
      BY <1>2 DEF SetCallback, Main, Threads, workerVars, monitorVars, TypeOK, ThunkInv,
         MonitorInv, MainInv, MemoryInv, Called
    <2> QED
      BY <2>1, <2>2, <2>3, <2>4, <2>5
  <1>3. CASE CreateWorker
    <2>1. TypeOK'
      BY <1>3 DEF CreateWorker, Main, Threads, workerVars, monitorVars, TypeOK
    <2>2. ThunkInv'
      BY <1>3 DEF CreateWorker, Main, Threads, workerVars, monitorVars, TypeOK, ThunkInv,
         MonitorInv,
         MainInv, Called, Behind
    <2>3. MonitorInv'
      BY <1>3, SameNumber DEF CreateWorker, Main, Threads, workerVars, monitorVars, TypeOK,
         ThunkInv, MonitorInv, MainInv, Called, Behind
    <2>4. MainInv'
      BY <1>3, SameNumber DEF CreateWorker, Main, Threads, workerVars, monitorVars, TypeOK,
         ThunkInv, MonitorInv, MainInv, Called, Behind, Running
    <2>5. MemoryInv'
      BY <1>3 DEF CreateWorker, Main, Threads, workerVars, monitorVars, TypeOK, ThunkInv,
         MonitorInv, MainInv, MemoryInv, Called
    <2> QED
      BY <2>1, <2>2, <2>3, <2>4, <2>5
  <1>4. CASE CreateMonitor
    <2>1. TypeOK'
      BY <1>4 DEF CreateMonitor, Main, Threads, workerVars, monitorVars, TypeOK
    <2>2. ThunkInv'
      BY <1>4 DEF CreateMonitor, Main, Threads, workerVars, monitorVars, TypeOK, ThunkInv,
         MonitorInv, Called, Behind
    <2>3. MonitorInv'
      BY <1>4, SameNumber DEF CreateMonitor, Main, Threads, workerVars, monitorVars, TypeOK,
         ThunkInv, MonitorInv, MainInv, Called, Behind
    <2>4. MainInv'
      BY <1>4, SameNumber DEF CreateMonitor, Main, Threads, workerVars, monitorVars, TypeOK,
         ThunkInv, MonitorInv, MainInv, Called, Behind, Running
    <2>5. MemoryInv'
      BY <1>4 DEF CreateMonitor, Main, Threads, workerVars, monitorVars, TypeOK, ThunkInv,
         MonitorInv, MainInv, MemoryInv, Called
    <2> QED
      BY <2>1, <2>2, <2>3, <2>4, <2>5
  <1>5. CASE Abandon
    <2>1. TypeOK'
      BY <1>5 DEF Abandon, Cleared, Main, Threads, workerVars, monitorVars, TypeOK
    <2>2. ThunkInv'
      BY <1>5 DEF Abandon, Main, Threads, workerVars, monitorVars, TypeOK, ThunkInv, MonitorInv,
         Called, Behind
    <2>3. MonitorInv'
      BY <1>5, SameNumber DEF Abandon, Main, Threads, workerVars, monitorVars, TypeOK, ThunkInv,
         MonitorInv, MainInv, Called, Behind
    <2>4. MainInv'
      BY <1>5, SameNumber DEF Abandon, Main, Threads, workerVars, monitorVars, TypeOK, ThunkInv,
         MonitorInv, MainInv, Called, Behind, Running
    <2>5. MemoryInv'
      BY <1>5 DEF Abandon, Main, Threads, workerVars, monitorVars, TypeOK, ThunkInv, MonitorInv,
         MainInv, MemoryInv, Called
    <2> QED
      BY <2>1, <2>2, <2>3, <2>4, <2>5
  <1>6. CASE WaitForBoth
    <2>1. TypeOK'
      BY <1>6 DEF WaitForBoth, Main, Threads, workerVars, monitorVars, TypeOK
    <2>2. ThunkInv'
      BY <1>6 DEF WaitForBoth, Main, Threads, workerVars, monitorVars, TypeOK, ThunkInv,
         MonitorInv, Called, Behind
    <2>3. MonitorInv'
      BY <1>6, SameNumber DEF WaitForBoth, Main, Threads, workerVars, monitorVars, TypeOK,
         ThunkInv, MonitorInv, MainInv, Called, Behind
    <2>4. MainInv'
      BY <1>6, SameNumber DEF WaitForBoth, BothDone, Main, Threads, workerVars, monitorVars, TypeOK,
         ThunkInv, MonitorInv, MainInv, Called, Behind, Running
    <2>5. MemoryInv'
      BY <1>6 DEF WaitForBoth, Main, Threads, workerVars, monitorVars, TypeOK, ThunkInv,
         MonitorInv, MainInv, MemoryInv, Called
    <2> QED
      BY <2>1, <2>2, <2>3, <2>4, <2>5
  <1>7. CASE ClearCallback
    <2>1. TypeOK'
      <3>1. installed' \in BOOLEAN
        BY <1>7 DEF ClearCallback, Cleared, TypeOK
      <3> QED
        BY <1>7, <3>1 DEF ClearCallback, Main, Threads, workerVars, monitorVars, TypeOK
    <2>2. ThunkInv'
      BY <1>7 DEF ClearCallback, Main, Threads, workerVars, monitorVars, TypeOK, ThunkInv,
         MonitorInv, Called, Behind
    <2>3. MonitorInv'
      BY <1>7, SameNumber DEF ClearCallback, Main, Threads, workerVars, monitorVars, TypeOK,
         ThunkInv, MonitorInv, MainInv, Called, Behind
    <2>4. MainInv'
      BY <1>7, SameNumber DEF ClearCallback, Main, Threads, workerVars, monitorVars, TypeOK,
         ThunkInv, MonitorInv, MainInv, Called, Behind, Running
    <2>5. MemoryInv'
      BY <1>7 DEF ClearCallback, Main, Threads, workerVars, monitorVars, TypeOK, ThunkInv,
         MonitorInv, MainInv, MemoryInv, Called
    <2> QED
      BY <2>1, <2>2, <2>3, <2>4, <2>5
  <1>8. CASE Free
    <2>1. TypeOK'
      BY <1>8 DEF Free, Main, Threads, workerVars, monitorVars, TypeOK
    <2>2. ThunkInv'
      BY <1>8 DEF Free, Main, Threads, workerVars, monitorVars, TypeOK, ThunkInv, MonitorInv,
         Called, Behind
    <2>3. MonitorInv'
      BY <1>8, SameNumber DEF Free, Main, Threads, workerVars, monitorVars, TypeOK, ThunkInv,
         MonitorInv, MainInv, Called, Behind
    <2>4. MainInv'
      BY <1>8, SameNumber DEF Free, Main, Threads, workerVars, monitorVars, TypeOK, ThunkInv,
         MonitorInv, MainInv, Called, Behind, Running
    <2>5. MemoryInv'
      BY <1>8 DEF Free, Main, Threads, workerVars, monitorVars, TypeOK, ThunkInv, MonitorInv,
         MainInv, MemoryInv, Called
    <2> QED
      BY <2>1, <2>2, <2>3, <2>4, <2>5
  <1>9. CASE Judge
    <2>1. TypeOK'
      BY <1>9 DEF Judge, Main, Threads, workerVars, monitorVars, TypeOK
    <2>2. ThunkInv'
      BY <1>9 DEF Judge, Main, Threads, workerVars, monitorVars, TypeOK, ThunkInv, MonitorInv,
         Called, Behind
    <2>3. MonitorInv'
      BY <1>9 DEF Judge, Main, Threads, workerVars, monitorVars, TypeOK, ThunkInv, MonitorInv,
         MainInv, Called, Behind, NumberMatches, DecodedSyscall, IsStored
    <2>4. MainInv'
      <3>1. stored = 0 \/ stored = Len(Fields)
        BY <1>9 DEF Judge, Main, TypeOK, ThunkInv, MainInv, Behind
      <3>2. stored = 0 => ~IsStored("DirectHits")
        BY DEF IsStored
      <3>3. stored = Len(Fields) =>
               IsStored("DirectHits") /\ IsStored("StackArg5") /\ IsStored("StackArg6")
        BY DEF IsStored, Fields
      <3>4. workerPc = "gone" /\ workerPc' = workerPc /\ stored' = stored
            /\ (NumberMatches' <=> NumberMatches)
        BY <1>9, SameNumber DEF Judge, Main, Threads, workerVars, MainInv
      <3>5. exitCode' = 0 <=> stored' = Len(Fields) /\ NumberMatches'
        BY <1>9, <3>1, <3>2, <3>3, <3>4 DEF Judge
      <3>6. exitCode' # Running
        BY <1>9 DEF Judge, Running
      <3> QED
        BY <1>9, <3>4, <3>5, <3>6 DEF Judge, Main, Threads, workerVars, monitorVars, MainInv
    <2>5. MemoryInv'
      BY <1>9 DEF Judge, Main, Threads, workerVars, monitorVars, TypeOK, ThunkInv, MonitorInv,
         MainInv, MemoryInv, Called
    <2> QED
      BY <2>1, <2>2, <2>3, <2>4, <2>5
  <1> QED
    BY <1>1, <1>2, <1>3, <1>4, <1>5, <1>6, <1>7, <1>8, <1>9 DEF MainStep

LEMMA WorkerKeepsInv ==
    ASSUME Inv, WorkerStep
    PROVE  Inv'
  <1> USE FieldsAreFive, MayFailType DEF Inv
  <1>1. CASE Start
    <2>1. TypeOK'
      BY <1>1 DEF Start, Worker, Alive, mainVars, monitorVars, TypeOK
    <2>2. ThunkInv'
      BY <1>1 DEF Start, Worker, Alive, mainVars, monitorVars, TypeOK, ThunkInv, MonitorInv,
         Called, Behind
    <2>3. MonitorInv'
      BY <1>1, SameNumber DEF Start, Worker, Alive, mainVars, monitorVars, TypeOK, ThunkInv,
         MonitorInv, MainInv, Called, Behind
    <2>4. MainInv'
      BY <1>1, SameNumber DEF Start, Worker, Alive, mainVars, monitorVars, TypeOK, ThunkInv,
         MonitorInv, MainInv, Called, Behind, Running
    <2>5. MemoryInv'
      BY <1>1 DEF Start, Worker, Alive, mainVars, monitorVars, TypeOK, ThunkInv, MonitorInv,
         MainInv, MemoryInv, Called
    <2> QED
      BY <2>1, <2>2, <2>3, <2>4, <2>5
  <1>2. CASE SeeBegin
    <2>1. TypeOK'
      BY <1>2 DEF SeeBegin, Worker, Alive, mainVars, monitorVars, TypeOK
    <2>2. ThunkInv'
      BY <1>2 DEF SeeBegin, Worker, Alive, mainVars, monitorVars, TypeOK, ThunkInv, MonitorInv,
         Called, Behind
    <2>3. MonitorInv'
      BY <1>2, SameNumber DEF SeeBegin, Worker, Alive, mainVars, monitorVars, TypeOK, ThunkInv,
         MonitorInv, MainInv, Called, Behind
    <2>4. MainInv'
      BY <1>2, SameNumber DEF SeeBegin, Worker, Alive, mainVars, monitorVars, TypeOK, ThunkInv,
         MonitorInv, MainInv, Called, Behind, Running
    <2>5. MemoryInv'
      BY <1>2 DEF SeeBegin, Worker, Alive, mainVars, monitorVars, TypeOK, ThunkInv, MonitorInv,
         MainInv, MemoryInv, Called
    <2> QED
      BY <2>1, <2>2, <2>3, <2>4, <2>5
  <1>3. CASE Allocate
    <2>1. TypeOK'
      BY <1>3 DEF Allocate, Worker, Alive, mainVars, monitorVars, TypeOK
    <2>2. ThunkInv'
      BY <1>3 DEF Allocate, Worker, Alive, mainVars, monitorVars, TypeOK, ThunkInv, MonitorInv,
         Called, Behind
    <2>3. MonitorInv'
      BY <1>3, SameNumber DEF Allocate, Worker, Alive, mainVars, monitorVars, TypeOK, ThunkInv,
         MonitorInv, MainInv, Called, Behind
    <2>4. MainInv'
      BY <1>3, SameNumber DEF Allocate, Worker, Alive, mainVars, monitorVars, TypeOK, ThunkInv,
         MonitorInv, MainInv, Called, Behind, Running
    <2>5. MemoryInv'
      BY <1>3 DEF Allocate, Worker, Alive, mainVars, monitorVars, TypeOK, ThunkInv, MonitorInv,
         MainInv, MemoryInv, Called
    <2> QED
      BY <2>1, <2>2, <2>3, <2>4, <2>5
  <1>4. CASE Store
    <2>1. TypeOK'
      BY <1>4 DEF Store, Worker, Alive, mainVars, monitorVars, TypeOK
    <2>2. ThunkInv'
      BY <1>4 DEF Store, Worker, Alive, mainVars, monitorVars, TypeOK, ThunkInv, MonitorInv,
         Called, Behind
    <2>3. MonitorInv'
      BY <1>4 DEF Store, Worker, Alive, mainVars, monitorVars, TypeOK, ThunkInv, MonitorInv,
         MainInv, Called, Behind, NumberMatches, DecodedSyscall, IsStored
    <2>4. MainInv'
      BY <1>4 DEF Store, Worker, Alive, mainVars, monitorVars, TypeOK, ThunkInv, MonitorInv,
         MainInv, NumberMatches, DecodedSyscall, IsStored, Called, Behind, Running
    <2>5. MemoryInv'
      BY <1>4 DEF Store, Worker, Alive, mainVars, monitorVars, TypeOK, ThunkInv, MonitorInv,
         MainInv, MemoryInv, Called
    <2> QED
      BY <2>1, <2>2, <2>3, <2>4, <2>5
  <1>5. CASE SetReady
    <2>1. TypeOK'
      BY <1>5 DEF SetReady, AllStored, Worker, Alive, mainVars, monitorVars, TypeOK
    <2>2. ThunkInv'
      BY <1>5 DEF SetReady, AllStored, Worker, Alive, mainVars, monitorVars, TypeOK, ThunkInv,
         MonitorInv, Called, Behind
    <2>3. MonitorInv'
      BY <1>5, SameNumber DEF SetReady, Worker, Alive, mainVars, monitorVars, TypeOK, ThunkInv,
         MonitorInv, MainInv, Called, Behind
    <2>4. MainInv'
      BY <1>5, SameNumber DEF SetReady, Worker, Alive, mainVars, monitorVars, TypeOK, ThunkInv,
         MonitorInv, MainInv, Called, Behind, Running
    <2>5. MemoryInv'
      BY <1>5 DEF SetReady, Worker, Alive, mainVars, monitorVars, TypeOK, ThunkInv, MonitorInv,
         MainInv, MemoryInv, Called
    <2> QED
      BY <2>1, <2>2, <2>3, <2>4, <2>5
  <1>6. CASE LeaveThunk
    <2>1. TypeOK'
      BY <1>6 DEF LeaveThunk, Worker, Alive, mainVars, monitorVars, TypeOK
    <2>2. ThunkInv'
      BY <1>6 DEF LeaveThunk, Worker, Alive, mainVars, monitorVars, TypeOK, ThunkInv, MonitorInv,
         Called, Behind
    <2>3. MonitorInv'
      BY <1>6, SameNumber DEF LeaveThunk, Worker, Alive, mainVars, monitorVars, TypeOK, ThunkInv,
         MonitorInv, MainInv, Called, Behind
    <2>4. MainInv'
      BY <1>6, SameNumber DEF LeaveThunk, Worker, Alive, mainVars, monitorVars, TypeOK, ThunkInv,
         MonitorInv, MainInv, Called, Behind, Running
    <2>5. MemoryInv'
      BY <1>6 DEF LeaveThunk, Worker, Alive, mainVars, monitorVars, TypeOK, ThunkInv, MonitorInv,
         MainInv, MemoryInv, Called
    <2> QED
      BY <2>1, <2>2, <2>3, <2>4, <2>5
  <1>7. CASE UseMemory
    <2>1. TypeOK'
      BY <1>7 DEF UseMemory, Worker, Alive, mainVars, monitorVars, TypeOK
    <2>2. ThunkInv'
      BY <1>7 DEF UseMemory, Worker, Alive, mainVars, monitorVars, TypeOK, ThunkInv, MonitorInv,
         Called, Behind
    <2>3. MonitorInv'
      BY <1>7, SameNumber DEF UseMemory, Worker, Alive, mainVars, monitorVars, TypeOK, ThunkInv,
         MonitorInv, MainInv, Called, Behind
    <2>4. MainInv'
      BY <1>7, SameNumber DEF UseMemory, Worker, Alive, mainVars, monitorVars, TypeOK, ThunkInv,
         MonitorInv, MainInv, Called, Behind, Running
    <2>5. MemoryInv'
      BY <1>7 DEF UseMemory, Worker, Alive, mainVars, monitorVars, TypeOK, ThunkInv, MonitorInv,
         MainInv, MemoryInv, Called
    <2> QED
      BY <2>1, <2>2, <2>3, <2>4, <2>5
  <1>8. CASE Report
    <2>1. TypeOK'
      BY <1>8 DEF Report, Worker, Alive, mainVars, monitorVars, TypeOK
    <2>2. ThunkInv'
      BY <1>8 DEF Report, Worker, Alive, mainVars, monitorVars, TypeOK, ThunkInv, MonitorInv,
         Called, Behind
    <2>3. MonitorInv'
      BY <1>8, SameNumber DEF Report, Worker, Alive, mainVars, monitorVars, TypeOK, ThunkInv,
         MonitorInv, MainInv, Called, Behind
    <2>4. MainInv'
      BY <1>8, SameNumber DEF Report, Worker, Alive, mainVars, monitorVars, TypeOK, ThunkInv,
         MonitorInv, MainInv, Called, Behind, Running
    <2>5. MemoryInv'
      BY <1>8 DEF Report, Worker, Alive, mainVars, monitorVars, TypeOK, ThunkInv, MonitorInv,
         MainInv, MemoryInv, Called
    <2> QED
      BY <2>1, <2>2, <2>3, <2>4, <2>5
  <1>9. CASE SetWorkerDone
    <2>1. TypeOK'
      BY <1>9 DEF SetWorkerDone, Worker, Alive, mainVars, monitorVars, TypeOK
    <2>2. ThunkInv'
      BY <1>9 DEF SetWorkerDone, Worker, Alive, mainVars, monitorVars, TypeOK, ThunkInv,
         MonitorInv, Called, Behind
    <2>3. MonitorInv'
      BY <1>9, SameNumber DEF SetWorkerDone, Worker, Alive, mainVars, monitorVars, TypeOK,
         ThunkInv, MonitorInv, MainInv, Called, Behind
    <2>4. MainInv'
      BY <1>9, SameNumber DEF SetWorkerDone, Worker, Alive, mainVars, monitorVars, TypeOK,
         ThunkInv, MonitorInv, MainInv, Called, Behind, Running
    <2>5. MemoryInv'
      BY <1>9 DEF SetWorkerDone, Worker, Alive, mainVars, monitorVars, TypeOK, ThunkInv,
         MonitorInv, MainInv, MemoryInv, Called
    <2> QED
      BY <2>1, <2>2, <2>3, <2>4, <2>5
  <1> QED
    BY <1>1, <1>2, <1>3, <1>4, <1>5, <1>6, <1>7, <1>8, <1>9 DEF WorkerStep

LEMMA MonitorKeepsInv ==
    ASSUME Inv, MonitorStep
    PROVE  Inv'
  <1> USE FieldsAreFive, MayFailType DEF Inv
  <1>1. CASE LetBegin
    <2>1. TypeOK'
      BY <1>1 DEF LetBegin, Monitor, Alive, mainVars, workerVars, TypeOK
    <2>2. ThunkInv'
      BY <1>1 DEF LetBegin, Monitor, Alive, mainVars, workerVars, TypeOK, ThunkInv, MonitorInv,
         Called, Behind
    <2>3. MonitorInv'
      BY <1>1, SameNumber DEF LetBegin, Monitor, Alive, mainVars, workerVars, TypeOK, ThunkInv,
         MonitorInv, MainInv, Called, Behind
    <2>4. MainInv'
      BY <1>1, SameNumber DEF LetBegin, Monitor, Alive, mainVars, workerVars, TypeOK, ThunkInv,
         MonitorInv, MainInv, Called, Behind, Running
    <2>5. MemoryInv'
      BY <1>1 DEF LetBegin, Monitor, Alive, mainVars, workerVars, TypeOK, ThunkInv, MonitorInv,
         MainInv, MemoryInv, Called
    <2> QED
      BY <2>1, <2>2, <2>3, <2>4, <2>5
  <1>2. CASE EndPoll
    <2>1. TypeOK'
      BY <1>2 DEF EndPoll, Monitor, Alive, mainVars, workerVars, TypeOK
    <2>2. ThunkInv'
      BY <1>2 DEF EndPoll, Monitor, Alive, mainVars, workerVars, TypeOK, ThunkInv, MonitorInv,
         Called, Behind
    <2>3. MonitorInv'
      BY <1>2, SameNumber DEF EndPoll, Monitor, Alive, mainVars, workerVars, TypeOK, ThunkInv,
         MonitorInv, MainInv, Called, Behind
    <2>4. MainInv'
      BY <1>2, SameNumber DEF EndPoll, Monitor, Alive, mainVars, workerVars, TypeOK, ThunkInv,
         MonitorInv, MainInv, Called, Behind, Running
    <2>5. MemoryInv'
      BY <1>2 DEF EndPoll, Monitor, Alive, mainVars, workerVars, TypeOK, ThunkInv, MonitorInv,
         MainInv, MemoryInv, Called
    <2> QED
      BY <2>1, <2>2, <2>3, <2>4, <2>5
  <1>3. CASE TestReady
    <2>1. TypeOK'
      BY <1>3 DEF TestReady, Monitor, Alive, mainVars, workerVars, TypeOK
    <2>2. ThunkInv'
      BY <1>3 DEF TestReady, Monitor, Alive, mainVars, workerVars, TypeOK, ThunkInv, MonitorInv,
         Called, Behind
    <2>3. MonitorInv'
      BY <1>3, SameNumber DEF TestReady, Monitor, Alive, mainVars, workerVars, TypeOK, ThunkInv,
         MonitorInv, MainInv, Called, Behind
    <2>4. MainInv'
      BY <1>3, SameNumber DEF TestReady, Monitor, Alive, mainVars, workerVars, TypeOK, ThunkInv,
         MonitorInv, MainInv, Called, Behind, Running
    <2>5. MemoryInv'
      BY <1>3 DEF TestReady, Monitor, Alive, mainVars, workerVars, TypeOK, ThunkInv, MonitorInv,
         MainInv, MemoryInv, Called
    <2> QED
      BY <2>1, <2>2, <2>3, <2>4, <2>5
  <1>4. CASE Compare
    <2>1. TypeOK'
      BY <1>4 DEF Compare, Monitor, Alive, mainVars, workerVars, TypeOK
    <2>2. ThunkInv'
      BY <1>4 DEF Compare, Monitor, Alive, mainVars, workerVars, TypeOK, ThunkInv, MonitorInv,
         Called, Behind
    <2>3. MonitorInv'
      <3>1. IsStored("PrevPc") /\ IsStored("StackArg5") /\ IsStored("StackArg6")
        <4>1. stored = Len(Fields)
          BY <1>4 DEF Compare, Monitor, ThunkInv, MonitorInv
        <4> QED
          BY <4>1 DEF IsStored, Fields
      <3>2. sawSnapshot' <=> NumberMatches
        BY <1>4, <3>1 DEF Compare
      <3>3. NumberMatches' <=> NumberMatches
        BY <1>4, SameNumber DEF Compare, Monitor, mainVars, workerVars
      <3> QED
        BY <1>4, <3>2, <3>3, AllocAssumption DEF Compare, Monitor, Alive, mainVars, workerVars,
           TypeOK, MonitorInv
    <2>4. MainInv'
      BY <1>4 DEF Compare, Monitor, Alive, mainVars, workerVars, TypeOK, ThunkInv, MonitorInv,
         MainInv, NumberMatches, DecodedSyscall, IsStored, Called, Behind, Running
    <2>5. MemoryInv'
      BY <1>4 DEF Compare, Monitor, Alive, mainVars, workerVars, TypeOK, ThunkInv, MonitorInv,
         MainInv, MemoryInv, Called
    <2> QED
      BY <2>1, <2>2, <2>3, <2>4, <2>5
  <1>5. CASE Query
    <2>1. TypeOK'
      <3>1. attempts' \in 0 .. QueryLimit
        BY <1>5, AllocAssumption DEF Query, Monitor, TypeOK, MonitorInv
      <3>2. sawLastSyscall' \in BOOLEAN /\ monitorPc' \in {"acknowledge", "query"}
        BY <1>5 DEF Query, Monitor
      <3> QED
        BY <1>5, <3>1, <3>2 DEF Query, Monitor, Alive, mainVars, workerVars, TypeOK
    <2>2. ThunkInv'
      BY <1>5 DEF Query, Monitor, Alive, mainVars, workerVars, TypeOK, ThunkInv, MonitorInv,
         Called, Behind
    <2>3. MonitorInv'
      <3>1. monitorPc = "query" /\ attempts' = attempts + 1 /\ sawSnapshot' = sawSnapshot
            /\ ready' = ready /\ ack' = ack /\ begin' = begin /\ monitorDone' = monitorDone
            /\ monitorPc' \in {"acknowledge", "query"}
            /\ (monitorPc' = "query" => TriesAgain)
        BY <1>5 DEF Query, Monitor, mainVars, workerVars
      <3>2. NumberMatches' <=> NumberMatches
        BY <1>5, SameNumber DEF Query, Monitor, mainVars, workerVars
      <3> QED
        BY <3>1, <3>2 DEF TriesAgain, TypeOK, MonitorInv
    <2>4. MainInv'
      BY <1>5, SameNumber DEF Query, Monitor, Alive, mainVars, workerVars, TypeOK, ThunkInv,
         MonitorInv, MainInv, Called, Behind, Running
    <2>5. MemoryInv'
      BY <1>5 DEF Query, Monitor, Alive, mainVars, workerVars, TypeOK, ThunkInv, MonitorInv,
         MainInv, MemoryInv, Called
    <2> QED
      BY <2>1, <2>2, <2>3, <2>4, <2>5
  <1>6. CASE Acknowledge
    <2>1. TypeOK'
      BY <1>6 DEF Acknowledge, Acknowledged, Monitor, Alive, mainVars, workerVars, TypeOK
    <2>2. ThunkInv'
      BY <1>6 DEF Acknowledge, Monitor, Alive, mainVars, workerVars, TypeOK, ThunkInv, MonitorInv,
         Called, Behind
    <2>3. MonitorInv'
      BY <1>6, SameNumber DEF Acknowledge, Monitor, Alive, mainVars, workerVars, TypeOK, ThunkInv,
         MonitorInv, MainInv, Called, Behind
    <2>4. MainInv'
      BY <1>6, SameNumber DEF Acknowledge, Monitor, Alive, mainVars, workerVars, TypeOK, ThunkInv,
         MonitorInv, MainInv, Called, Behind, Running
    <2>5. MemoryInv'
      BY <1>6 DEF Acknowledge, Monitor, Alive, mainVars, workerVars, TypeOK, ThunkInv, MonitorInv,
         MainInv, MemoryInv, Called
    <2> QED
      BY <2>1, <2>2, <2>3, <2>4, <2>5
  <1>7. CASE SetMonitorDone
    <2>1. TypeOK'
      BY <1>7 DEF SetMonitorDone, Monitor, Alive, mainVars, workerVars, TypeOK
    <2>2. ThunkInv'
      BY <1>7 DEF SetMonitorDone, Monitor, Alive, mainVars, workerVars, TypeOK, ThunkInv,
         MonitorInv, Called, Behind
    <2>3. MonitorInv'
      BY <1>7, SameNumber DEF SetMonitorDone, Monitor, Alive, mainVars, workerVars, TypeOK,
         ThunkInv, MonitorInv, MainInv, Called, Behind
    <2>4. MainInv'
      BY <1>7, SameNumber DEF SetMonitorDone, Monitor, Alive, mainVars, workerVars, TypeOK,
         ThunkInv, MonitorInv, MainInv, Called, Behind, Running
    <2>5. MemoryInv'
      BY <1>7 DEF SetMonitorDone, Monitor, Alive, mainVars, workerVars, TypeOK, ThunkInv,
         MonitorInv, MainInv, MemoryInv, Called
    <2> QED
      BY <2>1, <2>2, <2>3, <2>4, <2>5
  <1> QED
    BY <1>1, <1>2, <1>3, <1>4, <1>5, <1>6, <1>7 DEF MonitorStep

LEMMA IdleKeepsInv ==
    ASSUME Inv, UNCHANGED vars
    PROVE  Inv'
  BY DEF Inv, TypeOK, ThunkInv, MonitorInv, MainInv, MemoryInv, Called, Behind, NumberMatches,
         DecodedSyscall, IsStored, vars, mainVars, workerVars, monitorVars

LEMMA InvHolds == Spec => []Inv
  <1>1. Inv /\ [Next]_vars => Inv'
    BY MainKeepsInv, WorkerKeepsInv, MonitorKeepsInv, IdleKeepsInv DEF Next, Spin, Exited
  <1> QED
    BY InitInv, <1>1, PTL DEF Spec

-----------------------------------------------------------------------------
(* Every variable of the monitor program has its type, whatever fails.     *)
THEOREM AllocTypes == Spec => []TypeOK
  BY InvHolds, PTL DEF Inv

(* The thunk announces what it has stored and lets go on the monitor's     *)
(* acknowledgement alone, which is the last thing that the monitor does:   *)
(* what it judges is complete, and of a call that is held.                 *)
THEOREM JudgesHeldCall == Spec => []HeldWhileJudged
  <1>1. Inv => HeldWhileJudged
    BY FieldsAreFive DEF Inv, TypeOK, ThunkInv, MonitorInv, HeldWhileJudged, Called, Behind
  <1> QED
    BY InvHolds, <1>1, PTL

(* main finds the fields of the thunk as the monitor has found them, when  *)
(* it has: the worker is gone and has stored everything or nothing.        *)
THEOREM MainAgreesWithMonitor == Spec => []VerdictsAgree
  <1>1. Inv => VerdictsAgree
    <2> SUFFICES ASSUME Inv, exitCode \in {0, 1}, attempts > 0
                 PROVE  exitCode = 0 <=> sawSnapshot
      BY DEF VerdictsAgree
    <2>1. stored = Len(Fields) /\ (sawSnapshot <=> NumberMatches)
      BY DEF Inv, ThunkInv, MonitorInv
    <2> QED
      BY <2>1 DEF Inv, MainInv
  <1> QED
    BY InvHolds, <1>1, PTL

(* main frees what the worker has reported, and leaves early only before   *)
(* the worker can have allocated.                                          *)
THEOREM ReleasesMemory == Spec => []MemoryReleased
  <1>1. Inv => MemoryReleased
    BY DEF Inv, MainInv, MemoryInv, MemoryReleased
  <1> QED
    BY InvHolds, <1>1, PTL

-----------------------------------------------------------------------------
(* The number that the direct call is made with.                           *)

\* The mov that loads a stub's number is the first byte that reads as one.
FirstMovLoads ==
    \A s \in Stubs : \A m \in 1 .. 28 :
        s[m] = 184 /\ (\A i \in 1 .. m - 1 : s[i] # 184)
            => \A k \in 1 .. 4 : NumberOf[s][k] = s[m + k]

\* main has read the number before it creates the worker.
NumberInv ==
    mainPc \notin {"extract", "exited"} \/ workerPc # "none" => syscallNumber = NumberOf[stub]

(* The first candidate is the first mov of all: a mov before it would have *)
(* the same syscall behind it.                                             *)
LEMMA FirstCandidate ==
    ASSUME TypeOK, Candidates # {}
    PROVE  /\ First(Candidates) \in 1 .. 26 /\ stub[First(Candidates)] = 184
           /\ \A i \in 1 .. First(Candidates) - 1 : stub[i] # 184
  <1> DEFINE first == First(Candidates)
  <1>1. \E x \in Candidates : \A y \in Candidates : x <= y
    <2>1. Candidates \in SUBSET Nat
      BY DEF Candidates
    <2> QED
      BY <2>1, LeastExists
  <1>2. first \in Candidates /\ \A y \in Candidates : first <= y
    BY <1>1 DEF First
  <1>3. PICK j \in first + 5 .. 31 : stub[j] = 15 /\ stub[j + 1] = 5
    BY <1>2 DEF Candidates, HasSyscall
  <1>4. first \in 1 .. 26 /\ stub[first] = 184
    BY <1>2, <1>3 DEF Candidates
  <1>5. ASSUME NEW i \in 1 .. first - 1, stub[i] = 184 PROVE FALSE
    <2>1. i \in 1 .. 32 /\ j \in i + 5 .. 31
      BY <1>3, <1>4
    <2>2. i \in Candidates
      BY <1>3, <1>5, <2>1 DEF Candidates, HasSyscall
    <2> QED
      BY <1>2, <1>4, <2>2
  <1> QED
    BY <1>4, <1>5

LEMMA ExtractsTheNumber ==
    ASSUME FirstMovLoads, TypeOK, Candidates # {}
    PROVE  [k \in 1 .. 4 |-> stub[First(Candidates) + k]] = NumberOf[stub]
  <1>1. stub \in Stubs /\ NumberOf[stub] \in [1 .. 4 -> Byte]
    BY AllocAssumption DEF TypeOK, Number
  <1>2. \A k \in 1 .. 4 : NumberOf[stub][k] = stub[First(Candidates) + k]
    BY <1>1, FirstCandidate DEF FirstMovLoads
  <1> QED
    BY <1>1, <1>2

LEMMA NumberKept ==
    ASSUME FirstMovLoads, Inv, NumberInv, [Next]_vars
    PROVE  NumberInv'
  <1>1. CASE ExtractSyscallNumber
    <2>1. mainPc = "extract" /\ workerPc = "none" /\ stub' = stub /\ workerPc' = workerPc
      BY <1>1 DEF ExtractSyscallNumber, Main, Threads, workerVars, Inv, MainInv
    <2>2. \/ mainPc' = "exited"
          \/ Candidates # {} /\ syscallNumber' = [k \in 1 .. 4 |-> stub[First(Candidates) + k]]
      BY <1>1 DEF ExtractSyscallNumber, Main
    <2> QED
      BY <2>1, <2>2, ExtractsTheNumber DEF Inv, NumberInv
  <1>2. CASE MainStep /\ ~ExtractSyscallNumber
    <2>1. UNCHANGED <<stub, syscallNumber>> /\ mainPc \notin {"extract", "exited"}
      BY <1>2 DEF MainStep, SetCallback, CreateWorker, CreateMonitor, Abandon, WaitForBoth,
                  ClearCallback, Free, Judge, Main
    <2> QED
      BY <2>1 DEF NumberInv
  <1>3. CASE WorkerStep
    <2>1. UNCHANGED <<stub, syscallNumber, mainPc>> /\ workerPc # "none"
      BY <1>3 DEF WorkerStep, Start, SeeBegin, Allocate, Store, SetReady, LeaveThunk, UseMemory,
                  Report, SetWorkerDone, Worker, mainVars
    <2> QED
      BY <2>1 DEF NumberInv
  <1>4. CASE MonitorStep
    <2>1. UNCHANGED <<stub, syscallNumber, mainPc, workerPc>>
      BY <1>4 DEF MonitorStep, LetBegin, EndPoll, TestReady, Compare, Query, Acknowledge,
                  SetMonitorDone, Monitor, mainVars, workerVars
    <2> QED
      BY <2>1 DEF NumberInv
  <1>5. CASE UNCHANGED vars
    BY <1>5 DEF NumberInv, vars, mainVars, workerVars
  <1> QED
    BY <1>1, <1>2, <1>3, <1>4, <1>5 DEF Next, Spin, Exited

(* Where a stub's number is loaded by the first byte that reads as mov,    *)
(* the direct call is one of the stub's service, whatever the bytes of the *)
(* number and behind it: a service whose number begins with 0B8h is called *)
(* rightly here, unlike in the catalog.                                    *)
THEOREM CallsTheService ==
    ASSUME FirstMovLoads
    PROVE  Spec => []CallsAllocate
  <1>1. Init => NumberInv
    BY DEF Init, NumberInv
  <1>2. Inv /\ NumberInv /\ [Next]_vars => NumberInv'
    BY NumberKept
  <1>3. NumberInv => CallsAllocate
    BY DEF NumberInv, CallsAllocate, Called
  <1> QED
    BY <1>1, <1>2, <1>3, InvHolds, PTL DEF Spec
=============================================================================
