--------------------------- MODULE SessionRingProofs ---------------------------
(***************************************************************************)
(* What a session makes of the ring, for any number of probes and slots:   *)
(* the monitor's record is whole, the ring is armed for one worker and     *)
(* clean when RunProbe returns, the query is of the recorded call, and     *)
(* the session keeps its contract.                                         *)
(*                                                                         *)
(* All of it is about sessions whose other threads make no system call:    *)
(* one that does may be captured instead of the worker, as the run         *)
(* cross_thread shows.                                                     *)
(***************************************************************************)
EXTENDS SessionSafetyProofs

OnlyProbesCall == BystanderScript = <<>>

\* What is already known of such a session.
Base ==
    /\ TypeInv /\ DangleInv /\ JoinInv
    /\ MonitorJoined /\ SuspensionScoped /\ NoOrphanSlot

LEMMA BaseHolds ==
  ASSUME WorkersInTime
  PROVE  Spec => []Base
  BY TypeInvariant, DangleHolds, JoinHolds, MonitorJoinedHolds, SuspensionInScope,
     SessionSlotsAreHeld, PTL DEF Base

(* Only the worker of the probe that runs takes steps, on its own context. *)
LEMMA WorkerIsProbe ==
  ASSUME Base, NEW w \in Workers, WorkerStep(w)
  PROVE  /\ w = probe /\ Frame(w) = {probe}
         /\ callerPc \in ProbePc \ {"startWorker"}
         /\ UNCHANGED <<callerVars, monitorVars, suspended, expired, go, slots, armed,
                        counters, threadVars>>
<1>1. worker[w] \notin {"none", "gone"}
  BY DEF WorkerStep, WorkerTarget, WorkerStarted, WorkerGo, WorkerDone, WorkerExit, Worker
<1>2. w = probe /\ callerPc \in ProbePc \ {"startWorker"} /\ ~closing
  BY <1>1 DEF Base, DangleInv
<1>3. Frame(w) = {probe}
  BY <1>2 DEF Frame, Alive, ProbePc
<1>4. UNCHANGED <<callerVars, monitorVars, suspended, expired, go, slots, armed,
                  counters, threadVars>>
  BY DEF WorkerStep, WorkerTarget, WorkerStarted, WorkerGo, WorkerDone, WorkerExit, Worker,
         SetTarget, ringVars
<1> QED BY <1>2, <1>3, <1>4

-----------------------------------------------------------------------------
(* Where the worker of the probe is.                                       *)

\* Until Go is set, and once Started is.
BeforeGo == ResetPc \cup {"startWorker", "waitStarted", "startMonitor", "arm", "go"}
Announced == {"go", "probe", "exit", "gone"}

PhaseInv ==
    /\ started \cup go \cup done \subseteq 1 .. probe
    /\ probe \in started => worker[probe] \in Announced
    /\ probe \in done => worker[probe] \in {"exit", "gone"}
    /\ probe \in Workers /\ worker[probe] \in {"probe", "exit", "gone"} => probe \in go
    /\ callerPc \in BeforeGo /\ ~closing => probe \notin go
    /\ callerPc \in ProbePc \ {"startWorker", "waitStarted"} => probe \in started
    /\ callerPc \in {"timeoutRelease", "joinMonitor"} => ~armed

LEMMA PhaseCallerStep ==
  ASSUME Base, PhaseInv, CallerStep
  PROVE  PhaseInv'
<1> USE SessionAssumption
    DEF PhaseInv, Caller, Workers, ProbePc, ResetPc, BeforeGo, Announced
<1>0. /\ callerPc \in ProbePc \/ (callerPc \in ResetPc /\ ~closing) => probe \in Workers
      /\ probe \in 0 .. MaxProbes /\ worker \in [Workers -> WorkerPc]
  BY DEF Base, TypeInv, TypeOK, IndexInv
<1>1. CASE Construct \/ Destroy \/ Unregister
  <2>1. /\ UNCHANGED <<probe, worker, started, go, done>>
        /\ \/ callerPc = "construct" /\ callerPc' = "idle" /\ closing' = closing
           \/ callerPc = "idle" /\ callerPc' = "disarm" /\ closing' = TRUE
           \/ callerPc = "unregister" /\ callerPc' = "closed"
    BY <1>1 DEF Construct, Destroy, Unregister, OthersKeep, workerVars
  <2> QED BY <2>1
<1>2. CASE RunProbe
  <2>1. /\ probe' = probe + 1 /\ probe < MaxProbes /\ callerPc' \in {"idle", "disarm"}
        /\ UNCHANGED <<worker, started, go, done>>
    BY <1>2 DEF RunProbe, OthersKeep, workerVars
  <2>2. probe' \in Workers /\ probe' \notin started' \cup go' \cup done'
    BY <1>0, <2>1
  <2>3. worker'[probe'] = "none"
    BY <1>0, <2>1, <2>2 DEF Base, JoinInv
  <2>4. started' \cup go' \cup done' \subseteq 1 .. probe'
    BY <1>0, <2>1
  <2> QED BY <2>1, <2>2, <2>3, <2>4
<1>3. CASE StartWorkerFails \/ StartTimesOut \/ Abort \/ Collect
  <2>1. callerPc' = "idle" /\ UNCHANGED <<probe, worker, started, go, done>>
    BY <1>3 DEF StartWorkerFails, StartTimesOut, Abort, Collect, Return, OthersKeep,
                workerVars
  <2> QED BY <2>1
<1>4. CASE ResetDisarm \/ ResetTarget \/ ResetSlot
  <2>1. /\ UNCHANGED <<probe, worker, started, go, done, closing>>
        /\ callerPc \in ResetPc /\ callerPc' \in ResetPc \cup {"startWorker", "unregister"}
    BY <1>4 DEF ResetDisarm, ResetTarget, ResetSlot, Loop, CallerOnRing, SessionKeeps,
                OthersKeep, workerVars
  <2> QED BY <2>1
<1>5. CASE StartWorker
  <2>1. /\ UNCHANGED <<probe, started, go, done, closing>> /\ callerPc = "startWorker"
        /\ callerPc' = "waitStarted" /\ worker' = [worker EXCEPT ![probe] = "target"]
    BY <1>5 DEF StartWorker, SessionKeeps
  <2>2. worker[probe] = "none" /\ probe \in Workers
    BY <1>0, <2>1 DEF Base, DangleInv
  <2>3. probe \notin started \cup done /\ worker'[probe] = "target"
    BY <1>0, <2>1, <2>2
  <2> QED BY <2>1, <2>3
<1>6. CASE SeeStarted
  BY <1>6 DEF SeeStarted, HasStarted, SessionKeeps, OthersKeep, workerVars
<1>7. CASE StartMonitorFails \/ Go
  <2>1. /\ UNCHANGED <<probe, started, done, worker, closing>> /\ go' = go \cup {probe}
        /\ \/ callerPc = "startMonitor" /\ callerPc' = "abort"
           \/ callerPc = "go" /\ callerPc' = "waitMonitor"
    BY <1>7 DEF StartMonitorFails, Go, LetGo, SessionKeeps
  <2>2. probe \in 1 .. probe
    BY <1>0, <2>1
  <2> QED BY <2>1, <2>2
<1>8. CASE StartMonitor \/ Arm \/ WorkerTimesOut \/ WorkerRelease
  <2>1. /\ UNCHANGED <<probe, started, go, done, worker, closing>>
        /\ \/ callerPc = "startMonitor" /\ callerPc' = "arm"
           \/ callerPc = "arm" /\ callerPc' = "go"
           \/ callerPc \in PastMonitor /\ callerPc' \in PastMonitor
    BY <1>8 DEF StartMonitor, Arm, WorkerTimesOut, WorkerRelease, ReleaseSlot, Loop,
                CallerOnRing, SessionKeeps, OthersKeep, workerVars, PastMonitor
  <2> QED BY <2>1 DEF PastMonitor
<1>9. CASE JoinMonitor \/ MonitorTimesOut \/ TimeoutDisarm \/ TimeoutRelease
  <2>1. /\ UNCHANGED <<probe, started, go, done, worker, closing>>
        /\ \/ callerPc \in {"waitMonitor", "joinMonitor"} /\ callerPc' = "waitWorker"
           \/ callerPc = "waitMonitor" /\ callerPc' = "timeoutDisarm"
           \/ callerPc = "timeoutDisarm" /\ callerPc' = "timeoutRelease" /\ ~armed'
           \/ callerPc = "timeoutRelease" /\ callerPc' \in {"timeoutRelease", "joinMonitor"}
              /\ armed' = armed
    BY <1>9 DEF JoinMonitor, MonitorTimesOut, TimeoutDisarm, TimeoutRelease, ReleaseSlot,
                Loop, CallerOnRing, SessionKeeps, OthersKeep, workerVars, SetArmed,
                ClearCallbackSlot
  <2> QED BY <2>1
<1> QED BY <1>1, <1>2, <1>3, <1>4, <1>5, <1>6, <1>7, <1>8, <1>9 DEF CallerStep

LEMMA PhaseWorkerStep ==
  ASSUME Base, PhaseInv, NEW w \in Workers, WorkerStep(w)
  PROVE  PhaseInv'
<1>1. /\ w = probe /\ Frame(w) = {probe} /\ callerPc \in ProbePc \ {"startWorker"}
      /\ UNCHANGED <<callerVars, go, armed>>
  BY WorkerIsProbe
<1>2. worker \in [Workers -> WorkerPc] /\ probe \in 1 .. probe
  BY <1>1 DEF Base, TypeInv, TypeOK, Workers
<1> USE <1>1, <1>2 DEF PhaseInv, Announced, Worker, callerVars
<1>3. CASE WorkerTarget(w)
  BY <1>3 DEF WorkerTarget
<1>4. CASE WorkerStarted(w)
  BY <1>4 DEF WorkerStarted
<1>5. CASE WorkerGo(w)
  <2>1. w \in go
    BY <1>5 DEF WorkerGo, Alive, Base, DangleInv, ProbePc
  <2> QED BY <1>5, <2>1 DEF WorkerGo
<1>6. CASE WorkerDone(w)
  BY <1>6 DEF WorkerDone
<1>7. CASE WorkerExit(w)
  BY <1>7 DEF WorkerExit, Base, JoinInv
<1> QED BY <1>3, <1>4, <1>5, <1>6, <1>7 DEF WorkerStep

(* Neither the monitor nor the system calls arm the ring or write what the *)
(* caller and the workers tell each other.                                 *)
LEMMA RestOfStep ==
  ASSUME \/ MonitorStep \/ \E t \in Threads : ThreadRuns(t)
         \/ Tick \/ Closed \/ UNCHANGED vars
  PROVE  UNCHANGED <<callerVars, worker, started, go, done>> /\ (armed' => armed)
<1>1. CASE MonitorStep
  <2>1. armed' => armed
    BY <1>1
    DEF MonitorStep, Poll, FindReady, PassSlot, EndScan, CopyField, OpenTarget,
        OpenTargetFails, Suspend, SuspendFails, QuerySucceeds, QueryFails, Release,
        Resume, Classify, MonitorDisarm, MonitorClear, MissDisarm, MissRelease, Local,
        ringVars, SetArmed, ClearCallbackSlot
  <2> QED BY <1>1, <2>1, MonitorRuns DEF workerVars
<1>2. CASE \E t \in Threads : ThreadRuns(t)
  BY <1>2
  DEF ThreadRuns, Call, KernelReturn, ThunkStep, sessionVars, workerVars, SyscallEnter,
      SyscallReturn, ThunkEnter, Thunk, CheckArmed, CheckTarget, ClaimSlot, SkipSlot,
      DropCallback, WriteThreadId, WritePreviousPc, WriteStack, Publish, LeaveThunk
<1>3. CASE Tick \/ Closed \/ UNCHANGED vars
  BY <1>3 DEF Tick, Closed, vars, sessionVars, workerVars, ringVars
<1> QED BY <1>1, <1>2, <1>3

LEMMA PhaseHolds ==
  ASSUME WorkersInTime
  PROVE  Spec => []PhaseInv
<1>1. Init => PhaseInv
  BY SessionAssumption DEF Init, PhaseInv, ProbePc, BeforeGo, ResetPc, Workers
<1>2. Base /\ PhaseInv /\ [Next]_vars => PhaseInv'
  <2> SUFFICES ASSUME Base, PhaseInv, [Next]_vars
               PROVE  PhaseInv'
    OBVIOUS
  <2>1. CASE ~CallerStep /\ ~\E w \in Workers : WorkerStep(w)
    BY <2>1, RestOfStep DEF Next, PhaseInv, callerVars
  <2> QED BY <2>1, PhaseCallerStep, PhaseWorkerStep
<1> QED BY <1>1, <1>2, BaseHolds, PTL DEF Spec

-----------------------------------------------------------------------------
(* Whoever is in the thunk is the worker of the probe that runs.           *)

SoleInv ==
    /\ \A t \in Threads : t # probe => pc[t] = "user"
    /\ \A t \in Bystanders : todo[t] = <<>>
    /\ \A w \in Workers : worker[w] = "gone" => pc[w] = "user"

(* The detector's writes to the ring move no thread.                       *)
LEMMA ClientKeepsThreads ==
  ASSUME ClientStep
  PROVE  UNCHANGED threadVars
  BY DEF ClientStep, SetArmed, SetTarget, ClearCallbackSlot, ZeroThreadId, ZeroPreviousPc,
         ZeroStack

(* A thread that runs is that worker, in its probe or its exit.            *)
LEMMA RunnerIsProbe ==
  ASSUME Base, SoleInv, NEW t \in Threads, ThreadRuns(t)
  PROVE  /\ t = probe /\ probe \in Workers /\ worker[probe] \in {"probe", "exit"}
         /\ t \notin suspended
         /\ UNCHANGED <<callerVars, monitorVars, worker, started, go, done, suspended, expired,
                        armed, target>>
<1>1. /\ t \notin suspended
      /\ UNCHANGED <<callerVars, monitorVars, worker, started, go, done, suspended, expired,
                     armed, target>>
  BY DEF ThreadRuns, Call, KernelReturn, ThunkStep, sessionVars, workerVars, SyscallEnter,
         SyscallReturn, ThunkEnter, Thunk, CheckArmed, CheckTarget, ClaimSlot, SkipSlot,
         DropCallback, WriteThreadId, WritePreviousPc, WriteStack, Publish, LeaveThunk
<1>2. pc[t] # "user" \/ Call(t)
  BY DEF ThreadRuns, KernelReturn, ThunkStep, SyscallReturn, ThunkEnter, Thunk, CheckArmed,
         CheckTarget, ClaimSlot, SkipSlot, DropCallback, WriteThreadId, WritePreviousPc,
         WriteStack, Publish, LeaveThunk, Goto
<1>3. probe \in 0 .. MaxProbes /\ MaxProbes \in Nat /\ 0 \notin Threads
  BY SessionAssumption, RingAssumption DEF Base, TypeInv, TypeOK
<1>4. CASE pc[t] # "user"
  <2>1. t = probe
    BY <1>4 DEF SoleInv
  <2>2. probe \in Workers /\ worker[probe] \in WorkerPc
    BY <1>3, <2>1 DEF Workers, Base, TypeInv, TypeOK
  <2>3. worker[probe] \notin BeforeProbe \cup {"gone"}
    BY <1>4, <2>1, <2>2 DEF SoleInv, Base, DangleInv
  <2> QED BY <1>1, <2>1, <2>2, <2>3 DEF BeforeProbe, WorkerPc
<1>5. CASE Call(t)
  <2>1. t \in Workers /\ worker[t] \in {"probe", "exit"}
    BY <1>5 DEF Call, SoleInv, Bystanders
  <2>2. t = probe
    BY <2>1 DEF Base, DangleInv
  <2> QED BY <1>1, <2>1, <2>2
<1> QED BY <1>2, <1>4, <1>5

LEMMA SoleStep ==
  ASSUME Base, SoleInv, [Next]_vars
  PROVE  SoleInv'
<1> USE SessionAssumption DEF SoleInv, Bystanders
<1>0. /\ todo \in [Threads -> Seq(Calls)] /\ worker \in [Workers -> WorkerPc]
      /\ pc \in [Threads -> ThreadPc] /\ probe \in 0 .. MaxProbes
  BY DEF Base, TypeInv, TypeOK, RingTypeOK
<1>1. CASE CallerStep
  <2>1. UNCHANGED pc
    BY <1>1, CallerOnRingOnly, ClientKeepsThreads DEF Base, ringVars, threadVars
  <2>2. CASE RunProbe
    <3>1. probe' = probe + 1 /\ callerPc = "idle" /\ UNCHANGED <<worker, todo>>
      BY <2>2 DEF RunProbe, Caller, OthersKeep, workerVars
    <3>2. probe \in Workers => pc[probe] = "user"
      BY <3>1 DEF Base, DangleInv, ProbePc, BeforeProbe
    <3>3. \A t \in Threads : pc[t] = "user"
      BY <1>0, <3>2, RingAssumption DEF Workers
    <3> QED BY <2>1, <3>1, <3>3
  <2>3. CASE StartWorker
    <3>1. /\ probe \in Workers /\ probe' = probe
          /\ worker' = [worker EXCEPT ![probe] = "target"]
          /\ todo' = [todo EXCEPT ![probe] = script]
      BY <2>3 DEF StartWorker, Caller, SessionKeeps, Base, TypeInv, IndexInv, ProbePc
    <3> QED BY <1>0, <2>1, <3>1
  <2>4. CASE ~RunProbe /\ ~StartWorker
    <3>1. UNCHANGED <<worker, todo>>
      BY <1>1, <2>4, CallerKeepsOthers
      DEF OthersKeep, StartMonitor, StartMonitorFails, Go, LetGo, workerVars
    <3>2. probe' = probe
      BY <1>1, <2>4
      DEF CallerStep, Construct, Destroy, ResetDisarm, ResetTarget, ResetSlot,
          StartWorkerFails, SeeStarted, StartTimesOut, StartMonitor, StartMonitorFails,
          Abort, Arm, Go, LetGo, JoinMonitor, MonitorTimesOut, TimeoutDisarm,
          TimeoutRelease, WorkerTimesOut, WorkerRelease, Collect, Unregister, ReleaseSlot,
          CallerOnRing, SessionKeeps, Return
    <3> QED BY <2>1, <3>1, <3>2
  <2> QED BY <2>2, <2>3, <2>4
<1>2. ASSUME NEW w \in Workers, WorkerStep(w)
      PROVE  SoleInv'
  <2>1. UNCHANGED pc /\ UNCHANGED probe /\ w = probe
    BY <1>2, WorkerIsProbe DEF threadVars, callerVars
  <2>2. \A t \in Bystanders : todo'[t] = todo[t]
    BY <1>0, <1>2
    DEF WorkerStep, WorkerTarget, WorkerStarted, WorkerGo, WorkerDone, WorkerExit
  <2>3. \A v \in Workers : worker'[v] = "gone" => worker[v] = "gone" \/ pc[v] = "user"
    BY <1>0, <1>2
    DEF WorkerStep, WorkerTarget, WorkerStarted, WorkerGo, WorkerDone, WorkerExit, Worker
  <2> QED BY <2>1, <2>2, <2>3
<1>3. ASSUME NEW t \in Threads, ThreadRuns(t)
      PROVE  SoleInv'
  <2>1. /\ t = probe /\ probe \in Workers /\ worker[probe] \in {"probe", "exit"}
        /\ UNCHANGED <<callerVars, worker>>
    BY <1>3, RunnerIsProbe
  <2>2. \A u \in Threads \ {t} : pc'[u] = pc[u] /\ todo'[u] = todo[u]
    BY <1>0, <1>3
    DEF ThreadRuns, Call, KernelReturn, ThunkStep, sessionVars, workerVars, SyscallEnter,
        SyscallReturn, ThunkEnter, Thunk, CheckArmed, CheckTarget, ClaimSlot, SkipSlot,
        DropCallback, WriteThreadId, WritePreviousPc, WriteStack, Publish, LeaveThunk, Goto
  <2> QED BY <2>1, <2>2 DEF callerVars
<1>4. CASE MonitorStep
  <2>1. UNCHANGED pc
    BY <1>4, MonitorOnRingOnly, ClientKeepsThreads DEF Base, ringVars, threadVars
  <2> QED BY <1>4, <2>1, MonitorRuns DEF callerVars, workerVars
<1>5. CASE Tick \/ Closed \/ UNCHANGED vars
  BY <1>5 DEF Tick, Closed, vars, sessionVars, callerVars, workerVars, ringVars, threadVars
<1> QED BY <1>1, <1>2, <1>3, <1>4, <1>5 DEF Next

LEMMA SoleHolds ==
  ASSUME WorkersInTime, OnlyProbesCall
  PROVE  Spec => []SoleInv
<1>1. Init => SoleInv
  BY DEF Init, RingInit, SoleInv, OnlyProbesCall, Bystanders
<1> QED BY <1>1, SoleStep, BaseHolds, PTL DEF Spec

(* While that worker is not in its probe or its exit the ring is at rest.  *)
LEMMA AtRest ==
  ASSUME Base, SoleInv,
         probe \in Workers => worker[probe] \in BeforeProbe \cup {"gone"}
  PROVE  /\ \A t \in Threads : pc[t] = "user"
         /\ \A i \in Slots : slots[i].State = "Free"
<1>1. \A t \in Threads : pc[t] = "user"
  <2> SUFFICES ASSUME NEW t \in Threads, t = probe
               PROVE  pc[t] = "user"
    BY DEF SoleInv
  <2>1. probe \in Workers
    BY SessionAssumption, RingAssumption DEF Base, TypeInv, TypeOK, Workers
  <2> QED BY <2>1 DEF SoleInv, Base, DangleInv
<1>2. \A i \in Slots : slots[i].State = "Free"
  BY <1>1 DEF Base, NoOrphanSlot, Holding, Writing
<1> QED BY <1>1, <1>2

LEMMA OutsideProbe ==
  ASSUME Base, SoleInv, callerPc \notin ProbePc \ {"startWorker"}
  PROVE  /\ \A t \in Threads : pc[t] = "user"
         /\ \A i \in Slots : slots[i].State = "Free"
<1>1. probe \in Workers => worker[probe] \in {"none", "gone"}
  BY DEF Base, DangleInv
<1> QED BY <1>1, AtRest DEF BeforeProbe

-----------------------------------------------------------------------------
(* What is in a slot that is held.                                         *)

FieldsInv ==
    \A t \in Threads :
        /\ pc[t] # "user" => call[t] \in Calls
        /\ pc[t] \in Holding \ {"writeThread"} => slots[at[t]].ThreadId = t
        /\ pc[t] \in {"writeStack", "publish", "spin"} =>
               slots[at[t]].PreviousProgramCounter = call[t]
        /\ pc[t] \in {"publish", "spin"} => slots[at[t]].StackArguments = call[t]
        /\ pc[t] \in Writing => slots[at[t]].State # "Ready"
        /\ pc[t] = "spin" => slots[at[t]].State # "Writing"

(* Freeing a slot leaves its fields as they are.                           *)
LEMMA ClearKeepsFields ==
  ASSUME RingTypeOK, UNCHANGED threadVars,
         UNCHANGED slots \/ \E i \in Slots : ClearCallbackSlot(i)
  PROVE  /\ FieldsInv => FieldsInv'
         /\ \A i \in Slots :
              /\ slots'[i].State \in {slots[i].State, "Free"}
              /\ slots'[i].ThreadId = slots[i].ThreadId
              /\ slots'[i].PreviousProgramCounter = slots[i].PreviousProgramCounter
              /\ slots'[i].StackArguments = slots[i].StackArguments
<1>1. \A i \in Slots :
          /\ slots'[i].State \in {slots[i].State, "Free"}
          /\ slots'[i].ThreadId = slots[i].ThreadId
          /\ slots'[i].PreviousProgramCounter = slots[i].PreviousProgramCounter
          /\ slots'[i].StackArguments = slots[i].StackArguments
  BY DEF ClearCallbackSlot, RingTypeOK, CallbackSlot
<1>2. \A t \in Threads : pc[t] \in Holding => at[t] \in Slots
  BY DEF RingTypeOK
<1> QED BY <1>1, <1>2 DEF FieldsInv, threadVars, Holding, Writing

(* The caller writes slots while it resets the ring and after a timeout.   *)
LEMMA CallerOnSlots ==
  ASSUME Base, CallerStep
  PROVE  /\ UNCHANGED threadVars
         /\ \/ callerPc \in ResetPc
            \/ UNCHANGED slots
            \/ /\ callerPc \in {"timeoutRelease", "workerRelease"} /\ UNCHANGED armed
               /\ \E i \in Slots : ClearCallbackSlot(i)
<1>1. UNCHANGED threadVars
  BY CallerOnRingOnly, ClientKeepsThreads DEF Base, ringVars
<1>2. CASE ResetDisarm \/ ResetTarget \/ ResetSlot
  BY <1>1, <1>2 DEF ResetDisarm, ResetTarget, ResetSlot, Caller, ResetPc
<1>3. CASE TimeoutRelease \/ WorkerRelease
  <2>1. cursor \in Slots
    BY DEF Base, TypeInv, TypeOK
  <2> QED BY <1>1, <1>3, <2>1 DEF TimeoutRelease, WorkerRelease, ReleaseSlot, Caller,
                                  CallerOnRing, ClearCallbackSlot
<1>4. CASE Arm \/ TimeoutDisarm
  BY <1>1, <1>4 DEF Arm, TimeoutDisarm, CallerOnRing, SetArmed
<1>5. CASE Construct \/ RunProbe \/ Destroy \/ StartWorker \/ StartWorkerFails
           \/ SeeStarted \/ StartTimesOut \/ StartMonitor
  BY <1>1, <1>5 DEF Construct, RunProbe, Destroy, StartWorker, StartWorkerFails, SeeStarted,
                    StartTimesOut, StartMonitor, Return, ringVars
<1>6. CASE StartMonitorFails \/ Abort \/ Go \/ JoinMonitor \/ MonitorTimesOut
           \/ WorkerTimesOut \/ Collect \/ Unregister
  BY <1>1, <1>6 DEF StartMonitorFails, Abort, Go, LetGo, JoinMonitor, MonitorTimesOut,
                    WorkerTimesOut, Collect, Unregister, Return, ringVars
<1> QED BY <1>2, <1>3, <1>4, <1>5, <1>6 DEF CallerStep

(* The monitor only ever frees the slot at its index.                      *)
LEMMA MonitorOnSlots ==
  ASSUME Base, MonitorStep
  PROVE  /\ UNCHANGED threadVars
         /\ \/ UNCHANGED slots
            \/ /\ monitorPc \in {"release", "clear", "missRelease"}
               /\ \E i \in Slots : ClearCallbackSlot(i)
<1> USE DEF Base, TypeInv, IndexInv, UsesSlot, Monitor, Local
<1>1. UNCHANGED threadVars
  BY MonitorOnRingOnly, ClientKeepsThreads DEF ringVars
<1>2. CASE Poll \/ FindReady \/ PassSlot \/ EndScan \/ CopyField \/ OpenTarget
           \/ OpenTargetFails
  BY <1>1, <1>2 DEF Poll, FindReady, PassSlot, EndScan, CopyField, OpenTarget,
                    OpenTargetFails, ringVars
<1>3. CASE Suspend \/ SuspendFails \/ QuerySucceeds \/ QueryFails \/ Resume \/ Classify
  BY <1>1, <1>3 DEF Suspend, SuspendFails, QuerySucceeds, QueryFails, Resume, Classify,
                    ringVars
<1>4. CASE MonitorDisarm \/ MissDisarm
  BY <1>1, <1>4 DEF MonitorDisarm, MissDisarm, SetArmed
<1>5. CASE Release \/ MonitorClear \/ MissRelease
  BY <1>1, <1>5 DEF Release, MonitorClear, MissRelease
<1> QED BY <1>2, <1>3, <1>4, <1>5 DEF MonitorStep

LEMMA FieldsThreadStep ==
  ASSUME Base, SoleInv, FieldsInv, NEW t \in Threads, ThreadRuns(t)
  PROVE  FieldsInv'
<1>1. t = probe /\ probe' = probe
  BY RunnerIsProbe DEF callerVars
<1>2. \A u \in Threads \ {t} : pc[u] = "user" /\ pc'[u] = "user"
  <2>1. \A u \in Threads \ {t} : pc'[u] = pc[u]
    BY DEF ThreadRuns, Call, KernelReturn, ThunkStep, SyscallEnter, SyscallReturn,
           ThunkEnter, Thunk, CheckArmed, CheckTarget, ClaimSlot, SkipSlot, DropCallback,
           WriteThreadId, WritePreviousPc, WriteStack, Publish, LeaveThunk, Goto, Base,
           TypeInv, TypeOK, RingTypeOK
  <2> QED BY <1>1, <2>1 DEF SoleInv
<1>3. SUFFICES
        /\ pc'[t] # "user" => call'[t] \in Calls
        /\ pc'[t] \in Holding \ {"writeThread"} => slots'[at'[t]].ThreadId = t
        /\ pc'[t] \in {"writeStack", "publish", "spin"} =>
               slots'[at'[t]].PreviousProgramCounter = call'[t]
        /\ pc'[t] \in {"publish", "spin"} => slots'[at'[t]].StackArguments = call'[t]
        /\ pc'[t] \in Writing => slots'[at'[t]].State # "Ready"
        /\ pc'[t] = "spin" => slots'[at'[t]].State # "Writing"
  BY <1>2 DEF FieldsInv, Holding, Writing
<1> USE DEF FieldsInv, Holding, Writing, Goto, Base, TypeInv, TypeOK, RingTypeOK, CallbackSlot
<1>4. CASE Call(t)
  <2>1. Head(todo[t]) \in Calls /\ SyscallEnter(t, Head(todo[t]))
    <3>1. todo[t] \in Seq(Calls) /\ todo[t] # <<>>
      BY <1>4 DEF Call
    <3> QED BY <1>4, <3>1 DEF Call
  <2> QED BY <2>1 DEF SyscallEnter
<1>5. CASE KernelReturn(t)
  BY <1>5 DEF KernelReturn, SyscallReturn, ThunkEnter
<1>6. CASE CheckArmed(t) \/ CheckTarget(t) \/ SkipSlot(t) \/ DropCallback(t) \/ LeaveThunk(t)
  BY <1>6 DEF CheckArmed, CheckTarget, SkipSlot, DropCallback, LeaveThunk
<1>7. CASE ClaimSlot(t)
  BY <1>7 DEF ClaimSlot
<1>8. CASE WriteThreadId(t)
  BY <1>8 DEF WriteThreadId, IdOf
<1>9. CASE WritePreviousPc(t)
  BY <1>9 DEF WritePreviousPc
<1>10. CASE WriteStack(t)
  BY <1>10 DEF WriteStack
<1>11. CASE Publish(t)
  BY <1>11 DEF Publish
<1> QED BY <1>4, <1>5, <1>6, <1>7, <1>8, <1>9, <1>10, <1>11 DEF ThreadRuns, ThunkStep, Thunk

LEMMA FieldsHold ==
  ASSUME WorkersInTime, OnlyProbesCall
  PROVE  Spec => []FieldsInv
<1>1. Init => FieldsInv
  BY DEF Init, RingInit, FieldsInv, Holding, Writing
<1>2. Base /\ SoleInv /\ FieldsInv /\ [Next]_vars => FieldsInv'
  <2> SUFFICES ASSUME Base, SoleInv, FieldsInv, [Next]_vars
               PROVE  FieldsInv'
    OBVIOUS
  <2>0. RingTypeOK
    BY DEF Base, TypeInv, TypeOK
  <2>1. CASE CallerStep
    <3>1. CASE callerPc \in ResetPc
      <4>1. \A t \in Threads : pc'[t] = "user"
        BY <2>1, <3>1, OutsideProbe, CallerOnSlots DEF threadVars, ResetPc, ProbePc
      <4> QED BY <4>1 DEF FieldsInv, Holding, Writing
    <3> QED BY <2>0, <2>1, <3>1, CallerOnSlots, ClearKeepsFields
  <2>2. CASE MonitorStep
    BY <2>0, <2>2, MonitorOnSlots, ClearKeepsFields
  <2>3. ASSUME NEW w \in Workers, WorkerStep(w)
        PROVE  FieldsInv'
    BY <2>0, <2>3, WorkerIsProbe, ClearKeepsFields
  <2>4. CASE \E t \in Threads : ThreadRuns(t)
    BY <2>4, FieldsThreadStep
  <2>5. CASE Tick \/ Closed \/ UNCHANGED vars
    BY <2>0, <2>5, ClearKeepsFields DEF Tick, Closed, vars, sessionVars, ringVars
  <2> QED BY <2>1, <2>2, <2>3, <2>4, <2>5 DEF Next
<1> QED BY <1>1, <1>2, BaseHolds, SoleHolds, PTL DEF Spec

RingBase == Base /\ PhaseInv /\ SoleInv /\ FieldsInv

LEMMA RingBaseHolds ==
  ASSUME WorkersInTime, OnlyProbesCall
  PROVE  Spec => []RingBase
  BY BaseHolds, PhaseHolds, SoleHolds, FieldsHold, PTL DEF RingBase

-----------------------------------------------------------------------------
(* The monitor's copy of a slot.                                           *)

(* A slot that is ready is that of the worker, who waits and has filled it.*)
LEMMA ReadySlot ==
  ASSUME RingBase, NEW i \in Slots, slots[i].State = "Ready"
  PROVE  /\ probe \in Workers /\ probe \in Threads
         /\ pc[probe] = "spin" /\ at[probe] = i /\ call[probe] \in Calls
         /\ slots[i].ThreadId = probe
         /\ slots[i].PreviousProgramCounter = call[probe]
         /\ slots[i].StackArguments = call[probe]
<1>1. PICK t \in Threads : pc[t] \in Holding /\ at[t] = i
  BY DEF RingBase, Base, NoOrphanSlot
<1>2. t = probe
  BY <1>1 DEF RingBase, SoleInv, Holding, Writing
<1>3. probe \in Workers
  BY <1>2, RingAssumption, SessionAssumption
  DEF RingBase, Base, TypeInv, TypeOK, Workers
<1>4. pc[t] = "spin"
  BY <1>1 DEF RingBase, FieldsInv, Holding
<1> QED BY <1>1, <1>2, <1>3, <1>4 DEF RingBase, FieldsInv, Holding

(* Where the caller arms the ring, nobody is in the thunk.                 *)
LEMMA RestToArm ==
  ASSUME RingBase, callerPc \in {"startMonitor", "arm", "go"}
  PROVE  /\ probe \in Workers /\ worker[probe] = "go" /\ probe \notin go \cup done
         /\ \A t \in Threads : pc[t] = "user"
         /\ \A i \in Slots : slots[i].State = "Free"
<1>1. probe \in Workers /\ ~closing
  BY DEF RingBase, Base, TypeInv, IndexInv, DangleInv, ProbePc
<1>2. worker[probe] = "go" /\ probe \notin go \cup done
  BY <1>1 DEF RingBase, PhaseInv, BeforeGo, Announced, ProbePc
<1> QED BY <1>1, <1>2, AtRest DEF RingBase, BeforeProbe

Copying == {"copyThread", "copyPc", "copyStack"}

(* While the monitor copies a slot, nobody writes it: the worker waits     *)
(* there or, where the caller has timed out and has freed the slot, the    *)
(* ring is disarmed and the worker can claim none.                         *)
CopyInv ==
    /\ callerPc = "arm" => monitorPc \in {"poll", "scan", "missDisarm", "missRelease", "gone"}
    /\ monitorPc \in Copying =>
          /\ \/ /\ pc[probe] = "spin" /\ at[probe] = scan
                /\ slots[scan].State = "Ready" \/ ~armed
             \/ ~armed /\ pc[probe] \in {"user", "kernel", "armed"}
          /\ slots[scan].ThreadId = probe
          /\ slots[scan].PreviousProgramCounter # 0
          /\ slots[scan].StackArguments = slots[scan].PreviousProgramCounter
    /\ monitorPc \in {"copyPc", "copyStack"} => record.ThreadId = probe
    /\ monitorPc = "copyStack" =>
          record.PreviousProgramCounter = slots[scan].PreviousProgramCounter
    /\ RecordIntact

(* Between the start of the monitor and its join, the caller keeps to its  *)
(* probe and arms the ring once.                                           *)
LEMMA CallerBesideMonitor ==
  ASSUME Base, CallerStep, monitorPc \notin {"none", "gone"}
  PROVE  /\ callerPc \in WithMonitor
         /\ UNCHANGED <<probe, script, event, closing, installed, registered, monitorVars,
                        worker, todo, started, done, suspended>>
         /\ \/ Arm \/ Go \/ MonitorTimesOut \/ TimeoutDisarm \/ TimeoutRelease
<1>1. callerPc \in WithMonitor
  BY DEF Base, MonitorJoined
<1>2. Arm \/ Go \/ MonitorTimesOut \/ TimeoutDisarm \/ TimeoutRelease
  BY <1>1 DEF CallerStep, Construct, RunProbe, Destroy, ResetDisarm, ResetTarget, ResetSlot,
              StartWorker, StartWorkerFails, SeeStarted, StartTimesOut, StartMonitor,
              StartMonitorFails, LetGo, Abort, JoinMonitor, WorkerTimesOut, WorkerRelease,
              ReleaseSlot, Collect, Unregister, Caller, WithMonitor
<1>3. UNCHANGED <<probe, script, event, closing, installed, registered, monitorVars,
                  worker, todo, started, done, suspended>>
  BY <1>2 DEF Arm, Go, LetGo, MonitorTimesOut, TimeoutDisarm, TimeoutRelease, ReleaseSlot,
              CallerOnRing, SessionKeeps, OthersKeep, workerVars
<1> QED BY <1>1, <1>2, <1>3

LEMMA CopyCallerStep ==
  ASSUME RingBase, CopyInv, CallerStep
  PROVE  CopyInv'
<1> USE DEF CopyInv, RecordIntact, Copied, Copying
<1>0. UNCHANGED threadVars
  BY CallerOnSlots DEF RingBase
<1>1. CASE monitorPc \notin {"none", "gone"}
  <2>1. /\ callerPc \in WithMonitor /\ UNCHANGED <<probe, monitorVars>>
        /\ Arm \/ Go \/ MonitorTimesOut \/ TimeoutDisarm \/ TimeoutRelease
    BY <1>1, CallerBesideMonitor DEF RingBase
  <2>2. callerPc' # "arm"
    BY <2>1 DEF Arm, Go, LetGo, MonitorTimesOut, TimeoutDisarm, TimeoutRelease, ReleaseSlot,
                Loop, Caller
  <2>3. monitorPc \in Copying => (armed' => armed) /\ callerPc # "arm"
    BY <2>1 DEF Arm, Go, LetGo, MonitorTimesOut, TimeoutDisarm, TimeoutRelease, ReleaseSlot,
                CallerOnRing, Caller, SetArmed, ClearCallbackSlot, ringVars
  <2>4. /\ UNCHANGED slots \/ \E i \in Slots : ClearCallbackSlot(i)
        /\ UNCHANGED slots \/ (~armed /\ ~armed')
    <3>1. callerPc = "workerRelease" => FALSE
      BY <2>1 DEF WithMonitor
    <3>2. callerPc \in ResetPc => FALSE
      BY <2>1 DEF WithMonitor, ResetPc
    <3>3. UNCHANGED slots \/ /\ callerPc = "timeoutRelease" /\ UNCHANGED armed
                             /\ \E i \in Slots : ClearCallbackSlot(i)
      BY <3>1, <3>2, CallerOnSlots DEF RingBase
    <3>4. callerPc = "timeoutRelease" => ~armed
      BY DEF RingBase, PhaseInv
    <3> QED BY <3>3, <3>4
  <2>5. monitorPc \in Copying => scan \in Slots
    BY DEF RingBase, Base, TypeInv, IndexInv, UsesSlot
  <2>6. \A i \in Slots : /\ slots'[i].ThreadId = slots[i].ThreadId
                         /\ slots'[i].PreviousProgramCounter = slots[i].PreviousProgramCounter
                         /\ slots'[i].StackArguments = slots[i].StackArguments
    BY <1>0, <2>4, ClearKeepsFields DEF RingBase, Base, TypeInv, TypeOK
  <2> QED BY <1>0, <2>1, <2>2, <2>3, <2>4, <2>5, <2>6 DEF monitorVars, threadVars
<1>2. CASE monitorPc \in {"none", "gone"} /\ ~StartMonitor
  <2>1. UNCHANGED monitorVars
    BY <1>2, CallerKeepsOthers DEF OthersKeep, StartWorker, StartMonitorFails, Go, LetGo
  <2>2. callerPc' # "arm"
    BY <1>2 DEF CallerStep, Construct, RunProbe, Destroy, ResetDisarm, ResetTarget,
                ResetSlot, StartWorker, StartWorkerFails, SeeStarted, StartTimesOut,
                StartMonitorFails, LetGo, Abort, Arm, Go, JoinMonitor, MonitorTimesOut,
                TimeoutDisarm, TimeoutRelease, WorkerTimesOut, WorkerRelease, Collect,
                Unregister, ReleaseSlot, Loop, Caller, Return
  <2> QED BY <1>2, <2>1, <2>2 DEF monitorVars
<1>3. CASE StartMonitor
  BY <1>3 DEF StartMonitor
<1> QED BY <1>1, <1>2, <1>3

LEMMA CopyThreadStep ==
  ASSUME RingBase, CopyInv, NEW t \in Threads, ThreadRuns(t)
  PROVE  CopyInv'
<1>1. /\ t = probe /\ UNCHANGED <<callerVars, monitorVars, armed>>
  BY RunnerIsProbe DEF RingBase
<1>2. CASE monitorPc \in Copying
  <2>1. UNCHANGED slots
    BY <1>1, <1>2
    DEF CopyInv, Copying, ThreadRuns, Call, KernelReturn, ThunkStep, SyscallEnter,
        SyscallReturn, ThunkEnter, Thunk, CheckArmed, CheckTarget, ClaimSlot, SkipSlot,
        DropCallback, WriteThreadId, WritePreviousPc, WriteStack, Publish, LeaveThunk, Goto
  <2>2. \/ pc[t] = "spin" /\ ~armed /\ pc'[t] = "user"
        \/ ~armed /\ pc'[t] \in {"user", "kernel", "armed"}
    BY <1>1, <1>2
    DEF CopyInv, Copying, ThreadRuns, Call, KernelReturn, ThunkStep, SyscallEnter,
        SyscallReturn, ThunkEnter, Thunk, CheckArmed, CheckTarget, ClaimSlot, SkipSlot,
        DropCallback, WriteThreadId, WritePreviousPc, WriteStack, Publish, LeaveThunk,
        Released, Goto, RingBase, Base, TypeInv, TypeOK, RingTypeOK
  <2> QED BY <1>1, <2>1, <2>2 DEF CopyInv, Copying, RecordIntact, Copied, callerVars,
                                  monitorVars
<1>3. CASE monitorPc \notin Copying
  BY <1>1, <1>3 DEF CopyInv, Copying, RecordIntact, Copied, callerVars, monitorVars
<1> QED BY <1>2, <1>3

LEMMA CopyMonitorStep ==
  ASSUME RingBase, CopyInv, MonitorStep
  PROVE  CopyInv'
<1> USE DEF CopyInv, Copying, RecordIntact, Copied, Monitor, Seen, Local
<1>0. probe' = probe /\ callerPc' = callerPc
  BY MonitorRuns DEF callerVars
<1>1. CASE FindReady
  <2>1. /\ scan \in Slots /\ slots[scan].State = "Ready" /\ monitorPc' = "copyThread"
        /\ UNCHANGED <<scan, slots, pc, at>> /\ callerPc # "arm"
    <3>1. scan \in Slots /\ slots[scan].State = "Ready"
      BY <1>1 DEF FindReady, Scanning, IsReady
    <3>2. callerPc # "arm"
      BY <3>1, RestToArm
    <3> QED BY <1>1, <3>1, <3>2 DEF FindReady, ringVars, threadVars
  <2>2. /\ pc[probe] = "spin" /\ at[probe] = scan /\ slots[scan].ThreadId = probe
        /\ slots[scan].PreviousProgramCounter = slots[scan].StackArguments
        /\ slots[scan].PreviousProgramCounter \in Calls
    BY <2>1, ReadySlot
  <2> QED BY <1>0, <2>1, <2>2, RingAssumption
<1>2. CASE CopyField
  <2>1. /\ monitorPc \in Copying /\ callerPc # "arm" /\ UNCHANGED <<scan, slots, pc, at, armed>>
        /\ record \in CallbackRecord
    BY <1>2 DEF CopyField, ringVars, threadVars, RingBase, Base, TypeInv, TypeOK
  <2>2. \/ /\ monitorPc = "copyThread" /\ monitorPc' = "copyPc"
           /\ record'.ThreadId = slots[scan].ThreadId
        \/ /\ monitorPc = "copyPc" /\ monitorPc' = "copyStack"
           /\ record'.ThreadId = record.ThreadId
           /\ record'.PreviousProgramCounter = slots[scan].PreviousProgramCounter
        \/ /\ monitorPc = "copyStack" /\ monitorPc' = "open"
           /\ record'.ThreadId = record.ThreadId
           /\ record'.PreviousProgramCounter = record.PreviousProgramCounter
           /\ record'.StackArguments = slots[scan].StackArguments
    BY <1>2, <2>1 DEF CopyField, CallbackRecord
  <2> QED BY <1>0, <2>1, <2>2
<1>3. CASE Poll \/ PassSlot \/ EndScan
  <2>1. /\ monitorPc' \notin Copying /\ ~Copied' /\ monitorPc \in {"poll", "scan", "lastScan"}
        /\ monitorPc' \in {"poll", "scan", "lastScan", "missDisarm"}
        /\ monitorPc' = "lastScan" => probe \in done \/ monitorPc = "lastScan"
    BY <1>3 DEF Poll, PassSlot, Scanning, EndScan
  <2>2. callerPc = "arm" => probe \notin done
    BY RestToArm
  <2> QED BY <1>0, <2>1, <2>2
<1>4. CASE OpenTarget \/ OpenTargetFails \/ Suspend \/ SuspendFails \/ QuerySucceeds
           \/ QueryFails \/ Release \/ Resume \/ Classify \/ MonitorDisarm \/ MonitorClear
  <2>1. Copied /\ UNCHANGED record /\ monitorPc' \notin Copying
    BY <1>4 DEF OpenTarget, OpenTargetFails, Suspend, SuspendFails, QuerySucceeds, QueryFails,
                Release, Resume, Classify, MonitorDisarm, MonitorClear
  <2> QED BY <1>0, <2>1
<1>5. CASE MissDisarm \/ MissRelease
  BY <1>0, <1>5 DEF MissDisarm, MissRelease
<1> QED BY <1>1, <1>2, <1>3, <1>4, <1>5 DEF MonitorStep

LEMMA CopyHolds ==
  ASSUME WorkersInTime, OnlyProbesCall
  PROVE  Spec => []CopyInv
<1>1. Init => CopyInv
  BY DEF Init, CopyInv, Copying, RecordIntact, Copied
<1>2. RingBase /\ CopyInv /\ [Next]_vars => CopyInv'
  <2> SUFFICES ASSUME RingBase, CopyInv, [Next]_vars
               PROVE  CopyInv'
    OBVIOUS
  <2>1. ASSUME NEW w \in Workers, WorkerStep(w)
        PROVE  CopyInv'
    <3>1. UNCHANGED <<callerVars, monitorVars, slots, armed, threadVars>>
      BY <2>1, WorkerIsProbe DEF RingBase
    <3> QED BY <3>1 DEF CopyInv, Copying, RecordIntact, Copied, callerVars, monitorVars,
                        threadVars
  <2>2. CASE Tick \/ Closed \/ UNCHANGED vars
    BY <2>2 DEF Tick, Closed, vars, sessionVars, callerVars, monitorVars, ringVars,
                threadVars, CopyInv, Copying, RecordIntact, Copied
  <2> QED BY <2>1, <2>2, CopyCallerStep, CopyThreadStep, CopyMonitorStep DEF Next
<1> QED BY <1>1, <1>2, RingBaseHolds, PTL DEF Spec

(* Where workers start in time, the record that the monitor judges by is   *)
(* one whole record of the probe's worker, although the monitor copies it  *)
(* field by field and the caller may time out and free the slot meanwhile. *)
THEOREM RecordIsWhole ==
  ASSUME WorkersInTime, OnlyProbesCall
  PROVE  Spec => []RecordIntact
<1>1. CopyInv => RecordIntact
  BY DEF CopyInv
<1> QED BY <1>1, CopyHolds, PTL

(* The ring is armed only while no slot is in use and the worker waits for *)
(* Go, so that the first call that is captured is one of the probe.        *)
THEOREM ArmedWhenEmpty ==
  ASSUME WorkersInTime, OnlyProbesCall
  PROVE  Spec => ArmsAnEmptyRing
<1> DEFINE EmptyThen == /\ \A i \in Slots : slots[i].State = "Free"
                        /\ worker[probe] = "go" /\ pc[probe] = "user"
<1>1. RingBase /\ [Next]_vars => [~armed /\ armed' => EmptyThen]_vars
  <2> SUFFICES ASSUME RingBase, Next, ~armed, armed'
               PROVE  EmptyThen
    OBVIOUS
  <2>1. callerPc = "arm"
    BY RestOfStep, WorkerIsProbe
    DEF Next, RingBase, CallerStep, Construct, RunProbe, Destroy, ResetDisarm, ResetTarget,
        ResetSlot, StartWorker, StartWorkerFails, SeeStarted, StartTimesOut, StartMonitor,
        StartMonitorFails, Abort, Arm, Go, LetGo, JoinMonitor, MonitorTimesOut,
        TimeoutDisarm, TimeoutRelease, WorkerTimesOut, WorkerRelease, Collect, Unregister,
        ReleaseSlot, CallerOnRing, SetArmed, SetTarget, ClearCallbackSlot, ZeroThreadId,
        ZeroPreviousPc, ZeroStack, Return, Caller, ringVars
  <2>2. probe \in Threads
    BY <2>1, RestToArm, SessionAssumption
  <2> QED BY <2>1, <2>2, RestToArm
<1> QED BY <1>1, RingBaseHolds, PTL DEF Spec, ArmsAnEmptyRing

-----------------------------------------------------------------------------
(* For whom the ring is armed, and until when.                             *)

\* The code between two waits takes less than the five seconds of a wait.
CodeInTime == "slowCode" \notin Faults

(* The monitor's deadline cannot pass before the caller has armed the      *)
(* ring, so whoever ends the probe still has to disarm it.                 *)
ArmedInv ==
    /\ callerPc \in {"arm", "go"} => "deadline" \notin expired /\ monitorPc \in {"poll", "scan"}
    /\ armed => /\ callerPc \in {"go", "waitMonitor", "timeoutDisarm"}
                /\ monitorPc \notin {"none", "gone", "clear", "missRelease"}
    /\ callerPc \in ProbePc /\ worker[probe] \notin {"none", "target"} => target = probe

LEMMA ArmedCallerStep ==
  ASSUME RingBase, ArmedInv, CallerStep
  PROVE  ArmedInv'
<1> USE DEF ArmedInv, Caller, ProbePc, ResetPc
<1>1. CASE Construct \/ RunProbe \/ Destroy \/ Unregister
  <2>1. UNCHANGED armed /\ callerPc \in {"construct", "idle", "unregister"}
        /\ callerPc' \in {"idle", "disarm", "closed"}
    BY <1>1 DEF Construct, RunProbe, Destroy, Unregister, ringVars
  <2> QED BY <2>1
<1>2. CASE StartWorkerFails \/ StartTimesOut \/ Abort \/ Collect
  <2>1. ~armed /\ ~armed' /\ callerPc' = "idle"
    BY <1>2 DEF StartWorkerFails, StartTimesOut, Abort, Collect, Return, ringVars
  <2> QED BY <2>1
<1>3. CASE ResetDisarm \/ ResetTarget \/ ResetSlot
  <2>1. /\ ~armed /\ ~armed' /\ callerPc' \in ResetPc \cup {"startWorker", "unregister"}
        /\ callerPc' = "startWorker" => ~closing /\ callerPc = "resetStack"
        /\ UNCHANGED <<probe, worker>>
    BY <1>3 DEF ResetDisarm, ResetTarget, ResetSlot, Loop, CallerOnRing, SessionKeeps,
                OthersKeep, workerVars, SetArmed, SetTarget, ClearCallbackSlot, ZeroThreadId,
                ZeroPreviousPc, ZeroStack
  <2>2. callerPc' = "startWorker" => worker[probe] = "none"
    BY <2>1 DEF RingBase, Base, DangleInv
  <2> QED BY <2>1, <2>2
<1>4. CASE StartWorker
  <2>1. /\ ~armed /\ ~armed' /\ callerPc' = "waitStarted" /\ callerPc = "startWorker"
        /\ worker' = [worker EXCEPT ![probe] = "target"] /\ probe' = probe
    BY <1>4 DEF StartWorker, SessionKeeps, ringVars
  <2>2. worker'[probe] = "target"
    BY <2>1 DEF RingBase, Base, TypeInv, TypeOK, IndexInv
  <2> QED BY <2>1, <2>2
<1>5. CASE StartMonitor
  <2>1. /\ UNCHANGED <<armed, target, worker, probe>> /\ callerPc = "startMonitor"
        /\ callerPc' = "arm" /\ monitorPc' = "poll" /\ "deadline" \notin expired'
    BY <1>5 DEF StartMonitor, SessionKeeps, workerVars, ringVars
  <2> QED BY <2>1
<1>6. CASE Arm
  <2>1. /\ UNCHANGED <<target, worker, probe, monitorPc, expired>>
        /\ callerPc = "arm" /\ callerPc' = "go"
    BY <1>6 DEF Arm, CallerOnRing, SetArmed, SessionKeeps, OthersKeep, workerVars, monitorVars
  <2> QED BY <2>1
<1>7. CASE SeeStarted \/ StartMonitorFails \/ Go \/ MonitorTimesOut
  <2>1. /\ UNCHANGED <<armed, target, worker, probe, monitorPc>>
        /\ \/ callerPc = "waitStarted" /\ callerPc' = "startMonitor"
           \/ callerPc = "startMonitor" /\ callerPc' = "abort"
           \/ callerPc = "go" /\ callerPc' = "waitMonitor"
           \/ callerPc = "waitMonitor" /\ callerPc' = "timeoutDisarm"
    BY <1>7 DEF SeeStarted, StartMonitorFails, Go, LetGo, MonitorTimesOut, SessionKeeps,
                OthersKeep, workerVars, monitorVars, ringVars
  <2> QED BY <2>1
<1>8. CASE TimeoutDisarm
  <2>1. /\ UNCHANGED <<target, worker, probe>> /\ ~armed' /\ callerPc = "timeoutDisarm"
        /\ callerPc' = "timeoutRelease"
    BY <1>8 DEF TimeoutDisarm, CallerOnRing, SetArmed, SessionKeeps, OthersKeep, workerVars
  <2> QED BY <2>1
<1>9. CASE TimeoutRelease \/ JoinMonitor \/ WorkerTimesOut \/ WorkerRelease
  <2>1. /\ UNCHANGED <<armed, target, worker, probe>> /\ ~armed
        /\ callerPc \in ProbePc /\ callerPc' \in ProbePc \ {"arm", "go"}
    BY <1>9 DEF TimeoutRelease, JoinMonitor, WorkerTimesOut, WorkerRelease, ReleaseSlot, Loop,
                CallerOnRing, SessionKeeps, OthersKeep, workerVars, ringVars,
                ClearCallbackSlot
  <2> QED BY <2>1
<1> QED BY <1>1, <1>2, <1>3, <1>4, <1>5, <1>6, <1>7, <1>8, <1>9 DEF CallerStep

LEMMA ArmedMonitorStep ==
  ASSUME RingBase, ArmedInv, MonitorStep
  PROVE  ArmedInv'
<1>0. UNCHANGED <<callerPc, probe, worker, expired>>
  BY MonitorRuns DEF callerVars, workerVars
<1> USE <1>0 DEF ArmedInv, Monitor, Local
<1>1. CASE Poll \/ FindReady \/ PassSlot \/ EndScan
  <2>1. /\ UNCHANGED <<armed, target>> /\ monitorPc \notin {"none", "gone", "clear", "missRelease"}
        /\ monitorPc' \notin {"none", "gone", "clear", "missRelease"}
    BY <1>1 DEF Poll, FindReady, PassSlot, EndScan, Scanning, ringVars
  <2>2. callerPc \in {"arm", "go"} => monitorPc' \in {"poll", "scan"}
    <3> SUFFICES ASSUME callerPc \in {"arm", "go"}
                 PROVE  monitorPc' \in {"poll", "scan"}
      OBVIOUS
    <3>1. probe \notin done /\ "deadline" \notin expired /\ monitorPc \in {"poll", "scan"}
      BY RestToArm
    <3>2. scan \in Slots => ~IsReady(scan)
      BY RestToArm DEF IsReady
    <3> QED BY <1>1, <3>1, <3>2 DEF Poll, FindReady, PassSlot, EndScan, Scanning, PastDeadline
  <2> QED BY <2>1, <2>2
<1>2. CASE CopyField \/ OpenTarget \/ OpenTargetFails \/ Suspend \/ SuspendFails
           \/ QuerySucceeds \/ QueryFails \/ Release \/ Resume \/ Classify
  <2>1. /\ UNCHANGED <<armed, target>>
        /\ monitorPc \notin {"poll", "scan", "none", "gone", "clear", "missRelease"}
        /\ monitorPc' \notin {"none", "gone", "clear", "missRelease"}
    BY <1>2 DEF CopyField, OpenTarget, OpenTargetFails, Suspend, SuspendFails, QuerySucceeds,
                QueryFails, Release, Resume, Classify, ringVars, ClearCallbackSlot
  <2> QED BY <2>1
<1>3. CASE MonitorDisarm \/ MissDisarm
  <2>1. ~armed' /\ UNCHANGED target /\ monitorPc \notin {"poll", "scan"}
    BY <1>3 DEF MonitorDisarm, MissDisarm, SetArmed
  <2> QED BY <2>1
<1>4. CASE MonitorClear \/ MissRelease
  <2>1. UNCHANGED <<armed, target>> /\ monitorPc \in {"clear", "missRelease"}
    BY <1>4 DEF MonitorClear, MissRelease, ClearCallbackSlot
  <2> QED BY <2>1
<1> QED BY <1>1, <1>2, <1>3, <1>4 DEF MonitorStep

LEMMA ArmedHolds ==
  ASSUME WorkersInTime, OnlyProbesCall, CodeInTime
  PROVE  Spec => []ArmedInv
<1>1. Init => ArmedInv
  BY DEF Init, RingInit, ArmedInv, ProbePc
<1>2. RingBase /\ ArmedInv /\ [Next]_vars => ArmedInv'
  <2> SUFFICES ASSUME RingBase, ArmedInv, [Next]_vars
               PROVE  ArmedInv'
    OBVIOUS
  <2>1. ASSUME NEW w \in Workers, WorkerStep(w)
        PROVE  ArmedInv'
    <3>1. w = probe /\ UNCHANGED <<callerVars, monitorVars, expired, armed>>
      BY <2>1, WorkerIsProbe DEF RingBase
    <3>2. target' = probe \/ (worker[w] \notin {"none", "target"} /\ UNCHANGED target)
      BY <2>1, <3>1
      DEF WorkerStep, WorkerTarget, WorkerStarted, WorkerGo, WorkerDone, WorkerExit, Worker,
          SetTarget, TargetOf, ringVars
    <3> QED BY <3>1, <3>2 DEF ArmedInv, callerVars, monitorVars
  <2>2. ASSUME NEW t \in Threads, ThreadRuns(t)
        PROVE  ArmedInv'
    BY <2>2, RunnerIsProbe DEF RingBase, ArmedInv, callerVars, monitorVars
  <2>3. CASE Tick
    <3>1. callerPc \notin {"arm", "go"}
      BY <2>3 DEF Tick, CodeInTime, CallerBlocked
    <3> QED BY <2>3, <3>1 DEF Tick, callerVars, monitorVars, workerVars, ringVars, ArmedInv
  <2>4. CASE Closed \/ UNCHANGED vars
    BY <2>4 DEF Closed, vars, sessionVars, callerVars, monitorVars, workerVars, ringVars,
                ArmedInv
  <2> QED BY <2>1, <2>2, <2>3, <2>4, ArmedCallerStep, ArmedMonitorStep DEF Next
<1> QED BY <1>1, <1>2, RingBaseHolds, PTL DEF Spec

(* While the ring is armed, whatever has timed out, its target is the      *)
(* worker of the probe that runs, and that worker has announced itself.    *)
THEOREM ArmedForOneWorker ==
  ASSUME WorkersInTime, OnlyProbesCall, CodeInTime
  PROVE  Spec => []ArmedForWorker
<1>1. RingBase /\ ArmedInv => ArmedForWorker
  <2> SUFFICES ASSUME RingBase, ArmedInv, armed
               PROVE  target = probe /\ probe \in started
    BY DEF ArmedForWorker
  <2>1. callerPc \in ProbePc \ {"startWorker", "waitStarted"}
    BY DEF ArmedInv, ProbePc
  <2>2. probe \in started /\ worker[probe] \in Announced
    BY <2>1 DEF RingBase, PhaseInv
  <2> QED BY <2>1, <2>2 DEF ArmedInv, Announced
<1> QED BY <1>1, RingBaseHolds, ArmedHolds, PTL

(* When RunProbe has returned, failed, or is about to start its worker,    *)
(* nothing is left of the probes before: the ring is disarmed and empty,   *)
(* no thread is in the thunk past the check of Armed, none is suspended.   *)
THEOREM QuietBetweenProbes ==
  ASSUME WorkersInTime, OnlyProbesCall, CodeInTime
  PROVE  Spec => []Quiescent
<1>1. RingBase /\ ArmedInv => Quiescent
  <2> SUFFICES ASSUME RingBase, ArmedInv, callerPc \in {"idle", "startWorker", "closed"}
               PROVE  /\ ~armed
                      /\ \A i \in Slots : slots[i].State = "Free"
                      /\ \A t \in Threads : pc[t] \notin {"claim"} \cup Holding
                      /\ suspended = {}
    BY DEF Quiescent
  <2>1. ~armed
    BY DEF ArmedInv
  <2>2. /\ \A t \in Threads : pc[t] = "user"
        /\ \A i \in Slots : slots[i].State = "Free"
    BY OutsideProbe DEF RingBase, ProbePc
  <2>3. suspended = {}
    BY DEF RingBase, Base, MonitorJoined, WithMonitor, SuspensionScoped
  <2> QED BY <2>1, <2>2, <2>3 DEF Holding, Writing
<1> QED BY <1>1, RingBaseHolds, ArmedHolds, PTL
-----------------------------------------------------------------------------
(* Whom the monitor queries, where no wait for it ever times out.          *)

\* Neither a new thread, nor a system call, nor the code between two waits
\* takes as long as a wait.
CallsInTime == {"slowStart", "slowCall", "slowCode"} \cap Faults = {}

LEMMA EnoughInTime ==
  ASSUME CallsInTime
  PROVE  WorkersInTime /\ CodeInTime
  BY DEF CallsInTime, WorkersInTime, CodeInTime

\* From the slot it has found to the end of the suspension.
HoldsSlot == Copying \cup {"open", "suspend", "query", "release"}

(* Once Go is set the monitor's wait and the caller's both end in time, so *)
(* that the caller never frees the slot that the monitor has found: the    *)
(* worker spins there until the monitor releases it.                       *)
HeldInv ==
    /\ callerPc = "waitMonitor" => "monitor" \notin expired /\ probe \in go
    /\ callerPc \notin {"timeoutDisarm", "timeoutRelease", "joinMonitor"}
    /\ callerPc \in WithMonitor => monitorPc # "none"
    /\ monitorPc \in {"poll", "scan"} => "deadline" \notin expired
    /\ monitorPc \in HoldsSlot => /\ pc[probe] = "spin" /\ at[probe] = scan
                                  /\ slots[scan].State = "Ready"
    /\ monitorPc \in {"open", "suspend", "query", "release"} =>
           record.PreviousProgramCounter = call[probe]
    /\ monitorPc \in BeforeAnswer => query = 0
    /\ QueryMatchesRecord

LEMMA HeldCallerStep ==
  ASSUME RingBase, HeldInv, CallerStep
  PROVE  HeldInv'
<1> USE DEF HeldInv, QueryMatchesRecord, Copied, WithMonitor, HoldsSlot, Copying, BeforeAnswer
<1>0. UNCHANGED threadVars
  BY CallerOnSlots DEF RingBase
<1>1. ~MonitorTimesOut /\ ~TimeoutDisarm /\ ~TimeoutRelease
  BY DEF MonitorTimesOut, TimeoutDisarm, TimeoutRelease, ReleaseSlot, Caller
<1>2. CASE Arm \/ Go
  <2>1. /\ UNCHANGED <<slots, probe, monitorVars>> /\ expired' \subseteq expired
        /\ \/ callerPc = "arm" /\ callerPc' = "go"
           \/ /\ callerPc = "go" /\ callerPc' = "waitMonitor"
              /\ probe \in go' /\ "monitor" \notin expired'
    BY <1>2 DEF Arm, Go, LetGo, Caller, CallerOnRing, SetArmed, SessionKeeps, OthersKeep,
                ringVars
  <2> QED BY <1>0, <2>1 DEF monitorVars, threadVars
<1>3. CASE StartMonitor
  BY <1>3 DEF StartMonitor, Caller
<1>4. CASE ~Arm /\ ~Go /\ ~StartMonitor
  <2>1. monitorPc \in {"none", "gone"}
    BY <1>1, <1>4, CallerBesideMonitor DEF RingBase
  <2>2. UNCHANGED monitorVars
    BY <1>4, CallerKeepsOthers DEF OthersKeep, StartWorker, StartMonitorFails, LetGo
  <2>3. callerPc' \notin WithMonitor
    BY <1>1, <1>4
    DEF CallerStep, Construct, RunProbe, Destroy, ResetDisarm, ResetTarget, ResetSlot,
        StartWorker, StartWorkerFails, SeeStarted, StartTimesOut, StartMonitorFails, LetGo,
        Abort, JoinMonitor, WorkerTimesOut, WorkerRelease, Collect, Unregister, ReleaseSlot,
        Loop, Caller, Return
  <2> QED BY <2>1, <2>2, <2>3 DEF monitorVars
<1> QED BY <1>2, <1>3, <1>4

LEMMA HeldThreadStep ==
  ASSUME RingBase, HeldInv, NEW t \in Threads, ThreadRuns(t)
  PROVE  HeldInv'
<1>1. /\ t = probe
      /\ UNCHANGED <<callerVars, monitorVars, worker, started, go, done, suspended, expired>>
  BY RunnerIsProbe DEF RingBase
<1>2. monitorPc \notin HoldsSlot
  BY <1>1
  DEF HeldInv, ThreadRuns, Call, KernelReturn, ThunkStep, SyscallEnter, SyscallReturn,
      ThunkEnter, Thunk, CheckArmed, CheckTarget, ClaimSlot, SkipSlot, DropCallback,
      WriteThreadId, WritePreviousPc, WriteStack, Publish, LeaveThunk, Released, Goto
<1> QED BY <1>1, <1>2 DEF HeldInv, HoldsSlot, QueryMatchesRecord, Copied, callerVars,
                          monitorVars

LEMMA HeldMonitorStep ==
  ASSUME RingBase, CopyInv, HeldInv, MonitorStep
  PROVE  HeldInv'
<1>0. UNCHANGED <<callerPc, probe, go, expired, threadVars>>
  BY MonitorRuns, MonitorOnSlots DEF callerVars, workerVars, RingBase
<1> USE <1>0 DEF HeldInv, QueryMatchesRecord, Copied, HoldsSlot, Copying, BeforeAnswer,
                 Monitor, Seen, Judged, Local, threadVars
<1>1. CASE Poll \/ PassSlot \/ EndScan
  <2>1. /\ monitorPc \in {"poll", "scan", "lastScan"} /\ query' = query
        /\ monitorPc' \in {"poll", "scan", "lastScan", "missDisarm"}
        /\ monitorPc' \in {"poll", "scan"} => monitorPc \in {"poll", "scan"}
    BY <1>1 DEF Poll, PassSlot, EndScan, Scanning
  <2> QED BY <2>1
<1>2. CASE FindReady
  <2>1. /\ scan \in Slots /\ slots[scan].State = "Ready" /\ monitorPc' = "copyThread"
        /\ UNCHANGED <<scan, slots, query>> /\ monitorPc \in {"scan", "lastScan"}
    BY <1>2 DEF FindReady, Scanning, IsReady, ringVars
  <2>2. pc[probe] = "spin" /\ at[probe] = scan
    BY <2>1, ReadySlot
  <2> QED BY <2>1, <2>2
<1>3. CASE CopyField
  <2>1. /\ monitorPc \in Copying /\ UNCHANGED <<scan, slots, query>>
        /\ monitorPc' \in {"copyPc", "copyStack", "open"}
        /\ monitorPc' = "open" => monitorPc = "copyStack" /\ record' =
                                     [record EXCEPT !.StackArguments = slots[scan].StackArguments]
    BY <1>3 DEF CopyField, ringVars
  <2>2. monitorPc' = "open" => record'.PreviousProgramCounter = call[probe]
    <3> SUFFICES ASSUME monitorPc' = "open"
                 PROVE  record'.PreviousProgramCounter = call[probe]
      OBVIOUS
    <3>1. record.PreviousProgramCounter = slots[scan].PreviousProgramCounter
      BY <2>1 DEF CopyInv
    <3>2. record'.PreviousProgramCounter = record.PreviousProgramCounter
      BY <2>1 DEF RingBase, Base, TypeInv, TypeOK, CallbackRecord
    <3>3. scan \in Slots
      BY <2>1 DEF RingBase, Base, TypeInv, IndexInv, UsesSlot
    <3>4. slots[scan].PreviousProgramCounter = call[probe]
      BY <2>1, <3>3, ReadySlot
    <3> QED BY <3>1, <3>2, <3>4
  <2> QED BY <2>1, <2>2
<1>4. CASE OpenTarget \/ OpenTargetFails \/ Suspend \/ SuspendFails \/ QueryFails
           \/ Resume \/ Classify
  <2>1. /\ UNCHANGED <<scan, slots, record, query>>
        /\ monitorPc' \in {"suspend", "query", "release", "classify", "disarm"}
        /\ monitorPc \in {"open", "suspend", "query", "resume", "classify"}
        /\ monitorPc' \in {"suspend", "query", "release"} =>
               monitorPc \in {"open", "suspend", "query"}
    BY <1>4 DEF OpenTarget, OpenTargetFails, Suspend, SuspendFails, QueryFails, Resume,
                Classify, ringVars
  <2> QED BY <2>1
<1>5. CASE QuerySucceeds
  <2>1. /\ monitorPc = "query" /\ monitorPc' = "release" /\ UNCHANGED <<scan, slots, record>>
        /\ query' = call[probe]
    BY <1>5 DEF QuerySucceeds, Observed, CopyInv, RecordIntact, ringVars
  <2> QED BY <2>1
<1>6. CASE Release \/ MonitorDisarm \/ MonitorClear
  <2>1. /\ UNCHANGED <<record, query>> /\ monitorPc \in {"release", "disarm", "clear"}
        /\ monitorPc' \in {"resume", "clear", "gone"}
    BY <1>6 DEF Release, MonitorDisarm, MonitorClear
  <2> QED BY <2>1
<1>7. CASE MissDisarm \/ MissRelease
  BY <1>7 DEF MissDisarm, MissRelease
<1> QED BY <1>1, <1>2, <1>3, <1>4, <1>5, <1>6, <1>7 DEF MonitorStep

(* Time only passes when the caller waits for the worker to be gone: while *)
(* it waits for the monitor, one of the two threads can move.              *)
LEMMA HeldTick ==
  ASSUME CallsInTime, RingBase, HeldInv, Tick
  PROVE  /\ callerPc # "waitMonitor" /\ monitorPc \notin {"poll", "scan"}
         /\ UNCHANGED <<ringVars, callerVars, workerVars, monitorVars, suspended>>
<1>0. UNCHANGED <<ringVars, callerVars, workerVars, monitorVars, suspended>>
  BY DEF Tick
<1>1. CallerBlocked /\ MonitorBlocked /\ \A w \in Workers : WorkerBlocked(w)
  BY DEF Tick, CallsInTime, CallerBlocked
<1>2. monitorPc \in {"poll", "scan"} => callerPc = "waitMonitor"
  BY <1>1 DEF RingBase, Base, MonitorJoined, WithMonitor, CallerBlocked, HeldInv
<1>3. ASSUME callerPc = "waitMonitor"
      PROVE  FALSE
  <2>1. /\ probe \notin done /\ \A i \in Slots : slots[i].State # "Ready"
        /\ monitorPc # "gone"
    BY <1>1, <1>3 DEF CallerBlocked, MonitorBlocked, HeldInv, WithMonitor
  <2>2. probe \in Workers /\ probe \in started /\ probe \in go
    BY <1>3 DEF RingBase, Base, TypeInv, IndexInv, PhaseInv, ProbePc, HeldInv
  <2>3. worker[probe] \in {"go", "probe", "exit"}
    BY <2>1, <2>2 DEF RingBase, PhaseInv, Announced, Base, JoinInv
  <2>4. pc[probe] = "spin" /\ slots[at[probe]].State # "Free"
    BY <1>1, <2>2, <2>3 DEF WorkerBlocked, CallsInTime
  <2>5. probe \in Threads /\ at[probe] \in Slots
    BY <2>2, <2>4, SessionAssumption DEF RingBase, Base, TypeInv, TypeOK, RingTypeOK, Holding
  <2>6. slots[at[probe]].State = "Ready"
    BY <2>4, <2>5 DEF RingBase, FieldsInv, Base, TypeInv, TypeOK, RingTypeOK, CallbackSlot,
                      CallbackSlotState
  <2> QED BY <2>1, <2>5, <2>6
<1> QED BY <1>0, <1>2, <1>3

LEMMA HeldHolds ==
  ASSUME CallsInTime, OnlyProbesCall
  PROVE  Spec => []HeldInv
<1> USE EnoughInTime
<1>1. Init => HeldInv
  BY DEF Init, HeldInv, HoldsSlot, Copying, WithMonitor, BeforeAnswer, QueryMatchesRecord,
         Copied
<1>2. RingBase /\ CopyInv /\ HeldInv /\ [Next]_vars => HeldInv'
  <2> SUFFICES ASSUME RingBase, CopyInv, HeldInv, [Next]_vars
               PROVE  HeldInv'
    OBVIOUS
  <2>1. ASSUME NEW w \in Workers, WorkerStep(w)
        PROVE  HeldInv'
    <3>1. UNCHANGED <<callerVars, monitorVars, expired, go, slots, threadVars>>
      BY <2>1, WorkerIsProbe DEF RingBase
    <3> QED BY <3>1 DEF HeldInv, QueryMatchesRecord, Copied, callerVars, monitorVars, threadVars
  <2>2. CASE Tick
    BY <2>2, HeldTick
    DEF HeldInv, QueryMatchesRecord, Copied, callerVars, workerVars, monitorVars, ringVars,
        threadVars
  <2>3. CASE Closed \/ UNCHANGED vars
    BY <2>3 DEF Closed, vars, sessionVars, callerVars, workerVars, monitorVars, ringVars,
                threadVars, HeldInv, QueryMatchesRecord, Copied
  <2> QED BY <2>1, <2>2, <2>3, HeldCallerStep, HeldThreadStep, HeldMonitorStep DEF Next
<1> QED BY <1>1, <1>2, RingBaseHolds, CopyHolds, PTL DEF Spec

(* Where calls and code are faster than the waits, the system call that    *)
(* the query names is the one whose return address the monitor recorded.   *)
THEOREM QueryOfRecord ==
  ASSUME CallsInTime, OnlyProbesCall
  PROVE  Spec => []QueryMatchesRecord
<1>1. HeldInv => QueryMatchesRecord
  BY DEF HeldInv
<1> QED BY <1>1, HeldHolds, PTL

(* The thread that the monitor queries spins on the slot the monitor found.*)
THEOREM QueriesSpinner ==
  ASSUME CallsInTime, OnlyProbesCall
  PROVE  Spec => []QueriedWhileSpinning
<1>1. CopyInv /\ HeldInv => QueriedWhileSpinning
  BY DEF CopyInv, RecordIntact, Copied, HeldInv, HoldsSlot, QueriedWhileSpinning, Observed
<1> QED BY <1>1, HeldHolds, CopyHolds, EnoughInTime, PTL
-----------------------------------------------------------------------------
(* Which system call is captured: the first that the worker makes.         *)

\* The callback is registered wherever a probe runs.
RegisteredInv ==
    /\ installed => registered
    /\ callerPc \in ProbePc \cup ResetPc /\ ~closing => installed
    /\ callerPc = "unregister" => closing

LEMMA RegisteredHolds ==
  ASSUME WorkersInTime
  PROVE  Spec => []RegisteredInv
<1> USE DEF RegisteredInv, ProbePc, ResetPc, Caller
<1>1. Init => RegisteredInv
  BY DEF Init
<1>2. Base /\ RegisteredInv /\ [Next]_vars => RegisteredInv'
  <2> SUFFICES ASSUME Base, RegisteredInv, [Next]_vars
               PROVE  RegisteredInv'
    OBVIOUS
  <2>1. CASE Construct \/ RunProbe \/ Destroy \/ Unregister
    <3>1. CASE Construct
      BY <3>1 DEF Construct
    <3>2. CASE RunProbe
      <4>1. UNCHANGED <<installed, registered, closing>>
        BY <3>2 DEF RunProbe
      <4>2. (installed /\ callerPc' = "disarm") \/ callerPc' = "idle"
        BY <3>2 DEF RunProbe
      <4> QED BY <4>1, <4>2
    <3>3. CASE Destroy
      BY <3>3 DEF Destroy
    <3>4. CASE Unregister
      <4>1. ~installed' /\ callerPc' = "closed"
        BY <3>4 DEF Unregister
      <4> QED BY <4>1
    <3> QED BY <2>1, <3>1, <3>2, <3>3, <3>4
  <2>2. CASE StartWorkerFails \/ StartTimesOut \/ Abort \/ Collect
    BY <2>2 DEF StartWorkerFails, StartTimesOut, Abort, Collect, Return
  <2>3. CASE ResetDisarm \/ ResetTarget \/ ResetSlot
    <3>1. /\ UNCHANGED <<installed, registered, closing>> /\ callerPc \in ResetPc
          /\ callerPc' \in ResetPc \cup {"startWorker", "unregister"}
      BY <2>3 DEF ResetDisarm, ResetTarget, ResetSlot, Loop, CallerOnRing, SessionKeeps
    <3>2. callerPc' = "unregister" => closing
      BY <2>3 DEF ResetDisarm, ResetTarget, ResetSlot, Loop
    <3> QED BY <3>1, <3>2
  <2>4. CASE StartWorker \/ SeeStarted \/ StartMonitor \/ StartMonitorFails \/ Arm \/ Go
             \/ JoinMonitor \/ MonitorTimesOut \/ TimeoutDisarm \/ TimeoutRelease
             \/ WorkerTimesOut \/ WorkerRelease
    <3>1. /\ UNCHANGED <<installed, registered, closing>>
          /\ callerPc \in ProbePc /\ callerPc' \in ProbePc
      BY <2>4
      DEF StartWorker, SeeStarted, StartMonitor, StartMonitorFails, LetGo, Arm, Go,
          JoinMonitor, MonitorTimesOut, TimeoutDisarm, TimeoutRelease, WorkerTimesOut,
          WorkerRelease, ReleaseSlot, Loop, CallerOnRing, SessionKeeps
    <3> QED BY <3>1
  <2>5. CASE ~CallerStep
    <3>1. UNCHANGED callerVars
      BY <2>5, WorkerIsProbe, RestOfStep DEF Next
    <3> QED BY <3>1 DEF callerVars
  <2> QED BY <2>1, <2>2, <2>3, <2>4, <2>5 DEF CallerStep
<1> QED BY <1>1, <1>2, BaseHolds, PTL DEF Spec

\* The system calls of the worker of the probe, in order.
ProbeCalls == script \o ExitScript

LEMMA FirstOfProbe ==
  ASSUME NEW s \in Seq(Calls)
  PROVE  /\ s # <<>> => s \o ExitScript # <<>> /\ Head(s \o ExitScript) = Head(s)
         /\ s = <<>> /\ ExitScript # <<>> =>
                s \o ExitScript # <<>> /\ Head(s \o ExitScript) = Head(ExitScript)
  BY SessionAssumption

\* Until the monitor releases the slot that it has found.
BeforeRelease == BeforeAnswer \cup {"release"}

(* Until then the ring is armed as soon as the worker may run, so that its *)
(* first call is led into the thunk, into the first slot, and stays there: *)
(* a worker in user code has made no call.                                 *)
FirstCapture ==
    /\ worker[probe] \in {"target", "started", "go"} /\ probe \in Workers =>
           todo[probe] = script
    /\ monitorPc \in BeforeRelease =>
          /\ callerPc # "arm" => armed
          /\ verdict = "CallbackNotObserved"
          /\ worker[probe] \in {"exit", "gone"} => script = <<>>
          /\ pc[probe] = "user" /\ worker[probe] \in {"go", "probe"} => todo[probe] = script
          /\ pc[probe] = "user" /\ worker[probe] = "exit" => todo[probe] = ExitScript
          /\ pc[probe] # "user" => ProbeCalls # <<>> /\ call[probe] = Head(ProbeCalls)
          /\ pc[probe] = "claim" => at[probe] = 0
          /\ pc[probe] \in Holding => slots[at[probe]].State # "Free"

\* All that is known of such a session before the call is captured.
CaptureBase == RingBase /\ CopyInv /\ ArmedInv /\ HeldInv /\ RegisteredInv

LEMMA CaptureBaseHolds ==
  ASSUME CallsInTime, OnlyProbesCall
  PROVE  Spec => []CaptureBase
  BY EnoughInTime, RingBaseHolds, CopyHolds, ArmedHolds, HeldHolds, RegisteredHolds, PTL
  DEF CaptureBase

(* Beside a monitor that runs the caller has only to arm the ring and to   *)
(* let the worker go.                                                      *)
LEMMA OnlyArmAndGo ==
  ASSUME CaptureBase, CallerStep, monitorPc \notin {"none", "gone"}
  PROVE  /\ Arm \/ Go
         /\ UNCHANGED <<probe, script, event, closing, monitorVars, worker, todo, slots,
                        threadVars>>
<1>1. ~MonitorTimesOut /\ ~TimeoutDisarm /\ ~TimeoutRelease
  BY DEF MonitorTimesOut, TimeoutDisarm, TimeoutRelease, ReleaseSlot, Caller, CaptureBase,
         HeldInv
<1>2. Arm \/ Go
  BY <1>1, CallerBesideMonitor DEF CaptureBase, RingBase
<1>3. UNCHANGED <<probe, script, event, closing, monitorVars, worker, todo>>
  BY CallerBesideMonitor DEF CaptureBase, RingBase
<1>4. UNCHANGED <<slots, threadVars>>
  BY <1>2 DEF Arm, Go, LetGo, CallerOnRing, SetArmed, ringVars
<1> QED BY <1>2, <1>3, <1>4

LEMMA FirstCallerStep ==
  ASSUME CaptureBase, FirstCapture, CallerStep
  PROVE  FirstCapture'
<1> USE DEF FirstCapture, BeforeRelease, BeforeAnswer, ProbeCalls
<1>1. CASE monitorPc \notin {"none", "gone"}
  <2>1. /\ Arm \/ Go
        /\ UNCHANGED <<probe, script, monitorVars, worker, todo, slots, threadVars>>
    BY <1>1, OnlyArmAndGo
  <2>2. (callerPc' # "arm" /\ (callerPc = "arm" \/ armed)) => armed'
    BY <2>1 DEF Arm, Go, LetGo, CallerOnRing, SetArmed, Caller, ringVars
  <2> QED BY <2>1, <2>2 DEF monitorVars, threadVars
<1>2. CASE StartMonitor
  <2>1. /\ callerPc' = "arm" /\ verdict' = "CallbackNotObserved"
        /\ UNCHANGED <<probe, script, workerVars, ringVars>>
        /\ callerPc = "startMonitor"
    BY <1>2 DEF StartMonitor, Caller, SessionKeeps
  <2>2. /\ probe \in Workers /\ probe \in Threads /\ worker[probe] = "go"
        /\ pc[probe] = "user"
    BY <2>1, RestToArm, SessionAssumption DEF CaptureBase
  <2> QED BY <2>1, <2>2 DEF workerVars, ringVars, threadVars, Holding, Writing
<1>3. CASE monitorPc \in {"none", "gone"} /\ ~StartMonitor
  <2>1. monitorPc' = monitorPc
    BY <1>3, CallerKeepsOthers DEF OthersKeep, StartWorker, StartMonitorFails, Go, LetGo,
                                   monitorVars
  <2>2. CASE RunProbe
    <3>1. probe' = probe + 1 /\ probe \in 0 .. MaxProbes /\ UNCHANGED worker
      BY <2>2 DEF RunProbe, OthersKeep, workerVars, CaptureBase, RingBase, Base, TypeInv,
                  TypeOK
    <3>2. probe' \in Workers => worker'[probe'] = "none"
      BY <3>1, SessionAssumption DEF CaptureBase, RingBase, Base, JoinInv
    <3> QED BY <1>3, <2>1, <3>2
  <2>3. CASE StartWorker
    <3>1. /\ todo' = [todo EXCEPT ![probe] = script] /\ UNCHANGED <<script, probe>>
      BY <2>3 DEF StartWorker, SessionKeeps
    <3>2. probe \in Workers => todo'[probe] = script
      BY <3>1, SessionAssumption DEF CaptureBase, RingBase, Base, TypeInv, TypeOK
    <3> QED BY <1>3, <2>1, <3>1, <3>2
  <2>4. CASE ~RunProbe /\ ~StartWorker
    <3>1. UNCHANGED <<worker, todo>>
      BY <1>3, <2>4, CallerKeepsOthers
      DEF OthersKeep, StartMonitorFails, Go, LetGo, workerVars
    <3>2. UNCHANGED <<probe, script>>
      BY <2>4
      DEF CallerStep, Construct, Destroy, ResetDisarm, ResetTarget, ResetSlot,
          StartWorkerFails, SeeStarted, StartTimesOut, StartMonitor, StartMonitorFails,
          Abort, Arm, Go, LetGo, JoinMonitor, MonitorTimesOut, TimeoutDisarm,
          TimeoutRelease, WorkerTimesOut, WorkerRelease, Collect, Unregister, ReleaseSlot,
          CallerOnRing, SessionKeeps, Return
    <3> QED BY <1>3, <2>1, <3>1, <3>2
  <2> QED BY <2>2, <2>3, <2>4
<1> QED BY <1>1, <1>2, <1>3

LEMMA FirstWorkerStep ==
  ASSUME CaptureBase, FirstCapture, NEW w \in Workers, WorkerStep(w)
  PROVE  FirstCapture'
<1> USE DEF FirstCapture, BeforeRelease, BeforeAnswer, ProbeCalls
<1>1. /\ w = probe /\ callerPc \in ProbePc /\ probe \in Threads
      /\ UNCHANGED <<callerVars, monitorVars, slots, armed, threadVars>>
  BY WorkerIsProbe, SessionAssumption DEF CaptureBase, RingBase
<1>2. /\ worker \in [Workers -> WorkerPc] /\ todo \in [Threads -> Seq(Calls)]
  BY DEF CaptureBase, RingBase, Base, TypeInv, TypeOK
<1> USE <1>1, <1>2 DEF Worker, callerVars, monitorVars, threadVars
<1>3. CASE WorkerTarget(w)
  BY <1>3 DEF WorkerTarget
<1>4. CASE WorkerStarted(w)
  BY <1>4 DEF WorkerStarted
<1>5. CASE WorkerGo(w)
  BY <1>5 DEF WorkerGo
<1>6. CASE WorkerDone(w)
  <2>1. /\ worker[probe] = "probe" /\ pc[probe] = "user" /\ todo[probe] = <<>>
        /\ worker'[probe] = "exit" /\ todo'[probe] = ExitScript
    BY <1>6 DEF WorkerDone
  <2> QED BY <2>1 DEF Holding, Writing
<1>7. CASE WorkerExit(w)
  BY <1>7 DEF WorkerExit
<1> QED BY <1>3, <1>4, <1>5, <1>6, <1>7 DEF WorkerStep

LEMMA FirstThreadStep ==
  ASSUME CaptureBase, FirstCapture, NEW t \in Threads, ThreadRuns(t)
  PROVE  FirstCapture'
<1>1. /\ t = probe /\ probe \in Workers /\ worker[probe] \in {"probe", "exit"}
      /\ UNCHANGED <<callerVars, monitorVars, worker, armed, target>>
  BY RunnerIsProbe DEF CaptureBase, RingBase
<1>2. CASE monitorPc \notin BeforeRelease
  BY <1>1, <1>2 DEF FirstCapture, callerVars, monitorVars
<1>3. CASE monitorPc \in BeforeRelease
  <2>1. callerPc = "waitMonitor" /\ ~closing
    <3>1. callerPc \in WithMonitor /\ ~closing
      BY <1>3 DEF CaptureBase, RingBase, Base, MonitorJoined, BeforeRelease, BeforeAnswer,
                  WithMonitor, DangleInv, ProbePc
    <3>2. probe \in go
      BY <1>1 DEF CaptureBase, RingBase, PhaseInv
    <3> QED BY <3>1, <3>2
        DEF CaptureBase, RingBase, PhaseInv, BeforeGo, WithMonitor, HeldInv
  <2>2. armed /\ registered /\ target = probe
    BY <1>1, <1>3, <2>1
    DEF FirstCapture, CaptureBase, RegisteredInv, ArmedInv, ProbePc
  <2>3. pc[t] = "claim" => at[t] = 0 /\ at[t] \in Slots /\ slots[at[t]].State = "Free"
    <3> SUFFICES ASSUME pc[t] = "claim"
                 PROVE  at[t] = 0 /\ at[t] \in Slots /\ slots[at[t]].State = "Free"
      OBVIOUS
    <3>1. at[t] = 0 /\ 0 \in Slots
      BY <1>1, <1>3, RingAssumption DEF FirstCapture, Slots
    <3>2. \A u \in Threads : pc[u] \notin Holding
      BY <1>1 DEF CaptureBase, RingBase, SoleInv, Holding, Writing
    <3> QED BY <3>1, <3>2 DEF CaptureBase, RingBase, Base, NoOrphanSlot
  <2>4. /\ pc \in [Threads -> ThreadPc] /\ call \in [Threads -> Calls \cup {0}]
        /\ at \in [Threads -> 0 .. SlotCount] /\ slots \in [Slots -> CallbackSlot]
        /\ todo \in [Threads -> Seq(Calls)] /\ script \in Seq(Calls)
        /\ pc[t] \in Holding => at[t] \in Slots
    BY DEF CaptureBase, RingBase, Base, TypeInv, TypeOK, RingTypeOK
  <2> SUFFICES /\ pc'[t] # "user"
               /\ ProbeCalls # <<>> /\ call'[t] = Head(ProbeCalls)
               /\ pc'[t] = "claim" => at'[t] = 0
               /\ pc'[t] \in Holding => slots'[at'[t]].State # "Free"
    BY <1>1, <1>3 DEF FirstCapture, ProbeCalls, callerVars, monitorVars
  <2>5. CASE Call(t)
    <3>1. /\ todo[t] # <<>> /\ pc[t] = "user" /\ SyscallEnter(t, Head(todo[t]))
      BY <2>5 DEF Call, SyscallEnter, Goto
    <3>2. ProbeCalls # <<>> /\ Head(todo[t]) = Head(ProbeCalls)
      <4>1. \/ todo[t] = script
            \/ script = <<>> /\ todo[t] = ExitScript
        BY <1>1, <1>3, <3>1 DEF FirstCapture
      <4> QED BY <2>4, <3>1, <4>1, FirstOfProbe DEF ProbeCalls
    <3>3. pc'[t] = "kernel" /\ call'[t] = Head(todo[t])
      BY <2>4, <3>1 DEF SyscallEnter, Goto
    <3> QED BY <3>2, <3>3 DEF Holding, Writing
  <2>6. CASE ~Call(t)
    <3>1. pc[t] # "user" /\ call' = call
      BY <2>6
      DEF ThreadRuns, KernelReturn, ThunkStep, SyscallReturn, ThunkEnter, Thunk, CheckArmed,
          CheckTarget, ClaimSlot, SkipSlot, DropCallback, WriteThreadId, WritePreviousPc,
          WriteStack, Publish, LeaveThunk, Goto
    <3>2. ProbeCalls # <<>> /\ call'[t] = Head(ProbeCalls)
      BY <1>1, <1>3, <3>1 DEF FirstCapture
    <3>3. CASE KernelReturn(t) \/ CheckArmed(t) \/ CheckTarget(t)
      <4>1. /\ pc'[t] \in {"armed", "target", "claim"}
            /\ pc'[t] = "claim" => at'[t] = 0
        BY <1>1, <2>2, <2>4, <3>3
        DEF KernelReturn, ThunkEnter, CheckArmed, CheckTarget, FirstSlot, Goto
      <4> QED BY <3>2, <4>1 DEF Holding, Writing
    <3>4. CASE SkipSlot(t) \/ DropCallback(t)
      BY <2>3, <3>4 DEF SkipSlot, DropCallback, Goto
    <3>5. CASE ClaimSlot(t)
      BY <2>4, <3>2, <3>5 DEF ClaimSlot, Goto, CallbackSlot
    <3>6. CASE WriteThreadId(t) \/ WritePreviousPc(t) \/ WriteStack(t) \/ Publish(t)
      <4>1. /\ pc[t] \in Holding /\ pc'[t] \in Holding /\ at' = at
            /\ slots'[at[t]].State \in {slots[at[t]].State, "Ready"}
        BY <2>4, <3>6 DEF WriteThreadId, WritePreviousPc, WriteStack, Publish, Goto, Holding,
                          Writing, CallbackSlot
      <4>2. slots[at[t]].State # "Free"
        BY <1>1, <1>3, <4>1 DEF FirstCapture
      <4> QED BY <3>2, <4>1, <4>2 DEF Holding, Writing
    <3>7. CASE LeaveThunk(t)
      BY <1>1, <1>3, <3>7 DEF LeaveThunk, Released, Goto, FirstCapture, Holding
    <3> QED BY <2>6, <3>3, <3>4, <3>5, <3>6, <3>7 DEF ThreadRuns, ThunkStep, Thunk
  <2> QED BY <2>5, <2>6
<1> QED BY <1>2, <1>3

LEMMA FirstMonitorStep ==
  ASSUME CaptureBase, FirstCapture, MonitorStep
  PROVE  FirstCapture'
<1>1. /\ UNCHANGED <<callerVars, workerVars, threadVars>>
  BY MonitorRuns, MonitorOnSlots DEF CaptureBase, RingBase
<1>2. CASE monitorPc' \notin BeforeRelease
  BY <1>1, <1>2 DEF FirstCapture, callerVars, workerVars
<1>3. CASE monitorPc' \in BeforeRelease
  <2>1. /\ monitorPc \in BeforeRelease /\ UNCHANGED <<verdict, ringVars>>
    BY <1>3
    DEF MonitorStep, Poll, FindReady, PassSlot, EndScan, Scanning, CopyField, OpenTarget,
        OpenTargetFails, Suspend, SuspendFails, QuerySucceeds, QueryFails, Release, Resume,
        Classify, MonitorDisarm, MonitorClear, MissDisarm, MissRelease, Monitor, Judged,
        Local, BeforeRelease, BeforeAnswer
  <2> QED BY <1>1, <2>1 DEF FirstCapture, ProbeCalls, callerVars, workerVars, ringVars,
                            threadVars
<1> QED BY <1>2, <1>3

LEMMA FirstCaptureHolds ==
  ASSUME CallsInTime, OnlyProbesCall
  PROVE  Spec => []FirstCapture
<1>1. Init => FirstCapture
  BY DEF Init, FirstCapture, BeforeRelease, BeforeAnswer
<1>2. CaptureBase /\ FirstCapture /\ [Next]_vars => FirstCapture'
  <2> SUFFICES ASSUME CaptureBase, FirstCapture, [Next]_vars
               PROVE  FirstCapture'
    OBVIOUS
  <2>1. CASE Tick \/ Closed \/ UNCHANGED vars
    BY <2>1 DEF Tick, Closed, vars, sessionVars, callerVars, workerVars, monitorVars,
                ringVars, threadVars, FirstCapture, ProbeCalls
  <2> QED BY <2>1, FirstCallerStep, FirstWorkerStep, FirstThreadStep, FirstMonitorStep
      DEF Next
<1> QED BY <1>1, <1>2, CaptureBaseHolds, PTL DEF Spec
-----------------------------------------------------------------------------
(* The verdict, and the contract with the caller.                          *)

\* The contract allows the monitor's verdict.
JudgedRight == verdict \in Contract!Outcomes(script)

LEMMA AllowedOutcomes ==
  ASSUME NEW s \in Seq(Calls)
  PROVE  /\ "WorkerFailed" \in Contract!Outcomes(s) /\ "QueryFailed" \in Contract!Outcomes(s)
         /\ s = <<>> => "CallbackNotObserved" \in Contract!Outcomes(s)
         /\ s \o ExitScript # <<>> =>
                VerdictOf(Head(s \o ExitScript), Head(s \o ExitScript))
                    \in Contract!Outcomes(s)
<1>1. s \o ExitScript # <<>> => Head(s \o ExitScript) \in Calls
  <2>1. s \o ExitScript \in Seq(Calls)
    BY SessionAssumption
  <2> QED BY <2>1
<1> QED BY <1>1 DEF Contract!Outcomes

OutcomeInv ==
    /\ monitorPc = "lastScan" => probe \in done
    /\ monitorPc \in {"release", "resume", "classify"} /\ query # 0 =>
           ProbeCalls # <<>> /\ query = Head(ProbeCalls)
    /\ monitorPc \in {"disarm", "clear", "missDisarm", "missRelease"} => JudgedRight
    /\ monitorPc = "gone" /\ callerPc \in PastMonitor \cup {"waitMonitor"} => JudgedRight

LEMMA OutcomeCallerStep ==
  ASSUME CaptureBase, OutcomeInv, CallerStep
  PROVE  OutcomeInv'
<1> USE DEF OutcomeInv, JudgedRight, ProbeCalls, PastMonitor
<1>1. CASE monitorPc \notin {"none", "gone"}
  <2>1. UNCHANGED <<probe, script, monitorVars>> /\ (Arm \/ Go)
    BY <1>1, OnlyArmAndGo
  <2>2. UNCHANGED done
    BY <2>1 DEF Arm, Go, LetGo, CallerOnRing, OthersKeep, workerVars
  <2> QED BY <1>1, <2>1, <2>2 DEF monitorVars
<1>2. CASE StartMonitor
  BY <1>2 DEF StartMonitor
<1>3. CASE monitorPc \in {"none", "gone"} /\ ~StartMonitor
  <2>1. UNCHANGED monitorVars
    BY <1>3, CallerKeepsOthers DEF OthersKeep, StartWorker, StartMonitorFails, Go, LetGo
  <2>2. ~Go
    BY <1>3 DEF Go, LetGo, Caller, CaptureBase, ArmedInv
  <2>3. callerPc' \in PastMonitor \cup {"waitMonitor"} =>
            callerPc \in PastMonitor \cup {"waitMonitor"} /\ script' = script
    BY <1>3, <2>2
    DEF CaptureBase, HeldInv, CallerStep, Construct, RunProbe, Destroy, ResetDisarm,
        ResetTarget, ResetSlot, StartWorker, StartWorkerFails, SeeStarted, StartTimesOut,
        StartMonitorFails, LetGo, Abort, Arm, JoinMonitor, MonitorTimesOut, TimeoutDisarm,
        TimeoutRelease, WorkerTimesOut, WorkerRelease, Collect, Unregister, ReleaseSlot,
        Loop, Caller, CallerOnRing, SessionKeeps, Return
  <2> QED BY <1>3, <2>1, <2>3 DEF monitorVars
<1> QED BY <1>1, <1>2, <1>3

LEMMA OutcomeMonitorStep ==
  ASSUME CaptureBase, FirstCapture, OutcomeInv, MonitorStep
  PROVE  OutcomeInv'
<1>0. UNCHANGED <<callerPc, probe, script, done>> /\ script \in Seq(Calls)
  BY MonitorRuns DEF callerVars, workerVars, CaptureBase, RingBase, Base, TypeInv, TypeOK
<1> USE <1>0 DEF OutcomeInv, JudgedRight, ProbeCalls, PastMonitor, Monitor, Judged
<1>1. CASE Poll \/ FindReady \/ PassSlot \/ CopyField
  <2>1. /\ monitorPc' \in {"lastScan", "scan", "copyThread", "copyPc", "copyStack", "open"}
        /\ monitorPc' = "lastScan" => probe \in done
    BY <1>1 DEF Poll, FindReady, PassSlot, CopyField, Scanning
  <2> QED BY <2>1
<1>2. CASE EndScan
  <2>1. /\ UNCHANGED verdict
        /\ \/ monitorPc = "lastScan" /\ monitorPc' = "missDisarm"
           \/ monitorPc = "scan" /\ monitorPc' = "poll"
    BY <1>2 DEF EndScan, PastDeadline, CaptureBase, HeldInv
  <2>2. monitorPc = "lastScan" => script = <<>> /\ verdict = "CallbackNotObserved"
    BY DEF CaptureBase, RingBase, PhaseInv, FirstCapture, BeforeRelease, BeforeAnswer
  <2> QED BY <2>1, <2>2, AllowedOutcomes
<1>3. CASE OpenTarget \/ OpenTargetFails \/ Suspend \/ SuspendFails \/ QueryFails
  <2>1. /\ monitorPc \in BeforeAnswer /\ query' = query
        /\ monitorPc' \in {"suspend", "query", "release", "classify"}
    BY <1>3 DEF OpenTarget, OpenTargetFails, Suspend, SuspendFails, QueryFails, BeforeAnswer
  <2>2. query = 0
    BY <2>1 DEF CaptureBase, HeldInv
  <2> QED BY <2>1, <2>2
<1>4. CASE QuerySucceeds
  <2>1. monitorPc = "query" /\ monitorPc' = "release" /\ query' = call[probe]
    BY <1>4 DEF QuerySucceeds, Observed, CaptureBase, CopyInv, RecordIntact, Copied
  <2>2. pc[probe] = "spin"
    BY <2>1 DEF CaptureBase, HeldInv, HoldsSlot
  <2>3. ProbeCalls # <<>> /\ call[probe] = Head(ProbeCalls)
    BY <2>1, <2>2 DEF FirstCapture, BeforeRelease, BeforeAnswer
  <2> QED BY <2>1, <2>3
<1>5. CASE Release \/ Resume
  <2>1. /\ monitorPc \in {"release", "resume"} /\ monitorPc' \in {"resume", "classify"}
        /\ query' = query
    BY <1>5 DEF Release, Resume
  <2> QED BY <2>1
<1>6. CASE Classify
  <2>1. /\ monitorPc = "classify" /\ monitorPc' = "disarm"
        /\ verdict' = VerdictOf(record.PreviousProgramCounter, query)
    BY <1>6 DEF Classify
  <2>2. CASE query = 0
    <3>1. verdict' = "QueryFailed"
      BY <2>1, <2>2 DEF VerdictOf
    <3> QED BY <2>1, <3>1, AllowedOutcomes
  <2>3. CASE query # 0
    <3>1. record.PreviousProgramCounter = query
      BY <2>1, <2>3 DEF CaptureBase, HeldInv, QueryMatchesRecord, Copied
    <3>2. ProbeCalls # <<>> /\ query = Head(ProbeCalls)
      BY <2>1, <2>3
    <3>3. verdict' = VerdictOf(Head(ProbeCalls), Head(ProbeCalls))
      BY <2>1, <3>1, <3>2
    <3> QED BY <2>1, <3>2, <3>3, AllowedOutcomes
  <2> QED BY <2>2, <2>3
<1>7. CASE MonitorDisarm \/ MonitorClear \/ MissDisarm \/ MissRelease
  <2>1. /\ monitorPc \in {"disarm", "clear", "missDisarm", "missRelease"}
        /\ monitorPc' \in {"clear", "missRelease", "gone"} /\ verdict' = verdict
    BY <1>7 DEF MonitorDisarm, MonitorClear, MissDisarm, MissRelease
  <2> QED BY <2>1
<1> QED BY <1>1, <1>2, <1>3, <1>4, <1>5, <1>6, <1>7 DEF MonitorStep

LEMMA OutcomeHolds ==
  ASSUME CallsInTime, OnlyProbesCall
  PROVE  Spec => []OutcomeInv
<1>1. Init => OutcomeInv
  BY DEF Init, OutcomeInv
<1>2. CaptureBase /\ FirstCapture /\ OutcomeInv /\ [Next]_vars => OutcomeInv'
  <2> SUFFICES ASSUME CaptureBase, FirstCapture, OutcomeInv, [Next]_vars
               PROVE  OutcomeInv'
    OBVIOUS
  <2>1. ASSUME NEW w \in Workers, WorkerStep(w)
        PROVE  OutcomeInv'
    <3>1. UNCHANGED <<callerVars, monitorVars>> /\ done \subseteq done'
      BY <2>1, WorkerIsProbe
      DEF CaptureBase, RingBase, WorkerStep, WorkerTarget, WorkerStarted, WorkerGo,
          WorkerDone, WorkerExit
    <3> QED BY <3>1 DEF OutcomeInv, JudgedRight, ProbeCalls, callerVars, monitorVars
  <2>2. CASE \/ \E t \in Threads : ThreadRuns(t)
             \/ Tick \/ Closed \/ UNCHANGED vars
    BY <2>2, RestOfStep, OthersMove
    DEF OutcomeInv, JudgedRight, ProbeCalls, callerVars, monitorVars
  <2> QED BY <2>1, <2>2, OutcomeCallerStep, OutcomeMonitorStep DEF Next
<1> QED BY <1>1, <1>2, CaptureBaseHolds, FirstCaptureHolds, PTL DEF Spec

(* Every step of the caller is one of the contract or stutters in it.      *)
LEMMA ContractCallerStep ==
  ASSUME CaptureBase, OutcomeInv, CallerStep
  PROVE  [Contract!ContractNext]_(Contract!contractVars)
<1> USE DEF Phase, Caller
<1>0. /\ callerPc \in ProbePc \cup {"idle", "construct"} => ~closing
      /\ script \in Seq(Calls)
  BY DEF CaptureBase, RingBase, Base, DangleInv, TypeInv, TypeOK
<1>1. CASE Construct
  <2>1. Phase = "new" /\ Phase' = "idle" /\ UNCHANGED <<script, event>>
    BY <1>1 DEF Construct
  <2> QED BY <2>1 DEF Contract!ContractNext, Contract!Open
<1>2. CASE RunProbe
  <2>1. /\ Phase = "idle" /\ script' \in Scripts /\ closing' = closing
        /\ callerPc' = (IF installed THEN "disarm" ELSE "idle")
        /\ event' = IF installed THEN NoEvent ELSE WorkerFailed
    BY <1>2 DEF RunProbe
  <2>2. CASE installed
    <3>1. Phase' = "busy" /\ event'.Verdict = "none"
      BY <1>0, <1>2, <2>1, <2>2 DEF RunProbe, NoEvent
    <3> QED BY <2>1, <3>1 DEF Contract!ContractNext, Contract!Begin
  <2>3. CASE ~installed
    <3>1. Phase' = "idle" /\ event'.Verdict = "WorkerFailed"
      BY <2>1, <2>3 DEF WorkerFailed
    <3> QED BY <2>1, <3>1 DEF Contract!ContractNext, Contract!Refuse
  <2> QED BY <2>2, <2>3
<1>3. CASE Destroy
  <2>1. Phase = "idle" /\ Phase' = "closing" /\ UNCHANGED <<script, event>>
    BY <1>3 DEF Destroy
  <2> QED BY <2>1 DEF Contract!ContractNext, Contract!BeginClose
<1>4. CASE StartWorkerFails \/ StartTimesOut \/ Abort
  <2>1. Phase = "busy" /\ Phase' = "idle" /\ script' = script
        /\ event'.Verdict = "WorkerFailed"
    BY <1>0, <1>4 DEF StartWorkerFails, StartTimesOut, Abort, Return, WorkerFailed, ProbePc
  <2>2. event'.Verdict \in Contract!Outcomes(script)
    BY <1>0, <2>1, AllowedOutcomes
  <2> QED BY <2>1, <2>2 DEF Contract!ContractNext, Contract!Finish
<1>5. CASE Collect
  <2>1. /\ Phase = "busy" /\ Phase' = "idle" /\ script' = script
        /\ event'.Verdict = verdict /\ callerPc \in PastMonitor
    BY <1>0, <1>5 DEF Collect, Return, ProbePc, PastMonitor
  <2>2. verdict \in Contract!Outcomes(script)
    BY <2>1 DEF CaptureBase, RingBase, Base, JoinInv, OutcomeInv, JudgedRight
  <2> QED BY <2>1, <2>2 DEF Contract!ContractNext, Contract!Finish
<1>6. CASE Unregister
  <2>1. closing
    BY <1>6 DEF Unregister, CaptureBase, RegisteredInv
  <2>2. Phase = "closing" /\ Phase' = "closed" /\ UNCHANGED <<script, event>>
    BY <1>6, <2>1 DEF Unregister
  <2> QED BY <2>2 DEF Contract!ContractNext, Contract!EndClose
<1>7. CASE ResetDisarm \/ ResetTarget \/ ResetSlot
  <2>1. /\ UNCHANGED <<closing, script, event>> /\ callerPc \in ResetPc
        /\ callerPc' \in ResetPc \cup {"startWorker", "unregister"}
    BY <1>7 DEF ResetDisarm, ResetTarget, ResetSlot, Loop, CallerOnRing, SessionKeeps, ResetPc
  <2>2. UNCHANGED Phase
    BY <2>1 DEF ResetPc
  <2> QED BY <2>1, <2>2 DEF Contract!contractVars
<1>8. CASE StartWorker \/ SeeStarted \/ StartMonitor \/ StartMonitorFails \/ Arm \/ Go
           \/ JoinMonitor \/ MonitorTimesOut \/ TimeoutDisarm \/ TimeoutRelease
           \/ WorkerTimesOut \/ WorkerRelease
  <2>1. /\ UNCHANGED <<closing, script, event>>
        /\ callerPc \in ProbePc /\ callerPc' \in ProbePc
    BY <1>8
    DEF StartWorker, SeeStarted, StartMonitor, StartMonitorFails, LetGo, Arm, Go, JoinMonitor,
        MonitorTimesOut, TimeoutDisarm, TimeoutRelease, WorkerTimesOut, WorkerRelease,
        ReleaseSlot, Loop, CallerOnRing, SessionKeeps, ProbePc
  <2>2. UNCHANGED Phase
    BY <2>1 DEF ProbePc
  <2> QED BY <2>1, <2>2 DEF Contract!contractVars
<1> QED BY <1>1, <1>2, <1>3, <1>4, <1>5, <1>6, <1>7, <1>8 DEF CallerStep

(* The safety of the contract: in every interleaving of caller, worker and *)
(* monitor, RunProbe returns one event, and its verdict is the one that    *)
(* the first system call of the probe's thread deserves, unless the query  *)
(* or a thread's start failed, or there was no call to observe.            *)
THEOREM SessionKeepsContract ==
  ASSUME CallsInTime, OnlyProbesCall
  PROVE  Spec => Contract!ContractSafe
<1>1. Init => Contract!ContractInit
  BY DEF Init, Contract!ContractInit, Phase, NoEvent
<1>2. CaptureBase /\ OutcomeInv /\ [Next]_vars =>
          [Contract!ContractNext]_(Contract!contractVars)
  <2> SUFFICES ASSUME CaptureBase, OutcomeInv, [Next]_vars
               PROVE  [Contract!ContractNext]_(Contract!contractVars)
    OBVIOUS
  <2>1. CASE ~CallerStep
    <3>1. UNCHANGED callerVars
      BY <2>1, WorkerIsProbe, RestOfStep DEF Next, CaptureBase, RingBase
    <3> QED BY <3>1 DEF callerVars, Phase, Contract!contractVars
  <2> QED BY <2>1, ContractCallerStep
<1> QED BY <1>1, <1>2, CaptureBaseHolds, OutcomeHolds, PTL DEF Spec, Contract!ContractSafe
================================================================================
