------------------------- MODULE SessionSafetyProofs -------------------------
(***************************************************************************)
(* The safety of a DetectorSession, for any number of probes, threads and  *)
(* slots: its threads are joined before RunProbe returns, and a thread is  *)
(* suspended only inside the scope of the monitor that suspended it.       *)
(***************************************************************************)
EXTENDS DetectorSessionProofs

LEMMA TypeInvariant == Spec => []TypeInv
  BY TypeInit, TypeStep, PTL DEF Spec

\* The caller has a monitor that it has not joined.
WithMonitor == {"arm", "go", "waitMonitor", "timeoutDisarm", "timeoutRelease", "joinMonitor"}

\* No monitor runs unless the caller is about to join it.
MonitorJoined == callerPc \notin WithMonitor => monitorPc \in {"none", "gone"}

(* A monitor that has not started or is gone takes no step.                *)
LEMMA MonitorRuns ==
  ASSUME MonitorStep
  PROVE  monitorPc \notin {"none", "gone"} /\ UNCHANGED <<callerVars, workerVars, expired>>
<1> USE DEF Monitor
<1>1. CASE Poll \/ FindReady \/ PassSlot \/ EndScan \/ CopyField \/ OpenTarget
           \/ OpenTargetFails
  BY <1>1 DEF Poll, FindReady, PassSlot, EndScan, CopyField, OpenTarget, OpenTargetFails,
              Scanning
<1>2. CASE Suspend \/ SuspendFails \/ QuerySucceeds \/ QueryFails \/ Release \/ Resume
           \/ Classify
  BY <1>2 DEF Suspend, SuspendFails, QuerySucceeds, QueryFails, Release, Resume, Classify
<1>3. CASE MonitorDisarm \/ MonitorClear \/ MissDisarm \/ MissRelease
  BY <1>3 DEF MonitorDisarm, MonitorClear, MissDisarm, MissRelease
<1> QED BY <1>1, <1>2, <1>3 DEF MonitorStep

(* Neither the workers, nor the other threads, nor the passing of time     *)
(* touch what the caller and the monitor keep.                             *)
LEMMA OthersMove ==
  ASSUME \/ \E w \in Workers : WorkerStep(w)
         \/ \E t \in Threads : ThreadRuns(t)
         \/ Tick \/ Closed \/ UNCHANGED vars
  PROVE  UNCHANGED <<callerVars, monitorVars, suspended>>
<1>1. CASE \E w \in Workers : WorkerStep(w)
  BY <1>1 DEF WorkerStep, WorkerTarget, WorkerStarted, WorkerGo, WorkerDone, WorkerExit,
              Worker
<1>2. CASE \E t \in Threads : ThreadRuns(t)
  BY <1>2 DEF ThreadRuns, Call, KernelReturn, ThunkStep, sessionVars
<1>3. CASE Tick \/ Closed \/ UNCHANGED vars
  BY <1>3 DEF Tick, Closed, vars, sessionVars
<1> QED BY <1>1, <1>2, <1>3

LEMMA MonitorJoinedStep ==
  ASSUME MonitorJoined, [Next]_vars
  PROVE  MonitorJoined'
<1> USE DEF MonitorJoined, WithMonitor
<1>1. CASE CallerStep
  <2>1. CASE StartWorker \/ StartMonitor \/ StartMonitorFails \/ Go
    BY <2>1 DEF StartWorker, StartMonitor, StartMonitorFails, Go, LetGo, Caller, monitorVars
  <2>2. CASE OthersKeep
    <3>1. monitorPc' = monitorPc
      BY <2>2 DEF OthersKeep, monitorVars
    <3>2. callerPc \in WithMonitor => \/ callerPc' \in WithMonitor \/ monitorPc = "gone"
                                      \/ StartWorker \/ StartMonitor
                                      \/ StartMonitorFails \/ Go
      BY <1>1 DEF CallerStep, Construct, RunProbe, Destroy, ResetDisarm, ResetTarget,
                  ResetSlot, StartWorkerFails, SeeStarted, StartTimesOut, Abort, Arm,
                  JoinMonitor, MonitorTimesOut, TimeoutDisarm, TimeoutRelease,
                  WorkerTimesOut, WorkerRelease, Collect, Unregister, ReleaseSlot, Loop,
                  Caller
    <3> QED BY <2>1, <3>1, <3>2
  <2> QED BY <1>1, <2>1, <2>2, CallerKeepsOthers
<1>2. CASE MonitorStep
  BY <1>2, MonitorRuns DEF callerVars
<1>3. CASE ~CallerStep /\ ~MonitorStep
  BY <1>3, OthersMove DEF Next, callerVars, monitorVars
<1> QED BY <1>1, <1>2, <1>3

LEMMA MonitorJoinedHolds == Spec => []MonitorJoined
<1>1. Init => MonitorJoined
  BY DEF Init, MonitorJoined, WithMonitor
<1> QED BY <1>1, MonitorJoinedStep, PTL DEF Spec

-----------------------------------------------------------------------------
(* Suspension.                                                             *)

LEMMA SuspensionStep ==
  ASSUME MonitorJoined, SuspensionScoped, [Next]_vars
  PROVE  SuspensionScoped'
<1> USE DEF SuspensionScoped, Observed
<1>1. CASE CallerStep
  <2>1. CASE StartMonitor
    <3>1. suspended = {}
      BY <2>1 DEF MonitorJoined, WithMonitor, StartMonitor, Caller
    <3> QED BY <2>1, <3>1 DEF StartMonitor
  <2>2. CASE ~StartMonitor
    <3>1. UNCHANGED <<monitorVars, suspended>>
      BY <1>1, <2>2, CallerKeepsOthers
      DEF OthersKeep, StartWorker, StartMonitorFails, Go, LetGo
    <3> QED BY <3>1 DEF monitorVars
  <2> QED BY <2>1, <2>2
<1>2. CASE MonitorStep
  <2> USE DEF Monitor, Seen, Local
  <2>1. CASE Poll \/ FindReady \/ PassSlot \/ EndScan \/ CopyField \/ OpenTarget
             \/ OpenTargetFails
    BY <2>1 DEF Poll, FindReady, PassSlot, EndScan, CopyField, OpenTarget,
                OpenTargetFails, Scanning
  <2>2. CASE Suspend \/ Resume
    BY <2>2 DEF Suspend, Resume, Resumed, Observed
  <2>3. CASE SuspendFails \/ QuerySucceeds \/ QueryFails \/ Release \/ Classify
    BY <2>3 DEF SuspendFails, QuerySucceeds, QueryFails, Release, Classify
  <2>4. CASE MonitorDisarm \/ MonitorClear \/ MissDisarm \/ MissRelease
    BY <2>4 DEF MonitorDisarm, MonitorClear, MissDisarm, MissRelease
  <2> QED BY <1>2, <2>1, <2>2, <2>3, <2>4 DEF MonitorStep
<1>3. CASE ~CallerStep /\ ~MonitorStep
  BY <1>3, OthersMove DEF Next, monitorVars
<1> QED BY <1>1, <1>2, <1>3

(* However the monitor, the caller's timeouts and the threads interleave,  *)
(* the only thread ever suspended is the one the monitor's record names,   *)
(* from the suspension to the end of its scope.                            *)
THEOREM SuspensionInScope == Spec => []SuspensionScoped
<1>1. Init => SuspensionScoped
  BY DEF Init, SuspensionScoped
<1> QED BY <1>1, MonitorJoinedHolds, SuspensionStep, PTL DEF Spec

-----------------------------------------------------------------------------
(* The result.                                                             *)

\* The caller is past the monitor's exit.
PastMonitor == {"waitWorker", "workerRelease", "joinWorker"}

(* What makes JoinedResult inductive: probes that have not begun have no   *)
(* worker, a worker that left its probe has set Done, and the monitor is   *)
(* gone from its join to the end of the probe.                             *)
JoinInv ==
    /\ \A w \in Workers : w > probe => worker[w] = "none"
    /\ probe \in Workers /\ worker[probe] \in {"exit", "gone"} => probe \in done
    /\ callerPc \in PastMonitor => monitorPc = "gone"
    /\ callerPc \in PastMonitor => probe \in Workers
    /\ callerPc = "construct" => event.Verdict = "none"
    /\ callerPc = "idle" /\ event.Verdict \notin {"none", "WorkerFailed"} => probe \in Workers
    /\ JoinedResult

LEMMA JoinCallerStep ==
  ASSUME TypeInv, JoinInv, CallerStep
  PROVE  JoinInv'
<1> USE DEF JoinInv, JoinedResult, PastMonitor, Caller, TypeInv, TypeOK, IndexInv, Workers
<1>1. CASE Construct \/ Destroy \/ Unregister
  BY <1>1 DEF Construct, Destroy, Unregister, OthersKeep, workerVars, monitorVars
<1>2. CASE RunProbe
  <2>1. /\ event' \in {NoEvent, WorkerFailed} /\ probe' = probe + 1 /\ probe < MaxProbes
        /\ UNCHANGED <<worker, done, monitorPc>> /\ callerPc' \in {"idle", "disarm"}
    BY <1>2 DEF RunProbe, OthersKeep, workerVars, monitorVars
  <2>2. MaxProbes \in Nat /\ probe' \in Workers
    BY <2>1, SessionAssumption
  <2>3. worker'[probe'] = "none"
    BY <2>1, <2>2
  <2>4. \A w \in Workers : w > probe' => worker'[w] = "none"
    BY <2>1, <2>2
  <2>5. event.Verdict' \in {"none", "WorkerFailed"}
    BY <2>1 DEF NoEvent, WorkerFailed
  <2> QED BY <2>1, <2>3, <2>4, <2>5
<1>3. CASE StartWorkerFails \/ StartTimesOut \/ Abort
  <2>1. /\ event.Verdict' = "WorkerFailed" /\ callerPc' = "idle"
        /\ UNCHANGED <<probe, worker, done, monitorPc>>
    BY <1>3 DEF StartWorkerFails, StartTimesOut, Abort, Return, WorkerFailed, OthersKeep,
                workerVars, monitorVars
  <2> QED BY <2>1
<1>4. CASE Collect
  <2>1. /\ worker[probe] = "gone" /\ callerPc \in PastMonitor /\ callerPc' = "idle"
        /\ event' = [Verdict |-> verdict, WorkerCompleted |-> probe \in done]
        /\ UNCHANGED <<probe, worker, done, monitorPc>>
    BY <1>4 DEF Collect, WorkerGone, Return, OthersKeep, workerVars, monitorVars
  <2>2. probe \in done /\ monitorPc = "gone"
    BY <2>1
  <2>3. event'.WorkerCompleted = TRUE
    BY <2>1, <2>2
  <2> QED BY <2>1, <2>2, <2>3
<1>5. CASE ResetDisarm \/ ResetTarget \/ ResetSlot \/ Arm \/ TimeoutDisarm
           \/ TimeoutRelease \/ SeeStarted \/ MonitorTimesOut
  <2>1. /\ callerPc' \notin PastMonitor \cup {"idle", "construct"}
        /\ UNCHANGED <<probe, worker, done, monitorPc>>
    BY <1>5 DEF ResetDisarm, ResetTarget, ResetSlot, Arm, TimeoutDisarm, TimeoutRelease,
                SeeStarted, MonitorTimesOut, ReleaseSlot, Loop, CallerOnRing,
                SessionKeeps, OthersKeep, workerVars, monitorVars
  <2> QED BY <2>1
<1>6. CASE JoinMonitor \/ WorkerTimesOut \/ WorkerRelease
  <2>1. /\ callerPc' \in PastMonitor /\ monitorPc = "gone" /\ probe \in Workers
        /\ UNCHANGED <<probe, worker, done, monitorPc>>
    BY <1>6 DEF JoinMonitor, WorkerTimesOut, WorkerRelease, ReleaseSlot, Loop,
                CallerOnRing, SessionKeeps, OthersKeep, workerVars, monitorVars
  <2> QED BY <2>1
<1>7. CASE StartWorker \/ StartMonitor \/ StartMonitorFails \/ Go
  <2>1. /\ callerPc' \in {"waitStarted", "arm", "abort", "waitMonitor"}
        /\ UNCHANGED <<probe, done>>
        /\ worker' \in {worker, [worker EXCEPT ![probe] = "target"]}
    BY <1>7 DEF StartWorker, StartMonitor, StartMonitorFails, Go, LetGo, SessionKeeps,
                workerVars
  <2>2. \A w \in Workers : worker'[w] \in {worker[w], "target"}
                            /\ (w # probe => worker'[w] = worker[w])
    BY <2>1
  <2>3. \A w \in Workers : w > probe' => worker'[w] = "none"
    BY <2>1, <2>2
  <2>4. probe' \in Workers /\ worker'[probe'] \in {"exit", "gone"} => probe' \in done'
    BY <2>1, <2>2
  <2> QED BY <2>1, <2>3, <2>4
<1> QED BY <1>1, <1>2, <1>3, <1>4, <1>5, <1>6, <1>7 DEF CallerStep

LEMMA JoinWorkerStep ==
  ASSUME TypeInv, JoinInv, NEW w \in Workers, WorkerStep(w)
  PROVE  JoinInv'
<1> USE DEF JoinInv, JoinedResult, PastMonitor, TypeInv, TypeOK, IndexInv, Worker,
            callerVars, monitorVars
<1>1. w <= probe /\ UNCHANGED <<callerVars, monitorVars>>
  BY DEF WorkerStep, WorkerTarget, WorkerStarted, WorkerGo, WorkerDone, WorkerExit, Workers
<1>2. CASE WorkerTarget(w) \/ WorkerStarted(w) \/ WorkerGo(w)
  BY <1>1, <1>2 DEF WorkerTarget, WorkerStarted, WorkerGo, Workers
<1>3. CASE WorkerDone(w)
  <2>1. done \subseteq done' /\ (w = probe => probe \in done')
    BY <1>3 DEF WorkerDone, Frame
  <2> QED BY <1>1, <1>3, <2>1 DEF WorkerDone, Workers
<1>4. CASE WorkerExit(w)
  BY <1>1, <1>4 DEF WorkerExit, Workers
<1> QED BY <1>2, <1>3, <1>4 DEF WorkerStep

LEMMA JoinStep ==
  ASSUME TypeInv, JoinInv, [Next]_vars
  PROVE  JoinInv'
<1>1. CASE CallerStep
  BY <1>1, JoinCallerStep
<1>2. CASE \E w \in Workers : WorkerStep(w)
  BY <1>2, JoinWorkerStep
<1>3. CASE MonitorStep
  BY <1>3, MonitorRuns DEF JoinInv, JoinedResult, callerVars, workerVars
<1>4. CASE \/ \E t \in Threads : ThreadRuns(t)
           \/ Tick \/ Closed \/ UNCHANGED vars
  <2>1. UNCHANGED <<callerVars, monitorVars, worker, done>>
    BY <1>4 DEF ThreadRuns, Call, KernelReturn, ThunkStep, Tick, Closed, vars, sessionVars,
                workerVars
  <2> QED BY <2>1 DEF JoinInv, JoinedResult, callerVars, monitorVars
<1> QED BY <1>1, <1>2, <1>3, <1>4 DEF Next

LEMMA JoinHolds == Spec => []JoinInv
<1>1. Init => JoinInv
  BY DEF Init, JoinInv, JoinedResult, PastMonitor, NoEvent, Workers
<1> QED BY <1>1, JoinStep, TypeInvariant, PTL DEF Spec

(* Whatever times out, fails to start or is late, an event that carries a  *)
(* verdict is returned only when the monitor and the worker of the probe   *)
(* are gone, and says that the worker completed.                           *)
THEOREM ResultIsJoined == Spec => []JoinedResult
<1>1. JoinInv => JoinedResult
  BY DEF JoinInv
<1> QED BY <1>1, JoinHolds, PTL

-----------------------------------------------------------------------------
(* No worker outlives the frame of its RunProbe.                           *)

\* What the two waits that RunProbe gives up rely on: a new worker announces
\* itself in time and, where no monitor starts, its calls end in time.
WorkersInTime ==
    /\ "slowStart" \notin Faults
    /\ "monitorStart" \in Faults => {"slowCall", "slowCode"} \cap Faults = {}

\* From the reset of the ring to Arm only the caller writes Armed.
BeforeArm == (ResetPc \ {"disarm"})
             \cup {"startWorker", "waitStarted", "startMonitor", "abort", "arm"}
\* From the worker's start to the arming of the ring.
Starting == {"waitStarted", "startMonitor", "abort"}
\* Until its probe, a worker makes no system call.
BeforeProbe == {"none", "target", "started", "go"}

DangleInv ==
    /\ \A w \in Workers : worker[w] \notin {"none", "gone"} =>
           w = probe /\ callerPc \in ProbePc \ {"startWorker"}
    /\ callerPc \in ProbePc \cup {"idle", "construct"} => ~closing
    /\ callerPc \in ResetPc \cup {"startWorker"} /\ ~closing => worker[probe] = "none"
    /\ \A w \in Workers : w > probe => worker[w] = "none"
    /\ callerPc = "waitStarted" => "start" \notin expired
    /\ callerPc \in BeforeArm => ~armed
    /\ \A w \in Workers : worker[w] \in BeforeProbe => pc[w] = "user"
    /\ callerPc \in Starting => /\ pc[probe] \in {"user", "kernel", "armed"}
                                /\ worker[probe] # "none"
    /\ callerPc = "abort" => /\ "monitorStart" \in Faults /\ probe \in go
                             /\ "abort" \in expired => worker[probe] = "gone"

LEMMA DangleCallerStep ==
  ASSUME WorkersInTime, TypeInv, DangleInv, CallerStep
  PROVE  DangleInv'
<1> USE SessionAssumption
    DEF DangleInv, Caller, TypeInv, TypeOK, IndexInv, Workers, ProbePc, ResetPc, BeforeArm,
        Starting, BeforeProbe
<1>1. CASE Construct \/ Destroy \/ Unregister
  <2>1. /\ UNCHANGED <<probe, worker, pc>>
        /\ \/ callerPc = "construct" /\ callerPc' = "idle" /\ closing' = closing
           \/ callerPc = "idle" /\ callerPc' = "disarm" /\ closing' = TRUE
           \/ callerPc = "unregister" /\ callerPc' = "closed"
    BY <1>1 DEF Construct, Destroy, Unregister, OthersKeep, workerVars, ringVars, threadVars
  <2> QED BY <2>1
<1>2. CASE RunProbe
  <2>1. /\ probe' = probe + 1 /\ probe < MaxProbes /\ callerPc' \in {"idle", "disarm"}
        /\ UNCHANGED <<worker, pc, closing>> /\ callerPc = "idle"
    BY <1>2 DEF RunProbe, OthersKeep, workerVars, ringVars, threadVars
  <2>2. MaxProbes \in Nat /\ probe' \in Workers
    BY <2>1
  <2>3. worker'[probe'] = "none"
    BY <2>1, <2>2
  <2>4. \A w \in Workers : worker'[w] \in {"none", "gone"}
    BY <2>1
  <2> QED BY <2>1, <2>2, <2>3, <2>4
<1>3. CASE StartWorkerFails \/ StartTimesOut \/ Abort \/ Collect
  <2>1. /\ callerPc' = "idle" /\ UNCHANGED <<probe, worker, pc, closing>>
    BY <1>3 DEF StartWorkerFails, StartTimesOut, Abort, Collect, Return, OthersKeep,
                workerVars, ringVars, threadVars
  <2>2. \A w \in Workers : worker[w] \in {"none", "gone"}
    <3>1. CASE StartWorkerFails
      BY <3>1 DEF StartWorkerFails
    <3>2. CASE StartTimesOut
      BY <3>2 DEF StartTimesOut
    <3>3. CASE Abort \/ Collect
      BY <3>3 DEF Abort, Collect, WorkerGone
    <3> QED BY <1>3, <3>1, <3>2, <3>3
  <2>3. callerPc \in ProbePc
    BY <1>3 DEF StartWorkerFails, StartTimesOut, Abort, Collect
  <2> QED BY <2>1, <2>2, <2>3
<1>4. CASE ResetDisarm \/ ResetTarget \/ ResetSlot
  <2>1. /\ UNCHANGED <<probe, worker, pc, closing>> /\ (armed' => armed)
        /\ callerPc \in ResetPc /\ callerPc' \in ResetPc \cup {"startWorker", "unregister"}
        /\ callerPc' # "disarm" /\ (callerPc = "disarm" => ~armed')
        /\ callerPc' = "startWorker" => ~closing
    BY <1>4 DEF ResetDisarm, ResetTarget, ResetSlot, Loop, CallerOnRing, SessionKeeps,
                OthersKeep, workerVars, SetArmed, SetTarget, ClearCallbackSlot,
                ZeroThreadId, ZeroPreviousPc, ZeroStack, threadVars
  <2> QED BY <2>1
<1>5. CASE StartWorker
  <2>1. /\ UNCHANGED <<probe, pc, closing, armed>> /\ callerPc' = "waitStarted"
        /\ worker' = [worker EXCEPT ![probe] = "target"] /\ "start" \notin expired'
        /\ probe \in Workers
    BY <1>5 DEF StartWorker, SessionKeeps, ringVars, threadVars
  <2>2. pc[probe] = "user" /\ worker'[probe] = "target"
    BY <1>5, <2>1 DEF StartWorker
  <2>3. \A w \in Workers \ {probe} : worker'[w] = worker[w]
    BY <2>1
  <2> QED BY <1>5, <2>1, <2>2, <2>3 DEF StartWorker
<1>6. CASE SeeStarted \/ StartMonitor
  BY <1>6 DEF SeeStarted, StartMonitor, SessionKeeps, OthersKeep, workerVars, ringVars,
              threadVars
<1>7. CASE StartMonitorFails \/ Go
  <2>1. /\ UNCHANGED <<probe, pc, closing, armed, worker>>
        /\ \/ callerPc = "startMonitor" /\ callerPc' = "abort" /\ "abort" \notin expired'
              /\ "monitorStart" \in Faults
           \/ callerPc = "go" /\ callerPc' = "waitMonitor"
        /\ go' = go \cup {probe}
    BY <1>7 DEF StartMonitorFails, Go, LetGo, SessionKeeps, ringVars, threadVars
  <2> QED BY <2>1
<1>8. CASE Arm \/ JoinMonitor \/ MonitorTimesOut \/ TimeoutDisarm \/ TimeoutRelease
           \/ WorkerTimesOut \/ WorkerRelease
  <2>1. /\ UNCHANGED <<probe, pc, closing, worker>>
        /\ callerPc \in ProbePc
        /\ callerPc' \in ProbePc \ (BeforeArm \cup Starting)
    BY <1>8 DEF Arm, JoinMonitor, MonitorTimesOut, TimeoutDisarm, TimeoutRelease,
                WorkerTimesOut, WorkerRelease, ReleaseSlot, Loop, CallerOnRing,
                SessionKeeps, OthersKeep, workerVars, ringVars, threadVars, SetArmed,
                ClearCallbackSlot
  <2> QED BY <2>1
<1> QED BY <1>1, <1>2, <1>3, <1>4, <1>5, <1>6, <1>7, <1>8 DEF CallerStep

LEMMA DangleMonitorStep ==
  ASSUME DangleInv, MonitorStep
  PROVE  DangleInv'
<1>1. UNCHANGED <<callerVars, workerVars, expired>>
  BY MonitorRuns
<1>2. UNCHANGED pc /\ (armed' => armed)
  BY DEF MonitorStep, Poll, FindReady, PassSlot, EndScan, CopyField, OpenTarget,
         OpenTargetFails, Suspend, SuspendFails, QuerySucceeds, QueryFails, Release,
         Resume, Classify, MonitorDisarm, MonitorClear, MissDisarm, MissRelease, Local,
         ringVars, threadVars, SetArmed, ClearCallbackSlot
<1> QED BY <1>1, <1>2 DEF DangleInv, callerVars, workerVars

LEMMA DangleWorkerStep ==
  ASSUME TypeInv, DangleInv, NEW w \in Workers, WorkerStep(w)
  PROVE  DangleInv'
<1>1. UNCHANGED <<callerVars, go, expired, pc, armed>>
  BY DEF WorkerStep, WorkerTarget, WorkerStarted, WorkerGo, WorkerDone, WorkerExit, Worker,
         SetTarget, ringVars, threadVars
<1>2. /\ worker[w] \notin {"none", "gone"}
      /\ \E to \in WorkerPc \ {"none"} : worker' = [worker EXCEPT ![w] = to]
      /\ worker'[w] \in BeforeProbe => worker[w] \in BeforeProbe
  BY DEF WorkerStep, WorkerTarget, WorkerStarted, WorkerGo, WorkerDone, WorkerExit, Worker,
         WorkerPc, BeforeProbe, TypeInv, TypeOK
<1>3. worker'[w] # "none" /\ \A v \in Workers \ {w} : worker'[v] = worker[v]
  BY <1>2 DEF TypeInv, TypeOK
<1>4. w = probe /\ callerPc \in ProbePc \ {"startWorker"}
  BY <1>2 DEF DangleInv
<1> QED
  BY <1>1, <1>2, <1>3, <1>4
  DEF DangleInv, callerVars, Workers, ProbePc, ResetPc, Starting, TypeInv, TypeOK

LEMMA DangleThreadStep ==
  ASSUME TypeInv, DangleInv, NEW t \in Threads, ThreadRuns(t)
  PROVE  DangleInv'
<1>1. UNCHANGED <<callerVars, worker, go, expired, armed>>
  BY DEF ThreadRuns, Call, KernelReturn, ThunkStep, sessionVars, workerVars, SyscallEnter,
         SyscallReturn, ThunkEnter, Thunk, CheckArmed, CheckTarget, ClaimSlot, SkipSlot,
         DropCallback, WriteThreadId, WritePreviousPc, WriteStack, Publish, LeaveThunk
<1>2. /\ \A u \in Threads \ {t} : pc'[u] = pc[u]
      /\ t \in Workers /\ worker[t] \in BeforeProbe => pc[t] # "user"
      /\ pc[t] \in {"user", "kernel"} => pc'[t] \in {"user", "kernel", "armed"}
      /\ pc[t] = "armed" /\ ~armed => pc'[t] = "user"
  BY DEF ThreadRuns, Call, KernelReturn, ThunkStep, SyscallEnter, SyscallReturn, ThunkEnter,
         Thunk, CheckArmed, CheckTarget, ClaimSlot, SkipSlot, DropCallback, WriteThreadId,
         WritePreviousPc, WriteStack, Publish, LeaveThunk, Goto, BeforeProbe, TypeInv,
         TypeOK, RingTypeOK
<1>3. Workers \subseteq Threads
  BY SessionAssumption
<1>4. callerPc \in Starting => probe \in Workers /\ ~armed
  BY DEF DangleInv, TypeInv, IndexInv, Starting, ProbePc, BeforeArm
<1> QED BY <1>1, <1>2, <1>3, <1>4 DEF DangleInv, callerVars

LEMMA DangleTick ==
  ASSUME WorkersInTime, TypeInv, DangleInv, Tick
  PROVE  DangleInv'
<1>1. UNCHANGED <<callerVars, worker, go, pc, armed>>
  BY DEF Tick, workerVars, ringVars, threadVars
<1>2. callerPc # "waitStarted"
  BY DEF Tick, WorkersInTime
<1>3. callerPc = "abort" => worker[probe] = "gone"
  <2> SUFFICES ASSUME callerPc = "abort"
               PROVE  worker[probe] = "gone"
    OBVIOUS
  <2>1. probe \in Workers
    BY DEF TypeInv, IndexInv, ProbePc
  <2>2. "slowCode" \notin Faults /\ "slowCall" \notin Faults
    BY DEF DangleInv, WorkersInTime
  <2>3. WorkerBlocked(probe)
    BY <1>2, <2>1, <2>2 DEF Tick
  <2> QED BY <2>2, <2>3 DEF WorkerBlocked, DangleInv, Starting
<1> QED BY <1>1, <1>2, <1>3 DEF DangleInv, callerVars

LEMMA DangleHolds ==
  ASSUME WorkersInTime
  PROVE  Spec => []DangleInv
<1>1. Init => DangleInv
  BY SessionAssumption
  DEF Init, RingInit, DangleInv, ProbePc, ResetPc, BeforeArm, Starting, BeforeProbe
<1>2. TypeInv /\ DangleInv /\ [Next]_vars => DangleInv'
  <2> SUFFICES ASSUME TypeInv, DangleInv, [Next]_vars
               PROVE  DangleInv'
    OBVIOUS
  <2>1. CASE Closed \/ UNCHANGED vars
    BY <2>1 DEF Closed, vars, sessionVars, ringVars, threadVars, callerVars, workerVars,
                DangleInv
  <2> QED BY <2>1, DangleCallerStep, DangleMonitorStep, DangleWorkerStep, DangleThreadStep,
             DangleTick DEF Next
<1> QED BY <1>1, <1>2, TypeInvariant, PTL DEF Spec

(* Where threads start and calls end in time, no worker runs on a context  *)
(* whose frame is gone: every return of RunProbe, the failing ones         *)
(* included, finds its worker gone or never started.                       *)
THEOREM WorkersAreJoined ==
  ASSUME WorkersInTime
  PROVE  Spec => []NoDanglingWorker
<1>1. DangleInv => NoDanglingWorker
  BY DEF DangleInv, NoDanglingWorker, Alive, ProbePc
<1> QED BY <1>1, DangleHolds, PTL
=============================================================================
