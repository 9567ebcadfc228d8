------------------------ MODULE DetectorSessionProofs ------------------------
(***************************************************************************)
(* Theorems about DetectorSession and their proofs: what holds of a        *)
(* session for any number of probes, threads and slots and any faults.     *)
(***************************************************************************)
EXTENDS DetectorSession, CallbackRingProofs, SequenceTheorems

\* The caller is past the reset of a probe, with its frame on the stack.
ProbePc == {"startWorker", "waitStarted", "startMonitor", "abort", "arm", "go",
            "waitMonitor", "timeoutDisarm", "timeoutRelease", "joinMonitor",
            "waitWorker", "workerRelease", "joinWorker"}
ResetPc == {"disarm", "untarget", "resetState", "resetThread", "resetPc", "resetStack"}

\* Until the query has answered, or has failed for the last time.
BeforeAnswer == {"poll", "scan", "lastScan", "copyThread", "copyPc", "copyStack",
                 "open", "suspend", "query"}
\* The monitor writes or reads the slot at its index.
UsesSlot == {"copyThread", "copyPc", "copyStack", "missRelease"}
            \cup {"open", "suspend", "query", "release", "resume", "classify",
                  "disarm", "clear"}

(* The type invariant is inductive only with what bounds the indices: the  *)
(* monitor's slot exists where it uses it, a probe has a number as soon as *)
(* it has threads, and the thread that is paused is one of the process.    *)
IndexInv ==
    /\ callerPc \in ProbePc \/ (callerPc \in ResetPc /\ ~closing) => probe \in Workers
    /\ monitorPc # "none" => probe \in Workers
    /\ \A w \in Workers : worker[w] # "none" => probe \in Workers
    /\ monitorPc \in UsesSlot => scan \in Slots
    /\ monitorPc \in {"suspend", "query", "release", "resume"} => Observed \in Threads
    /\ monitorPc \in BeforeAnswer => attempts < QueryRetryCount

TypeInv == TypeOK /\ IndexInv

-----------------------------------------------------------------------------
(* Every step of the session is a step of the ring or leaves it alone.     *)

LEMMA CallerOnRingOnly ==
  ASSUME TypeInv, CallerStep
  PROVE  ClientStep \/ UNCHANGED ringVars
<1> USE DEF TypeInv, TypeOK
<1>1. CASE Construct \/ RunProbe \/ Destroy \/ StartWorker \/ StartWorkerFails
           \/ SeeStarted \/ StartTimesOut \/ StartMonitor
  BY <1>1 DEF Construct, RunProbe, Destroy, StartWorker, StartWorkerFails, SeeStarted,
              StartTimesOut, StartMonitor, Return
<1>2. CASE StartMonitorFails \/ Abort \/ Go \/ JoinMonitor \/ MonitorTimesOut
           \/ WorkerTimesOut \/ Collect \/ Unregister
  BY <1>2 DEF StartMonitorFails, Abort, Go, LetGo, JoinMonitor, MonitorTimesOut,
              WorkerTimesOut, Collect, Unregister, Return
<1>3. CASE ResetDisarm \/ ResetTarget \/ Arm \/ TimeoutDisarm
  BY <1>3 DEF ResetDisarm, ResetTarget, Arm, TimeoutDisarm, CallerOnRing, ClientStep
<1>4. CASE ResetSlot \/ TimeoutRelease \/ WorkerRelease
  BY <1>4 DEF ResetSlot, TimeoutRelease, WorkerRelease, ReleaseSlot, CallerOnRing,
              ClientStep
<1> QED BY <1>1, <1>2, <1>3, <1>4 DEF CallerStep

LEMMA MonitorOnRingOnly ==
  ASSUME TypeInv, MonitorStep
  PROVE  ClientStep \/ UNCHANGED ringVars
<1> USE DEF TypeInv, IndexInv, UsesSlot, Monitor, Local
<1>1. CASE Poll \/ FindReady \/ PassSlot \/ EndScan \/ CopyField \/ OpenTarget
           \/ OpenTargetFails
  BY <1>1 DEF Poll, FindReady, PassSlot, EndScan, CopyField, OpenTarget, OpenTargetFails
<1>2. CASE Suspend \/ SuspendFails \/ QuerySucceeds \/ QueryFails \/ Resume \/ Classify
  BY <1>2 DEF Suspend, SuspendFails, QuerySucceeds, QueryFails, Resume, Classify
<1>3. CASE MonitorDisarm \/ MissDisarm
  BY <1>3 DEF MonitorDisarm, MissDisarm, ClientStep
<1>4. CASE Release \/ MonitorClear \/ MissRelease
  BY <1>4 DEF Release, MonitorClear, MissRelease, ClientStep
<1> QED BY <1>1, <1>2, <1>3, <1>4 DEF MonitorStep

LEMMA WorkerOnRingOnly ==
  ASSUME NEW w \in Workers, WorkerStep(w)
  PROVE  ClientStep \/ UNCHANGED ringVars
<1>1. w \in Threads
  BY SessionAssumption
<1> QED
  BY <1>1 DEF WorkerStep, WorkerTarget, TargetOf, WorkerStarted, WorkerGo, WorkerDone,
              WorkerExit, ClientStep

LEMMA ThreadOnRing ==
  ASSUME TypeInv, NEW t \in Threads, ThreadRuns(t)
  PROVE  ThreadStep(t)
<1>1. CASE Call(t)
  <2>1. todo[t] \in Seq(Calls) /\ todo[t] # <<>>
    BY <1>1 DEF Call, TypeInv, TypeOK
  <2>2. Head(todo[t]) \in Calls
    BY <2>1
  <2> QED BY <1>1, <2>2 DEF Call, ThreadStep
<1>2. CASE KernelReturn(t) \/ ThunkStep(t)
  BY <1>2 DEF KernelReturn, ThunkStep, ThreadStep
<1> QED BY <1>1, <1>2 DEF ThreadRuns

LEMMA SessionStepOnRing ==
  ASSUME TypeInv, [Next]_vars
  PROVE  [RingNext]_ringVars
<1>1. CASE CallerStep
  BY <1>1, CallerOnRingOnly DEF RingNext
<1>2. CASE MonitorStep
  BY <1>2, MonitorOnRingOnly DEF RingNext
<1>3. CASE \E w \in Workers : WorkerStep(w)
  BY <1>3, WorkerOnRingOnly DEF RingNext
<1>4. CASE \E t \in Threads : ThreadRuns(t)
  BY <1>4, ThreadOnRing DEF RingNext
<1>5. CASE Tick \/ Closed \/ UNCHANGED vars
  BY <1>5 DEF Tick, Closed, vars
<1> QED BY <1>1, <1>2, <1>3, <1>4, <1>5 DEF Next

LEMMA RingTypeKept ==
  ASSUME TypeInv, [Next]_vars
  PROVE  RingTypeOK'
  BY SessionStepOnRing, RingTypeStep DEF TypeInv, TypeOK

-----------------------------------------------------------------------------
(* Type correctness of the session.                                        *)

LEMMA SlotIndex ==
  /\ 0 \in Slots /\ Slots \subseteq 0 .. SlotCount
  /\ \A i \in Slots : IF i + 1 < SlotCount THEN i + 1 \in Slots ELSE i + 1 = SlotCount
  BY RingAssumption DEF Slots

LEMMA TypeInit == Init => TypeInv
<1> SUFFICES ASSUME Init PROVE TypeInv
  OBVIOUS
<1>1. RingTypeOK
  BY RingTypeInit DEF Init
<1>2. todo \in [Threads -> Seq(Calls)] /\ script \in Seq(Calls)
  BY SessionAssumption DEF Init
<1>3. record \in CallbackRecord
  BY DEF Init, CallbackRecord, NoRecord
<1>4. event \in DetectionEvent
  BY DEF Init, DetectionEvent, NoEvent
<1>5. /\ callerPc \in CallerPc /\ monitorPc \in MonitorPc
      /\ worker \in [Workers -> WorkerPc] /\ verdict \in DetectionVerdict
  BY DEF Init, CallerPc, MonitorPc, WorkerPc, DetectionVerdict
<1>6. cursor \in Slots /\ scan \in 0 .. SlotCount /\ attempts \in 0 .. QueryRetryCount
      /\ probe \in 0 .. MaxProbes
  BY SlotIndex, SessionAssumption DEF Init
<1>7. TypeOK
  BY <1>1, <1>2, <1>3, <1>4, <1>5, <1>6 DEF Init, TypeOK
<1>8. IndexInv
  BY SessionAssumption DEF Init, IndexInv, ProbePc, ResetPc, UsesSlot, BeforeAnswer
<1> QED BY <1>7, <1>8 DEF TypeInv

\* What the caller's steps can disturb.
CallerTypeInv ==
    /\ installed \in BOOLEAN /\ registered \in BOOLEAN /\ closing \in BOOLEAN
    /\ callerPc \in CallerPc
    /\ cursor \in Slots
    /\ probe \in 0 .. MaxProbes
    /\ script \in Seq(Calls)
    /\ event \in DetectionEvent
    /\ callerPc \in ProbePc \/ (callerPc \in ResetPc /\ ~closing) => probe \in Workers

LEMMA CallerTypeStep ==
  ASSUME TypeInv, CallerStep
  PROVE  CallerTypeInv' /\ (probe \in Workers => probe' \in Workers)
<1> USE SlotIndex, SessionAssumption
    DEF TypeInv, TypeOK, IndexInv, CallerTypeInv, CallerPc, ProbePc, ResetPc, Caller
<1>1. CASE Construct \/ Destroy \/ Unregister
  BY <1>1 DEF Construct, Destroy, Unregister
<1>2. CASE RunProbe
  <2>1. event' \in DetectionEvent
    BY <1>2 DEF RunProbe, DetectionEvent, NoEvent, WorkerFailed, DetectionVerdict
  <2>2. probe' \in Workers
    BY <1>2 DEF RunProbe, Workers
  <2> QED BY <1>2, <2>1, <2>2 DEF RunProbe, Workers
<1>3. CASE StartWorkerFails \/ StartTimesOut \/ Abort \/ Collect
  <2>1. WorkerFailed \in DetectionEvent
    BY DEF WorkerFailed, DetectionEvent, DetectionVerdict
  <2>2. [Verdict |-> verdict, WorkerCompleted |-> probe \in done] \in DetectionEvent
    <3>1. (probe \in done) \in BOOLEAN
      OBVIOUS
    <3> QED BY <3>1, Zenon DEF DetectionEvent
  <2> QED BY <1>3, <2>1, <2>2 DEF StartWorkerFails, StartTimesOut, Abort, Collect, Return
<1>4. CASE ResetDisarm \/ ResetTarget \/ Arm \/ TimeoutDisarm
  BY <1>4 DEF ResetDisarm, ResetTarget, Arm, TimeoutDisarm, CallerOnRing, SessionKeeps
<1>5. CASE ResetSlot
  BY <1>5 DEF ResetSlot, CallerOnRing, SessionKeeps, NextIndex, Loop
<1>6. CASE TimeoutRelease \/ WorkerRelease
  BY <1>6 DEF TimeoutRelease, WorkerRelease, ReleaseSlot, CallerOnRing, SessionKeeps,
              NextIndex, Loop
<1>7. CASE StartWorker \/ SeeStarted \/ StartMonitor \/ JoinMonitor \/ MonitorTimesOut
           \/ WorkerTimesOut
  BY <1>7 DEF StartWorker, SeeStarted, StartMonitor, JoinMonitor, MonitorTimesOut,
              WorkerTimesOut, SessionKeeps
<1>8. CASE StartMonitorFails \/ Go
  BY <1>8 DEF StartMonitorFails, Go, LetGo, SessionKeeps
<1> QED BY <1>1, <1>2, <1>3, <1>4, <1>5, <1>6, <1>7, <1>8 DEF CallerStep

\* What the threads' steps can disturb.
WorkerTypeInv ==
    /\ worker \in [Workers -> WorkerPc]
    /\ todo \in [Threads -> Seq(Calls)]
    /\ started \subseteq Workers /\ go \subseteq Workers /\ done \subseteq Workers
    /\ \A w \in Workers : worker[w] # "none" => probe \in Workers

\* What the monitor's steps and the passing of time can disturb.
MonitorTypeInv ==
    /\ monitorPc \in MonitorPc
    /\ scan \in 0 .. SlotCount
    /\ record \in CallbackRecord
    /\ query \in Calls \cup {0}
    /\ attempts \in 0 .. QueryRetryCount
    /\ verdict \in DetectionVerdict
    /\ suspended \subseteq Threads
    /\ expired \subseteq {"start", "abort", "monitor", "worker", "deadline"}
    /\ monitorPc # "none" => probe \in Workers
    /\ monitorPc \in UsesSlot => scan \in Slots
    /\ monitorPc \in {"suspend", "query", "release", "resume"} => Observed \in Threads
    /\ monitorPc \in BeforeAnswer => attempts < QueryRetryCount

LEMMA TypeInvParts ==
  TypeInv <=> RingTypeOK /\ CallerTypeInv /\ WorkerTypeInv /\ MonitorTypeInv
  BY DEF TypeInv, TypeOK, IndexInv, CallerTypeInv, WorkerTypeInv, MonitorTypeInv

(* The caller touches the worker's and the monitor's state only where it   *)
(* starts them and where it lets the worker go.                            *)
LEMMA CallerKeepsOthers ==
  ASSUME CallerStep
  PROVE  \/ OthersKeep /\ expired' \subseteq expired
         \/ StartWorker \/ StartMonitor \/ StartMonitorFails \/ Go
<1>1. CASE Construct \/ RunProbe \/ Destroy \/ StartWorkerFails \/ StartTimesOut
           \/ Abort \/ Collect \/ Unregister
  BY <1>1 DEF Construct, RunProbe, Destroy, StartWorkerFails, StartTimesOut, Abort,
              Collect, Unregister, Return
<1>2. CASE ResetDisarm \/ ResetTarget \/ ResetSlot \/ Arm \/ TimeoutDisarm
           \/ TimeoutRelease \/ WorkerRelease
  BY <1>2 DEF ResetDisarm, ResetTarget, ResetSlot, Arm, TimeoutDisarm, TimeoutRelease,
              WorkerRelease, ReleaseSlot, CallerOnRing
<1>3. CASE SeeStarted \/ JoinMonitor \/ MonitorTimesOut \/ WorkerTimesOut
  BY <1>3 DEF SeeStarted, JoinMonitor, MonitorTimesOut, WorkerTimesOut
<1> QED BY <1>1, <1>2, <1>3 DEF CallerStep

LEMMA CallerOthersTypeStep ==
  ASSUME TypeInv, CallerStep
  PROVE  WorkerTypeInv' /\ MonitorTypeInv'
<1>1. probe \in Workers => probe' \in Workers
  BY CallerTypeStep
<1> USE <1>1, TypeInvParts DEF WorkerTypeInv, MonitorTypeInv, Observed
<1>2. CASE OthersKeep /\ expired' \subseteq expired
  BY <1>2 DEF OthersKeep, workerVars, monitorVars
<1>3. CASE StartWorker
  <2>1. probe \in Workers /\ probe \in Threads
    BY <1>3, SessionAssumption DEF StartWorker, Caller, CallerTypeInv, ProbePc
  <2>2. worker' \in [Workers -> WorkerPc] /\ todo' \in [Threads -> Seq(Calls)]
    BY <1>3, <2>1 DEF StartWorker, WorkerPc, CallerTypeInv
  <2>3. MonitorTypeInv'
    BY <1>3 DEF StartWorker, monitorVars
  <2> QED BY <1>1, <1>3, <2>1, <2>2, <2>3 DEF StartWorker
<1>4. CASE StartMonitor
  <2>1. probe \in Workers
    BY <1>4 DEF StartMonitor, Caller, CallerTypeInv, ProbePc
  <2>2. record' \in CallbackRecord /\ scan' = 0 /\ attempts' = 0 /\ query' = 0
    BY <1>4 DEF StartMonitor, NoRecord, CallbackRecord
  <2>3. monitorPc' = "poll" /\ monitorPc' \in MonitorPc /\ verdict' \in DetectionVerdict
    BY <1>4 DEF StartMonitor, MonitorPc, DetectionVerdict
  <2>4. attempts' \in 0 .. QueryRetryCount /\ attempts' < QueryRetryCount
    BY <2>2, SessionAssumption
  <2>5. WorkerTypeInv'
    BY <1>4 DEF StartMonitor, workerVars
  <2> QED BY <1>1, <1>4, <2>1, <2>2, <2>3, <2>4, <2>5, SlotIndex DEF StartMonitor, UsesSlot
<1>5. CASE StartMonitorFails \/ Go
  <2>1. probe \in Workers
    BY <1>5 DEF StartMonitorFails, Go, LetGo, Caller, CallerTypeInv, ProbePc
  <2> QED BY <1>1, <1>5, <2>1 DEF StartMonitorFails, Go, LetGo, monitorVars
<1> QED BY <1>2, <1>3, <1>4, <1>5, CallerKeepsOthers

LEMMA WorkerTypeStep ==
  ASSUME TypeInv, NEW w \in Workers, WorkerStep(w)
  PROVE  CallerTypeInv' /\ WorkerTypeInv' /\ MonitorTypeInv'
<1>1. UNCHANGED <<callerVars, monitorVars, suspended, expired>>
  BY DEF WorkerStep, WorkerTarget, WorkerStarted, WorkerGo, WorkerDone, WorkerExit, Worker
<1>2. CallerTypeInv' /\ MonitorTypeInv'
  BY <1>1, TypeInvParts DEF CallerTypeInv, MonitorTypeInv, Observed, callerVars, monitorVars
<1> USE TypeInvParts DEF WorkerTypeInv
<1>3. worker[w] # "none" /\ probe \in Workers /\ probe' = probe
  BY <1>1 DEF WorkerStep, WorkerTarget, WorkerStarted, WorkerGo, WorkerDone, WorkerExit,
              Worker, callerVars
<1>4. Frame(w) \subseteq Workers
  BY <1>3 DEF Frame
<1>5. worker' \in [Workers -> WorkerPc]
  BY DEF WorkerStep, WorkerTarget, WorkerStarted, WorkerGo, WorkerDone, WorkerExit,
         Worker, WorkerPc
<1>6. started' \subseteq Workers /\ go' \subseteq Workers /\ done' \subseteq Workers
  BY <1>4 DEF WorkerStep, WorkerTarget, WorkerStarted, WorkerGo, WorkerDone, WorkerExit
<1>7. todo' \in [Threads -> Seq(Calls)]
  BY SessionAssumption
  DEF WorkerStep, WorkerTarget, WorkerStarted, WorkerGo, WorkerDone, WorkerExit
<1> QED BY <1>2, <1>3, <1>5, <1>6, <1>7

LEMMA ThreadSessionTypeStep ==
  ASSUME TypeInv, NEW t \in Threads, ThreadRuns(t)
  PROVE  CallerTypeInv' /\ WorkerTypeInv' /\ MonitorTypeInv'
<1> USE TypeInvParts
<1>1. CASE KernelReturn(t) \/ ThunkStep(t)
  <2>1. UNCHANGED sessionVars
    BY <1>1 DEF KernelReturn, ThunkStep
  <2> QED BY <2>1 DEF CallerTypeInv, WorkerTypeInv, MonitorTypeInv, Observed, sessionVars,
                      callerVars, workerVars, monitorVars
<1>2. CASE Call(t)
  <2>1. todo' \in [Threads -> Seq(Calls)]
    BY <1>2 DEF Call, WorkerTypeInv
  <2> QED BY <1>2, <2>1 DEF Call, CallerTypeInv, WorkerTypeInv, MonitorTypeInv, Observed,
                            callerVars, monitorVars
<1> QED BY <1>1, <1>2 DEF ThreadRuns

LEMMA MonitorTypeStep ==
  ASSUME TypeInv, MonitorStep
  PROVE  CallerTypeInv' /\ WorkerTypeInv' /\ MonitorTypeInv'
<1>1. UNCHANGED <<callerVars, workerVars, expired>>
  BY DEF MonitorStep, Poll, FindReady, PassSlot, EndScan, CopyField, OpenTarget,
         OpenTargetFails, Suspend, SuspendFails, QuerySucceeds, QueryFails, Release,
         Resume, Classify, MonitorDisarm, MonitorClear, MissDisarm, MissRelease, Monitor
<1>2. CallerTypeInv' /\ WorkerTypeInv'
  BY <1>1, TypeInvParts DEF CallerTypeInv, WorkerTypeInv, callerVars, workerVars
<1> USE <1>1, TypeInvParts, SlotIndex
    DEF MonitorTypeInv, MonitorPc, UsesSlot, BeforeAnswer, callerVars, workerVars
<1>3. CASE Poll \/ FindReady \/ PassSlot \/ EndScan
  <2>1. /\ monitorPc' \in MonitorPc /\ scan' \in 0 .. SlotCount
        /\ monitorPc # "none" /\ monitorPc \in BeforeAnswer
        /\ monitorPc' \in {"poll", "scan", "lastScan", "copyThread", "missDisarm"}
        /\ monitorPc' = "copyThread" => scan' \in Slots
    BY <1>3, RingAssumption
    DEF Poll, FindReady, PassSlot, EndScan, Scanning, Monitor, Seen, Slots
  <2>2. UNCHANGED <<record, query, attempts, verdict, suspended>>
    BY <1>3 DEF Poll, FindReady, PassSlot, EndScan, Seen, Judged, Local
  <2> QED BY <1>2, <2>1, <2>2
<1>4. CASE CopyField
  <2>1. scan \in Slots /\ slots[scan] \in CallbackSlot
    BY <1>4 DEF CopyField, Monitor, RingTypeOK
  <2>2. record' \in CallbackRecord
    BY <1>4, <2>1 DEF CopyField, CallbackRecord, CallbackSlot
  <2> QED BY <1>2, <1>4, <2>1, <2>2 DEF CopyField, Monitor, Judged, Local
<1>5. CASE OpenTarget \/ OpenTargetFails \/ SuspendFails
  <2>1. monitorPc' = "suspend" => Observed \in Threads
    <3>1. monitorPc # "none"
      BY <1>5 DEF OpenTarget, OpenTargetFails, SuspendFails, Monitor
    <3>2. probe \in Threads
      BY <3>1, SessionAssumption
    <3> QED BY <1>5, <3>2, SessionAssumption
            DEF OpenTarget, OpenTargetFails, SuspendFails, Monitor, Exists, Bystanders
  <2> QED BY <1>2, <1>5, <2>1
          DEF OpenTarget, OpenTargetFails, SuspendFails, Monitor, Seen, Judged, Local,
              Observed
<1>6. CASE Suspend \/ Resume
  BY <1>2, <1>6 DEF Suspend, Resume, Resumed, Monitor, Seen, Judged, Observed
<1>7. CASE QuerySucceeds
  <2>1. query' \in Calls \cup {0}
    BY <1>7 DEF QuerySucceeds, Monitor, RingTypeOK
  <2> QED BY <1>2, <1>7, <2>1 DEF QuerySucceeds, Monitor, Seen, Local, Observed
<1>8. CASE QueryFails
  <2>1. /\ attempts' \in 0 .. QueryRetryCount
        /\ monitorPc' = "query" => attempts' < QueryRetryCount
    BY <1>8, SessionAssumption DEF QueryFails, Monitor
  <2> QED BY <1>2, <1>8, <2>1 DEF QueryFails, Monitor, Seen, Local, Observed
<1>9. CASE Classify
  <2>1. verdict' \in DetectionVerdict
    BY <1>9 DEF Classify, VerdictOf, DetectionVerdict
  <2> QED BY <1>2, <1>9, <2>1 DEF Classify, Monitor, Seen, Local, Observed
<1>10. CASE Release \/ MonitorDisarm \/ MonitorClear
  BY <1>2, <1>10 DEF Release, MonitorDisarm, MonitorClear, Monitor, Seen, Judged, Observed
<1>11. CASE MissDisarm
  BY <1>2, <1>11 DEF MissDisarm, Monitor, Judged, Observed
<1>12. CASE MissRelease
  <2>1. /\ monitorPc' \in {"missRelease", "gone"} /\ scan' \in 0 .. SlotCount
        /\ monitorPc' = "missRelease" => scan' \in Slots
    BY <1>12 DEF MissRelease, Monitor
  <2> QED BY <1>2, <1>12, <2>1 DEF MissRelease, Monitor, Judged, Observed
<1> QED
  BY <1>3, <1>4, <1>5, <1>6, <1>7, <1>8, <1>9, <1>10, <1>11, <1>12
  DEF MonitorStep

LEMMA TypeStep == TypeInv /\ [Next]_vars => TypeInv'
<1> SUFFICES ASSUME TypeInv, [Next]_vars
             PROVE  TypeInv'
  OBVIOUS
<1>1. SUFFICES CallerTypeInv' /\ WorkerTypeInv' /\ MonitorTypeInv'
  <2>1. RingTypeOK'
    BY RingTypeKept
  <2> QED BY <2>1 DEF TypeInv, TypeOK, IndexInv, CallerTypeInv, WorkerTypeInv, MonitorTypeInv
<1>2. CASE CallerStep
  BY <1>2, CallerTypeStep, CallerOthersTypeStep
<1>3. CASE MonitorStep
  BY <1>3, MonitorTypeStep
<1>4. CASE \E w \in Workers : WorkerStep(w)
  BY <1>4, WorkerTypeStep
<1>5. CASE \E t \in Threads : ThreadRuns(t)
  BY <1>5, ThreadSessionTypeStep
<1>6. CASE Tick
  <2>1. expired' \subseteq expired \cup {"start", "abort", "monitor", "worker", "deadline"}
    BY <1>6 DEF Tick, Waits
  <2> QED BY <1>6, <2>1, TypeInvParts
          DEF Tick, CallerTypeInv, WorkerTypeInv, MonitorTypeInv, Observed, callerVars,
              workerVars, monitorVars
<1>7. CASE Closed \/ UNCHANGED vars
  BY <1>7, TypeInvParts
  DEF Closed, vars, sessionVars, CallerTypeInv, WorkerTypeInv, MonitorTypeInv, Observed,
      callerVars, workerVars, monitorVars
<1> QED BY <1>2, <1>3, <1>4, <1>5, <1>6, <1>7 DEF Next

(* Every variable keeps its type, the indices of the caller's and of the   *)
(* monitor's loops included: no step of either reaches past the ring.      *)
THEOREM TypeCorrect == Spec => []TypeOK
<1>1. Spec => []TypeInv
  BY TypeInit, TypeStep, PTL DEF Spec
<1>2. TypeInv => TypeOK
  BY DEF TypeInv
<1> QED BY <1>1, <1>2, PTL

(* The session uses the ring only through the steps that CallbackRing      *)
(* allows: it implements that specification, with the same variables.      *)
THEOREM SessionImplementsRing == Spec => RingSpec
<1>1. Init => RingInit
  BY DEF Init
<1> QED BY <1>1, TypeInit, TypeStep, SessionStepOnRing, PTL DEF Spec, RingSpec

(* So a session never loses a slot of the ring, whatever it times out on.  *)
THEOREM SessionSlotsAreHeld == Spec => []NoOrphanSlot
  BY SessionImplementsRing, SlotsAreHeld, PTL
=============================================================================
