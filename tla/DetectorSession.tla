---------------------------- MODULE DetectorSession ----------------------------
(***************************************************************************)
(* A DetectorSession over the callback ring: the thread that calls         *)
(* RunProbe, the worker that runs the probe, the monitor that inspects the *)
(* worker, and other threads of the process.  Probe k is run by worker k.  *)
(*                                                                         *)
(* Time is one action: Tick lets five seconds pass in every wait that is   *)
(* in progress.  Unless Faults holds "slowCode", straight-line code is     *)
(* much faster than that, so Tick waits until no thread can move; a new    *)
(* thread is only late to announce itself with "slowStart", and a system   *)
(* call only takes that long with "slowCall".                              *)
(***************************************************************************)
EXTENDS CallbackRing, Sequences

CONSTANTS MaxProbes,        \* probes run in the session's life
          Scripts,          \* the system calls of a probe, in order
          ExitScript,       \* those the C runtime makes as a thread exits
          BystanderScript,  \* those of every other thread
          ServiceNumber,    \* the service number of each call
          ReturnOwner,      \* number of the catalogued stub that owns its
                            \* return address, 0 for none
          Catalogued,       \* service numbers the catalog knows
          QueryRetryCount,  \* attempts at the query, 64 in the code
          Faults            \* what may go wrong outside this code

FaultNames == {"install", "workerStart", "monitorStart", "open", "suspend", "query",
               "slowStart", "slowCall", "slowCode"}
Workers == 1 .. MaxProbes
Bystanders == Threads \ Workers
Numbers == {ServiceNumber[c] : c \in Calls}

ASSUME SessionAssumption ==
    /\ MaxProbes \in Nat /\ QueryRetryCount \in Nat \ {0}
    /\ Workers \subseteq Threads
    /\ Scripts \subseteq Seq(Calls)
    /\ ExitScript \in Seq(Calls) /\ BystanderScript \in Seq(Calls)
    /\ 0 \notin Numbers
    /\ ReturnOwner \in [Calls -> Numbers \cup {0}]
    /\ Faults \subseteq FaultNames

VARIABLES installed,   \* m_installed
          registered,  \* whether the kernel enters the thunk
          callerPc,    \* where the caller is in the session's functions
          closing,     \* the destructor has begun
          cursor,      \* the caller's slot index in its loops
          probe,       \* number of the latest probe, 0 before the first
          script,      \* the system calls that probe makes
          event,       \* the DetectionEvent it returned
          worker,      \* where each worker is
          todo,        \* system calls each thread has still to make
          started,     \* workers whose WorkerContext has Started = 1
          go,          \* ... Go = 1
          done,        \* ... Done = 1
          monitorPc,   \* where the monitor is
          scan,        \* its slot index, then the slot it found
          record,      \* its CallbackRecord
          query,       \* the call that its query returned, 0 if it failed
          attempts,    \* failed attempts at the query
          verdict,     \* monitor.Event.Verdict
          suspended,   \* threads under SuspendThread
          expired      \* waits whose five seconds have passed

callerVars == <<installed, registered, callerPc, closing, cursor, probe, script, event>>
workerVars == <<worker, todo, started, go, done>>
monitorVars == <<monitorPc, scan, record, query, attempts, verdict>>
sessionVars == <<callerVars, workerVars, monitorVars, suspended, expired>>
vars == <<ringVars, sessionVars>>

NoRecord == [ThreadId |-> 0, PreviousProgramCounter |-> 0, StackArguments |-> 0]
NoEvent == [Verdict |-> "none", WorkerCompleted |-> FALSE]
WorkerFailed == [Verdict |-> "WorkerFailed", WorkerCompleted |-> FALSE]

Init ==
    /\ RingInit
    /\ installed = FALSE /\ registered = FALSE
    /\ callerPc = "construct" /\ closing = FALSE /\ cursor = 0
    /\ probe = 0 /\ script = <<>> /\ event = NoEvent
    /\ worker = [w \in Workers |-> "none"]
    /\ todo = [t \in Threads |-> IF t \in Bystanders THEN BystanderScript ELSE <<>>]
    /\ started = {} /\ go = {} /\ done = {}
    /\ monitorPc = "none" /\ scan = 0 /\ record = NoRecord
    /\ query = 0 /\ attempts = 0 /\ verdict = "CallbackNotObserved"
    /\ suspended = {} /\ expired = {}

-----------------------------------------------------------------------------
(* The caller: constructor, RunProbe, destructor.                          *)

Caller(from, to) == callerPc = from /\ callerPc' = to

\* What a step of the caller leaves alone, unless it is named below.
SessionKeeps == UNCHANGED <<installed, registered, closing, probe, script, event>>
OthersKeep == UNCHANGED <<workerVars, monitorVars, suspended>>

\* Both native procedures resolve and one of the two forms of the call that
\* installs the callback succeeds, or the session is not installed.
Construct ==
    /\ Caller("construct", "idle")
    /\ \E ok \in {TRUE} \cup (IF "install" \in Faults THEN {FALSE} ELSE {}) :
           installed' = ok /\ registered' = ok
    /\ OthersKeep /\ UNCHANGED <<ringVars, closing, cursor, probe, script, event, expired>>

RunProbe ==
    /\ Caller("idle", IF installed THEN "disarm" ELSE "idle")
    /\ probe < MaxProbes /\ probe' = probe + 1
    /\ script' \in Scripts
    /\ event' = IF installed THEN NoEvent ELSE WorkerFailed
    /\ OthersKeep /\ UNCHANGED <<ringVars, installed, registered, closing, cursor, expired>>

Destroy ==
    /\ Caller("idle", "disarm")
    /\ closing' = TRUE
    /\ OthersKeep
    /\ UNCHANGED <<ringVars, installed, registered, cursor, probe, script, event, expired>>

\* RunProbe returns event e.
Return(e) ==
    /\ callerPc' = "idle"
    /\ event' = e
    /\ OthersKeep
    /\ UNCHANGED <<ringVars, installed, registered, closing, cursor, probe, script, expired>>

\* A step of the caller on the ring alone.
CallerOnRing(action, index) ==
    action /\ cursor' = index /\ SessionKeeps /\ OthersKeep /\ UNCHANGED expired

\* The loops over the slots.
RunOn == cursor + 1  \* a mutant: the index is left past the ring
NextIndex == IF cursor + 1 < SlotCount THEN cursor + 1 ELSE 0
Loop(again, after) == IF cursor + 1 < SlotCount THEN again ELSE after

\* ResetCallbackState.  A slot is freed first; its fields are zeroed afterwards.
ResetDisarm == Caller("disarm", "untarget") /\ CallerOnRing(SetArmed(FALSE), cursor)
ResetTarget == Caller("untarget", "resetState") /\ CallerOnRing(SetTarget(0), 0)
ResetSlot ==
    \/ /\ Caller("resetState", "resetThread")
       /\ CallerOnRing(ClearCallbackSlot(cursor), cursor)
    \/ /\ Caller("resetThread", "resetPc")
       /\ CallerOnRing(ZeroThreadId(cursor), cursor)
    \/ /\ Caller("resetPc", "resetStack")
       /\ CallerOnRing(ZeroPreviousPc(cursor), cursor)
    \/ /\ Caller("resetStack",
                 Loop("resetState", IF closing THEN "unregister" ELSE "startWorker"))
       /\ CallerOnRing(ZeroStack(cursor), NextIndex)

StartWorker ==
    /\ Caller("startWorker", "waitStarted")
    /\ worker' = [worker EXCEPT ![probe] = "target"]
    /\ todo' = [todo EXCEPT ![probe] = script]
    /\ expired' = expired \ {"start"}
    /\ SessionKeeps
    /\ UNCHANGED <<ringVars, cursor, started, go, done, monitorVars, suspended>>

StartWorkerFails ==
    callerPc = "startWorker" /\ "workerStart" \in Faults /\ Return(WorkerFailed)

HasStartedUnseen == TRUE  \* a mutant: Started is not waited for
HasStarted == probe \in started

SeeStarted ==
    /\ Caller("waitStarted", "startMonitor")
    /\ HasStarted
    /\ SessionKeeps /\ OthersKeep /\ UNCHANGED <<ringVars, cursor, expired>>

\* The worker is abandoned, with its context on a frame that is gone.
StartTimesOut ==
    callerPc = "waitStarted" /\ "start" \in expired /\ ~HasStarted /\ Return(WorkerFailed)

StartMonitor ==
    /\ Caller("startMonitor", "arm")
    /\ monitorPc' = "poll" /\ scan' = 0 /\ record' = NoRecord
    /\ query' = 0 /\ attempts' = 0 /\ verdict' = "CallbackNotObserved"
    /\ expired' = expired \ {"deadline"}
    /\ SessionKeeps /\ UNCHANGED <<ringVars, cursor, workerVars, suspended>>

\* Go := 1, then a wait for the monitor or, if there is none, for the worker.
LetGo(from, to, wait) ==
    /\ Caller(from, to)
    /\ go' = go \cup {probe}
    /\ expired' = expired \ {wait}
    /\ SessionKeeps
    /\ UNCHANGED <<ringVars, cursor, worker, todo, started, done, monitorVars, suspended>>

StartMonitorFails == "monitorStart" \in Faults /\ LetGo("startMonitor", "abort", "abort")
Arm == Caller("arm", "go") /\ CallerOnRing(SetArmed(TRUE), cursor)
Go == LetGo("go", "waitMonitor", "monitor")

WorkerGoneUnseen == TRUE  \* a mutant: the worker is not joined
WorkerGone == worker[probe] = "gone"

Abort ==
    callerPc = "abort" /\ (WorkerGone \/ "abort" \in expired) /\ Return(WorkerFailed)

JoinMonitor ==
    /\ Caller("waitMonitor", "waitWorker") \/ Caller("joinMonitor", "waitWorker")
    /\ monitorPc = "gone"
    /\ expired' = expired \ {"worker"}
    /\ SessionKeeps /\ OthersKeep /\ UNCHANGED <<ringVars, cursor>>

\* The wait for the monitor times out: disarm and free every slot.
MonitorTimesOut ==
    /\ Caller("waitMonitor", "timeoutDisarm")
    /\ "monitor" \in expired /\ monitorPc # "gone"
    /\ SessionKeeps /\ OthersKeep /\ UNCHANGED <<ringVars, cursor, expired>>

TimeoutStaysArmed ==  \* a mutant: the slots are freed while the ring is armed
    Caller("timeoutDisarm", "timeoutRelease") /\ CallerOnRing(UNCHANGED ringVars, 0)
TimeoutDisarm ==
    Caller("timeoutDisarm", "timeoutRelease") /\ CallerOnRing(SetArmed(FALSE), 0)

ReleaseSlot(from, to) ==
    Caller(from, Loop(from, to)) /\ CallerOnRing(ClearCallbackSlot(cursor), NextIndex)
TimeoutRelease == ReleaseSlot("timeoutRelease", "joinMonitor")

\* The wait for the worker times out: free every slot again.
WorkerTimesOut ==
    /\ Caller("waitWorker", "workerRelease")
    /\ "worker" \in expired /\ ~WorkerGone
    /\ cursor' = 0
    /\ SessionKeeps /\ OthersKeep /\ UNCHANGED <<ringVars, expired>>

WorkerReleaseNothing ==  \* a mutant: no slot is freed the second time
    Caller("workerRelease", "joinWorker") /\ CallerOnRing(UNCHANGED ringVars, 0)
WorkerRelease == ReleaseSlot("workerRelease", "joinWorker")

\* Both threads have exited: the monitor's event is the result.
Collect ==
    /\ callerPc \in {"waitWorker", "joinWorker"} /\ WorkerGone
    /\ Return([Verdict |-> verdict, WorkerCompleted |-> probe \in done])

\* Removing the callback may fail, and the session forgets it all the same.
Unregister ==
    /\ Caller("unregister", "closed")
    /\ installed' = FALSE
    /\ registered' \in {FALSE} \cup (IF "install" \in Faults THEN {registered} ELSE {})
    /\ OthersKeep /\ UNCHANGED <<ringVars, closing, cursor, probe, script, event, expired>>

CallerStep ==
    \/ Construct \/ RunProbe \/ Destroy
    \/ ResetDisarm \/ ResetTarget \/ ResetSlot
    \/ StartWorker \/ StartWorkerFails \/ SeeStarted \/ StartTimesOut
    \/ StartMonitor \/ StartMonitorFails \/ Abort \/ Arm \/ Go
    \/ JoinMonitor \/ MonitorTimesOut \/ TimeoutDisarm \/ TimeoutRelease
    \/ WorkerTimesOut \/ WorkerRelease \/ Collect \/ Unregister

-----------------------------------------------------------------------------
(* The worker threads, the other threads, and their system calls.          *)

\* The frame that holds worker w's context still exists.
Alive(w) == w = probe /\ callerPc \notin {"idle", "closed"} /\ ~closing

\* The contexts that worker w may reach through its pointer: its own or, when
\* its frame is gone, that of the latest probe on the same stack.
Frame(w) == IF Alive(w) THEN {w} ELSE {w, probe}

Worker(w, from, to) ==
    /\ w \notin suspended
    /\ worker[w] = from
    /\ worker' = [worker EXCEPT ![w] = to]
    /\ UNCHANGED <<callerVars, monitorVars, suspended, expired>>

NoTarget(w) == 0  \* a mutant: the worker does not name itself
TargetOf(w) == w

WorkerTarget(w) ==
    /\ Worker(w, "target", "started")
    /\ SetTarget(TargetOf(w))
    /\ UNCHANGED <<todo, started, go, done>>

WorkerStarted(w) ==
    /\ Worker(w, "started", "go")
    /\ \E f \in Frame(w) : started' = started \cup {f}
    /\ UNCHANGED <<ringVars, todo, go, done>>

\* A dead frame may hold anything where Go was.
WorkerGo(w) ==
    /\ Worker(w, "go", "probe")
    /\ w \in go \/ ~Alive(w)
    /\ UNCHANGED <<ringVars, todo, started, go, done>>

\* The probe returns its status and the worker says so.
WorkerDone(w) ==
    /\ Worker(w, "probe", "exit")
    /\ pc[w] = "user" /\ todo[w] = <<>>
    /\ \E f \in Frame(w) : done' = done \cup {f}
    /\ todo' = [todo EXCEPT ![w] = ExitScript]
    /\ UNCHANGED <<ringVars, started, go>>

WorkerExit(w) ==
    /\ Worker(w, "exit", "gone")
    /\ pc[w] = "user" /\ todo[w] = <<>>
    /\ UNCHANGED <<ringVars, todo, started, go, done>>

\* The next system call of a thread: of the probe, of a worker's exit, or of a
\* thread that has nothing to do with the session.
Call(t) ==
    /\ t \notin suspended
    /\ t \in Workers => worker[t] \in {"probe", "exit"}
    /\ todo[t] # <<>>
    /\ SyscallEnter(t, Head(todo[t]))
    /\ todo' = [todo EXCEPT ![t] = Tail(@)]
    /\ UNCHANGED <<callerVars, worker, started, go, done, monitorVars, suspended, expired>>

\* It returns, into the thunk while the callback is registered.
KernelReturn(t) ==
    /\ t \notin suspended
    /\ IF registered THEN ThunkEnter(t) ELSE SyscallReturn(t)
    /\ UNCHANGED sessionVars

ThunkStep(t) == t \notin suspended /\ Thunk(t) /\ UNCHANGED sessionVars

WorkerStep(w) ==
    WorkerTarget(w) \/ WorkerStarted(w) \/ WorkerGo(w) \/ WorkerDone(w) \/ WorkerExit(w)

ThreadRuns(t) == Call(t) \/ KernelReturn(t) \/ ThunkStep(t)

-----------------------------------------------------------------------------
(* The monitor thread of the latest probe.                                 *)

Monitor(from, to) ==
    /\ monitorPc = from /\ monitorPc' = to
    /\ UNCHANGED <<callerVars, workerVars, expired>>

\* What a step of the monitor leaves alone, unless it is named below.
Seen == UNCHANGED <<scan, record>>
Judged == UNCHANGED <<query, attempts, verdict>>
Local == UNCHANGED <<ringVars, suspended>>

\* Another round of WaitForReadyCallbackSlot, or its last look once Done is set.
Poll ==
    /\ Monitor("poll", IF probe \in done THEN "lastScan" ELSE "scan")
    /\ scan' = 0
    /\ Judged /\ Local /\ UNCHANGED record

IsTaken(i) == slots[i].State # "Free"  \* a mutant: a slot still being written
IsReady(i) == slots[i].State = "Ready"

Scanning == monitorPc \in {"scan", "lastScan"} /\ scan \in Slots
FindReady ==
    Scanning /\ IsReady(scan) /\ Monitor(monitorPc, "copyThread") /\ Seen /\ Judged /\ Local
PassSlot ==
    /\ Scanning /\ ~IsReady(scan) /\ Monitor(monitorPc, monitorPc)
    /\ scan' = scan + 1
    /\ Judged /\ Local /\ UNCHANGED record

BeforeDeadline == "deadline" \notin expired  \* a mutant: the test is inverted
PastDeadline == "deadline" \in expired

\* Nothing found: give up after the last look or past the deadline.
EndScan ==
    /\ scan \notin Slots
    /\ \/ Monitor("lastScan", "missDisarm")
       \/ Monitor("scan", IF PastDeadline THEN "missDisarm" ELSE "poll")
    /\ Seen /\ Judged /\ Local

\* CopyCallbackRecord reads the fields one after the other.
CopyField ==
    /\ \/ /\ Monitor("copyThread", "copyPc")
          /\ record' = [record EXCEPT !.ThreadId = slots[scan].ThreadId]
       \/ /\ Monitor("copyPc", "copyStack")
          /\ record' = [record EXCEPT !.PreviousProgramCounter =
                                          slots[scan].PreviousProgramCounter]
       \/ /\ Monitor("copyStack", "open")
          /\ record' = [record EXCEPT !.StackArguments = slots[scan].StackArguments]
    /\ Judged /\ Local /\ UNCHANGED scan

Observed == record.ThreadId
\* Whether a handle can be opened, and the thread suspended, at all.
Exists(t) == t \in Bystanders \/ (t \in Workers /\ worker[t] \notin {"none", "gone"})

\* The worker's own handle, or one opened for the thread that was captured.
OpenTarget ==
    /\ Monitor("open", "suspend")
    /\ Observed = probe \/ Exists(Observed)
    /\ Seen /\ Judged /\ Local

\* The slot stays as it is until the monitor's last step.
OpenTargetFails ==
    /\ Monitor("open", "classify")
    /\ Observed # probe
    /\ Exists(Observed) => "open" \in Faults
    /\ Seen /\ Judged /\ Local

Suspend ==
    /\ Monitor("suspend", "query")
    /\ Exists(Observed)
    /\ suspended' = suspended \cup {Observed}
    /\ Seen /\ Judged /\ UNCHANGED ringVars

SuspendFails ==
    /\ Monitor("suspend", "release")
    /\ Exists(Observed) => "suspend" \in Faults
    /\ Seen /\ Judged /\ Local

\* ThreadLastSystemCall of the suspended thread, in either layout.
QuerySucceeds ==
    /\ Monitor("query", "release")
    /\ call[Observed] # 0
    /\ query' = call[Observed]
    /\ Seen /\ Local /\ UNCHANGED <<attempts, verdict>>

QueryFails ==
    /\ Monitor("query", IF attempts + 1 < QueryRetryCount THEN "query" ELSE "release")
    /\ call[Observed] # 0 => "query" \in Faults
    /\ attempts' = attempts + 1
    /\ Seen /\ Local /\ UNCHANGED <<query, verdict>>

\* Inside the scope of the suspension: the slot is freed, then the thread runs.
Release ==
    Monitor("release", "resume") /\ ClearCallbackSlot(scan) /\ Seen /\ Judged /\ UNCHANGED suspended

ResumedWorker == {probe}                             \* mutants: the worker whoever was
ResumedIfQueried == IF query = 0 THEN {} ELSE {Observed}  \* paused; only after a success
Resumed == {Observed}

Resume ==
    /\ Monitor("resume", "classify")
    /\ suspended' = suspended \ Resumed
    /\ Seen /\ Judged /\ UNCHANGED ringVars

\* Classify: the query names the call, the record's address its owner.
VerdictOf(pcOf, queried) ==
    LET number == ServiceNumber[queried]
        owner == IF pcOf = 0 THEN 0 ELSE ReturnOwner[pcOf]
    IN  IF queried = 0 THEN "QueryFailed"
        ELSE IF number \notin Catalogued THEN "UnknownSyscall"
        ELSE IF owner = 0 THEN "RawDirectSyscall"
        ELSE IF owner # number THEN "SyscallGadgetMismatch"
        ELSE "Clean"

Classify ==
    /\ Monitor("classify", "disarm")
    /\ verdict' = VerdictOf(record.PreviousProgramCounter, query)
    /\ Seen /\ Local /\ UNCHANGED <<query, attempts>>

MonitorStaysArmed ==  \* a mutant: the ring is left armed
    Monitor("disarm", "clear") /\ Seen /\ Judged /\ Local
MonitorDisarm ==
    Monitor("disarm", "clear") /\ SetArmed(FALSE) /\ Seen /\ Judged /\ UNCHANGED suspended
MonitorClear ==
    Monitor("clear", "gone") /\ ClearCallbackSlot(scan) /\ Seen /\ Judged /\ UNCHANGED suspended

\* No slot was found: disarm and free every slot.
MissDisarm ==
    /\ Monitor("missDisarm", "missRelease")
    /\ SetArmed(FALSE)
    /\ scan' = 0
    /\ Judged /\ UNCHANGED <<record, suspended>>

MissRelease ==
    /\ Monitor("missRelease", IF scan + 1 < SlotCount THEN "missRelease" ELSE "gone")
    /\ ClearCallbackSlot(scan)
    /\ scan' = scan + 1
    /\ Judged /\ UNCHANGED <<record, suspended>>

MonitorStep ==
    \/ Poll \/ FindReady \/ PassSlot \/ EndScan \/ CopyField
    \/ OpenTarget \/ OpenTargetFails \/ Suspend \/ SuspendFails
    \/ QuerySucceeds \/ QueryFails \/ Release \/ Resume \/ Classify
    \/ MonitorDisarm \/ MonitorClear \/ MissDisarm \/ MissRelease

-----------------------------------------------------------------------------
(* Time.                                                                   *)

Waits ==
    (CASE callerPc = "waitStarted" -> {"start"}
       [] callerPc = "abort"       -> {"abort"}
       [] callerPc = "waitMonitor" -> {"monitor"}
       [] callerPc = "waitWorker"  -> {"worker"}
       [] OTHER                    -> {})
    \cup (IF monitorPc \in {"poll", "scan"} THEN {"deadline"} ELSE {})

\* A system call that takes long, a thunk that nobody releases, or no work.
WorkerBlocked(w) ==
    \/ worker[w] \in {"none", "gone"}
    \/ worker[w] = "go" /\ w \notin go
    \/ pc[w] = "kernel" /\ "slowCall" \in Faults
    \/ pc[w] = "spin" /\ slots[at[w]].State # "Free"

MonitorBlocked ==
    \/ monitorPc \in {"none", "gone"}
    \/ /\ monitorPc \in {"poll", "scan"}
       /\ "deadline" \notin expired /\ probe \notin done
       /\ \A i \in Slots : slots[i].State # "Ready"

CallerBlocked ==
    \/ callerPc \in {"waitMonitor", "joinMonitor"} /\ monitorPc # "gone"
    \/ callerPc \in {"abort", "waitWorker", "joinWorker"} /\ worker[probe] # "gone"

Tick ==
    /\ ~(Waits \subseteq expired)
    /\ IF callerPc = "waitStarted"
       THEN "slowStart" \in Faults
       ELSE \/ "slowCode" \in Faults
            \/ CallerBlocked /\ MonitorBlocked /\ \A w \in Workers : WorkerBlocked(w)
    /\ expired' = expired \cup Waits
    /\ UNCHANGED <<ringVars, callerVars, workerVars, monitorVars, suspended>>

\* The session is over; threads that are left may still run.
Closed == callerPc = "closed" /\ UNCHANGED vars

Next ==
    \/ CallerStep
    \/ MonitorStep
    \/ \E w \in Workers : WorkerStep(w)
    \/ \E t \in Threads : ThreadRuns(t)
    \/ Tick
    \/ Closed

\* Every thread that can run is scheduled, system calls return, time passes.
Fairness ==
    /\ WF_vars(CallerStep) /\ WF_vars(MonitorStep) /\ WF_vars(Tick)
    /\ \A w \in Workers : WF_vars(WorkerStep(w))
    /\ \A t \in Threads : WF_vars(ThreadRuns(t))

Spec == Init /\ [][Next]_vars
FairSpec == Spec /\ Fairness

-----------------------------------------------------------------------------
(* Properties.                                                             *)

CallerPc == {"construct", "idle", "disarm", "untarget", "resetState", "resetThread",
             "resetPc", "resetStack", "startWorker", "waitStarted", "startMonitor",
             "abort", "arm", "go", "waitMonitor", "timeoutDisarm", "timeoutRelease",
             "joinMonitor", "waitWorker", "workerRelease", "joinWorker",
             "unregister", "closed"}
WorkerPc == {"none", "target", "started", "go", "probe", "exit", "gone"}
MonitorPc == {"none", "poll", "scan", "lastScan", "copyThread", "copyPc", "copyStack",
              "open", "suspend", "query", "release", "resume", "classify", "disarm",
              "clear", "missDisarm", "missRelease", "gone"}
DetectionVerdict == {"Clean", "RawDirectSyscall", "SyscallGadgetMismatch",
                     "UnknownSyscall", "CallbackNotObserved", "QueryFailed",
                     "WorkerFailed"}
CallbackRecord == [ThreadId : Threads \cup {0},
                   PreviousProgramCounter : Calls \cup {0},
                   StackArguments : Calls \cup {0}]
DetectionEvent == [Verdict : DetectionVerdict \cup {"none"}, WorkerCompleted : BOOLEAN]

(* Type correctness of the session's variables.                            *)
TypeOK ==
    /\ RingTypeOK
    /\ installed \in BOOLEAN /\ registered \in BOOLEAN /\ closing \in BOOLEAN
    /\ callerPc \in CallerPc
    /\ cursor \in Slots
    /\ probe \in 0 .. MaxProbes
    /\ script \in Seq(Calls)
    /\ event \in DetectionEvent
    /\ worker \in [Workers -> WorkerPc]
    /\ todo \in [Threads -> Seq(Calls)]
    /\ started \subseteq Workers /\ go \subseteq Workers /\ done \subseteq Workers
    /\ monitorPc \in MonitorPc
    /\ scan \in 0 .. SlotCount
    /\ record \in CallbackRecord
    /\ query \in Calls \cup {0}
    /\ attempts \in 0 .. QueryRetryCount
    /\ verdict \in DetectionVerdict
    /\ suspended \subseteq Threads
    /\ expired \subseteq {"start", "abort", "monitor", "worker", "deadline"}

\* The monitor holds a complete copy of a slot.
Copied == monitorPc \in {"open", "suspend", "query", "release", "resume",
                         "classify", "disarm", "clear"}

(* The record the monitor judges by is one whole record of the worker of   *)
(* the probe that runs, although it is copied without the slot being held, *)
(* after the caller may have timed out and freed it.                       *)
RecordIntact ==
    Copied => /\ record.ThreadId = probe
              /\ record.PreviousProgramCounter # 0
              /\ record.PreviousProgramCounter = record.StackArguments

(* The system call the query names is the one whose return address the     *)
(* record holds: a verdict never pairs the address of one call with the    *)
(* number of another.                                                      *)
QueryMatchesRecord ==
    Copied /\ query # 0 => query = record.PreviousProgramCounter

(* While the monitor queries a thread, that thread spins on the slot the   *)
(* monitor found.                                                          *)
QueriedWhileSpinning ==
    monitorPc = "query" =>
        /\ pc[Observed] = "spin" /\ at[Observed] = scan
        /\ slots[scan].State = "Ready"

(* Once RunProbe has returned, or while the next one has yet to start its  *)
(* worker, the ring is as a new probe expects it: disarmed, every slot     *)
(* free, no thread in the thunk past the target check, nobody suspended.   *)
Quiescent ==
    callerPc \in {"idle", "startWorker", "closed"} =>
        /\ ~armed
        /\ \A i \in Slots : slots[i].State = "Free"
        /\ \A t \in Threads : pc[t] \notin {"claim"} \cup Holding
        /\ suspended = {}

(* An event that is not a failure to start is only returned after both     *)
(* threads of the probe are gone, and then always says that the worker     *)
(* completed.                                                              *)
JoinedResult ==
    callerPc = "idle" /\ event.Verdict \notin {"none", "WorkerFailed"} =>
        /\ event.WorkerCompleted
        /\ monitorPc = "gone" /\ worker[probe] = "gone"

(* No thread runs on a context whose stack frame is gone.                  *)
NoDanglingWorker ==
    \A w \in Workers : worker[w] \notin {"none", "gone"} => Alive(w)

(* One armed worker: while the ring is armed its target is the worker of   *)
(* the probe that runs, and that worker has announced itself.              *)
ArmedForWorker ==
    armed => target = probe /\ probe \in started

(* A thread is only suspended by the monitor that runs, inside the scope   *)
(* of its suspension object.                                               *)
SuspensionScoped ==
    suspended # {} => /\ monitorPc \in {"query", "release", "resume"}
                      /\ suspended = {Observed}

(* The ring is only ever armed when no slot of it is in use and the only   *)
(* thread that can be captured waits for Go.                               *)
ArmsAnEmptyRing ==
    [][~armed /\ armed' =>
          /\ \A i \in Slots : slots[i].State = "Free"
          /\ worker[probe] = "go" /\ pc[probe] = "user"]_vars

(* While the monitor has a thread suspended, that thread is the worker.    *)
PausesOnlyWorker == suspended \subseteq {probe}

(* RunProbe returns and the destructor ends, whatever the waits, the       *)
(* thread starts, the query and the suspension do.                         *)
RunProbeReturns == []<>(callerPc \in {"idle", "closed"})

(* A thread that waits in the thunk for the monitor gets back to its       *)
(* previous PC.                                                            *)
SpinnerReleased == \A t \in Threads : pc[t] = "spin" ~> pc[t] = "user"

\* What the caller sees of the session.
Phase == IF callerPc = "construct" THEN "new"
         ELSE IF callerPc \in {"idle", "closed"} THEN callerPc
         ELSE IF closing THEN "closing" ELSE "busy"

Contract == INSTANCE ProbeContract WITH
    phase <- Phase, pending <- script, result <- event.Verdict,
    CallVerdict <- [c \in Calls |-> VerdictOf(c, c)]

(* The session keeps its contract with the caller: every RunProbe returns  *)
(* one event, judged by the first system call of the probe's thread, in    *)
(* every interleaving of worker and monitor, repeated captures included.   *)
ImplementsContract == Contract!ContractSpec
=============================================================================
