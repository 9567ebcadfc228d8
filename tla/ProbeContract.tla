---------------------------- MODULE ProbeContract ----------------------------
(***************************************************************************)
(* What a DetectorSession promises the thread that uses it, with the ring, *)
(* the worker and the monitor hidden: RunProbe returns one event, and its  *)
(* verdict is about the first system call that the probe's thread makes.   *)
(***************************************************************************)
EXTENDS Sequences

CONSTANTS Scripts,      \* the system calls a probe may make, in order
          ExitScript,   \* those its thread makes after the probe has returned
          CallVerdict   \* the verdict that each system call deserves

VARIABLES phase,        \* "new", "idle", "busy", "closing" or "closed"
          pending,      \* the system calls of the latest probe
          result        \* the verdict of the latest event, "none" while busy

contractVars == <<phase, pending, result>>

ContractInit == phase = "new" /\ pending = <<>> /\ result = "none"

Open == phase = "new" /\ phase' = "idle" /\ UNCHANGED <<pending, result>>

Begin(s) ==
    /\ phase = "idle" /\ phase' = "busy"
    /\ pending' = s /\ result' = "none"

\* A session whose callback could not be installed runs nothing.
Refuse(s) ==
    /\ phase = "idle" /\ phase' = "idle"
    /\ pending' = s /\ result' = "WorkerFailed"

\* The calls of the thread: a probe that makes none is judged by the thread's
\* exit, unless the monitor looks before it.
Outcomes(s) ==
    LET calls == s \o ExitScript
    IN  {"WorkerFailed", "QueryFailed"}
        \cup (IF s = <<>> THEN {"CallbackNotObserved"} ELSE {})
        \cup (IF calls = <<>> THEN {} ELSE {CallVerdict[Head(calls)]})

Finish ==
    /\ phase = "busy" /\ phase' = "idle"
    /\ result' \in Outcomes(pending)
    /\ UNCHANGED pending

BeginClose == phase = "idle" /\ phase' = "closing" /\ UNCHANGED <<pending, result>>
EndClose == phase = "closing" /\ phase' = "closed" /\ UNCHANGED <<pending, result>>

ContractNext ==
    \/ Open \/ (\E s \in Scripts : Begin(s) \/ Refuse(s))
    \/ Finish \/ BeginClose \/ EndClose

ContractSafe == ContractInit /\ [][ContractNext]_contractVars

ContractSpec == ContractSafe /\ WF_contractVars(Finish) /\ WF_contractVars(EndClose)
=============================================================================
