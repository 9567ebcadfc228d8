----------------------------- MODULE CallbackRing -----------------------------
(***************************************************************************)
(* The instrumentation callback thunk and the globals it shares with the   *)
(* detector: a ring of slots, the Armed flag and the target thread.  The   *)
(* kernel enters the thunk on the thread whose system call returns.  Every *)
(* access to a shared word is a step of its own, with two exceptions: the  *)
(* two event counters, which no code path reads back, move with the access *)
(* next to them, and the three stores of StackPointer, StackArgument5 and  *)
(* StackArgument6 are one step, WriteStack, of one field.                  *)
(*                                                                         *)
(* A member of Calls stands for a system call a thread makes: its return   *)
(* address and the stack arguments found next to it.  A slot therefore     *)
(* records the call whose address it holds and, apart from it, the call    *)
(* whose stack words it holds: equal in a record that is whole.            *)
(***************************************************************************)
EXTENDS Naturals, FiniteSets

CONSTANTS Threads,      \* the threads of the process (their ids)
          Calls,        \* the system calls they make
          SlotCount,    \* CallbackSlotCount, 16 in the code
          MaxCallbacks  \* bound on system calls, for model checking

ASSUME RingAssumption ==
    /\ IsFiniteSet(Threads)
    /\ SlotCount \in Nat \ {0}
    /\ MaxCallbacks \in Nat
    /\ 0 \notin Threads \cup Calls

VARIABLES armed,          \* g_DsdCallbackArmed
          target,         \* g_DsdTargetThreadId, 0 for any thread
          slots,          \* g_DsdCallbackSlots
          callbackCount,  \* g_DsdCallbackCount
          capturedCount,  \* g_DsdCapturedCount
          droppedCount,   \* g_DsdDroppedCount
          pc,             \* where each thread is, in user code or in the thunk
          call,           \* the latest system call of each thread, 0 for none
          at              \* r12 of each thread: the slot it tries or holds

threadVars == <<pc, call, at>>
counters == <<callbackCount, capturedCount, droppedCount>>
ringVars == <<armed, target, slots, counters, threadVars>>

Slots == 0 .. SlotCount - 1
CallbackSlotState == {"Free", "Writing", "Ready"}
CallbackSlot == [State : CallbackSlotState,
                 ThreadId : Threads \cup {0},
                 PreviousProgramCounter : Calls \cup {0},
                 StackArguments : Calls \cup {0}]
FreshSlot == [State |-> "Free", ThreadId |-> 0,
              PreviousProgramCounter |-> 0, StackArguments |-> 0]

\* Where a thread is once it has claimed a slot and until it leaves the thunk.
Writing == {"writeThread", "writePc", "writeStack", "publish"}
Holding == Writing \cup {"spin"}
ThreadPc == {"user", "kernel", "armed", "target", "claim"} \cup Holding

RingInit ==
    /\ armed = FALSE
    /\ target = 0
    /\ slots = [i \in Slots |-> FreshSlot]
    /\ callbackCount = 0 /\ capturedCount = 0 /\ droppedCount = 0
    /\ pc = [t \in Threads |-> "user"]
    /\ call = [t \in Threads |-> 0]
    /\ at = [t \in Threads |-> 0]

-----------------------------------------------------------------------------
(* System calls and the kernel's entry into the thunk.                     *)

Goto(t, from, to) == pc[t] = from /\ pc' = [pc EXCEPT ![t] = to]

\* User code of thread t makes system call c.
SyscallEnter(t, c) ==
    /\ callbackCount < MaxCallbacks
    /\ Goto(t, "user", "kernel")
    /\ call' = [call EXCEPT ![t] = c]
    /\ UNCHANGED <<armed, target, slots, counters, at>>

\* The call returns with no instrumentation callback registered.
SyscallReturn(t) ==
    /\ Goto(t, "kernel", "user")
    /\ UNCHANGED <<armed, target, slots, counters, call, at>>

\* The call returns into the thunk, which counts it.
ThunkEnter(t) ==
    /\ Goto(t, "kernel", "armed")
    /\ callbackCount' = callbackCount + 1
    /\ UNCHANGED <<armed, target, slots, capturedCount, droppedCount, call, at>>

-----------------------------------------------------------------------------
(* The thunk.                                                              *)

CheckArmed(t) ==
    /\ Goto(t, "armed", IF armed THEN "target" ELSE "user")
    /\ UNCHANGED <<armed, target, slots, counters, call, at>>

\* The scan begins with the first slot.
SecondSlot == 1  \* a mutant
FirstSlot == 0

\* No target (0) captures every thread.
CheckTarget(t) ==
    /\ Goto(t, "target", IF target \in {0, t} THEN "claim" ELSE "user")
    /\ at' = [at EXCEPT ![t] = FirstSlot]
    /\ UNCHANGED <<armed, target, slots, counters, call>>

\* lock cmpxchg of the slot's state from Free to Writing.
ClaimSlot(t) ==
    /\ Goto(t, "claim", "writeThread")
    /\ at[t] \in Slots
    /\ slots[at[t]].State = "Free"
    /\ slots' = [slots EXCEPT ![at[t]].State = "Writing"]
    /\ UNCHANGED <<armed, target, counters, call, at>>

\* Mutant: every slot found taken counts as a loss.
SkipAndDrop(t) ==
    /\ pc[t] = "claim"
    /\ at[t] \in Slots
    /\ slots[at[t]].State # "Free"
    /\ at' = [at EXCEPT ![t] = @ + 1]
    /\ droppedCount' = droppedCount + 1
    /\ UNCHANGED <<armed, target, slots, callbackCount, capturedCount, pc, call>>

\* The exchange fails: on to the next slot.
SkipSlot(t) ==
    /\ pc[t] = "claim"
    /\ at[t] \in Slots
    /\ slots[at[t]].State # "Free"
    /\ at' = [at EXCEPT ![t] = @ + 1]
    /\ UNCHANGED <<armed, target, slots, counters, pc, call>>

\* Every slot was taken: count the loss and let the thread go.
DropCallback(t) ==
    /\ Goto(t, "claim", "user")
    /\ at[t] \notin Slots
    /\ droppedCount' = droppedCount + 1
    /\ UNCHANGED <<armed, target, slots, callbackCount, capturedCount, call, at>>

\* gs:[48h] identifies the thread.
ReturnAddressOf(t) == call[t]  \* a mutant: the wrong word is stored
IdOf(t) == t

WriteThreadId(t) ==
    /\ Goto(t, "writeThread", "writePc")
    /\ capturedCount' = capturedCount + 1
    /\ slots' = [slots EXCEPT ![at[t]].ThreadId = IdOf(t)]
    /\ UNCHANGED <<armed, target, callbackCount, droppedCount, call, at>>

WritePreviousPc(t) ==
    /\ Goto(t, "writePc", "writeStack")
    /\ slots' = [slots EXCEPT ![at[t]].PreviousProgramCounter = call[t]]
    /\ UNCHANGED <<armed, target, counters, call, at>>

\* The stack pointer and stack arguments five and six, in one step.
WriteStack(t) ==
    /\ Goto(t, "writeStack", "publish")
    /\ slots' = [slots EXCEPT ![at[t]].StackArguments = call[t]]
    /\ UNCHANGED <<armed, target, counters, call, at>>

Publish(t) ==
    /\ Goto(t, "publish", "spin")
    /\ slots' = [slots EXCEPT ![at[t]].State = "Ready"]
    /\ UNCHANGED <<armed, target, counters, call, at>>

\* wait_for_monitor_clear: the only way out is to read the slot as Free.
ReleasedAtOnce(t) == TRUE  \* a mutant: the thunk does not wait
Released(t) == slots[at[t]].State = "Free"

LeaveThunk(t) ==
    /\ Goto(t, "spin", "user")
    /\ Released(t)
    /\ UNCHANGED <<armed, target, slots, counters, call, at>>

Thunk(t) ==
    \/ CheckArmed(t) \/ CheckTarget(t)
    \/ ClaimSlot(t) \/ SkipSlot(t) \/ DropCallback(t)
    \/ WriteThreadId(t) \/ WritePreviousPc(t) \/ WriteStack(t)
    \/ Publish(t) \/ LeaveThunk(t)

-----------------------------------------------------------------------------
(* What the detector does to the shared globals.                           *)

SetArmed(value) ==
    /\ armed' = value
    /\ UNCHANGED <<target, slots, counters, threadVars>>

SetTarget(value) ==
    /\ target' = value
    /\ UNCHANGED <<armed, slots, counters, threadVars>>

\* The state becomes Free whatever it was: nothing tells a slot that is being
\* written from one that is ready.
ClearCallbackSlot(i) ==
    /\ slots' = [slots EXCEPT ![i].State = "Free"]
    /\ UNCHANGED <<armed, target, counters, threadVars>>

ZeroThreadId(i) ==
    /\ slots' = [slots EXCEPT ![i].ThreadId = 0]
    /\ UNCHANGED <<armed, target, counters, threadVars>>

ZeroPreviousPc(i) ==
    /\ slots' = [slots EXCEPT ![i].PreviousProgramCounter = 0]
    /\ UNCHANGED <<armed, target, counters, threadVars>>

ZeroStack(i) ==
    /\ slots' = [slots EXCEPT ![i].StackArguments = 0]
    /\ UNCHANGED <<armed, target, counters, threadVars>>

-----------------------------------------------------------------------------
(* The ring under any client at all: a detector that writes the globals in *)
(* any order and threads that make system calls whenever they like.        *)

ThreadStep(t) ==
    \/ \E c \in Calls : SyscallEnter(t, c)
    \/ SyscallReturn(t)
    \/ ThunkEnter(t)
    \/ Thunk(t)

ClientStep ==
    \/ \E value \in BOOLEAN : SetArmed(value)
    \/ \E value \in Threads \cup {0} : SetTarget(value)
    \/ \E i \in Slots : \/ ClearCallbackSlot(i)
                        \/ ZeroThreadId(i) \/ ZeroPreviousPc(i) \/ ZeroStack(i)

RingNext == ClientStep \/ \E t \in Threads : ThreadStep(t)

RingSpec == RingInit /\ [][RingNext]_ringVars

-----------------------------------------------------------------------------
(* Type correctness of the shared globals and of the threads' registers.   *)
RingTypeOK ==
    /\ armed \in BOOLEAN
    /\ target \in Threads \cup {0}
    /\ slots \in [Slots -> CallbackSlot]
    /\ callbackCount \in Nat /\ capturedCount \in Nat /\ droppedCount \in Nat
    /\ pc \in [Threads -> ThreadPc]
    /\ call \in [Threads -> Calls \cup {0}]
    /\ at \in [Threads -> 0 .. SlotCount]
    /\ \A t \in Threads : pc[t] \in Holding => at[t] \in Slots

(* A slot that is not free has a thread in the thunk that claimed it and   *)
(* has not left: however the detector clears, zeroes, arms and disarms, no *)
(* slot of the fixed ring is lost for good to a thread that is gone.       *)
NoOrphanSlot ==
    \A i \in Slots : slots[i].State # "Free" =>
        \E t \in Threads : pc[t] \in Holding /\ at[t] = i

InFlight == {t \in Threads : pc[t] \in {"armed", "target", "claim", "writeThread"}}

(* The three counters add up: a call is captured or dropped only after it  *)
(* was counted, and never both, whatever steps the threads interleave.     *)
Accounting ==
    capturedCount + droppedCount + Cardinality(InFlight) <= callbackCount

TurnedAway == {t \in Threads : pc[t] = "claim" /\ at[t] \notin Slots}

(* The scan turns away no more threads at once than outnumber the slots,   *)
(* although it reads one slot at a time while others are claimed and       *)
(* released: a ring with a slot for every thread drops nothing.            *)
DropsOnlyOverflow ==
    TurnedAway # {} => Cardinality(TurnedAway) + SlotCount <= Cardinality(Threads)
=============================================================================
