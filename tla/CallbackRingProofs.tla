-------------------------- MODULE CallbackRingProofs --------------------------
(***************************************************************************)
(* Theorems about CallbackRing and their proofs: what holds of the ring    *)
(* for any number of threads and of slots, whatever the detector does to   *)
(* the shared globals and in whatever order.                               *)
(***************************************************************************)
EXTENDS CallbackRing, FiniteSetTheorems, TLAPS

-----------------------------------------------------------------------------
(* Type correctness.                                                       *)

LEMMA RingTypeInit == RingInit => RingTypeOK
<1> SUFFICES ASSUME RingInit PROVE RingTypeOK
  OBVIOUS
<1>1. FreshSlot \in CallbackSlot
  BY DEF FreshSlot, CallbackSlot, CallbackSlotState
<1>2. slots \in [Slots -> CallbackSlot]
  BY <1>1 DEF RingInit
<1>3. \A t \in Threads : pc[t] = "user" /\ at[t] = 0
  BY DEF RingInit
<1>4. pc \in [Threads -> ThreadPc] /\ \A t \in Threads : pc[t] \notin Holding
  BY <1>3 DEF RingInit, ThreadPc, Holding, Writing
<1>5. at \in [Threads -> 0 .. SlotCount] /\ call \in [Threads -> Calls \cup {0}]
  BY RingAssumption DEF RingInit
<1> QED BY <1>2, <1>4, <1>5 DEF RingInit, RingTypeOK

(* Writing one field of a slot that exists keeps the slots well typed.     *)
LEMMA SlotFieldType ==
  ASSUME slots \in [Slots -> CallbackSlot], NEW i \in Slots
  PROVE  /\ \A s \in CallbackSlotState :
                [slots EXCEPT ![i].State = s] \in [Slots -> CallbackSlot]
         /\ \A t \in Threads \cup {0} :
                [slots EXCEPT ![i].ThreadId = t] \in [Slots -> CallbackSlot]
         /\ \A c \in Calls \cup {0} :
                [slots EXCEPT ![i].PreviousProgramCounter = c] \in [Slots -> CallbackSlot]
         /\ \A c \in Calls \cup {0} :
                [slots EXCEPT ![i].StackArguments = c] \in [Slots -> CallbackSlot]
  BY DEF CallbackSlot

LEMMA ClientTypeStep ==
  ASSUME RingTypeOK, ClientStep
  PROVE  RingTypeOK'
<1> USE DEF RingTypeOK, threadVars, counters
<1>1. CASE \E value \in BOOLEAN : SetArmed(value)
  BY <1>1 DEF SetArmed, Slots
<1>2. CASE \E value \in Threads \cup {0} : SetTarget(value)
  BY <1>2 DEF SetTarget, Slots
<1>3. ASSUME NEW i \in Slots,
             ClearCallbackSlot(i) \/ ZeroThreadId(i) \/ ZeroPreviousPc(i) \/ ZeroStack(i)
      PROVE  RingTypeOK'
  <2> USE <1>3, SlotFieldType DEF CallbackSlotState
  <2>1. CASE ClearCallbackSlot(i) BY <2>1 DEF ClearCallbackSlot, Slots
  <2>2. CASE ZeroThreadId(i) BY <2>2 DEF ZeroThreadId, Slots
  <2>3. CASE ZeroPreviousPc(i) BY <2>3 DEF ZeroPreviousPc, Slots
  <2>4. CASE ZeroStack(i) BY <2>4 DEF ZeroStack, Slots
  <2> QED BY <2>1, <2>2, <2>3, <2>4
<1> QED BY <1>1, <1>2, <1>3 DEF ClientStep

LEMMA ThreadTypeStep ==
  ASSUME RingTypeOK, NEW t \in Threads, ThreadStep(t)
  PROVE  RingTypeOK'
<1> USE DEF RingTypeOK, threadVars, counters, Goto, ThreadPc, Holding, Writing
<1>1. CASE \E c \in Calls : SyscallEnter(t, c)
  BY <1>1 DEF SyscallEnter, Slots
<1>2. CASE SyscallReturn(t) \/ ThunkEnter(t)
  BY <1>2 DEF SyscallReturn, ThunkEnter, Slots
<1>3. CASE CheckArmed(t) \/ LeaveThunk(t) \/ DropCallback(t)
  BY <1>3 DEF CheckArmed, LeaveThunk, DropCallback, Slots
<1>4. CASE CheckTarget(t)
  BY <1>4, RingAssumption DEF CheckTarget, FirstSlot, Slots
<1>5. CASE SkipSlot(t)
  BY <1>5, RingAssumption DEF SkipSlot, Slots
<1>6. CASE ClaimSlot(t)
  <2>1. slots' \in [Slots -> CallbackSlot]
    BY <1>6, SlotFieldType DEF ClaimSlot, CallbackSlotState
  <2> QED BY <1>6, <2>1 DEF ClaimSlot, Slots
<1>7. CASE WriteThreadId(t) \/ WritePreviousPc(t) \/ WriteStack(t) \/ Publish(t)
  <2>1. at[t] \in Slots /\ call[t] \in Calls \cup {0}
    BY <1>7 DEF WriteThreadId, WritePreviousPc, WriteStack, Publish
  <2> USE <2>1, SlotFieldType DEF CallbackSlotState
  <2>2. CASE WriteThreadId(t)
    <3>1. slots' \in [Slots -> CallbackSlot] BY <2>2 DEF WriteThreadId, IdOf
    <3> QED BY <3>1, <2>2 DEF WriteThreadId, Slots
  <2>3. CASE WritePreviousPc(t)
    <3>1. slots' \in [Slots -> CallbackSlot] BY <2>3 DEF WritePreviousPc
    <3> QED BY <3>1, <2>3 DEF WritePreviousPc, Slots
  <2>4. CASE WriteStack(t)
    <3>1. slots' \in [Slots -> CallbackSlot] BY <2>4 DEF WriteStack
    <3> QED BY <3>1, <2>4 DEF WriteStack, Slots
  <2>5. CASE Publish(t)
    <3>1. slots' \in [Slots -> CallbackSlot] BY <2>5 DEF Publish
    <3> QED BY <3>1, <2>5 DEF Publish, Slots
  <2> QED BY <1>7, <2>2, <2>3, <2>4, <2>5
<1> QED
  BY <1>1, <1>2, <1>3, <1>4, <1>5, <1>6, <1>7 DEF ThreadStep, Thunk

LEMMA RingTypeStep == RingTypeOK /\ [RingNext]_ringVars => RingTypeOK'
<1> SUFFICES ASSUME RingTypeOK, [RingNext]_ringVars
             PROVE  RingTypeOK'
  OBVIOUS
<1>1. CASE UNCHANGED ringVars
  BY <1>1 DEF ringVars, threadVars, counters, RingTypeOK, Slots
<1>2. CASE ClientStep
  BY <1>2, ClientTypeStep
<1>3. CASE \E t \in Threads : ThreadStep(t)
  BY <1>3, ThreadTypeStep
<1> QED BY <1>1, <1>2, <1>3 DEF RingNext

(* The globals and the threads' registers keep their types: no step of a   *)
(* thread or of the detector reaches past the ring.                        *)
THEOREM RingTypeCorrect == RingSpec => []RingTypeOK
  BY RingTypeInit, RingTypeStep, PTL DEF RingSpec

-----------------------------------------------------------------------------
(* A slot in use always has the thread that uses it.                       *)

\* Thread t has claimed slot i and has not left.
Holds(t, i) == pc[t] \in Holding /\ at[t] = i

(* The detector frees slots and never takes one.                           *)
LEMMA ClientSlotStates ==
  ASSUME RingTypeOK, ClientStep, NEW i \in Slots
  PROVE  /\ slots'[i].State \in {slots[i].State, "Free"}
         /\ UNCHANGED threadVars
<1> USE DEF RingTypeOK, CallbackSlot
<1>1. CASE \E value \in BOOLEAN : SetArmed(value)
  BY <1>1 DEF SetArmed
<1>2. CASE \E value \in Threads \cup {0} : SetTarget(value)
  BY <1>2 DEF SetTarget
<1>3. CASE \E j \in Slots : \/ ClearCallbackSlot(j) \/ ZeroThreadId(j)
                             \/ ZeroPreviousPc(j) \/ ZeroStack(j)
  BY <1>3 DEF ClearCallbackSlot, ZeroThreadId, ZeroPreviousPc, ZeroStack
<1> QED BY <1>1, <1>2, <1>3 DEF ClientStep

(* A thread only changes the state of the slot it holds when it has done   *)
(* so, and moves away from a slot only when that slot is free.             *)
LEMMA ThreadSlotStates ==
  ASSUME RingTypeOK, NEW t \in Threads, ThreadStep(t), NEW i \in Slots
  PROVE  /\ slots'[i].State # slots[i].State => Holds(t, i)'
         /\ Holds(t, i) /\ ~Holds(t, i)' => slots'[i].State = "Free"
         /\ \A u \in Threads \ {t} : Holds(u, i)' <=> Holds(u, i)
<1> USE DEF RingTypeOK, CallbackSlot, Holds, Holding, Writing, Goto
<1>1. CASE \/ \E c \in Calls : SyscallEnter(t, c)
           \/ SyscallReturn(t) \/ ThunkEnter(t) \/ CheckArmed(t) \/ DropCallback(t)
  BY <1>1 DEF SyscallEnter, SyscallReturn, ThunkEnter, CheckArmed, DropCallback
<1>2. CASE CheckTarget(t) \/ SkipSlot(t)
  BY <1>2 DEF CheckTarget, SkipSlot
<1>3. CASE ClaimSlot(t)
  BY <1>3 DEF ClaimSlot
<1>4. CASE WriteThreadId(t) \/ WritePreviousPc(t) \/ WriteStack(t)
  BY <1>4 DEF WriteThreadId, WritePreviousPc, WriteStack
<1>5. CASE Publish(t)
  BY <1>5 DEF Publish
<1>6. CASE LeaveThunk(t)
  BY <1>6 DEF LeaveThunk, Released
<1> QED BY <1>1, <1>2, <1>3, <1>4, <1>5, <1>6 DEF ThreadStep, Thunk

LEMMA NoOrphanStep ==
  ASSUME RingTypeOK, NoOrphanSlot, [RingNext]_ringVars
  PROVE  NoOrphanSlot'
<1> SUFFICES ASSUME NEW i \in Slots, slots'[i].State # "Free"
             PROVE  \E t \in Threads : Holds(t, i)'
  BY DEF NoOrphanSlot, Holds, Slots
<1>1. slots[i].State # "Free" => \E t \in Threads : Holds(t, i)
  BY DEF NoOrphanSlot, Holds
<1>2. CASE UNCHANGED ringVars
  BY <1>1, <1>2 DEF ringVars, threadVars, Holds
<1>3. CASE ClientStep
  BY <1>1, <1>3, ClientSlotStates DEF threadVars, Holds
<1>4. ASSUME NEW t \in Threads, ThreadStep(t)
      PROVE  \E u \in Threads : Holds(u, i)'
  <2>1. CASE slots'[i].State # slots[i].State
    BY <1>4, <2>1, ThreadSlotStates
  <2>2. CASE slots'[i].State = slots[i].State
    <3>1. PICK u \in Threads : Holds(u, i)
      BY <1>1, <2>2
    <3>2. CASE u = t
      BY <1>4, <3>1, <3>2, ThreadSlotStates
    <3>3. CASE u # t
      BY <1>4, <3>1, <3>3, ThreadSlotStates
    <3> QED BY <3>2, <3>3
  <2> QED BY <2>1, <2>2
<1> QED BY <1>2, <1>3, <1>4 DEF RingNext

(* No slot of the ring is lost to a thread that has left the thunk.        *)
THEOREM SlotsAreHeld == RingSpec => []NoOrphanSlot
<1>1. RingInit => NoOrphanSlot
  BY DEF RingInit, NoOrphanSlot, FreshSlot
<1> QED BY <1>1, NoOrphanStep, RingTypeCorrect, PTL DEF RingSpec

-----------------------------------------------------------------------------
(* A ring with a slot for every thread drops nothing.                      *)

\* The threads that look for a slot from k on, or hold one from k on.
AtOrPast(k) == {t \in Threads : pc[t] \in {"claim"} \cup Holding /\ at[t] >= k}

\* A thread that was turned away from a slot left another thread behind.
Spread ==
    \A k \in 0 .. SlotCount :
        AtOrPast(k) # {} => Cardinality(AtOrPast(k)) <= Cardinality(Threads) - k

LEMMA AtOrPastFinite ==
  ASSUME NEW k
  PROVE  /\ IsFiniteSet(AtOrPast(k)) /\ Cardinality(AtOrPast(k)) \in Nat
         /\ Cardinality(Threads) \in Nat
         /\ Cardinality(AtOrPast(k)) <= Cardinality(Threads)
<1>1. AtOrPast(k) \in SUBSET Threads
  BY DEF AtOrPast
<1> QED BY <1>1, RingAssumption, FS_Subset, FS_CardinalityType

(* A set of threads that does not grow keeps its bound.                    *)
LEMMA AtOrPastShrinks ==
  ASSUME NEW k, AtOrPast(k)' \subseteq AtOrPast(k)
  PROVE  Cardinality(AtOrPast(k)') <= Cardinality(AtOrPast(k))
  BY AtOrPastFinite, FS_Subset

(* Only a thread that skips a slot comes to be at or past a later one.     *)
LEMMA OnlySkipAdvances ==
  ASSUME RingTypeOK, NEW t \in Threads, ThreadStep(t), ~SkipSlot(t),
         NEW k \in 1 .. SlotCount
  PROVE  AtOrPast(k)' \subseteq AtOrPast(k)
<1> USE DEF RingTypeOK, AtOrPast, Holding, Writing, Goto
<1>1. CASE \/ \E c \in Calls : SyscallEnter(t, c)
           \/ SyscallReturn(t) \/ ThunkEnter(t) \/ CheckArmed(t) \/ DropCallback(t)
  BY <1>1 DEF SyscallEnter, SyscallReturn, ThunkEnter, CheckArmed, DropCallback
<1>2. CASE CheckTarget(t)
  BY <1>2 DEF CheckTarget, FirstSlot
<1>3. CASE ClaimSlot(t) \/ WriteThreadId(t) \/ WritePreviousPc(t) \/ WriteStack(t)
  BY <1>3 DEF ClaimSlot, WriteThreadId, WritePreviousPc, WriteStack
<1>4. CASE Publish(t) \/ LeaveThunk(t)
  BY <1>4 DEF Publish, LeaveThunk
<1> QED BY <1>1, <1>2, <1>3, <1>4 DEF ThreadStep, Thunk

(* The slot that a thread skips is held by a thread that stays behind.     *)
LEMMA SkipLeavesHolder ==
  ASSUME RingTypeOK, NoOrphanSlot, NEW t \in Threads, SkipSlot(t), Spread,
         NEW k \in 1 .. SlotCount, AtOrPast(k)' # {}
  PROVE  Cardinality(AtOrPast(k)') <= Cardinality(Threads) - k
<1> DEFINE j == at[t]
<1>1. j \in Slots /\ j \in Nat /\ SlotCount \in Nat /\ j + 1 \in 0 .. SlotCount
  BY RingAssumption DEF SkipSlot, Slots
<1>2. pc' = pc /\ at' = [at EXCEPT ![t] = j + 1] /\ pc[t] = "claim"
  BY DEF SkipSlot
<1>3. CASE k # j + 1
  <2>1. AtOrPast(k)' \subseteq AtOrPast(k)
    BY <1>1, <1>2, <1>3 DEF AtOrPast, RingTypeOK
  <2>2. Cardinality(AtOrPast(k)) <= Cardinality(Threads) - k
    BY <2>1 DEF Spread
  <2>3. Cardinality(AtOrPast(k)') <= Cardinality(AtOrPast(k))
    BY <2>1, AtOrPastShrinks
  <2>4. Cardinality(AtOrPast(k)') \in Nat
    BY <2>1, AtOrPastFinite, FS_Subset, FS_CardinalityType
  <2> QED BY <2>2, <2>3, <2>4, AtOrPastFinite
<1>4. CASE k = j + 1
  <2>1. PICK u \in Threads : pc[u] \in Holding /\ at[u] = j
    BY <1>1 DEF NoOrphanSlot, SkipSlot
  <2>2. u # t
    BY <1>2, <2>1 DEF Holding, Writing
  <2>3. t \in AtOrPast(j) /\ u \in AtOrPast(j)
    BY <1>1, <1>2, <2>1 DEF AtOrPast
  <2>4. AtOrPast(k)' \subseteq AtOrPast(j) \ {u}
    BY <1>1, <1>2, <1>4, <2>1, <2>2 DEF AtOrPast, RingTypeOK
  <2>5. /\ IsFiniteSet(AtOrPast(j) \ {u})
        /\ Cardinality(AtOrPast(j) \ {u}) = Cardinality(AtOrPast(j)) - 1
    BY <2>3, AtOrPastFinite, FS_RemoveElement
  <2>6. /\ Cardinality(AtOrPast(k)') <= Cardinality(AtOrPast(j) \ {u})
        /\ Cardinality(AtOrPast(k)') \in Nat
    BY <2>4, <2>5, FS_Subset, FS_CardinalityType
  <2>7. Cardinality(AtOrPast(j)) <= Cardinality(Threads) - j
    BY <1>1, <2>3 DEF Spread, Slots
  <2> QED BY <1>1, <1>4, <2>5, <2>6, <2>7, AtOrPastFinite
<1> QED BY <1>3, <1>4

LEMMA SpreadStep ==
  ASSUME RingTypeOK, NoOrphanSlot, Spread, [RingNext]_ringVars
  PROVE  Spread'
<1> SUFFICES ASSUME NEW k \in 0 .. SlotCount, AtOrPast(k)' # {}
             PROVE  Cardinality(AtOrPast(k)') <= Cardinality(Threads) - k
  BY DEF Spread
<1>1. CASE k = 0
  <2>1. AtOrPast(k)' \in SUBSET Threads
    BY DEF AtOrPast
  <2> QED BY <1>1, <2>1, RingAssumption, FS_Subset, FS_CardinalityType
<1>2. CASE k # 0
  <2>1. k \in 1 .. SlotCount
    BY <1>2, RingAssumption
  <2>2. ASSUME AtOrPast(k)' \subseteq AtOrPast(k)
        PROVE  Cardinality(AtOrPast(k)') <= Cardinality(Threads) - k
    <3>1. Cardinality(AtOrPast(k)') \in Nat
      BY <2>2, AtOrPastFinite, FS_Subset, FS_CardinalityType
    <3> QED BY <2>1, <2>2, <3>1, AtOrPastShrinks, AtOrPastFinite DEF Spread
  <2>3. CASE UNCHANGED ringVars
    BY <2>2, <2>3 DEF ringVars, threadVars, AtOrPast
  <2>4. CASE ClientStep
    <3>1. UNCHANGED threadVars
      BY <2>4, ClientSlotStates, RingAssumption DEF Slots
    <3> QED BY <2>2, <3>1 DEF threadVars, AtOrPast
  <2>5. ASSUME NEW t \in Threads, ThreadStep(t)
        PROVE  Cardinality(AtOrPast(k)') <= Cardinality(Threads) - k
    <3>1. CASE SkipSlot(t)
      BY <2>1, <3>1, SkipLeavesHolder
    <3>2. CASE ~SkipSlot(t)
      BY <2>1, <2>2, <2>5, <3>2, OnlySkipAdvances
    <3> QED BY <3>1, <3>2
  <2> QED BY <2>3, <2>4, <2>5 DEF RingNext
<1> QED BY <1>1, <1>2

LEMMA SpreadHolds == RingSpec => []Spread
<1>1. RingInit => Spread
  <2> SUFFICES ASSUME RingInit
               PROVE  Spread
    OBVIOUS
  <2>1. \A k \in 0 .. SlotCount : AtOrPast(k) = {}
    BY DEF RingInit, AtOrPast, Holding, Writing
  <2> QED BY <2>1 DEF Spread
<1> QED BY <1>1, SpreadStep, RingTypeCorrect, SlotsAreHeld, PTL DEF RingSpec

(* However the threads race for the slots, those that are turned away are  *)
(* no more than those that the ring has no slot for: whoever is has been   *)
(* past every slot, and has left a holder behind at each.                  *)
THEOREM TurnsAwayOverflow == RingSpec => []DropsOnlyOverflow
<1>1. RingTypeOK /\ Spread => DropsOnlyOverflow
  <2> SUFFICES ASSUME RingTypeOK, Spread, TurnedAway # {}
               PROVE  Cardinality(TurnedAway) + SlotCount <= Cardinality(Threads)
    BY DEF DropsOnlyOverflow
  <2>1. SlotCount \in Nat /\ SlotCount \in 0 .. SlotCount
    BY RingAssumption
  <2>2. TurnedAway \subseteq AtOrPast(SlotCount)
    BY <2>1 DEF TurnedAway, AtOrPast, RingTypeOK, Slots
  <2>3. Cardinality(AtOrPast(SlotCount)) <= Cardinality(Threads) - SlotCount
    BY <2>1, <2>2 DEF Spread
  <2>4. /\ Cardinality(TurnedAway) \in Nat
        /\ Cardinality(TurnedAway) <= Cardinality(AtOrPast(SlotCount))
    BY <2>2, AtOrPastFinite, FS_Subset, FS_CardinalityType
  <2> QED BY <2>1, <2>3, <2>4, AtOrPastFinite
<1> QED BY <1>1, SpreadHolds, RingTypeCorrect, PTL

NoDropWithinCapacity == Cardinality(Threads) <= SlotCount => droppedCount = 0

LEMMA NoDropStep ==
  ASSUME RingTypeOK, DropsOnlyOverflow, NoDropWithinCapacity, [RingNext]_ringVars
  PROVE  NoDropWithinCapacity'
<1> SUFFICES ASSUME Cardinality(Threads) <= SlotCount
             PROVE  droppedCount' = droppedCount
  BY DEF NoDropWithinCapacity
<1>1. CASE UNCHANGED ringVars
  BY <1>1 DEF ringVars, counters
<1>2. CASE ClientStep
  BY <1>2 DEF ClientStep, SetArmed, SetTarget, ClearCallbackSlot, ZeroThreadId,
              ZeroPreviousPc, ZeroStack, counters
<1>3. ASSUME NEW t \in Threads, ThreadStep(t), ~DropCallback(t)
      PROVE  droppedCount' = droppedCount
  BY <1>3 DEF ThreadStep, Thunk, SyscallEnter, SyscallReturn, ThunkEnter, CheckArmed,
              CheckTarget, ClaimSlot, SkipSlot, WriteThreadId, WritePreviousPc,
              WriteStack, Publish, LeaveThunk, counters
<1>4. ASSUME NEW t \in Threads, DropCallback(t)
      PROVE  FALSE
  <2>1. t \in TurnedAway
    BY <1>4 DEF DropCallback, Goto, TurnedAway
  <2>2. TurnedAway \subseteq Threads
    BY DEF TurnedAway
  <2>3. /\ IsFiniteSet(TurnedAway) /\ Cardinality(TurnedAway) \in Nat
        /\ Cardinality(TurnedAway) # 0
    BY <2>1, <2>2, RingAssumption, FS_Subset, FS_CardinalityType, FS_EmptySet
  <2>4. SlotCount \in Nat /\ Cardinality(Threads) \in Nat
    BY RingAssumption, FS_CardinalityType
  <2> QED BY <2>1, <2>3, <2>4 DEF DropsOnlyOverflow
<1> QED BY <1>1, <1>2, <1>3, <1>4 DEF RingNext

(* A ring that has as many slots as the process has threads never drops a  *)
(* capture.                                                                *)
THEOREM NothingDropped == RingSpec => []NoDropWithinCapacity
<1>1. RingInit => NoDropWithinCapacity
  BY DEF RingInit, NoDropWithinCapacity
<1> QED BY <1>1, NoDropStep, RingTypeCorrect, TurnsAwayOverflow, PTL DEF RingSpec

-----------------------------------------------------------------------------
(* The counters.                                                           *)

LEMMA InFlightFinite ==
  IsFiniteSet(InFlight) /\ Cardinality(InFlight) \in Nat
<1>1. InFlight \in SUBSET Threads
  BY DEF InFlight
<1> QED BY <1>1, RingAssumption, FS_Subset, FS_CardinalityType

LEMMA AccountingStep ==
  ASSUME RingTypeOK, Accounting, [RingNext]_ringVars
  PROVE  Accounting'
<1> USE DEF RingTypeOK, Accounting, counters
<1>1. CASE UNCHANGED ringVars
  BY <1>1 DEF ringVars, threadVars, InFlight
<1>2. CASE ClientStep
  BY <1>2 DEF ClientStep, SetArmed, SetTarget, ClearCallbackSlot, ZeroThreadId,
              ZeroPreviousPc, ZeroStack, threadVars, InFlight
<1>3. ASSUME NEW t \in Threads, ThreadStep(t)
      PROVE  Accounting'
  <2>1. /\ Cardinality(InFlight) \in Nat
        /\ Cardinality(InFlight \cup {t}) =
               IF t \in InFlight THEN Cardinality(InFlight) ELSE Cardinality(InFlight) + 1
        /\ Cardinality(InFlight \ {t}) =
               IF t \in InFlight THEN Cardinality(InFlight) - 1 ELSE Cardinality(InFlight)
    BY InFlightFinite, FS_AddElement, FS_RemoveElement
  <2>2. CASE ThunkEnter(t)
    <3>1. t \notin InFlight /\ InFlight' = InFlight \cup {t}
      BY <2>2 DEF ThunkEnter, Goto, InFlight
    <3> QED BY <2>1, <2>2, <3>1 DEF ThunkEnter
  <2>3. CASE CheckArmed(t) \/ CheckTarget(t)
    <3>1. InFlight' = InFlight \/ InFlight' = InFlight \ {t}
      BY <2>3 DEF CheckArmed, CheckTarget, Goto, InFlight
    <3>2. CASE InFlight' = InFlight
      BY <2>3, <3>2 DEF CheckArmed, CheckTarget
    <3>3. CASE InFlight' = InFlight \ {t}
      <4>1. \/ Cardinality(InFlight') = Cardinality(InFlight)
            \/ Cardinality(InFlight') = Cardinality(InFlight) - 1
        BY <2>1, <3>3
      <4> QED BY <2>1, <2>3, <4>1 DEF CheckArmed, CheckTarget
    <3> QED BY <3>1, <3>2, <3>3
  <2>4. CASE DropCallback(t) \/ WriteThreadId(t)
    <3>1. t \in InFlight /\ InFlight' = InFlight \ {t}
      BY <2>4 DEF DropCallback, WriteThreadId, Goto, InFlight
    <3>2. Cardinality(InFlight)' = Cardinality(InFlight) - 1
      BY <2>1, <3>1
    <3>3. /\ callbackCount' = callbackCount
          /\ capturedCount' + droppedCount' = capturedCount + droppedCount + 1
      BY <2>4 DEF DropCallback, WriteThreadId
    <3> QED BY <2>1, <3>2, <3>3
  <2>5. CASE \/ \E c \in Calls : SyscallEnter(t, c)
             \/ SyscallReturn(t) \/ ClaimSlot(t) \/ SkipSlot(t) \/ WritePreviousPc(t)
             \/ WriteStack(t) \/ Publish(t) \/ LeaveThunk(t)
    <3>1. InFlight' = InFlight
      BY <2>5 DEF SyscallEnter, SyscallReturn, ClaimSlot, SkipSlot, WritePreviousPc,
                  WriteStack, Publish, LeaveThunk, Goto, InFlight
    <3>2. UNCHANGED counters
      BY <2>5 DEF SyscallEnter, SyscallReturn, ClaimSlot, SkipSlot, WritePreviousPc,
                  WriteStack, Publish, LeaveThunk
    <3> QED BY <3>1, <3>2
  <2> QED BY <1>3, <2>2, <2>3, <2>4, <2>5 DEF ThreadStep, Thunk
<1> QED BY <1>1, <1>2, <1>3 DEF RingNext

(* No call is counted twice: those captured, those dropped and those still *)
(* on their way through the thunk are never more than those that entered.  *)
THEOREM CountersAddUp == RingSpec => []Accounting
<1>1. RingInit => Accounting
  <2> SUFFICES ASSUME RingInit
               PROVE  Accounting
    OBVIOUS
  <2>1. InFlight = {}
    BY DEF RingInit, InFlight
  <2>2. Cardinality(InFlight) = 0
    BY <2>1, FS_EmptySet
  <2> QED BY <2>2 DEF RingInit, Accounting
<1> QED BY <1>1, AccountingStep, RingTypeCorrect, PTL DEF RingSpec
=============================================================================
