# DirectSyscallDetector: a TLA+ verification

DirectSyscallDetector decides whether a Windows x64 thread entered the kernel
through the system-call stub that owns the service, through raw code, or through
the `syscall` instruction of somebody else's stub. It registers a process
instrumentation callback, so that the kernel enters an assembly thunk on every
thread whose system call returns; the thunk writes what it sees to a slot of a
shared ring and spins there until a monitor thread has looked at the paused
thread with `NtQueryInformationThread(ThreadLastSystemCall)` and freed the slot.

The program is small; what is hard about it is the concurrency. Four parties -
the caller of `RunProbe`, the worker thread that runs the probe, the monitor
thread, and the thunk, which runs on any thread of the process - share sixteen
lock-free slots, an Armed flag and a target thread id, with five waits of five
seconds each, two INFINITE ones, and one thread suspending another.

Paths below are relative to the repository.

## Inventory

Library sources are in `DirectSyscallDetectorLib/src` and `/include`.

| Component | State | Operations | What makes it correct |
|---|---|---|---|
| Callback ring and thunk (`InstrumentationCallback.asm`, `CallbackRing.h`, `InstrumentationState.cpp`) | 16 slots (state, thread id, PC, stack words), Armed, target, three counters | enter, check Armed, check target, claim (`lock cmpxchg`), write four fields, publish, spin, leave; drop when every slot is taken | a slot is never lost, a capture is dropped only when the ring is full, a record is whole, whoever spins is released |
| Detector session (`DetectorSession.cpp`) | callback registered or not, the contexts of the worker and the monitor on `RunProbe`'s frame | constructor, `RunProbe`, `WorkerThreadProc`, `MonitorThreadProc`, destructor | every `RunProbe` returns one event, about that probe's call; no thread is left suspended, spinning or on a dead frame; the ring is clean for the next probe |
| Syscall catalog (`SyscallCatalog.cpp`) | entries, index by return address, index by number, warnings | scan of two modules' exports, stub decoder, four queries | number and return address belong to one stub; the queries agree with each other |
| Standalone allocation monitor (`direct_syscall_alloc_monitor.cpp`, `.asm`) | one snapshot, six flags, four results | main, worker, monitor, thunk | what is judged is stored and held; everyone ends; the memory is released |
| Signature table and lookup (`GeneratedSyscallSignatures.cpp`) | a generated table of 1259 rows | binary search | the table is sorted the way the search compares |
| Signature printer (`SignaturePrinter.h`) | none; an assertion at compile time | format the captured arguments | what is printed is an argument of the call, with its own type |
| Signature generator (`tools/generate_syscall_signatures.py`) | stack of `#if` blocks, prototypes found | filter, extract, pair exports with prototypes, emit | a prototype is seen exactly when C would compile it; one row for each export that has one |
| Test system calls (`TestSyscalls.cpp`) | two numbers and an address | set by the demo, loaded by assembly helpers | they are those of the functions they are named for |
| Demo (`DirectSyscallDetectorDemo/main.cpp`) | up to four allocations, four events | setup, four probes, expectations | its exit code says whether detection works here; nothing leaks |
| Native API declarations, vendored PHNT | none | declarations | - |

How they interact: the catalog is built once and is read only afterwards; each
of its entries owns the signature that the lookup found for its name. The demo
builds a catalog, gives numbers and a gadget from it to the test system calls,
constructs a session and calls `RunProbe` for one probe after the other. The
table of signatures is written by the generator on one machine, compiled against
the headers of another, and searched with the exports of a third. The standalone
monitor shares nothing with the rest.
`RunProbe` starts a worker and a monitor with pointers into its own frame and
communicates with them by three words of that frame (`Started`, `Go`, `Done`),
by thread handles, and by the globals of the ring. The kernel enters the thunk
on any thread of the process. The monitor suspends, queries and resumes the
thread whose id the slot holds, and asks the catalog for the verdict.

What is hard to test is listed, with lines, under "hazards" in `PROJECT.json`.

## Modules

| Module | Models |
|---|---|
| `CallbackRing` | the thunk, one action per access to shared memory (the stack words of a slot are one field), the globals, and the detector's single writes to them; `RingSpec` is the ring under any client |
| `DetectorSession` | extends `CallbackRing`: caller, workers, monitor, other threads, time and faults |
| `ProbeContract` | what `RunProbe` promises the caller, implemented by `DetectorSession` |
| `SyscallCatalog` | the scan of the modules' exports, the stub decoder, the catalog's indexes, queries and classification |
| `MCSyscallCatalog` | small ntdll and win32u images of real stub code for TLC |
| `DetectorDemo` | extends `SyscallCatalog`: the demo's main, its allocations, the test system calls and the verdicts of its probes |
| `AllocMonitor` | the standalone monitor: main, worker and thunk, monitor |
| `SignatureTable` | the 1259 rows that are checked in |
| `SignatureLookup` | the binary search of a table, and what is printed of a call |
| `SignatureGenerator` | extends `SignatureLookup`: the life of a table, from the headers through the script and the compiler to the lookup |
| `MCCallbackRing`, `MCDetectorSession`, `MCDetectorDemo`, `MCAllocMonitor`, `MCSignatures` | instances for TLC |
| `CallbackRingProofs` | theorems of `RingSpec` |
| `DetectorSessionProofs` | type correctness of the session, and that it implements `RingSpec` |
| `SessionSafetyProofs` | what of the session is safe whoever else makes system calls: suspension, results, workers |
| `SessionRingProofs` | what a session makes of the ring: the record, the armed and the quiet ring, the query, and that it keeps its contract |
| `SyscallCatalogProofs` | theorems of the decoder, the indexes and the verdicts |
| `DetectorDemoProofs` | the demo releases its memory, and what its exit code tells |
| `AllocMonitorProofs` | the standalone monitor's safety theorems |
| `SignatureProofs` | theorems of the filter, the table that is written, the lookup and the printer |

### State and code

*Ring.* `slots[i]` is `g_DsdCallbackSlots[i]`. A member of `Calls` stands for one
system call of a thread: its return address and the stack words next to it. A
slot's `PreviousProgramCounter` and `StackArguments` therefore hold calls, and a
record is torn when they differ or belong to another thread. The stack pointer
and the two stack words, which the thunk stores one after the other, are one field,
stored, zeroed and copied in one step; a record torn between them is not told from a
whole one. Every other field has steps of its own. `pc[t]` is where
thread `t` is: user code, the kernel, or an instruction of the thunk; `at[t]` is
its `r12`. The counters move with the neighbouring access, because nothing reads
them back.

*Session.* `callerPc`, `worker[w]` and `monitorPc` are program counters whose
values name the next access to shared state. Probe `k` is run by worker `k`.
`started`, `go` and `done` hold the workers whose context has the flag set;
`Alive(w)` says whether the frame that holds the context still exists, and a
worker whose frame is gone may write the flags of the context that now lies
there (`Frame`). `record`, `query`, `attempts`, `verdict` are the monitor's
locals. `suspended` are the threads under `SuspendThread`: they take no step.

The code's functions are actions of the same order of steps:
`ResetCallbackState` is `ResetDisarm`, `ResetTarget` and, four times per slot,
`ResetSlot`; `RunProbeImpl` is the actions from `StartWorker` to `Collect`;
`WaitForReadyCallbackSlot` is `Poll`, `FindReady`, `PassSlot`, `EndScan`, where
the last look after `Done` has a program counter of its own; `CopyCallbackRecord`
reads one field per step, since nothing holds the slot meanwhile; the destructor
of the suspension object is `Resume`, after `Release` has freed the slot.

*Catalog.* A process is its memory, byte by byte, its modules in the order of
`ModuleSpecs` with their export tables, and, which the code cannot see, the stubs
that really are in that memory. `pc`, `module`, `export` and `index` are the
positions of `BuildForCurrentProcess`, `ScanModuleExports` and `DecodeSyscallStub`;
one action reads one byte. A number is the sequence of its four bytes.
`m_returnAddressIndex` is a function, `m_syscallNumberIndex` a set of pairs, as
`unordered_map` and `unordered_multimap` are. The model of the session takes
what a finished catalog answers as constants, and `Classify` is stated for both.

*Demo.* `step` is the position in `main`; the catalog is built by the actions of
`SyscallCatalog`, one byte at a time. A `NativeVirtualAllocation` is a number, of
which `constructed` exist; `baseAddress` says whether the object holds an address
and `memory` what has become of the memory there. Every early return goes to
`"unwind"`, where the destructors run. `RunProbe` is one step whose outcomes are
the verdict of the catalog, by `Classify`, or a failed query or worker. `Call`
gives the system call of each probe: the stub of ntdll as it is in memory, or the
helpers' code with the numbers and the gadget of `testSyscalls`.

*Allocation monitor.* `mainPc`, `workerPc` and `monitorPc` name the next access to
something shared. `stored` counts the fields the thunk has stored, in its order;
only those that are compared later are kept. The loop of the monitor may end at
any point (`EndPoll`), because its limit is a number of spins and no time. The
spin loops of the code are steps that change nothing (`Spin`). When `main`
returns the threads stop.

*Signatures.* A registration is its name, the function of the `decltype` in its
factory, and the spellings of its argument types. `SignatureTable` has the rows
of the file, in its order, in definitions named after their first row. The range
of `std::lower_bound` is `first` and `count`. In the generator a line is a
directive with the truth of its condition, or a prototype; `ifdef` and `ifndef`
are conditions like others. `activeStack` and `branchStack` are the code's, with
the top first. `Declared` and what it rests on are what C makes of the same
lines, by position and depth rather than by a stack. `Word` k of a call stands
for its k-th argument, or for what lies in that place when it has fewer. An `event`
has the function that was called when the slot was written (`Call`), the one that
the query of the thread has named (`Query`), and what `Classify` formats. They differ
when the query comes late, and `Query` is `NoSignature` when it fails: the first
argument is then the zero that the result was initialised with, and the signature
that of service 0, which is one of `ZeroServices`, a matter of the build of Windows.
`OtherCalls` are the calls that a query may be late for.

*Time.* A wait that can time out has a name (`start`, `abort`, `monitor`,
`worker`, `deadline`). `Tick` lets five seconds pass: every wait in progress is
then `expired`, and may, but need not, be seen so when what it waits for happens
too. Straight-line code is much faster than five seconds, so `Tick` waits until
nobody can move, except:

| Fault | What it allows |
|---|---|
| `slowCall` | a system call lasts longer than any timeout |
| `slowStart` | a new thread is not scheduled for so long |
| `slowCode` | any thread may be held up anywhere for so long |
| `install`, `workerStart`, `monitorStart`, `open`, `suspend`, `query` | the system service of that name may fail, each time it is asked |

Which of them a run allows is part of what the run shows.

*Fairness.* `FairSpec` asks for weak fairness of the caller, the monitor, every
worker, every thread's steps in the kernel and the thunk, and of `Tick`: Windows
schedules every thread that can run, system calls return, and time passes. A
suspended thread, a wait and a spin on a taken slot are not enabled and get
nothing from it. `AllocMonitor` asks for weak fairness of `main`, the worker and
the monitor, three threads that Windows schedules; their loops yield and are
outside the fair actions. Other runs use the specification without fairness.

## Runs

| Run | Instance | Shows |
|---|---|---|
| `ring` | 3 threads, 2 slots, any client | slots are never lost, captures dropped only for want of a slot, counters |
| `session` | 2 probes, 2 slots, 3 scripts, failures of every service | the contract (with liveness), and the record, query and frames are right, while system calls end in time |
| `session_slow` | 2 probes, calls that outlast every wait, suspension and query failing | the timeout paths: record whole, ring quiescent after each probe, armed for the worker alone, RunProbe returns, spinners released |
| `session_bystander` | 2 probes, 1 slot, workers that announce themselves too late, a third thread in the thunk | events joined, suspension scoped |
| `demo` | 64 layouts of three ntdll functions with 12 states of win32u, and 12 with the demo's three functions in them; every service failing | the catalog: every exported stub recovered with its number, indexes and queries agree, verdicts right; the demo: its verdicts, its exit code, its memory |
| `catalog_b8` | three stubs, one of service 0B8h | as below |
| `alloc` | four stubs, every service failing, 8 queries | what is judged is held and whole, main and monitor agree, memory is released, main returns |
| `signatures` | the table that is checked in with its 1259 names and 11 others; 62 sets of small headers, 2 sets of exports, 4 later headers | the filter against C, the rows against exports and the first declaration of each, the search, what is printed of a call that the query named |
| `late_worker`, `cross_thread`, `lost_release`, `stale_metadata` | as small as shows it | a statement of the repository that the code does not keep (below) |

*Bounds.* A race for a slot, a scan past a taken slot and a claim behind the
scan need two threads and two slots, a drop a third thread. Two probes are what
state left over from one probe, and a worker that outlives its probe, need: probes
share nothing but the globals and the frame, and the state between them is checked
to be clean (`Quiescent`). Scripts of no, one and two calls give the empty probe, the
ordinary one and a second call inside the window between the monitor's two
clears. Two query attempts give a retry and an exhausted retry. `MaxCallbacks`
stops new calls in the `ring` run once two have entered the thunk, when all three
threads may be under way; it is never reached elsewhere, where scripts are finite.
With the bound the ring may stop, hence `CHECK_DEADLOCK FALSE` in `ring`. In `session_bystander` and the runs
that expect a violation a thread may spin for ever: two captured threads may
follow each other in one slot, the second claiming it after a release and before
the first has read Free, and then nobody frees it; a bystander of the model may
be held up for any time. `session`, `session_slow`, `alloc`, `demo` and
`signatures` check for deadlock: the only places to stop are steps of their own
(`Closed`, `Exited`, `Failed`).

### Other bounds

Headers are a prototype, a block of one to three branches with a prototype or a
block of two branches in each, and a prototype, with every truth of every
condition; two more are cut off inside a block and begin outside of one. Seven
prototypes are dealt to the places for one in turn: they repeat a name with
another type, leave out Nt, and have a Wow64 name. Of the table that is checked
in nothing is left out. `ZeroNames` are the two services that have had number 0 and
one of the small headers; `CalledBeside` is a function without arguments and one with
six, so that a late query shows the words of either. The stubs of the allocation monitor are one of Windows
x64 with two numbers, one of them 0B8h, one that loads its number from memory and
one that ends before its syscall.

### Catalog bounds

The images are blocks of 32 bytes, the distance of stubs in Windows x64, and 96
bytes are read: the decoder runs over up to two neighbours. A block is a stub, a
function without a mov of the kind searched for, one that returns a constant
(a mov without a syscall), or one whose number is loaded from memory (a syscall
without a mov); all arrangements of three cover what can stand before and behind
a stub. Each stub is exported twice, as Nt and Zw, next to a forwarder and a
hole. The second module is loaded, loadable, missing, unreadable or without
exports. `ScanByteCount` and `ImmediateSize` have the code's values.

## What is proved

`tlapm` checks every theorem for all values of the constants that satisfy
the modules' named assumptions: any number of threads, slots, probes and calls,
any process, any headers and table, any set of faults. A theorem that needs more
says so by an operator of its own:

| Premise | Of | Says | Why it is needed |
|---|---|---|---|
| `OnlyProbesCall` | session | no thread but the workers makes a system call | `cross_thread` |
| `WorkersInTime` | session | workers announce themselves within five seconds; if the monitor may fail to start, no call or code is slow | `late_worker`, and `DetectorSession.cpp:377-384`, which ignores the result of its wait |
| `CodeInTime` | session | straight-line code takes less than five seconds | the monitor's deadline could pass before the ring is armed, and nobody disarm it; `lost_release` |
| `CallsInTime` | session | neither threads, calls nor code are slow | the caller's timeout frees the slot that the monitor has found |
| `PlainStubs` | catalog | the bytes of an exported stub read as one mov and one syscall | `catalog_b8` |
| `OrdinaryProcess` | demo | four things that hold in Windows, below | an export or a stub that is not what its name says |
| `StrictOrder` | lookup, arguments printed | names are compared by a strict order | the search is wrong for any other |
| `Prefixes`, `FiniteExports` | generator | what a prefix is; a module has finitely many exports | names are model values |
| `FirstMovLoads` | allocation monitor | the first byte of a stub that reads as a mov is its mov | `main` searches bytes and not instructions |

In each run of a property that is proved under a premise, the premise holds:
`session` has no bystander and no slow fault, `session_slow` has `slowCall` but
no monitor that fails to start, and the 76 processes of `demo` are ordinary.

*Ring* (`CallbackRingProofs`). `RingTypeCorrect` is inductive as it stands.
`SlotsAreHeld` needs only the types: the action that takes a slot puts the
thread in the thunk, and only `LeaveThunk`, which reads the slot as Free, lets
it go. `TurnsAwayOverflow` is the deep one. A drop happens when a thread has
scanned past the last slot; "every slot was taken at some moment" is no
contradiction by itself, since slots are freed and claimed behind the scan. The
invariant `Spread` counts the threads in the thunk that try or hold slot `k` or
a later one: when there are any, they are at most `|Threads| - k`. A thread only
moves from `k - 1` to `k` past a slot that another thread holds and that thread
is then behind it, so each step of a scan leaves somebody behind. At
`k = SlotCount` that is the property: those turned away are at most
`|Threads| - SlotCount`. `NothingDropped` is its case of a slot for every thread.
`CountersAddUp` is an inductive count of the threads between entry and capture.

*Session* (`DetectorSessionProofs`). The invariant is `TypeOK` and `IndexInv`,
which says that the monitor's index is a slot whenever it is used as one.
`SessionImplementsRing` shows that every step of the session is a step of
`RingNext` or leaves the ring alone, by which the ring's theorems hold in it.

*Safety* (`SessionSafetyProofs`). `SuspensionInScope` strengthens
`SuspensionScoped` with: the monitor runs only while the caller is between
starting and joining it. `ResultIsJoined` has an invariant over the caller's
phases: what has been joined at each of them stays joined until the next start.
`WorkersAreJoined` is proved under `WorkersInTime`, from an invariant that says
which worker may run at each of the caller's phases.

*Session and ring* (`SessionRingProofs`), under `OnlyProbesCall` throughout. The
invariants are built on one another. `PhaseInv` ties the caller's position to that
of the probe's worker: no other worker takes a step. `SoleInv` says that every other
thread is in user code; a slot in use is therefore the worker's, by `SlotsAreHeld`.
`FieldsInv` says which fields of its slot a thread has stored, by its program counter,
and `CopyInv` that nobody writes the slot while the monitor copies it: the worker
spins there, or, where the caller has timed out and has freed the slot between two
fields, the ring is disarmed and the worker, which has yet to pass the check of
Armed, can claim none (`RecordIsWhole`). This and `ArmedWhenEmpty`, that `Arm` meets
an empty ring and a waiting worker, need `WorkersInTime` alone.
`ArmedForOneWorker` and `QuietBetweenProbes` add `CodeInTime`: by `ArmedInv` whoever ends a probe disarms the ring first and frees
every slot after, and the worker is past the thunk when it has been joined; calls
may last as long as they like. `QueryOfRecord` and `QueriesSpinner` need
`CallsInTime`: by `HeldInv` nobody but the monitor frees the slot that it has found,
so that from the find to the query the thread spins on it.

`SessionKeepsContract` is the refinement of `ProbeContract`. That the event is of
the *first* system call of the probe is `FirstCapture`: until the monitor releases
a slot, a worker in user code has made no call, and one that has made a call is in
the kernel or the thunk with it, since the ring is armed before `Go`. `OutcomeInv`
says what the monitor's verdict may be at each of its positions, and each return of
`RunProbe` is then a step of the contract. Its liveness is left to TLC.

*Catalog* (`SyscallCatalogProofs`), for every process, whatever code its exports
name, every window and every size of the immediate. `CatalogInv` says what the
decoder has read so far: it holds the number of the last mov behind it, or none,
and has passed no syscall with a mov before it. Hence each entry's number is that
of the last mov before its syscall instruction, wherever its function begins:
two entries with one return address agree (`OneNumber`), and for a stub whose
bytes read as one mov and one syscall the entry is the stub's own
(`RightEntries`). `IndexesInv` says that both indexes have every entry, and nothing
that is not one, whatever later entries have replaced: with `OneNumber` the queries
agree (`QueriesFindTheSame`). `CoverInv` says that of every module scanned so far no
plain stub has been missed, and that the decoder, when it is at such a stub, has not
passed its syscall: `EveryStubRecovered`. Both stubs of `VerdictsRight` are then in
the catalog, and `RightVerdicts` follows from the indexes and `OneNumber`.

*Demo* (`DetectorDemoProofs`), for every process and under the types of what it
reads from the catalog. Memory is live only where an object exists that has its
address, and objects are destroyed from the last to the first: `DemoInv` says so
of each step of `main`, and that the allocation of a probe is the one constructed
last. At the exit no object is left. `DemoBuildsCatalog` shows that the demo is a
program over the catalog, by which the catalog's theorems hold in it. For
`ExitCodeTells` the process is an ordinary one: its exported stubs are plain
(`PlainStubs`), the functions to allocate and to protect with have one address each
(`OneAddress`), service numbers have 16 bits, as many as `SystemCallNumber` has
(`ShortNumbers`), and a mov of a stub's number elsewhere in memory has no other syscall
behind it (`OwnNumbers`; without it the syscall that the demo borrows from
the function that tells the time could stand behind the protecting service's number,
and a call through it be Clean without being that stub's). `JudgeInv` says that the
helpers have what the finished catalog answers, and that each event is the verdict of
its call or a failure that is reported as one; `SourceInv`, that an entry has the name
and the address of an export.

*Allocation monitor* (`AllocMonitorProofs`), for any stubs, any number of queries
and any faults. What ties the threads together are the flags: `ready` is set when
all fields are stored and the worker leaves the thunk only after `ack`, which the
monitor sets behind its last look. The invariant says what each flag implies of
the positions of the threads. `MainAgreesWithMonitor` needs in addition that
`stored` only grows, and that `main` judges after both are done.
`CallsTheService` is about the bytes of the stubs: under `FirstMovLoads` the first
candidate of the search is the stub's own mov (`FirstCandidate`), and by `NumberInv`
`main` has its number before the worker exists.

*Signatures* (`SignatureProofs`). `LookupCorrect` has as its premise
`StrictOrder`, that names are compared by a strict order. Its first half is that
the rows the script emits are sorted, since a row is appended for the least
export that is left; its second is the invariant of the search: what is before
`first` is less than the name, what is behind `first + count` is not.
`ArgumentsNotFabricated` adds what has been printed of which row (`PrintedInv`) and that
a sorted table has one row for a name (`OneRow`): the row found is then that of the call
whenever the query has named it, and no row is left to give it other types. Nothing is
claimed where the query named a later call, since the fifth and sixth word are then of
another, nor where it failed (`DetectorSession.cpp:614`, below).
`WordsAreDeclared` follows the table from the assertion of the compiler to the
print.

`FilterIsRight` needs no induction over the text, which the provers could not do:
what C makes of a line (`AllTaken`, `AnyHeld`) is defined by position and depth, and
like the script's stacks it changes from one line to the next. `StacksTell` says of
each depth that the two stacks hold just these values, and there is a lemma for each
directive that it is kept. `TableIsOfHeaders` follows the prototypes that are kept
through the three stages of the script (`TableOfHeaders`): at each of them what has
been gathered is the image of what has been read, and the exports that are left have
no row yet, so that the rows count the exports. That a row has the types of the *first*
declaration is `OrderInv`: the lines that are left to extract come behind those that
have been, in the order of the headers.

Every invariant and every action property that a passing run checks is so proved,
and the safety of `ImplementsContract`. Only model-checked are `RunProbeReturns`,
`SpinnerReleased` and `Returns`, and that the session answers each call that its
contract asks an answer of, since liveness under fairness is out of the prover's
reach. What the model leaves out (below) the theorems leave out too.

## Disagreements with the repository's own statements

* `late_worker` - "single-flight by design" does not survive a start that times
  out: the abandoned worker sets the target, and a flag of a frame that is gone.
* `cross_thread` - nor a thread that was between the thunk's two checks when a
  reset made the target 0, which stands for every thread.
* `lost_release` - a release while the thunk is writing its slot is lost. It
  takes a thread held up inside the thunk for longer than two timeouts.
* `catalog_b8` - "the user-mode stubs still carry mov eax, id" is what the decoder
  relies on, but it goes on inside the immediate it has just read: for an id whose
  low byte is 0B8h it recovers a number that no service has, and calls of that
  service are `UnknownSyscall`.
* `stale_metadata` - "the project fails at compile time instead of silently printing
  stale argument metadata" is what an assertion on the number of arguments is for.
  A type that changes changes no number, and its old spelling is printed.

Three more are seen in the model and have no run of their own.

* A comment says the queried thread is "spinning on its slot state". With `slowCall`,
  when a call returns just as the caller's wait for the monitor ends, the caller frees
  the slot that the monitor has found; the thread may make a further call before it is
  suspended, and the query names that one. `QueryMatchesRecord` and
  `QueriedWhileSpinning` are therefore checked where calls end in time, and are not
  claimed with `slowCall`, nor with a bystander that runs beside a late worker.
* The thread of `cross_thread` may also claim a slot that the reset has freed and not
  yet zeroed. Its return address is stored, then zeroed, and its call, through its own
  stub, is judged raw. `RecordIntact` is therefore checked where only workers call.
* README says that argument 1 is captured "through `ThreadLastSystemCall`"
  (`src/README.md:124`). When the thread cannot be opened, suspended or queried,
  `Classify` formats all the same, before it looks at the status, by the signature of
  the service whose number is 0: beside the verdict `QueryFailed` it prints a first
  argument of 0 and, where that service has more than four, the stack words of another's
  call as its fifth and sixth. `NothingFabricated` is therefore claimed of a query that
  named the call, and of no other.

## Not modelled, and what the model leaves out

* `SuspendThread` takes effect at once. In Windows it may take effect a little
  later, which is why the code retries the query 64 times; the thread spins
  meanwhile. A thread id is never reused within the life of the session.
* The caller's and the monitor's own system calls also enter the thunk. While the
  target is a worker they pass the target check like any bystander; a bystander
  thread of the model is what stands for them.
* Locks of the process (heap, loader) and the kernel's own waits.
* `ProbeStatus`, statuses and texts of events; the catalog's answers are the
  constants `ReturnOwner` and `Catalogued`.
* The generator's regular expressions, its evaluation of conditions, and its
  reading of exports from `dumpbin` or a PE file. Conditions are taken to hold for
  the script as they do for the compiler, so that what differs between the two is
  the script's doing. Names of arguments and the digits of values are left out of
  what is printed. Vendored declarations are external.
* The demo's probes make one system call each, and their workers start in time: a
  worker that starts late could allocate after `main` has given up on it, or write
  to a frame of `main` that is gone, which is the case of `late_worker`.
  Allocating and protecting are taken to be stubs in ntdll (`ServicesAreStubs`);
  `NtQuerySystemTime`, which Windows may answer without a system call, is not, and
  then the demo ends with its setup exit code or, with another function's syscall
  instruction, as `ExitTellsDetection` says.
* In the allocation monitor: values that are only printed, with `g_AllocCbCount`,
  and what `ThreadLastSystemCall` says of a thread that is not suspended, which is
  left open.

## Plan

Modules were written in the order of what is hardest to test: the ring
(`CallbackRing`), its client (`DetectorSession`, against `ProbeContract`), the
catalog that gives the verdicts (`SyscallCatalog`), the standalone monitor
(`AllocMonitor`), the life of the signatures (`SignatureGenerator`,
`SignatureLookup`), and the demo over a catalog (`DetectorDemo`). What is left:

1. A session whose `ReturnOwner` and `Catalogued` are the answers of a catalog
   that is built in the same behaviour; today `DetectorDemo` takes the session as
   its contract and `DetectorSession` the catalog as its constants.
2. The assumption `OnlyProbesCall` is stronger than the query needs once the
   monitor has found a slot of the worker; which of the theorems of
   `SessionRingProofs` hold with bystanders that never meet a target of 0 is open.
3. The hazards of `PROJECT.json` that no property covers, each with its reason.
