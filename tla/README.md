# A verification of the Sedona debug VM

The repository is the Sedona virtual machine (`src/svm`, `src/natives`,
`src/main.c`) with a JDWP server built into it (`src/jdwp`), so that a Java
debugger can attach to a running Sedona application. This directory holds TLA+
modules translated from that code, TLC configurations that check them on small
instances, and TLAPS proofs of the results that matter most.

## 1. The system

One process, two threads that matter:

* the **VM thread** interprets Sedona bytecode (`vmCallDebug`, vm.c:550). Before
  every opcode it checks for a null pointer and a full stack, asks the event
  dispatcher whether an event is pending (`check_forEvents`), and stays in a
  suspend loop while a counter is not zero (vm.c:631-639);
* the **JDWP thread** (`onHandShake`, `onReceive`, mainHandler.c:2159-2216)
  reads one command packet after another from the debugger's socket and runs
  the handler of each.

They share memory with almost no locks: the suspend counter, the hold flag, the
list of event requests (one mutex, eventDispatcher.c), the packet-id counter
(one mutex, packetHandler.c), the event-request counter (none) and the socket.

| component | state | operations | what makes it correct |
|---|---|---|---|
| suspend control (vm.c:77-240, 511-650) | `suspendCounter` (u1), the VM thread's position | suspend, resume, isVM_Suspended, the loop before every opcode, exceptions | suspensions are counted; the VM comes back to its opcodes; nothing runs before VM_INIT |
| main handler (mainHandler.c) | `_MPacket`, `init_jdwp`, the socket | handshake, receive, 18 command sets, error replies | one answer per command, handlers return, VM_INIT first |
| event dispatcher (eventDispatcher.c) | `eList`, `HOLD_EVENTS`, `_erTHREAD_START`, `eventRequestid_count` | add, remove, removeAll, hold, dispatchAll, dispatch, check_forEvents | a pending request is reported, once, under its policy; ids are unique |
| packet codec (packetHandler.c) | `PACKET_ID_UNIQUE`, packet buffers, lists of parts | new packet, readers, writers, growth, splicing lists | ids are unique; a writer never leaves its block; what is sent is what was written |
| reference types (refTypHandler.c), objects (objectHandler.c) | tables of classes, methods, fields; list of object ids | add, find by id, name or signature, dispose | what was added is found; ids are stable |
| debug files, initializer (fileManager.c, initializer.c) | line buffer of `jbases.meta` | fill the registry | every method gets its id |
| interpreter (vm.c, scode.h) | stack, frames, `vm->sp`, the C locals of each activation | opcodes, calls, returns, natives that call back | a call returns to where it came from and finds its cells; at most one frame lies behind the block before the check sees it |
| start-up and platform mode (main.c) | image, staged files | load, run, hibernate, restart, install staged files | after a restart there is an image to load |
| sockets (inet_*_std.c) | `closed`, `socket` per object | connect, bind, accept, read, write, close | a closed object owns no socket |
| file store (sys_FileStore_std.c) | open files with their buffers | open, read, write, seek, flush, close, rename | what was said to be written is there |
| other natives, tables, vendored SHA-1 | none | single calls | – |

The behaviours that are hard here: unlocked read-modify-write of the counter by
two threads; the VM thread resuming itself inside its own loop; flags read
before they are used (`canDispatchAll`, `_erTHREAD_START`); requests set and
cleared while they are being dispatched; a list whose end is not initialised;
packets sent by two threads; a debugger that goes away at any moment; natives
that call the interpreter again on the stack they were called from; blocks that
move while a packet is built; a process killed between `remove` and `rename`.
PROJECT.json lists each under "hazards" at the line where it bites.

## 2. Modules

| module | what it is |
|---|---|
| `EventList` | operators: the event requests, the walks the dispatcher makes of its list (`internal_remove`, `get_by_suspendPolicy`), as the code makes them |
| `DebugSession` | the two threads and all they share, one action per step another thread can see |
| `EventReporting` | the abstract specification: a request is registered, armed, reported at most once |
| `MCDebugSession` | the commands each TLC run lets the debugger send |
| `DebugSession_proofs` | theorems about `DebugSession` and their proofs |
| `Reporting_proofs` | EXTENDS it: that `DebugSession` implements `EventReporting` |
| `RefTypes` | the registry of classes and its loading from `jbases.meta` |
| `Answers` | EXTENDS `RefTypes`: what each command set answers |
| `MCAnswers`, `Answers_proofs` | its TLC instance: the lines the file may have; theorems about both modules and their proofs |
| `Recursion` | induction and recursion over an interval, for the proofs |
| `Sockets` | the three socket classes and the kernel's descriptors |
| `MCSockets`, `Sockets_proofs` | its TLC instance; its theorems and their proofs |
| `Opcodes` | what every opcode of the image takes from the stack and leaves there |
| `CallStack` | EXTENDS `Opcodes`: the interpreter's stack, frame by frame, and the activations below a native |
| `MCCallStack`, `CallStack_proofs` | its TLC instance; its theorems and their proofs |
| `Packets` | blocks, headers, readers, writers, lists of the packet codec |
| `MCPackets`, `Packets_proofs` | its TLC instance; its theorems and their proofs |
| `FileStore` | the natives of `sys::FileStore` and `sys::File` over a file system and the C library's buffers |
| `Platform` | EXTENDS `FileStore`: the process of main.c, its staging and restarts, kills, and the application |
| `MCPlatform`, `Platform_proofs` | its TLC instance; its theorems and their proofs |

### DebugSession

Each thread has a program counter `pc` for its own loop and a sequence `todo` of
calls it still has to make. A command's handler *is* the sequence of calls it
makes, in the code's order: `onSend_CS_VM_Resume(n)` is
`<<Reply(n, ..), Resume>>` because mainHandler.c:329-333 sends the reply first.
A call that reads a shared variable and writes it later takes two steps
(`SuspendLoad`/`SuspendStore` for `suspendCounter++`), so the other thread may
come in between; `sub` and `tmp` say how far it is and what it read. A critical
section of the list's mutex is one step; the packet-id mutex is modelled as
such, because the property about ids rests on it.

| actions | code |
|---|---|
| `onHandShake`, `release_jdwpInitHalt`, `onReceive`, `Disconnect` | mainHandler.c:2140-2216, 2277-2281 |
| `onCommand` and the `onSend_...` operators | the handlers of mainHandler.c that change state |
| `SuspendLoad/Store`, `ResumeLoad/Store` | vm.c:184-198 |
| `GenIdLoad/Store`, `SendEvent` | packetHandler.c:105-129, mainHandler.c:2386-2398 |
| `NewEventLoad/Store` | eventDispatcher.c:375-381 |
| `NoteThreadStart`, `InsertRequest`, `RemoveRequest`, `RemoveAllRound/Done`, `HoldEvents`, `MarkDispatched`, `StartIfLast` | eventDispatcher.c:383-486, mainHandler.c:1327-1343 |
| `LeaveInitHalt`, `PassChecks`, `RaiseException`, `check_forEvents`, `EnterSuspendLoop`, `PassHold`, `dispatchAll`, `LeaveSuspendLoop`, `ExecOpcode`, `ReturnFromMain` | vm.c:513-533, 614-650, 228-242, mainHandler.c:2359-2362, eventDispatcher.c:350-372, 488-523 |
| `Spin` | waiting (the handshake, held events) and the ended process |

Abstractions. `Query` stands for every command that answers with one packet and
changes none of this state, `Silent` for those that send nothing. A request has
at most one modifier of those that matter (`unknownClass`: the class pattern
names no class; `exceptionOnly`: the modifier that marks it removed). The
history variables `events` and `replies` are the packets on the wire; no code
reads them. A dereference of an unterminated list end or of a NULL `_MPacket`
ends the process. `PACKET_ID_UNIQUE` and `eventRequestid_count` are u4 and do not
wrap in the model (2^32 packets); `suspendCounter` does, at `CounterMod`.

### RefTypes and Answers

Both are sequential: the registry is filled before the JDWP server starts and is
only read afterwards, and commands are handled one by one. `RefTypes` has an
action per line of `jbases.meta` (`progress_jbase_line`) and one for the main class
(`init_mainHandler`). A class record keeps what the code keeps, with the fields
nothing sets: `Wild` is what such a superclass pointer may hold, `signature =
FALSE` says that a class has none, and arrays that start from an unset pointer may
end the process at their first member (`progress_jbase_line_aborts`). Tables of
members carry the size of their real block beside the field `max_...`.

`Answers` has an operator per command set, and one per handler that looks at
state. A packet is its error code and the class ids it names; `last` is the last
command with its packets, history that no handler reads. Handlers that answer
with constants, with NOT_IMPLEMENTED or with nothing are `Constant`,
`NotImplemented` and `Nothing`. Some handlers refuse ids the debugger was told of
before: `NestedTypes` every class, `Suspend`, `Resume` and `FrameCount` two of the three
threads that `AllThreads` names; `Refusals` says which, and that no others do. What
commands do to the VM thread is left to
`DebugSession`. A dereference of NULL ends the process (`Crash`); so may one of an
unset pointer.

| operators | code |
|---|---|
| `add_member`, `ById`, `find_ByClazzname`, `add_RefTypeID`, `add_ref` | refTypHandler.c |
| `progress_jbase_line`, `superOf`, `interfacesOf`, `main_class` | initializer.c |
| `onCSVirtualMachine` .. `onCSEventRequest`, `onCommand`, `onPacket` | mainHandler.c:205-2138 |

### Sockets

A socket object is two fields of a Sedona component, `closed` and `socket`; the
kernel owns the descriptors (`open`, `nonBlocking`) and may give a closed one out
again at once. The VM calls natives from one thread, so a call is one step, with
a disjunct for each way it returns.

| actions | code |
|---|---|
| `TcpConnect`, `TcpFinishConnect`, `TcpWrite`, `TcpRead`, `TcpClose` | inet_TcpSocket_std.c |
| `ServerBind`, `ServerAccept`, `GuardedClose` | inet_TcpServerSocket_std.c |
| `UdpOpen`, `UdpCall`, `GuardedClose` | inet_UdpSocket_std.c |

`Keep` and `Drop` are the statements by which an object takes a descriptor and
lets it go. Two variables are history that no native reads: `last` is the last
call with what it returned, and `careful` says whether the application has kept
the rule the natives rely on and do not test, to connect and accept only into an
object that holds no descriptor. What is sent and received, addresses and ports
are left out.

### Opcodes and CallStack

`vmCallDebug` (vm.c:548-1425) is the interpreter the debug build runs. `vmCall`
(vm.c:1454-2338) is the same text without the calls of the debugger and with the
null and overflow checks only under `SCODE_DEBUG`; it is not mapped.

The stack is one block of cells, `mem`, of exactly the `MaxStack` that main.c:265
allocates (`Block`). The overflow check comes before an opcode, for what the one before
has pushed, so the C locals may point behind the block, by one frame at most (`Reach`,
bounded by `Room`): a word stored there is another's memory. It is not in `mem`, a word
read there may be any, and the process may end by it (`Overrun`). `cpu` holds the C locals of `vmCallDebug`
(`sp`, `cp`, `fp`, `pp`, `lp` and the counts from the method's header). A native may
call `vm->call`: the C locals of the old activation then wait in `acts` while a new
one starts at `vm->sp` (`vmsp`). The image is left open: any opcode may follow any
other, provided its operands lie above the locals, which is the compiler's promise.

| actions | code |
|---|---|
| `vmRun`, `vmResume`, `Activate` | vm.c:228-279, the head of `vmCallDebug` (571-601) |
| `Fetch`, `handleNullPointer`, `handleStackOverflow` | the checks before every opcode, vm.c:513-533, 613-621 |
| `Op` with the sets of `Opcodes` | the opcodes that stay in the method and touch only the top of the stack, by groups as scode.h groups them |
| `InitArray` | the opcode that writes the references of an array through an address on the stack |
| `LoadParam`, `LoadLocal`, `StoreParam`, `StoreLocal` | the opcodes of parameters and locals |
| `Call`, `LoadParam0Call`, `CallVirtual`, `Return` | the label `call` and the three returns |
| `CallNative`, `NativeCalls`, `NativeReturns`, `MissingNative` | the three native calls and what a native may do |
| `Leave`, `Dies`, `Overrun` | the returns of `vmCallDebug`; a dereference of NULL; what lay behind the block was another's |
| `add_frame` | the debugger's list of frames, `dbg`: vm.c:595-596 |

An opcode is a record: words taken, words left, the cell it dereferences and the
cell `OpcodePointerOffsets` (scode.h:827) has tested for NULL before it runs. `InitArray`,
`InitVirt`, `InitComp` and `CallVirtual` have no entry there and go through a pointer: with
a NULL the process ends. Opcodes with the same
effect are one member of a set. Values are numbers of a small set, because the union
`Cell` lets any of them be read as an address. The history variable `frames` records
the methods entered and not yet left; no action reads from it what the code reads
from the stack: a return takes address, frame and method from the links in `mem`,
and only the properties compare the two.

### Packets

One builder is enough: a packet belongs to one thread until it is sent and freed.
`in` is `_MPacket`, `p` the packet being written, `list` the parts of a packet list,
`rest` the parts that `write_list` still has to copy. A writer is a record: what it
asks `ensurePacketCap` for, and the words it then appends, one step each
(`Write`, `WriteNext`). `write_packet` is `Grow` (the doubling) and `Copy`. A number
on the wire is the tuple of its bytes, which keeps widths and byte order and costs
no arithmetic; only a string's length and the words of eight bytes are turned into a
number and back (`Number`). A byte of a block nobody has written is `Unset`, so an answer that
leaks one differs from what was asked for. The history variables `head`, `body` and
`parts` are the bytes the handler asked for, `over` that a byte fell outside its
block. No handler calls `read_utf`, `newPacketFromList` and `isPacketCommand`, and they
are left out; a reply sent by the debugger is answered with an error (`Query` of
`DebugSession`).

| actions | code |
|---|---|
| `onReceive`, `ReadNext` | packetHandler.c: `newPacketFromHeaderPayload` and the readers |
| `NewPart`, `add_Packet`, `newReply`, `NewComposite` | the constructors and the list |
| `Write`, `WriteNext`, `write_list`, `Grow`, `Copy` | the writers, `ensurePacketCap`, `write_packet`, `write_list` |
| `jdwpSend_error`, `jdwpSend` | mainHandler.c:2283-2310, 2386-2398 |

### FileStore and Platform

A name leads to an inode, an open FILE keeps its inode when the name goes to another
one, and what is written stays in the FILE's buffer until the library writes it out:
at a flush, a seek, a close, at exit, or whenever it likes (`StdioDrains`). The disk may be full at any of these: a part
of the buffer reaches the file and the rest is dropped (`Drops`). A write, a seek or a
close that has to write out answers that it failed (`Refused`); a flush has no answer
(sys_FileStore_std.c:341 ignores that of `fflush`), and nobody hears of what is dropped
at exit or when the library writes out on its own. A kill loses buffers. `FileStore` has no `Next` of its own; `Platform`
composes its natives with the process.

| actions | code |
|---|---|
| `doOpenRead/Write/Modify`, `doRead`, `doWrite`, `doSeek`, `doFlush`, `doClose`, `renameRemoves`, `renameMoves`, `File_rename` | sys_FileStore_std.c |
| `Start`, `checkStaged`, `checkStaged_remove`, `checkStaged_rename`, `commonVmSetup`, `vmRun`, `mainReturns`, `Exit` | main.c |
| `vmExit` | `exit` on the debugger's thread |
| `Kill` | the process is killed between any two steps |
| `Application` | what the Sedona program may ask of the natives while it runs |

`remove` and `rename` are two steps in both places, and each may fail where the code
ignores the result. The application is open, with two rules it keeps (`Own`,
`MayStage`): it writes no installed or staged file, and gives a staged name only to a
file it has closed, of which every native said that it is whole. `told`, `doubted` and `lost` are
history: what a file holds as far as the natives said, where they said that they did
not do all, and where bytes were dropped without a word.

## 3. Runs

| run | properties | what it shows |
|---|---|---|
| `sessions` | `TypeOK`, `VMInitFirst`, `PendingIsReported`, `VMProgress`, `HandlersFinish` | every call on counter, hold flag and process, requests set and cleared, an exception of the VM thread, both threads scheduled: safety and liveness |
| `requests` | `PacketIdsUnique`, `ReportedOnce`, `CompositePolicy`, `RequestIdsUnique`, `ImplementsReporting` | three commands that make, clear and report requests; the refinement of `EventReporting` |
| `lost_suspension` | `SuspensionsCounted` (violated) | two increments at once, one is lost (vm.c:185) |
| `resume_suspends` | `ResumeNeverSuspends` (violated) | the guard of vm.c:195 tests a function's address; 0 becomes 255 |
| `suspended_runs` | `StaysSuspended` (violated) | the VM is suspended once and never resumed, and goes on: its own loop resumes it (vm.c:638) |
| `answers` | `TypeOK`, `LookupExact`, `HierarchyEarlier`, `TablesHold`, `AnsweredOnce`, `RepliesNameClasses`, `Refusals`, `IdsKeepTheirClass` | every short file, then every command: what an answer names is found later, under the same id for good, and refused by the handlers that say so and no others |
| `by_signature` | `SignatureMatches` (violated) | every signature finds the newest class (refTypHandler.c:492) |
| `sockets` | `TypeOK`, `HandlesApart`, `NeverBlocks`, `NothingLeaked`, `OthersStayOpen` | descriptors and objects never get out of step, whatever fails |
| `frames` | `TypeOK`, `LocalsOfTopFrame`, `LinksIntact`, `CallbackStartsAbove`, `StorageNeverNull`, `DebuggerSeesMain`, `CallersKeepTheirCells`, `ReturnsToItsCall` | every opcode on methods that call each other, natives and, through natives, the interpreter again |
| `platform` | `TypeOK`, `Recoverable`, `StagedIsRun`, `ClosedMeansKept` | both modes, with kills between any two steps, a disk that may be full and calls that fail: what the next start finds |
| `packets` | `TypeOK`, `InBlock`, `SentAsWritten`, `ReadAsWritten`, `ListIsCopied` | commands read, answers, lists and composites built, through every reallocation |
| `error_length` | `LengthAnnounced` (violated) | an error answer goes out without its length ever being written |

Bounds. `MaxCommands` is 2 or 3: every hazard listed needs at most two commands
and a request already made, and `requests` has three so that a request can be
set, another set or cleared, and a resume follow; the violation runs need one or two.
`MaxExceptions` is 0 or 1: one exception races with everything the JDWP thread does.
`CounterMod` is 3 or 4 in the passing runs: the counter passes through every value,
wraps both ways, and 256 only adds rounds of the same loop; the violation runs use the
code's 256. Of handlers that make the same calls `sessions` has one. The
kinds of events are four: THREAD_START (handled apart by the code), BREAKPOINT
(cleared as a group), CLASS_PREPARE (a packet that may be empty), EXCEPTION
(stored untriggered).

`VMProgress` promises progress only while nobody asked the VM to stand still: neither
the debugger (a Suspend not yet resumed, held events) nor an event with a policy. That
the VM goes on though it should stand still is not progress but the disagreement of
`suspended_runs`: mainHandler.c:328 says that a thread suspended n times must be resumed
n times.

`answers` reads files of up to three lines out of four: an interface with a method,
a class with an interface that exists and one that does not, a class below a class
that may come later, and one below itself; any may occur twice, as in the real
file. Three lines hold every order of two references. The class with three fields
makes its table grow twice, and `U2` is 16. The debugger asks about every
registered id and two that are not. The process may end there, so deadlock is not
checked in these two runs.

More disagreements and defects have no run, most of them noted among the hazards: a request of
policy SP_NONE suspends all the same (eventDispatcher.c:366), a held THREAD_START leaves
nevertheless, a call stores its frame behind the block before the check sees it
(vm.c:620), four opcodes go through a NULL the table does not check (scode.h:827), and a
failed read keeps the descriptor its comment says it closes (inet_TcpSocket_std.c:186-187).

`sockets` has two TCP objects, a server and a datagram socket over three
descriptors: one object's descriptor can be given to any other, and the process
can run out. More objects add no new pair.

`frames` has a block of 12 cells, five behind it that the C locals may point at (the
largest frame) and that hold nothing, and four methods: main and resume
with two parameters (the only entries), one with a parameter and a local, one with
neither. Twelve cells hold three frames of the smaller methods above main, so a
callback can be called from a callback and the overflow come at any depth; after
an overflow there is nothing left to explore, so a larger block only repeats it.
Values are 0 (NULL) and 255, addresses 1 and 2. A native takes one word. The run has
1.3 million states. Deadlock is not checked: the process may end.

`platform` has three inodes (one more than the installed files, so a freed one is
taken again by a successor), two FILEs (two on the same inode), files of at most one
byte, of which a whole image has one, two restarts within a process, and a
directory that is not there. Inodes and FILEs are symmetric: no definition tells
them apart. The disk may be full at any write. A byte value of 257 is what
distinguishes a stored byte from the value it was given. The run has 2.65 million
states. The application may end, so deadlock is not checked.

`packets` asks for blocks smaller than what is then written, the case that makes
every writer and `write_packet` grow; a packet takes a further item while it has at
most one byte, so that each writer is the first and the second to write; a list has up
to two parts. Items are a byte, a location (its own estimate of 15 is exact), a
string and a utf string with characters of one, two and three bytes. The three commands
have no data, words of one, two, four and eight bytes, and a word between a string and
an empty one. `Fairness` is weak fairness of `Grow \/ Copy`: a thread inside
`write_list` goes on.

Fairness. `FairSpec` assumes weak fairness of each thread: the operating system
schedules both, and no step of either needs the other's luck. The debugger is
under no fairness: it may stop sending, or disconnect, at any moment. `Spin`
makes waiting a step, so TLC's deadlock check stays on in the runs of
`DebugSession`: a state where neither thread has a step is an error.

## 4. Proofs

`DebugSession_proofs` proves, for every value of the constants that satisfies
`KindsAssumption` and `SessionAssumption`:

* `TypeCorrect`: `Spec => []TypeOK`. `TypeOK` is inductive; one lemma types the
  calls of every handler (`Handlers`), one each the steps of the threads.
* `PacketIdsAreUnique`: `Spec => []PacketIdsUnique`. The inductive invariant
  `IdInv` adds that an id being taken is held with the mutex (`LockHeld`), that
  what was read is the current counter (`FreshId`), that ids taken and not yet
  sent are below the counter and differ between threads (`ReadyId`,
  `ReadyApart`) and that sent ids are below it (`SentIds`).
* `VMInitIsFirst`: `Spec => []VMInitFirst`. `InitInv` adds that the VM thread has
  no calls until `init_jdwp`, that this is set only after the first event left,
  and that until then the only call of the JDWP thread is to send VM_INIT.
* `ReportsOnce`: `Spec => []ReportedOnce`, and `PolicyKept`:
  `Spec => []CompositePolicy`. One invariant, `ReportInv`, carries both: what
  was sent (`SentTruth`) and what waits in a thread's `todo` (`QueuedTruth`) has
  the policy of the requests it names, each of them marked dispatched already;
  only the VM thread dispatches (`OnlyVMDispatches`), and what waits names no
  request that waits elsewhere or was sent (`QueuedApart`).

`Reporting_proofs`, from the same assumptions:

* `ReportingImplemented`: `Spec => ImplementsReporting`. The mapping takes the list
  as the registered requests, the pending ones as armed and those in composites, sent
  or waiting in `todo`, as reported. `Reporting` adds to the invariants above where
  the request in the hands of ER_Set is: the handler makes it first and adds it once
  (`Ordered`), a packet makes at most one (so a handle is one of `1 .. MaxCommands`),
  and once made and not yet added it is in no list and in no composite (`SetInv`);
  and the VM thread's sends that are no composites name no request (`VMSends`). Each
  action is then one of five changes of the abstract variables, one lemma each
  (`MapsStutter`, `MapsRegister`, `MapsDrop`, `MapsDisarm`, `MapsReport`). The step
  that sends a composite is a stutter: its requests leave `todo` for the wire.

`Sockets_proofs` proves, for any sets of objects and descriptors that satisfy
`SocketsAssumption`, `TypeCorrect`, `HandlesStayApart`, `VMNeverBlocks`, `NoLeak`
and `NoForeignClose`. The invariant `Inv` is the conjunction of the four checked
ones and of `GuardedClosed`: an object of the two classes whose natives look at
`closed` before they act is closed exactly while it has no descriptor. It is
needed because bind and open overwrite the field after looking at `closed` only.
Every step has one of four effects on the objects (`Untouched`, `Kept`, `Marked`,
`Drop`; lemma `Effects`), and each conjunct is shown for the effects.

`CallStack_proofs` proves, for every image, block and bound that satisfies the
module's assumptions, the invariants and both action properties of `frames`:
`TypeCorrect`, `LocalsAreTheTops`, `LinksStayIntact`, `CallbacksAbove`,
`NoNullInStorage`, `DebuggerIsToldMain`, `CellsAreKept`, `ReturnsAreRight`.
`NoNullInStorage` speaks of the opcodes that have an entry in the table of pointer
offsets; the four that go through a pointer without one may end the process, and the
model lets them. `TypeCorrect` bounds by how much the C locals leave the block. That the links of a frame are intact is not inductive: an opcode
writes cells, and nothing in the property says that these are not the links. The
invariant `IInv` adds where frames lie (`Arranged`: each above the locals of the
one below, the topmost below `sp`), that the links in memory are those of `frames`
(`LinksOK`), and that the C locals of every activation, the running one (`Running`)
and those that wait below a native (`Waiting`), are the topmost frame of their
activation, which a numbering of the frames by activation expresses; `Bottom` and
`Modes` say what the entries of an activation and the checks before an opcode leave.
Every step is one of four: it stays in the topmost frame (`Stays`), enters a
method, returns, or leaves the activation, and one lemma preserves `IInv` for each.
A callback may not run into the frames that wait because `vm->sp` was saved before
the native was called (vm.c:1226). The two action properties follow from what these
lemmas say of a step (`StepRight`).

`Packets_proofs` proves, for any items, estimates and bounds, `PacketsTyped`,
`StoresInBlock` and `NothingLostOnTheWay`. `IInv` adds to the three properties
where the writer stands between two steps (`Flow`), that the header of a block is
the one written (`Headed`), what the writer has yet to append (`Appends`), which
parts `write_list` has still to copy (`Parts`) and that the command is read inside
its block (`Reads`). That `SentAsWritten` survives a reallocation rests on one
lemma about stores: a store at the offset extends the bytes below it.

`FieldsReadRight` proves `ReadAsWritten` for every set of commands that satisfies
`PlainRequests`: each is words and strings one after the other, of any length, with words
of eight bytes below 2^31. That bound is one of the model's numbers, which TLC keeps in
32 bits. TLC evaluates `PlainRequests` for the commands of its instance. `ReadInv` says
that the position in the block is where the next field begins (`Reading`), which needs
what flattening a sequence of sequences gives (`PiecesOf`) and that the four bytes before
a string are its length (`NumberOf`, `CountedRead`).

`Answers_proofs` proves, for any file of classes and any threads that satisfy
`RegistryAssumption` and `ThreadsAssumption`, every property of `answers`:
`TypeCorrect`, `LookupsAreExact`, `HierarchyHasNoCycle`, `AnswersAreSingle`,
`AnswersNameClasses`, `RefusalsHold`, `IdsAreStable`, and, with the U2 = 65536 of the
code, `TablesSuffice`. `LookupExact` and `HierarchyEarlier` are not inductive;
`RegistryInv` adds that the id counter counts the lines read (`Counted`), that it is
above every id given, ids fall along the list and a class refers only to classes
behind it in the list (`Linked`), and what each stage of the start has done
(`Stages`). `Inv` adds that the last answer was right when it was given (`Right`).
Every command has one effect, `Answered`: the registry stays, and the packets are
single, name classes, and refuse whom their handler refuses (`Refused`). `TablesSuffice` needs tables of
fewer than 65535 members: `add_member` grows a full table to 2 * (max + 1) in 16
bits, and from 65534 that is 65534 again (refTypHandler.c:117-157).

A walk along a list by an index is a least element of a set of naturals
(`LeastElement` of `Recursion`). A recursive function is given its equations by
`Recursive`, and what it computes is shown by `Induction`: both speak of sets in
the place of predicates, which is what the provers can instantiate.

`Platform_proofs` proves, for any names, inodes, FILEs, blocks and file sizes that
satisfy `FileAssumption` and `PlatformAssumption` (installed files lie in the working
directory, no file is another's stage), `TypeCorrect`, `FilesAreWhole`
(`Recoverable`), `NothingStaysStaged` (`StagedIsRun`) and `ClosedFilesKeep`
(`ClosedMeansKept`). Both `Recoverable` and `ClosedMeansKept` exclude the files of which bytes were dropped
without a word (`lost`): of those neither holds. `ClosedMeansKept` speaks of files nobody
writes and says nothing of the steps before; `Said` does: while one FILE writes an inode
whose bytes were neither doubted nor lost (`Unsure`), what was said of it is the data
overlaid with that FILE's buffer (`SaidOf`), so that any drain, at any time, leaves it
true (lemma `Flushing`), a write extends both sides alike (`OverlayAppended`), and a full
disk takes the inode out of the claim (`Parted`, `DropUses`, `NotDone`). `Recoverable` needs that whatever the VM may find
under a name it looks for is whole and written by nobody (`KeptAreGood`), the name
an unfinished rename of the application leads to included; that no two names lead to
one inode (`Distinct`), for else a truncation would reach an installed file; and
where a file may be missing while its stage takes its place (`Present`). `Pending`
and `ReadersPlain` are what these rest on. The natives that act on an open FILE are
one lemma (`Used`), the opens another (`OpenedOn`), the changes of names a third
(`Renamed`).

The assumptions on constants are evaluated by TLC in the run of each module.

Only model-checked: liveness (`PendingIsReported`, `VMProgress`, `HandlersFinish`,
`ListIsCopied`), which is out of the prover's reach; `RequestIdsUnique`, which holds in
sessions without exceptions only; and what the violation runs show.

## 5. Plan

1. `EventList`, `DebugSession`, `EventReporting`, their runs and theorems (done).
2. `RefTypes` and `Answers` (done).
3. `Packets` and its theorems (done). Left: the framing of packets over `recv`,
   which takes a short read for a whole one (mainHandler.c:2141).
4. `Opcodes`, `CallStack` and their theorems (done).
5. `Sockets`, `FileStore`, `Platform` and their theorems (done).
6. The theorems of `RefTypes` and `Answers`, and `ReadAsWritten` (done).

## 6. Not modelled, and why

* Component getters, setters and `invoke` of sys_Component.c beyond the callback they
  make (`NativeCalls`): they read or write one slot and keep no state.
* Other natives (strings, clocks, memory, SHA-1): single calls without state that
  outlives them.
* The JDWP tables (constant tables of commands, slots and error codes) and the native
  table: generated data.
* `read_utf`, `newPacketFromList` and `isPacketCommand` (packetHandler.c): no handler
  calls them. (`read_utf` allocates two characters for three bytes of its string, line
  687, too few for plain text.)
* What the modifiers of a request say, and so what an event carries: `Composite` says
  whether it has a payload. A CLASS_UNLOAD request for an unknown class reads through NULL
  when reported (eventDispatcher.c:238-240).
* `vmCall` (vm.c:1454-2338): the text of `vmCallDebug` without the debugger.
* Text: logging, signatures as strings, the line scanner of `jbases.meta`, the
  command line; the arithmetic inside opcodes.
* Windows-only branches are read with the POSIX ones and differ only in the names of
  the system calls.
