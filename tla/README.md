# Verification of SOI-labs

TLA+ models of the programs in this repository, the TLC runs that check them on
small instances, and TLAPS proofs of their main invariants for all values of the
constants. `PROJECT.json` lists components, runs, hazards, findings, theorems,
and the source lines each definition stands for.

    tlc -workers 2 -config sem_cases.cfg MCBufferSemaphores.tla
    tlapm BufferSemaphoresProofs.tla

## 1. Inventory

| part | state | operations | what is hard |
|---|---|---|---|
| lab 3, `lab3/main.cpp`, `monitor.h` | deque `buffer`, semaphore `mutex`, four private semaphores, four counters | `prodEven`, `prodOdd`, `consEven`, `consOdd`, up to eight threads | passing the critical section on, lost wake-ups, no re-check after a wait, starvation |
| lab 4, `lab4 synchronization` | the same buffer, entry semaphore `s`, four conditions with a semaphore `w` and `waitingCount` | `MyMonitor::putEven` etc. over `Monitor::enter/leave/wait/signal` | the signaller leaves the monitor and queues to come back |
| lab 2, ready list, `kernel/proc.c` | `rdy_head`, `rdy_tail`, `p_nextready`, `group` | `ready`, `unready`, `sched`, `do_setProcGroup`, `do_fork`, `do_xit` | pointer surgery in a singly linked list with stale pointers |
| lab 2, scheduler, `kernel/clock.c`, `proc.c` | `sched_ticks`, `prev_ptr`, `bill_ptr`, `p_int_blocked`, `p_int_held` | `clock_handler`, `do_clocktick`, `sched`, `interrupt`, `unhold`, `pick_proc` | interrupts between any two steps, unlocked variables, samples that go stale |
| lab 2, messages and signals, `proc.c`, `system.c` | `p_callerq`, `p_sendlink`, `p_flags`, `p_pending`, `sig_procs`, `proc_ptr` | `mini_send`, `mini_rec`, `interrupt`, `cause_sig`, `inform` | queues of callers, cycles of senders, killed senders, six flags that block a process |
| lab 6, `lab6 virtual disc` | superblock, inodes, two bitmaps in memory and on disk, directory blocks, current directory | the thirteen commands of the menu | hard links, recursive deletion, full disk in the middle of a command, restart |
| lab 2, system task, `kernel/system.c` | the same, `p_pendcount`, free slots | `do_fork`, `do_newmap`, `do_exec`, `do_xit`, `do_endsig`, `do_trace` | works on a process that is blocked, queued or signalled meanwhile; its buffer is shared with `inform` |
| lab 1, `mm/misc.c` | `mp_flags`, `mp_parent`, `mp_wpid` | four calls that count descendants; `do_svrctl`, which signs a server on | recursion over a table in which slots are reused and children adopted |
| lab 5 | a paper | - | - |

How the parts interact. The labs are independent programs. Inside labs 3 and 4
threads share the buffer, and semaphores carry the right to touch it. Inside lab
2 the clock interrupt and the clock task share `sched_ticks` and `prev_ptr` and
talk through `interrupt`/`receive`; the clock task, system task and interrupts
all change the ready list, in sections that `switching` or disabled interrupts
make atomic; `setProcGroup` reaches the kernel as a message of MM to the system
task. MM is told of signals by a message that the kernel itself sends; the
system task answers MM and FS, and blocks or releases processes that take part
in other calls at that time. In lab 6 the commands share the metadata in memory;
a run of the program hands over to the next one by what is saved.

What makes each part correct:

- labs 3, 4: an operation only happens on a buffer that satisfies its condition,
  one thread at a time; the right to enter is never lost or doubled; no thread
  that could run is forgotten; the program stops only if nothing can be done.
- ready list: exactly the runnable processes are on it, once, in the order the
  rule of the groups asks for.
- scheduler: a quantum is always running; no clock event is lost; the process
  that is charged is the one that ran; nobody keeps the processor for ever.
- kernel: who is blocked sending is queued at the one it sends to; nobody sleeps
  on a message, an interrupt or a signal that is there; senders never wait in a
  circle; who is ready is queued, and the first of them runs; every call is
  answered and every signal finished.
- counting of descendants: the table is a tree, and the four calls count in it
  what the tasks of the lab ask for.
- virtual disk: a block belongs to one file; link counts, superblock and tree
  agree, for names of the right kind; ending the program loses nothing but times.

## 2. Modules

| module | models |
|---|---|
| `ParityRules` | the conditions on the buffer and the operations, as pure operators |
| `ParityBuffer` | abstract specification: the buffer changes by whole, permitted operations |
| `BufferSemaphores` | lab 3, one action per access to a shared object |
| `BufferMonitor` | lab 4, the same with `monitor.h` in place of bare semaphores |
| `GroupQueue` | the queue of user processes as a sequence; the rule of `sched` as an operator |
| `UserQueue` | abstract specification of the queue's operations |
| `ReadyList` | the linked list of `proc.c`, refines `UserQueue` |
| `GroupScheduler` | clock interrupt, clock task and everything that moves user processes |
| `GroupTurns` | `GroupScheduler` closed by `test.c`: processes in endless loops |
| `KernelCalls` | what messages, interrupts, signals and the system task do to the kernel, as operators on a record |
| `KernelProcesses` | the kernel under arbitrary programs that it may be used by; abstract specification for the next |
| `KernelServers` | the kernel with the system task, the clock task, a driver, MM, FS and users; refines `KernelProcesses` |
| `KernelInvariants` | no more of the system: the inductive invariants of the last two modules, and relations that their proofs use |
| `VirtualDisk` | lab 6 |
| `ProcessTree` | lab 1, the table of processes |
| `DescendantCounts` | lab 1, the four calls that count in it |
| `MC*` | instances for TLC |
| `*Proofs` | the theorems |

Operators named `...Forgotten`, `...Unchecked` and the like, under a comment
that calls them faulty, are not part of any specification. They are bugs the
code could have had, used to see that each property notices one.

### Labs 3 and 4

`pc[t]` is the place of a thread in its loop; the head of each module lists the
places with the calls they stand for. A number is represented by its parity,
which is all the conditions read. `Init` chooses the test case (which threads
exist) and the initial buffer (empty, or `PreFill` numbers of any parity); code
that runs under `mutex` or in the monitor is cut at each semaphore operation and
at each access to buffer and counters.

Details a reader may stumble over:

- `canConsEven` evaluates `buffer.front()` before it tests the size. On an empty
  deque that is undefined, but whatever is read the size test decides; the model
  takes the condition as false on an empty buffer.
- `Chosen` picks the first kind of the if-cascade. The cascade leaves the
  thread's own kind out, so with two threads of a kind a waiter of that kind may
  stay while its colleague is about to enter: `NoLostWakeup` says exactly that.
- In lab 4 a signalling thread gives the monitor up and competes for `s` with
  newcomers. It only has to leave, so being overtaken is harmless.

### Lab 2

`ReadyList` keeps `rdy_head`, `rdy_tail` and every `p_nextready`, stale values
included. `Pointers` are those read one after the other from `rdy_head` on, and
`Chain`, the processes among them, is the refinement mapping to `UserQueue`. A
search along the list ends at the first process of `Chain` that meets its
condition; the `while` of `sched` is the function `loop` of `BringGroup`. Calls
are atomic because the code runs them in the kernel or under `switching`.
`state` sums up `p_flags` and `p_priority`.

`GroupScheduler` has the queue as a sequence (justified by the refinement above)
and adds time. `clock` is the place of the clock task; `Tick` is `clock_handler`
and is enabled at every one of these places. The decrement `--sched_ticks` of
`do_clocktick` is two actions (`Load`, `Store`), so that an interrupt between
them is lost as it would be on the machine. `sched` itself runs with `switching`
set: a tick at that place is held (`intHeld`) and given again by `Unhold`. What
CLOCK misses while it is busy is a flag (`intBlocked`) that `Receive` looks at.
All tasks and servers other than CLOCK are one Boolean, `system`: only whether
one of them is ready matters to user processes. The calls of these tasks are
atomic with respect to the clock task; `clock_task` places from `store` on
cannot be interleaved with them, since tasks are not preempted.

- `sched` reads `p_nextready->group` before it tests for NULL. Either value of
  the first comparison leads to that test, and address 0 of the kernel can be
  read on this machine, so the model takes the outcome of the second test.
- `bill` and `prev` are samples. `sched` may rotate a process that did not use
  the quantum; a comment in `clock.c` accepts that.
- A process in group C gets its double quantum only in `clock_handler`. In
  `do_clocktick` `proc_ptr` is CLOCK, so the first quantum of each turn is single
  for every group. If an alarm wakes CLOCK in the tick that ends the first
  quantum, the second one is set in `do_clocktick` as well, and is single too.
- Processes that block and come back go to the front of the queue, so I/O-bound
  ones can starve others. `EveryoneRuns` is claimed for the endless loops of
  `test.c` only; with disturbances `HeadMovesOn` is what holds.

#### Messages and signals

The kernel runs with interrupts off or `switching` set, so a call is one step.
Calls of the code call each other (`do_exec` causes a signal, which tells MM,
which sends a message, which readies a process, which picks the next one).
`KernelCalls` therefore has one operator per function, from the kernel's state
to the kernel's state, and they compose as the functions do. The state is a
record `k` with the fields of `proc` that matter here. `p_flags`, `p_getfrom`,
`p_sendto`, `p_pending` and `p_pendcount` are functions; the chain of
`p_sendlink` is a sequence `callerq`; the ready queues are sequences, which
`ReadyList` justifies for the linked lists; `proc_ptr` is there because `ready`
and `unready` set it only in some cases. Flags of `HARDWARE` exist, since
`mini_send` is called for it.

- `Locked` is the walk along `p_sendto`. It says what a walk finds without
  recursion: `c` is on the chain iff no set that the chain cannot leave avoids
  `c`. That the walk ends is `NoSendCycle`.
- `FirstPending` and `FirstOffer` are the loops of `inform` and `mini_rec`.
- The message that `inform` sends is made in `m`, the buffer of the system task,
  whoever runs. Hence `RequestKept`.
- `do_fork` copies the parent's slot, `p_callerq` and `p_sendto` included.
- An address that a message buffer may not have (`EFAULT`) is not modelled.

`KernelProcesses` closes this with programs that make any call at any time.
What the kernel cannot check and trusts its programs with is in the guards, and
the head of the module lists it: for example that MM forks only a process that
waits for MM. `KernelServers` shows that the trust is deserved. There the system
task, the clock task, a driver, MM, FS and users follow their programs; `script`
holds the calls a program still makes for the message it has read, `hears` says
that it has not read the last one yet. The system task and the clock task are
those of the repository. MM, FS and the driver are not in it; they do for each
request what the calls of the system task show they do, and are marked external.
`KernelServers` extends `KernelProcesses`, with more variables beside `kernel`;
`RefinesProcesses` is the specification of `KernelProcesses` for that variable,
so every invariant of it holds here as well. `Closed` says with which constants:
the tasks and servers are those with a program, the texts are what they say
(`Said`), every program may call every other one and users call servers.
`MaxPend`, a bound of `KernelProcesses` on `p_pendcount`, is twice the number of
signals, which these programs never exceed: MM finishes what it has been told of
before it reads the next message.

### Lab 1

`ProcessTree` is the table. `Fork`, `Wait` and `Exit` belong to MM and are
external; `SignOn` is `do_svrctl` of the file. `DescendantCounts` has the four
calls: the recursions are recursive operators, the searches a fold over the
slots in their order. The calls change nothing, so the state machine is that of
`ProcessTree`, and the questions are about the table after any history. `IsTree`
says that the recursion ends and dead slots are not counted on: parents live, and
no set of processes without MM contains the parents of all its members, as a
circle would. `MostFound` says that each of the four calls answers for every
interval and every number of generations as the definition by ancestors demands.

### Lab 6

`mem` holds superblock, inodes and bitmaps, `disk` what was saved of them,
`content` what a block holds: a map from names to inodes or `DATA`. Every
command is one action, which changes `mem`, saves it and writes blocks, except
the recursive deletion: each call of `deleteDirectoryRecursively` pushes a frame
on `calls` with the entries it has read, and each return writes them back. A
full disk throws in the middle of a command; the exception ends the program, and
`Reload` starts the next run from `disk`, with `content` as far as it had been
written. Unsigned sizes are taken modulo `Word`.

The commands check little of what they are given. `Usage` says what users do
besides the plain commands, and each part of it is modelled as the code does it:

- `"filelink"`: hard links to files. The invariants hold with it.
- `"dirlink"`: hard links to directories, which `koncpecja.md:17` promises.
- `"samename"`: something new gets a name that exists; the old entry is lost.
- `"resizedir"`: commands 8 and 9 add bytes to a directory or take them away
  (`koncpecja.md:19-20` has them for files, the code does not look). Taking a
  byte from a new directory frees its only block; `mem.first` remembers its
  number, as `directDataBlocks[0]` does, and reading goes on there.
- `"enterfile"`: command 11, or the path of a hard link, goes through a file.
- `"fulldir"`: a directory gets more entries than its block holds.
  `koncpecja.md:62` gives a directory one block, and `writeDirectoryDataBlock`
  (29-45) writes on into the next. `Fitting` has the sets of names that fit.

Section 4 says what the last five break. Reading a file's block as a directory
(`Readable`) throws, or reserves memory without end, and is modelled as the end
of the program. What is not followed, all of it outside `{"filelink"}`: bytes of
a file that happen to be entries, entries that went on in the next block, read
once that block is written again, and parents that form a circle, in which
`updateParentsDirectory` never ends.

Not modelled at all: more bytes taken away than a file has, a file beyond
`DirectBlocks` blocks (the comment in line 232 of `VirtualDisk.cpp` warns of it;
the code would write after the end of `directDataBlocks`), and a program killed
in the middle of a command. Times are left out, which matters to `Saved` at one
place: `createHardLink` saves before it changes the parents' times (437-438), so
these may be lost.

## 3. Runs

| run | instance | shows |
|---|---|---|
| `sem_cases` | ten test cases of `main`, up to 8 threads; thresholds 3/2/4 | `OneBaton`, `WaitingExact`, `NoLostWakeup`, `HaltsOnlyWhenDone`, `BufferBounded`, refinement of `ParityBuffer`, `ReadyWaiterServed` |
| `mon_cases` | the same, with six of the eight threads of test case 10; thresholds as above | `OneOwner`, `WaitersAccounted`, `NoLostSignal`, `HaltsOnlyWhenDone`, refinement, `ReadyWaiterServed` |
| `ready_list` | INIT and three more slots | `ExactlyRunnable`, refinement of `UserQueue` |
| `sched` | two slots, every disturbance, quantum of 2 ticks | `QuantumRestored`, `NoInterruptLost`, `RunningIsBilled`, `HeadMovesOn` |
| `turns` | one process in A, one in B, two in C, quantum of 6 ticks as in the code | `EveryoneRuns`, `TurnLengths` |
| `turns_claim` | the same | violated: C does not get twice the time of B |
| `messages` | system task, MM, FS, INIT and one more slot; every call, signal, fork and death | `QueuesExact`, `NoSendCycle`, `ReadyExact`, `RunningIsFirst`, `NoMessageLeft`, `SignalsExact` |
| `signals` | the same with clock and driver, running their programs; three signals | `RequestKept`, refinement of `KernelProcesses`, `CallsAnswered`, `SignalsFinished` |
| `disk` | 4 inodes, 4 blocks, 2 names that fit a block, `Usage = {"filelink"}` | `Saved`, `BlocksExact`, `NamesCounted`, `ParentsHold`, `MetaDataSizeShown`, types |
| `disk_copy` | the same disk | violated: a copied file comes back without its last block |
| `disk_parents` | with hard links to directories | violated: the parent of a directory may be deleted |
| `tree` | six slots: MM, FS, INIT and three more | `IsTree`, `MostFound`, `WaitersServed` |

Bounds and why they are enough:

- Thresholds of the buffer keep their order (10, 3, 7 in the code): consumers of
  odd numbers need more than those of even numbers, and a buffer on which no
  producer may run is long enough for both. Eight threads are the largest test
  case. The theorems cover all other values.
- Four slots let the head, the tail, a middle element and one of a foreign group
  differ; three groups are all there are.
- `SchedRate = 2` is the smallest quantum that differs from its double and has a
  tick that does not end it. `MaxLateTicks` bounds the ticks that come while the
  clock task is between two of its steps after a quantum has expired; the code
  has no such bound and the theorems do not depend on its value.
- Four blocks and two blocks per file make disks full in the middle of a file;
  four inodes allow home, a nested directory, a file and a second name for it.
- Test case 10 of lab 4 has six threads here, two producers and one consumer of
  each parity; the theorems cover all eight, as any other set of threads.
  `ReadyWaiterServed` speaks of the test case with one thread of each kind.
- Two user slots let a process be forked, die while it is queued or signalled,
  and its slot be used again; the calls between FS, the system task and MM
  (`MCCalls`) make a chain of three, so that a cycle of senders of length two and
  of length three could form. `MaxPend` is 2, as `p_pendcount` is tested for 0
  and 1. In `signals` there are three kinds of signals, `MaxPend` is 6 by `Closed`,
  and the refinement shows that it is not exceeded.
- Both kernel runs use a `VIEW`. It drops `p_getfrom` of a process that does not
  receive and `p_sendto` of one that does not send: every reader tests the flag
  first, or, in `do_fork`, copies the value together with the flag. It drops
  message buffers, in `messages` all of them (no step of arbitrary programs
  depends on what a message says, and signals are copied from `p_pending`), in
  `signals` those that no program reads any more. The refinement and the
  properties read nothing that is dropped.
- Six slots of the table of lab 1 allow three generations below INIT, a server,
  and free slots between used ones; the code's loops go over all slots alike.
- `disk.cfg` uses symmetry of names and a `VIEW` that leaves out what no command
  reads: fields of free inodes (assigned when used again), what blocks hold that
  are free or belong to files (a new directory fills its block before it is read,
  a new file overwrites it), directory sizes and `used` (added to only; the one
  difference that is shown, `ShownMetaDataSize`, is in the view). Whether `disk`
  equals `mem` is in the view; while they differ `disk` is only read after they
  are equal again, as a pending deletion ends with a save. The view is sound for
  this `Usage` only: with `"resizedir"` or `"enterfile"` commands read sizes and
  blocks that it leaves out.

Deadlock is a possible end in labs 3 and 4 (a test case with producers of one
kind stops when none may go on; `HaltsOnlyWhenDone` says when) and in lab 1 (all
processes but INIT may become servers and INIT wait). All other runs check for
it.

Fairness: in labs 3 and 4 weak fairness of each thread, as the operating system
runs every thread that can run; nothing is assumed about who gets a contended
semaphore, so single threads may starve in `enter` and no property denies it. In
`sched` time passes and CLOCK, which has the highest priority, runs when it is
ready; user processes, servers and other tasks may do anything or nothing. In
`turns` only ticks and the clock task exist and one of them is always due. In
`signals` a task or server that has the processor again and again goes on
(strong fairness, since interrupts and signals take the processor away from it
in between), and the disk answers a request. Users owe nothing. The two liveness
properties have premises, which the code does not guarantee but any machine
meets: `TicksApart`, that the clock task gets done before the next tick again
and again, and for `SignalsFinished` that MM is idle again and again, for
`mini_rec` takes queued callers before it looks for signals.

## 4. Findings

- `turns_claim`: `koncepcja.md` of lab 2 promises group C twice the time of
  group B; a turn is 12 ticks in B and 18 in C.
- `disk_copy`: `copyFileToSystemDisk` writes `size % DataBlockSize` bytes of the
  last block, none when the file fills it.
- `disk_parents`: a hard link keeps a directory alive whose parent is deleted;
  the parent field then names an inode that is free or somebody else's.

### What the virtual disk does not survive

With another `Usage` in `disk_parents.cfg`, which has no symmetry and no view, and
another invariant in place of `ParentIsDirectory`, TLC finds these shortest
sequences of commands. They are no findings: nothing in the repository says that
such use works. They are the reason for the hypothesis of the invariants, and of
the theorems below.

| `Usage` | invariant | broken by |
|---|---|---|
| `{"resizedir"}` | `TypeOK` | create directory, take away bytes, copy file |
| | `BlocksExact` | create directory, add bytes, delete directory: only the first block is freed (289) |
| | `NamesCounted`, `ParentsHold` | create directory, take away bytes, enter it, create directory: the new one gets the block that names it and fills it with zeros |
| `{"enterfile"}` | `ParentsHold` | copy file, enter it |
| | `BlocksExact` | copy file, enter it, add bytes to it (an empty file reads block 0, that of home, so it finds itself): its size grows twice, as the file's and as the current directory's |
| `{"fulldir"}`, `Fitting <- OneFits` | `TypeOK` | create directory, create directory: the second entry runs into the block of the first directory |
| | `NamesCounted`, `ParentsHold` | create directory, enter it, create directory in it, back, create directory: the name of the second is overwritten |
| `{"samename"}` | `NamesCounted` | copy file, create directory of the same name |
| | `ParentsHold` | create directory twice with the same name |
| `{"dirlink"}` | `NamesCounted`, `ParentsHold` | create directory, enter it, link to it in itself, enter that, delete it: it is freed while it is the current one |
| | `ParentIsDirectory` | the run `disk_parents` |

The other pairs were not broken as far as TLC got in a few minutes, which is no
claim about them. With `{"enterfile"}`, `{"dirlink"}` and, after millions of
states, `{"resizedir"}` TLC ends with a stack overflow in `Grown` when parents
form a circle, where the code does not return. `BlocksExact` with `{"fulldir"}`
or `{"samename"}` is about bitmaps, which an overwritten block or a lost name
does not change.

The third part of `BlocksExact` allows one block too many or too few for the last
bytes, since the code counts them in two ways: a file of 2048 bytes is copied into
one block and loses it with its first byte (510), so its 2047 bytes have none.
`addNBytes` and `takeAwayNBytes` write no data, so nothing is read from it.

## 5. Proofs

Assumptions are those of the modules: positive thresholds such that a buffer
which stops both producers suffices for both consumers, a finite set of threads,
`SchedRate > 0`, INIT is a slot, the slots of the list are finitely many, and
those given below for the kernel and the disk. `QueueProofs`, which serves two
labs, knows the assumptions of both; each proof cites those it uses.

- `QueueProofs`, facts the others share. Of sequences: what appending, removing
  and taking the first does to the members and their order. Of the buffer: how each operation
  changes the counts, that both counts stay in a bound although the code tests
  neither, and `SomeKindCan`: on every buffer one of the four operations is
  possible. Of the queue of user processes: `sched` keeps its members, each
  once, and another process gets to the front if there is one (`SchedPreempts`).
- `BufferSemaphoresProofs`: `NoLostWakeup` and the refinement are not inductive.
  `IInv` adds that a posted semaphore has a blocked thread that may run
  (`PostedForReadyWaiter`), that the condition of a thread which skips its check
  holds until it acts (`ActGuarded`), that a refused thread still cannot run when
  it gives `mutex` back (`RefusedUnlocks`), and what `NoLostWakeup` means while a
  thread holds `mutex` before its operation (`NobodyForgotten`). With threads of
  all kinds the program cannot stop: all threads would be blocked, `mutex` free,
  and `SomeKindCan` contradicts `NoLostWakeup`. `ActGuarded` makes every `Act` a
  step of `ParityBuffer`, all others stutter.
- `BufferMonitorProofs`: the same argument, with threads that leave or re-enter
  in `NobodyForgotten` and counts that are lowered by the signaller.
- `GroupSchedulerProofs`: `QuantumInv` locates the moments at which `sched_ticks`
  may be 0 or less: from the store that ends a quantum to the reset. In between
  the handler waits for 1, which it passes only downwards. What `do_clocktick`
  has loaded is in range too, which makes the race harmless. `RunningIsBilled`
  needs that blocked interrupts have been looked at when CLOCK waits. The second
  part is about `GroupTurns`, see below.
- `ReadyListProofs`: both properties of the list, among them the refinement of
  `UserQueue`.
- `KernelProofs`: every invariant of `messages`, for any number of tasks, servers
  and user processes, any calls between them and any signals; and of `signals`
  the refinement and `RequestKept`, for any number of user processes and any
  signals.
- `VirtualDiskProofs`: every invariant of `disk`.
- `ProcessTreeProofs`: `IsTree` and `WaitersServed`.

### The ready list

`Linked(q, l)` says without recursion that the pointers of list `l` are those of
queue `q`: the head is the first process, the pointer of each is the next one,
that of the last is NIL, and `rdy_tail` is the last one. Nothing is said of
processes that are not queued, so stale pointers do not matter. `ChainIsQueue`
shows that a linked list has its queue as `Chain`; the inductive invariant
`IInv` is that `Chain` has no process twice, that the pointers link it, and that
it holds exactly the runnable processes. Each function is then a lemma about
`Linked`: `ready` links `u` before the queue, the two branches of `unready` link
the queue without `u`, the first part of `sched` its rotation. A search finds
what it looks for because positions in a queue have a first one that meets a
condition. The loop of `sched` passes a group if it has no member
(`TurnPassed`), and otherwise moves the first member to the front (`TurnTaken`).
After at most two groups comes that of the old head, which has a member. So the
loop ends, though the code puts no bound on it, with the process that
`Scheduled` of the abstract queue names.

### The kernel

One lemma per function of the kernel says which parts of the
kernel's consistency it needs and which it keeps; a step of `KernelProcesses`
composes them as the code composes calls. In the middle of a call not everything
holds: between the two halves of `sys_call` with `BOTH` a user process still runs
although the server it called is ready, and when MM blocks or a signal is noted
MM has not been told yet. So there are three levels. `Linked` is about senders
and receivers, `Consistent` adds types, ready queues and the counts of signals,
and `Stable` adds what is true between calls only, namely that MM has been told
(`Informed`) and that `proc_ptr` is the first ready process.
`Stable` is the inductive invariant. It adds three facts to the properties, each
needed because a function relies on it without a test:

- `KindsKept`: tasks and servers have no flag but `SENDING` and `RECEIVING`. The
  message of `inform` therefore makes MM ready, and an interrupt makes its task
  ready; `interrupt` calls `ready` without looking at the other flags.
- `CallsServers`: a blocked sender calls a task or server, and if it will also
  receive, it waits for the one that it calls. So taking its message never makes
  it wait for a message that is already there, and a user process is never
  waited for in a chain of senders.
- `Counted`: a process whose signal MM does not know is stopped by
  `SIG_PENDING`, so `inform` may clear `PENDING` without making it ready.

For `NoSendCycle`: suppose that after `c` has blocked sending to `d` there is a
set in which everybody sends to a member of it. Then `c` is in it, and so is `d`,
which sends as well. `mini_send` did not refuse, so the chain from `d` stays in a
set without `c`. What both sets have in common was such a circle before the call
already. The assumptions are those of
`KernelCalls` and `KernelProcesses`: kinds of processes are disjoint, MM is a
server and SYSTASK a task, `ANY`, `HARDWARE` and `IDLE` are no processes, nobody
calls itself, slots are numbers (`inform` takes the first).

### The programs of the tasks and servers

That every step of `KernelServers` is one of `KernelProcesses` (`ServersKeepTrust`)
is mostly about what the programs know when they make a call. The invariant
`Served` is `Stable` of the kernel together with `Serves`:

- `LoopsKept`, `UsersCall`: who has called `receive` has done its script; a server
  only blocks in a call to another program, and never in one to MM; only MM can
  be blocked sending, to FS.
- `RequestsHeld`: while the request of a server is unread, the server waits, and
  its own buffer has the same request. `RequestKept` follows from that.
- `SysTaskServes`, `ClockServes`, `DiskServes`: whom a task will answer waits for
  it, and who is sent SIGALRM lives.
- `MMServes`, `FSServes`: what MM and FS have read or still do is one of a few
  jobs. A job is the script of the server and, before that, the call in which it
  is blocked until the other program has carried it out (`Todo`). Whom it
  answers lives and waits for that server. For `SYS_ENDSIG` MM counts: outside of
  its jobs `p_pendcount` of every process is the number of its pending signals
  (`NoneTold`), and in the job of a signal it is that number and the entries that
  are left (`Told`), so `p_pendcount` never gets below 0 and a process is released
  when its last signal is finished.
- `TasksAtWork`: the system task with a request and the clock task with signals to
  cause have the processor. So between their reading and their last call nothing
  but an interrupt happens, and whom they know to live does.

The hardest case is the death of a process by a signal. It may wait for FS then;
MM sends `EXIT` to FS, and after that removes the process, and FS must not answer
it afterwards. `SignalJob` follows that: the process makes no calls (`Stopped`),
when MM sends `EXIT` the process, if it sends to FS, is queued before MM
(`Before`), so FS has served it when it reads `EXIT`, and from then on the
process does not wait for FS (`FarFromFS`), `FSKnows` being that nobody waits for
FS but the caller of its job.

The proof has three layers. The first says for each call of the kernel what it
does to flags, buffers, queues and counts in the situations that the programs
meet (`Takes`, `NotesSignal`, `TellsMM` and the like), so that the rest no longer
sees ready queues and `proc_ptr`. The second says what a server's job does not
notice (`MMFrame`, `FSFrame` with `MMKept`, `FSKept`): most calls leave most jobs
alone. The third goes through the programs, one lemma per call, request and
message. `Closed` is a hypothesis of these theorems and not an assumption of the
module, so that the theorems about `KernelProcesses` do not depend on it; TLC
evaluates it for the constants of `signals`.

### The turns of endless loops

`EndlessLoops` is the hypothesis of these theorems: a finite number of processes,
at least two, that only compute. `TurnsInv` follows a turn. As long as `prev_ptr`
is another process, ticks used and ticks left make one `SCHED_RATE`; once the
handler has set it to the running one they make `TurnLength`, the second quantum
included (`Charged`). So the clock task finds an exhausted turn (`UsedUp`), the
process it takes the processor from is not the next one (`SchedPreempts` and the
second process), and `prev_ptr` differs from the new head when it waits again
(`Passed`). The turn during which the system is first seen may have any length,
as `prev_ptr` and the quantum are arbitrary then. `TurnsSettle` derives
`TurnLengths`, a liveness property, from `EveryoneRuns`: a process that runs
again after another one has had its turn ended in between, and its group keeps
the recorded length. `EveryoneRuns` itself stays with TLC, as it needs fairness.
`GroupCNotTwiceB` is the finding `turns_claim` for every `SCHED_RATE`: a turn of
group C is one and a half times as long as one of group B. Both need a process
of every group.

### The virtual disk

The theorems are for disks, files and sets of names of any size, under the
assumptions of `VirtualDisk`: sizes are positive, an `unsigned int` holds the
size of the disk and that of a file, a block of a file is not mistaken for a
directory, and what fits a block still fits it with fewer names. All but one have
the hypothesis `Usage \subseteq {"filelink"}`: links are made to files only, names
of new things are new and their entries fit the block of the directory, commands
8 and 9 are given files, and only directories are entered. The run `disk` has the
same one. The code enforces none of it, so these theorems are about users who
keep to it, and section 4 shows that no part of it can be dropped: each breaks at
least one of the invariants, and the inductive invariant contains all of them.
`SavedAlways` needs no hypothesis about `Usage`: every command that changes `mem`
ends with a save, or with an exception that loads what was saved.

The other properties are not inductive alone, since what a command does depends
on all of them: the blocks freed with an inode are not shared because of
`BlocksExact`, the inode whose count gets to 0 has no other name because of
`NamesCounted`, a new entry is in a directory that is in use because of
`ParentsHold`. `Inv` states them together, in a form that a step can be compared
with: every directory is named once, by its parent (`DirsNamed`); going from
parent to parent ends at home, said without recursion (`Acyclic`); a file has as
many links as names (`FilesNamed`); and the stack of a recursive deletion is a
path in the tree on which no directory occurs twice, where what a directory still
holds are the names left to be deleted and the one that is being deleted
(`Pending`). A directory that is being deleted has no links while it is still
named (`DirLinks`). That all inodes in use can be reached from home then
follows from `DirsNamed` and `Acyclic` (`ReachedAreUsed`, `ClosedIsAll`): what
cannot be reached would be closed under parents.

The superblock counts files modulo `Word`, so `NamesCounted` compares it modulo
`Word`; the code's counter wraps in the same way. `MetaDataSizeShown` is about
the difference of two numbers that wrap separately; `DistanceKept` shows that
adding the same to both keeps it.

### The table of processes

`IsTree` is inductive together with four facts: MM and INIT live and are
children of MM (`Roots`), who waits lives and is no server (`WaitersLive`),
`WaitersServed`, and types. A fork cannot close a circle, as the child was not
in use and so is nobody's parent. Exit and sign-on give the children of `p` to
INIT: a set that is closed under the new parents and has neither MM nor INIT has
no such child, so it was closed under the old parents (`ChildrenAdopted`).
`WaitersServed` excepts INIT, as `do_svrctl` does not look whether INIT waits.

### Only model-checked

- Liveness, which is out of the prover's reach: `ReadyWaiterServed`,
  `HeadMovesOn`, `EveryoneRuns`, `CallsAnswered`, `SignalsFinished`.
- `MostFound`: the four calls are recursive operators, which the prover does not
  take; that their recursion ends is `IsTree`.

## 6. Not modelled

Output, sleeping, real time. Lab 2: memory maps, copying, tracing of memory and
the other calls of the system task, most of which neither schedule nor
synchronize (`SYSSIGNON` of `do_sysctl`, `system.c:951-962`, does: it makes a
process a server and changes `p_priority`; kinds of processes are constants here);
`EFAULT`; MM and FS beyond what the kernel shows of them. `KernelCalls` leaves
out `p_int_held` and the groups, `GroupScheduler` the message queues.
`KernelServers.ClockTask` leaves out the end of a quantum (`clock.c:187-196`), on
which nothing it is used for depends; it is in `GroupScheduler`. Lab 6:
listing of a directory, times, reading the host's files, and what section 2 names. Lab 1: the library
functions and test programs, which only pass numbers on. Tables, headers and
dumps. Lab 5 is a paper.

## 7. Plan

Done, in this order: labs 3 and 4 with proofs, ready list, scheduler with proofs,
turns, virtual disk, kernel messages and signals, their servers, lab 1, proofs
about the kernel, the ready list, the virtual disk, the table of lab 1, the
programs of the servers and the turns; the usages that the virtual disk does not
survive. Next: theorems about what still holds with existing names.
