# A verification model of DELOS 2.0

DELOS 2.0 is a 32-bit operating system for one processor: a kernel (`src/kernel`), a standard
library (`src/stdlib`) and user programs (`src/userspace`).  This directory holds TLA+ modules
that model its kernel, the TLC configurations that model-check them, and TLAPS proofs of the
properties that matter most.  Paths below are relative to `src/kernel/src` unless they begin
with `src/`.

Run, in this directory: `tlc -config SchedSafety.cfg MCScheduler`, `tlapm SchedulerProofs.tla`.

## The system

Everything happens in interrupt handlers.  A user program runs until the timer, the keyboard, a
fault or its own system call (`int 0x80`) enters the kernel; the handler runs to its end with
interrupts disabled (all gates are interrupt gates), chooses the process to go on with, and
returns to it.  The kernel is therefore one sequential machine, entered in an order nobody
controls; its concurrency is the order of the entries and what other processes did between two
entries of one process.

| component | state it keeps | operations | interacts with |
|---|---|---|---|
| process scheduler (`processes/scheduler.cpp`) | `all_processes`, `ready_processes`, `blocked_on_process_processes`, `blocked_on_keyboard_processes`, `running_process`, `latest_running_non_idle_process[]`, `focused_terminal` | make ready, block, wake, kill, dispatch, focus a terminal | called by every handler; uses lists, pids, address spaces, files |
| processes (`processes/process.cpp`) | `pids[]`, the PCB and its pages | create, allocate and free a pid, map, copy, unmap | frames, kernel heap, ELF loader |
| system calls (`processes/syscalls.cpp`) | `last_exit_code` | 26 numbered services | scheduler, file system, process heap |
| interrupt handlers (`interrupts/*`) | tick counter | ticks, faults, keyboard and mouse IRQs, `int 0x80` | all of the above |
| keyboard (`drivers/keyboard/*`) | line buffer, position, modifier keys | keys, Enter, Backspace, Ctrl+C, Ctrl+1..4 | scheduler, screen |
| linked list (`processes/list.cpp`) | nodes in the kernel heap | add first / last, remove by index / by data | kernel heap |
| heap (`mem/heap.cpp`) | chain of blocks | malloc, free | kernel and every process |
| frames and paging (`mem/paging.cpp`) | frame bitmap, page directory | allocate and free a frame, map a page | processes, heap |
| ELF loader (`processes/elf_loader.cpp`) | - | map and copy segments | frames |
| file system (`fs/vfs.cpp`) | cluster table, clusters, root directory | create, delete, open, close, read, write, copy | kernel heap, system calls |
| terminals (`drivers/screen/*`, `print_to_stream`) | cursor, screen, one output file per shell | print, replay at a terminal switch | file system |
| mouse (`drivers/mouse/*`) | packet, cursor | three-byte packets | screen |
| spinlock (`src/stdlib/src/spinlock.asm`) | a word | lock, unlock | user programs |
| shell and programs (`src/userspace`) | local variables | exec, wait, files, exit | system calls |

What is hard in it, and where the models look:

* a process can die while it runs, is ready, waits for a child or reads the keyboard, and on four
  different paths (exit, fault, unknown system call, Ctrl+C), each with clean-up of its own;
* lists, parents, terminals and Ctrl+C refer to processes by PCB address or by pid, and both are
  reused at once;
* `wait` does not record what is waited for;
* the idle process is in and out of the ready list;
* the heap splits and merges blocks lazily, while it looks for room;
* the file system writes the whole directory anew in every call that changes a file, in clusters
  that lie among the files', and computes with sizes at the edge of a cluster;
* an open flag belongs to a file, the list that clears it to a process;
* a process is made of frames that the kernel also maps for itself while it fills them, and the
  machine may run out of either in the middle;
* everything shares the focused terminal, and all terminals share one line buffer and one cursor.

What makes each component correct:

* scheduler, processes, handlers: no live process is lost or in two places, a pid belongs to one
  process, a dead process is named by nothing, its parent is woken, the CPU goes round, the machine
  halts exactly when only the idle process is left;
* lists: the nodes reachable from `first` are the elements, in order, and none leaks;
* heap: blocks given out do not overlap, are as large as asked for, and come back;
* frames and paging: a frame has one owner or is one of the kernel's that all share, returns at its
  owner's death or stays reachable, and what a process has in its own pages changes by its own hand
  only;
* file system: names are unique, chains are separate and end, clusters come back, a call changes
  only its file, as far as the directory keeps to its clusters, and does to it what it is called;
* open files: what is open, some living process will close;
* keyboard and terminals: a line reaches one reader of the terminal in focus and nothing of it comes
  back later, the cursor stays on the screen, a terminal's file holds what was printed last.

`PROJECT.json` lists each hazard at its line, with the property that covers it or the reason why
none does yet.

## Modules

| module | what it is |
|---|---|
| `Lists` | what the list operations do to the elements of a `list_t`: the view of it the scheduler has |
| `ListSpec` | a list as a state machine over one sequence (abstract specification) |
| `LinkedList` | `list.cpp` and `reschedule_process` node by node; implements `ListSpec` |
| `ListProofs` | lemmas about the operators of `Lists` and about recursive functions, shared by the proofs that need them |
| `LinkedListProofs` | inductive invariant and theorems about `LinkedList`, among them the refinement |
| `Scheduler` | the scheduler with the pid table and every handler that moves a process |
| `Userland` | `Scheduler` composed with the shell, `test_wait` and a program that computes |
| `SchedulerProofs` | inductive invariant and theorems about `Scheduler`, and about what one step of it may do |
| `Allocator` | what malloc and free promise their callers (abstract specification) |
| `Heap` | `heap.cpp`, one step per call or loop round; implements `Allocator` |
| `HeapProofs` | inductive invariant and theorems about `Heap`, among them the refinement |
| `Vfs` | `vfs.cpp` with the system calls on files and `print_to_stream`, down to the cells of the disk |
| `VfsProofs` | inductive invariant and theorems about `Vfs`: the chains of the cluster table through every call |
| `OpenFiles` | open flags of files against the processes' lists of open files |
| `OpenFilesProofs` | inductive invariant and theorems about `OpenFiles` |
| `AddressSpaces` | frames, kernel pages and the memory of processes: `paging.cpp`, the creation, copying and death of an address space, the ELF loader; implements `Memories` |
| `Memories` | the memories of processes: what is each one's own and what all share (abstract specification) |
| `AddressSpacesProofs` | inductive invariants and theorems about `AddressSpaces`: who owns which frame, what the loader fills, what is accounted for, and the refinement |
| `Terminal` | the keyboard's line, the cursor, the readers' list and the switch between terminals |
| `TerminalProofs` | inductive invariants and theorems about `Terminal`: the line, the cursor, the readers' order |
| `MC...` | model values and small sets for TLC |

### Scheduler

A variable for each list and table of `scheduler.cpp` and `process.cpp` (`live` is
`all_processes`, whose order nothing depends on but the shutdown test "first equals last",
i.e. that it has one element) and a function for each PCB field the scheduler reads.  `kernel`
bundles them in a record; every C function is an operator from records to records with the name
it has in the source, and a handler is the composition the code has, in its order: e.g.

    Dies(p) == switch_to_next_process(kill_process(wake_up_parent_process(kernel, ppid[p]), p))

One handler is one atomic step, because nothing can interrupt it.  Kept: every list move, the pid
table, state fields, terminal focus, the Ctrl+C table, halting.  Left out: registers, memory
contents, files, the screen.  Calls that only serve the caller (`printf`, `open`, `ls`, ...) are
one action, `Service`: all of them make the caller ready and switch.

Abstractions to know about:

* An address of a freed PCB may be returned by the next `kmalloc`: the new PCB is any free one.
  The fields of a free PCB are cleared, so that what no code may read is not state; reading it
  would be visible as `NoPid` or terminal 0 in the properties.
* `NoPid` is `UINT_MAX` of `allocate_pid`.  `SchedulerAssumption` bounds the PCBs by the size of
  the pid table, because a process takes 4096 frames (stack and heap) and more of the 2^20
  frames there can be, so memory is exhausted before 256 pids are.  Memory running out is the action
  `OutOfMemory`: `allocate_frame` halts the machine.
* A `Fault` is an exception whose handler calls `kill_running_process`.  Invalid TSS, the coprocessor
  fault and exceptions without a handler call `_panic` (`interrupts/handlers.cpp:34`, 73, 178),
  which halts the machine, and are not modelled.  Nor is a page fault of the kernel itself, as when a
  reader's buffer is not mapped (`processes/scheduler.cpp:131`): the handler would kill the process that was
  running, in the middle of the keyboard's handler.
* The lists always find a node: `list_add_last` drops the element when the kernel's heap is full
  (`processes/list.cpp:68`).
* The process of `idle.exe` makes no system call and cannot fault (its program is an empty loop).
* The terminals are numbered 1 to `NUMBER_OF_TERMINALS`, four in the code; the code's test for
  pids 0 to 4 in Ctrl+C is written with the constant.

### Userland

The kernel does not know what a process waits for; the program does, in its local variable.  The
module adds to each process a program counter and the pid `exec` returned, and restricts its
system calls to what the program does next: the shell reads a line, runs a command or a program,
waits for it; `test_wait` starts a program, waits for it, ends.  Interrupts stay as they are.

### LinkedList

The three fields of a `list_t` and those of every node; `used` is the set of allocated nodes.  The
actions are the four modifying operations and `reschedule_process`, which is written as it runs:
collect, remove one after the other, put back in front.  As in the code, emptying the list leaves
`last` pointing to the freed node.  `IsSequence` says that under the mapping "elements in the
order of `next`" every operation is the one of `ListSpec`, whose operators `Scheduler` uses:
the two levels meet there.

### Heap

The headers reachable from the heap's start, each with size, next and free flag; the request and
position of a running `heap_malloc`; and, for the properties, the pointers callers hold with the
sizes they asked for.  A round of the loop merges, tests, and either takes the block (`Found`) or
moves on.  The addition of the header is modulo `Word`, 2^32 in the code.  Callers free only
pointers they got and hold, once, which is what the kernel does.

### Vfs

`fs` is a record of the cluster table (`fat`), the cells of the disk and whether the kernel is
`up`, in a `panic`, or in an `undefined` state because it followed a link or an entry that is not
there.  As in `Scheduler`, every C function is an operator from such records to records, and a
call is their composition in the code's order: `create_file`, `append_data`, `write`, `cp` each end
with `Restore`, which is the pair free-the-directory's-clusters, save-the-directory that the code
has at that place.  `eax` is what the call returned; `done` is history: the call and its arguments,
for properties that compare what was asked for with what happened.

* A cell of the disk is a byte of a file, one part of a directory entry, or one part of the
  directory's file count; so that an entry overwritten in part, or bytes overwritten by an entry,
  are seen.  `load_root_folder` reads the directory back from these cells in every call, as the code
  does; there is no second copy of it.
* The geometry is a parameter.  With the code's sizes a cluster holds two entries and some bytes over, and
  the directory of a freshly booted machine overflows: of seven files three are in the last cluster, which
  holds two (`fs/vfs.cpp:238`), and the last of them ends in whatever cluster is behind (`Spills`).
  `vfs_spill` has the code's proportions, 8, 3 and 2 cells for cluster, entry and count, and its seven
  files; `file_system` has 5, 2 and 2, with which it is the fourth file that overflows.
* A cell is blank while its cluster is free, unless the end of such an entry lies in it (`Spilt`), which
  is read there: no call reads anything else of a free cluster.
* The tenth file, with the code's sizes, has an entry that not only ends but begins behind the
  directory's clusters, where any file's data may replace it altogether.  Touch, append and copy are
  guarded by `RoomForEntry`, a bound of the model: the directory stays below that number.  (`RoomFor(n)`: no
  directory of up to n entries has such a one.  The assumption `BootFits` says it of the boot's files.)
* `FileAppend` is the code's touch and write at the file's size, for which `write` calls `append_data`
  and nothing else.
* `Path` follows the links as the loops of the code do, as far as they lead, in a bounded number of
  steps: no loop can take more without going in a circle.  `LowestFree` is the sequence of clusters that
  so many calls of `get_free_cluster` take, and `Grow` the links between them.
* The code does not notice a directory that was written over: what it reads is any entry at
  all.  `Checked` ends each call by asking whether the directory can be read (`Intact`); if not, the
  state is `undefined` and no further call is made.
* `cp` reads the source's size through a pointer into a directory it has freed.  The heap returns
  the same place for a directory of the same or smaller size, or another one: `StaleSizes` is both.
* Three links have a meaning besides "next cluster": end of chain, free and taken (`Mark`).  The code's
  table has 0xFFF entries, so that its last two clusters have the numbers 0xFFD and 0xFFE of taken and
  free (`fs/vfs.h:8`).  `Cluster` are those below the marks, `Beyond` the others: these count as free, as in
  the code, and are taken last, because the lowest free cluster always is; when one would be, the state is
  `undefined`.  What the code does then, once all 4093 others are in use, is not modelled (the cluster
  linked to 0xFFE counts as free again).

### OpenFiles

Per file: absent, closed, open.  Per PCB: the names in its list, a set, because the code only asks
whether a name is in it and removes nothing from it (`list_remove_data` compares pointers, and the
list holds copies).  A process may therefore close a file that another has opened since
(`processes/syscalls.cpp:102`); `OpenIsHeld` holds all the same.  An action
for each call that changes a flag or a list, with the death of a process.  The calls that create,
delete and copy files are here what they do to the flag; `Vfs` has the same calls in full.

### AddressSpaces

`frames` is the bitmap, as the set of the bits that are set; `kernel` the kernel's own pages, from
tables 2 to 767, where it puts directories, tables and image pages while it fills them; `entry` what a
page table in a frame holds; `data` what a page in a frame holds; `space` the memory fields of each
PCB.  A frame can be mapped by the kernel and by a process at once, and the properties are about
these two views.  Creation is one step per allocation: `job` is the program counter of
`create_process_virtual_addr_space`, and the frames or the pages may run out at each of them
(`Panic`, which halts the machine).  Interrupts are off during it, so nothing else steps before it
has ended.

* `allocate_frame` takes the lowest clear bit and `allocate_page` the kernel's first unmapped page: so
  what a dead process gave back is used again at once, by whichever process is created next.
* The bits of the last word that stand for no frame are locked with the code's mask, which leaves
  one of them open (`mem/paging.cpp:51`).
* A segment gets the pages from its first to the one its end address is in, so one too many if it is a
  whole number of pages; the pages are filled in order and each leaves the kernel's tables
  when it is full; the page too many does not.
* `SegmentsInOrder` assumes that the segments of a program file follow one another, which is how
  `src/userspace/link.ld` lays them out: the loader takes the last table it has allocated for the
  current one, and a file whose segments go back would overwrite entries.
* `unmap_process` frees the pages and the directory.  The tables' frames stay taken and mapped in the
  kernel, because `kfree` does nothing for an address outside the kernel heap: each process costs the
  machine its tables, for good.
* Every directory holds, besides the process' own tables, the kernel's of its heap and file system
  (769 to 778), copied with their rights: and these say user and writable (`processes/process.cpp:178`,
  `mem/paging.cpp:83`).  A program therefore reads and writes them.  `KernelFrames` are their pages, `shared`
  what a process reaches of them, `WriteKernel` such a write; which bytes of the heap or the disk it
  changes, and what the kernel makes of them, is not followed.  Tables 0, 1 and 768 are the supervisor's
  and not modelled.
* The files are valid: they are images that the build puts into the kernel.  One that is not would
  leave the process without an image (`processes/elf_loader.cpp:148`), which is not modelled.
* `Translate` is the processor's page walk, external to the code: it reads the directory from `cr3`,
  the kernel reads its own list of tables, and `SameTables` says that they are the same.

`Memories` is what all of this is for, as the processes see it: who runs, which program, what each
page of each of them holds (`MemoryOf`, through the page walk), and what is common to all.  There a creation is two steps, a
request and a start with the image in place and, after a fork, the parent's stack and heap; the rounds
in between change nothing anybody can read.  A write changes one page of one process or one that is common, a death takes
its memory away, and there is nothing else.  `IsolatedMemories` says that the frames implement this: the
memories are isolated in what is a process' own, image, heap and stack, and in nothing else.

### Terminal

The modifier keys, the line buffer up to its position, the list of readers, the terminal in focus and
the cursor, counted in cells.  An action for each kind of key, at the edge of the key the code acts on,
for each system call that prints or moves the cursor, and for the mouse's message.  What is printed
is a sequence of characters, newlines and returns, which is all the cursor depends on.  Shells run
throughout and other processes come and go: `Scheduler` has the rest of their lives.

The other variables are history, read by no step: how many letters were typed since the last Enter or
Ctrl+C (`fresh`, counted up to the buffer's size), whether a process of another terminal began to read after the last switch (`late`), whether the screen was cleared or the cursor
set while a line was being typed (`disturbed`), and the last step's delivery.

## Runs

| run | module, cfg | bounds | what it checks |
|---|---|---|---|
| sched_safety | MCScheduler, SchedSafety | 2 terminals, idle, 2 shells, 1 more PCB, 4 pids; 147 272 states | type, `NoProcessLost`, `LatestIsOfItsTerminal`, `StatesAgree`, `PidTable`, `DiesRunningOrFocused`, `DeathWakesParent`, `WaitEndsByDeath`, `NoOvertaking`; with fairness, `ReadyRuns` |
| user_shell | MCUserland, UserShell | 2 terminals, idle, 2 shells, 1 more PCB, 4 pids; 2 832 states | `WaitForLiveChildEnds`, `NestedWaitEnds` |
| user_stale_pid | MCUserland, UserStalePid | the same, without `test_wait` | violated: `WaiterHasChild` |
| heap_safety | MCHeap, HeapSafety | 14 bytes, 2-byte header, requests 0, 1, 2, 5; 140 616 states | type, `Chain`, `TakenBlocks`, `IsAllocator` |
| linked_list | MCLinkedList, LinkedList | 4 nodes, 3 elements; 2 717 states | type, `WellLinked`, `IsSequence` |
| file_system | MCVfs, FileSystem | 4 names, 3 of them made by the boot, 11 clusters of 5 cells with entries of 2, 3 calls; view without `done`; 6 576 states | type, `ChainsAreSeparate`, `Isolation`, `ClustersAreReturned`, `AppendAppends`, `InsertInserts`, `CopyCopies`, `StreamKeepsItsEnd`, `PanicsOnlyWhenFull` |
| vfs_spill | MCVfs, VfsSpill | 8 names, 7 of them made by the boot, 28 clusters of 8 cells with entries of 3, 2 of them beyond the marks, 2 calls; view without `done` | violated: `DirectoryKeepsToItself` |
| vfs_append | MCVfs, VfsAppend | 3 names, 14 clusters of 3 cells with entries of 2, 3 calls | violated: `AppendAlwaysAppends` |
| open_files | MCOpenFiles, OpenFiles | 3 files, 1 of them a system file, 3 processes; symmetric; 4 619 states | type, `OpenIsHeld` |
| memory | MCAddressSpaces, Memory | 3 PCBs, 2 program files of 2 segments, 51 frames in words of 4, 18 kernel pages, tables of 2 entries; symmetric; 110 325 states | type, `FrameOwnership`, `AllAccounted`, `OthersKeepTheirPages`, `IsolatedMemories` |
| memory_kernel | MCAddressSpaces, MemoryKernel | the same | violated: `KernelOutOfReach` |
| terminal | MCTerminal, Terminal | 2 terminals, 2 shells and a program, 5 keys and a shifted one, buffer of 3, screen of 2 rows by 3; 335 068 states | type, `CursorOnScreen`, `FocusedReadersFirst`, `TerminalOrderKept`, `NothingOldIsRead` |

Why the bounds are enough.  With two terminals the focus, Ctrl+C and the shells' exits can
concern the wrong terminal.  Four PCBs let a shell die and its PCB and pid be reused: a program
that outlives its shell, or the other shell, starts a child in that PCB, so that there are families of three,
orphans whose parent's pid is another's, and two parents that wait at once.  Every
counter of the code is bounded by these sets, there is no other bound: the state spaces are finite
and complete.  A heap of 14 bytes with 2-byte headers holds up to six blocks, of every size from
the smallest that is split off to the whole heap, so that each combination of a free or taken
neighbour occurs.  Four nodes give a list with a first, a last and two inner nodes.  Symmetry is
used only over names and processes that `Init` does not name and not in runs with liveness.

The file system is not explored to the end: every call adds bytes, and `MaxCalls` bounds the length
of a behaviour.  The boot makes a file of 4 cells, one short of a cluster, an empty one and the
terminal's; the texts, of 1 and 4 cells, make full and two-cluster files of them in one call, so that the
second and third act on any of them; the offsets 0, 3 and 6 are the beginning of such a file, inside its
first cluster and inside its second, and beyond the end of a shorter one.  The fourth name is the one too many
for the directory: its entry ends in the cluster behind, which is a file's or free, after the call that
makes it, and others then write there.  On eleven clusters
the boot leaves few free, so that clusters run out in the second and third calls, in the middle of
appends, copies and the rewriting of the directory.  `WORD`, the scaled 2^32 of the unsigned
lengths, is larger than twice any size on the disk, so that only a negative difference wraps, as in
the code.  `MAX_SHELL_FILE_SIZE` is 6, two prints.  The run has a `VIEW`: states that
differ only in `done`, the record of the last call, count as one.  No operation reads `done`, and the
properties name it primed only; TLC evaluates them on every step, also on one to a state it has seen,
so that nothing is left out by it.

`vfs_spill` has the boot of the code, its first file cut to two clusters: a cluster holds two
entries, and the directory of seven is in three clusters with room for six, as with 64, 25 and 4 bytes.
The last default file, in the code `primes.dat`, has its end mark in the cluster behind the directory's
last one, so that the last entry ends in a cluster of that file from the boot on: in its end mark at first,
and in its bytes once the file has grown by a cluster.  Two calls are enough for that: an append, and any
call that saves the directory.

In `memory` an address space takes 14 or 15 frames and the boot leaves 43, so that three processes fit
just once, and later creations run out of frames, because the tables of the dead have eaten up the
room; 18 kernel pages run out in the course of a creation, too.  The last word of the bitmap is
three quarters full, so that the mask of `mem/paging.cpp:51` matters.  One file has a segment that
begins in the middle of a table and crosses into the next, the other one that is exactly a page
long and is followed by another: the cases the loader treats differently.

In `terminal` a line of two letters is full, a screen of six cells scrolls at every other print, and
readers of both terminals, two of them of one, are in the list in every order.  The cursor is
counted modulo 16 instead of 2^16, far beyond the screen as in the code.

The deadlock check is on in every run but those of `Vfs`, which end after `MaxCalls` calls, or when
the kernel has panicked: the scheduler can always take a step until it halts (a self-loop,
`Stopped`), the heap, the list, the open files, the memory and the terminals too.

### What the runs found

Four runs state what a comment or a program of the repository says, and TLC shows a behaviour
of the code that contradicts it (`findings` in `PROJECT.json`):

* `processes/syscalls.cpp:195` - a child that ends before its parent calls `wait`, and whose pid
  another program gets, leaves the parent blocked with no child whose end could wake it.
* `fs/vfs.cpp:586` - an append to a file of 64, 128, ... bytes overwrites its last cluster.
* `fs/vfs.cpp:238` - with seven files the directory's last entry ends in another file's cluster, and a
  call on one file changes another.
* `processes/process.cpp:180` - the kernel's heap and file system can be written by every program,
  although a comment says that other rights keep it from them.

Other limits of the code are written into the properties as exceptions, each of which names its
line, or into the assumptions:

* `DeathWakesParent` leaves out the death by an unknown system call, whose path does not wake the
  parent (`processes/syscalls.cpp:386`).
* `WaitEndsByDeath` speaks of any process with the waiter as its parent pid: the kernel does not
  record the pid that is waited for (`processes/scheduler.cpp:90`).
* `Isolation` and the properties of contents allow one thing besides (`Reads`): bytes on which the end of a
  directory entry lies, and that only during calls that go through a number of files whose entries do not
  fit, with the code's sizes seven or nine (`Spilling`; `fs/vfs.cpp:238`).
* The other way round, data that are written over the end of an entry leave a broken directory.  The model stops
  there (`undefined`), so that nothing is said about what follows.
* `AppendAppends` and `InsertInserts` are about files whose last cluster is not full (`EndsFull`,
  `Regular`); an insertion into one that is loses a cluster's worth of its tail (`fs/vfs.cpp:991`).
* `CopyCopies` is about new names: a copy onto an existing file can get another directory entry's size
  (`fs/vfs.cpp:705`).
* `ClustersAreReturned` and `PanicsOnlyWhenFull` name the calls that do lose clusters (an insertion
  loses one, a copy onto a system file loses that file's) or take more than they have counted.
* A heap with three free neighbours may refuse a request they could hold (`mem/heap.cpp:43` merges
  once per visit): `Allocator` lets malloc return NULL.  A request near 2^32 wraps when the header is
  added (`mem/heap.cpp:36`): `HeapProofs` assumes that none does.
* `StartsComplete`, and with it `IsolatedMemories`, leaves out the last page of a segment that is a whole number of pages: the loader copies
  the remainder, which is nothing (`processes/elf_loader.cpp:128`).  A segment without file data is
  outside the assumptions: the count of its pages wraps (`processes/elf_loader.cpp:111`).
* `FramesExist`, a part of `FrameOwnership`, holds if the last word of the bitmap is full or more than
  half full (`mem/paging.cpp:51`).
* `AllAccounted` counts the frames of dead processes' tables as reachable, because the kernel still maps
  them; nobody ever uses them again (`processes/process.cpp:306`).
* `CursorOnScreen` does not speak of a line during which the screen was cleared or the cursor set: a
  backspace, also the one that follows Ctrl+L itself (`drivers/keyboard/keyboard.cpp:87`), then takes the
  cursor before the first cell.
* `NothingOldIsRead` says that a reader gets no more letters than were typed since the last Enter or Ctrl+C,
  not on which terminal, nor all of them.  One buffer serves all terminals and a switch takes the line along
  (`drivers/keyboard/keyboard.cpp:10`): with two letters typed on one terminal, Ctrl+2 and Enter give the first
  of them to the reader of the other.  The second is erased by the backspace that every shortcut returns
  (`drivers/keyboard/keyboard.cpp:87`).  The model has both; no text of the repository says otherwise.
* `FocusedReadersFirst` holds until a process of another terminal begins to read: it becomes the head
  of the list, and the next line typed on the focused terminal reaches nobody
  (`processes/scheduler.cpp:124`).
* Three numbers of the cluster table are marks, two of which a table of full length also uses for
  clusters (`fs/vfs.h:8`): the model ends where one of the two would be given out.

What the passing runs of `Vfs` show is that within these limits and those of the section on `Vfs` nothing
else goes wrong: between files nothing but the end of the directory's last entry, and nothing when
clusters run out in the middle of a call.

The stale pid is why `WaitForLiveChildEnds` is about a wait for a child that is alive, and why
`NestedWaitEnds` excepts a child that itself waits for a pid which another process has by then.

### Fairness

* `Scheduler!FairSpec`: `WF(PitSwitch)`.  The timer interrupt is never masked while a program
  runs, and `int0x20_handler` switches every `TICKS_FOR_TASK_SWITCH`-th tick; it is enabled until
  the machine halts.  Nothing is assumed about programs or keys: `ReadyRuns` holds although a
  process may make system calls, die or be killed at any time.
* `Userland!UFairSpec`: in addition, a program that runs again and again takes a step of `Progress(p)` again
  and again.  As `Progress(p)` is enabled just when p runs, this is `SF(Progress(p))`, written so that
  TLC need not search for a successor in each state.  A program that gets the
  CPU again and again executes instructions and so reaches its next call; strong fairness, because
  between its turns it is not enabled.  A line typed at a shell is not assumed.  It excludes
  programs that loop for ever, for which the wait rightly does not end.

## Proofs

`SchedulerProofs` (for every number of terminals, pids and PCBs, under `SchedulerAssumption`):

| theorem | states |
|---|---|
| `Invariance` | the inductive invariant `IInv` |
| `TypeCorrect`, `NoProcessIsLost`, `PidsAreUnique`, `LatestIsSafe`, `StatesAreRight`, `ShutdownIsRight` | `[]` of `TypeOK`, `NoProcessLost`, `PidTable`, `LatestIsOfItsTerminal`, `StatesAgree`, `ShutdownWhenOnlyIdle` |

None of the invariants is inductive alone: that no freed PCB is in a list needs that a killed one
was in at most one place of each list (`NoProcessLost`), that Ctrl+C's victim is alive
(`LatestIsOfItsTerminal`) and that the pid it frees is nobody else's (`PidTable`).  `IInv` is their
conjunction, in parts: `Typed`, `PidsOK`, `LatestOK`, `ListsOK`, `StatesOK`.  In the middle of a
handler they do not hold, because the running process is in no list yet, or a woken one has left
one list and not entered the other.  `Good(s, loose)` says that they hold for the record `s` except
that the processes in `loose` are in no list; a lemma per kernel function says how it changes
`loose` (`ReadyGood`, `WakeGood`, `KillGood`, `CreateGood`, `SwitchGood`, ...), and the lemma of a
handler composes those of the functions it calls, as the handler does.  The pid table needs a
counting argument: with no more PCBs than slots, an unused PCB leaves a free slot (`FreePid`), so
`allocate_pid` never returns `UINT_MAX`.

Of its steps (for the same constants):

| theorem | states |
|---|---|
| `OnlyRunningOrFocusedDies` | `DiesRunningOrFocused` |
| `OnlyDeathEndsWait` | `WaitEndsByDeath` |
| `ParentOfTheDeadRuns` | `DeathWakesParent` |
| `NobodyOvertakes` | `NoOvertaking` |

Every step is of one of two kinds (`StepKinds`): nobody dies and no wait ends (`NothingEnds`), or one
process dies, the one on the CPU or the focused terminal's, and only it and its parent stop waiting
(`DeathOf`).  Uniqueness of pids makes the waiter that is woken the only one with that pid.  Ctrl+C
needs one fact more, `NotOwnParent`: its victim may itself be waiting, and were it its own parent it would
be made ready and then killed.  No process is its own parent, because a child's pid was free while its
parent's was not; shells have idle's pid as the parent's and are never victims.  The order of the
ready list is followed in `Ahead`: adding at the end and removing one process keep who is in
front of whom, and a dispatch drops everything in front of the process it picks.

`HeapProofs` (for every heap size, header size and set of requests, under `HeapAssumption` and
`NoWrap`: no request wraps when two headers are added):
`TypeCorrect`, `ChainIsWhole`, `NoBlockIsLost` and `HeapIsAllocator`, the
refinement of `Allocator`.  The invariant is that the headers tile the heap in address order
(`ChainOK`), that taken blocks and callers' pointers correspond with enough room and little waste
(`Owners`), and that a running `heap_malloc` stands on a header or at the end.  `MergeChain` and
`TakeChain` say what a merge and a split do to it.

`OpenFilesProofs` (for any files and processes): `OpenFilesTypeOK` and `OpenFilesAreHeld`.  `OpenIsHeld`
with the types is inductive: the case that needs an argument is the death of a process, which takes
a holder away; what is open after it was not in its list, so its holder is another one
that lives on.

`TerminalProofs` (for any terminals, processes, keys, buffer, text and screen):

| theorem | states |
|---|---|
| `NothingOldIsReadHolds` | `NothingOldIsRead` |
| `TypeOKHolds`, `CursorOnScreenHolds`, `FocusedReadersFirstHolds` | `[]` of `TypeOK`, `CursorOnScreen`, `FocusedReadersFirst` |
| `TerminalOrderKeptHolds` | `TerminalOrderKept` |

For the line the invariant is `LineTyped`: the buffer, of whichever terminal, holds no more letters
than were typed since it was last emptied; every key keeps that, every delivery and Ctrl+C empty both.
For the cursor, each letter of the line has moved it on, so that it is at least as many cells from the
first as the line is long, unless the line was disturbed: that is why a backspace, which is taken for a
letter of the line only, finds a cell before the cursor, and why a scroll, which takes the cursor a row
back, does not break it.  A print is followed character by character (`Offsets`).
What a switch, a death and a delivery do to the readers is a `Shuffle`: every reader afterwards has a
place before, and two of one terminal have theirs in the same order.

`AddressSpacesProofs` (for any machine, processes and program files, under the module's assumptions, of
which `SegmentsInOrder` is needed from `LoadInvHolds` on):

| theorem | states |
|---|---|
| `InvHolds`, `LoadInvHolds` | the inductive invariants `Inv` and `LoadInv` |
| `TypeOKHolds`, `FrameOwnershipHolds`, `AllAccountedHolds` | `[]` of `TypeOK`, `FrameOwnership`, `AllAccounted` |
| `OthersKeepTheirPagesHolds`, `StartsCompleteHolds` | `OthersKeepTheirPages`, `StartsComplete` |
| `IsolatedMemoriesHolds` | `IsolatedMemories`, the refinement of `Memories` |

`FrameOwnership` is not inductive.  The invariant `Inv` keeps its parts `FramesApart` and `InUseIsTaken` and adds that the boot's frames
are never given back; that for each process, also the one in the making, the kernel's pages are
what its directory says, each once (`Linked`); that there is an address space for the living and
the one in the making and for nobody else; and, by the point the creation has reached, what its
record of work holds and which page the kernel still has for itself (`JobOK`).  `SharedPages` holds because
every directory is given the kernel's pages (`SharesKernel`), which are of the boot, and the boot's are nobody's own.
`SameTables` follows from
`Linked` by counting.  `FramesExist` follows because the boot locks the bits beyond the machine's frames, unless
the last word is half full or less.

`LoadInv` follows the creation through segments and pages:
which tables were asked for, that the last of them is the one being filled, which pages are mapped,
which of them hold their part of the file and which the kernel still maps.  That the order of the
segments is needed shows here twice: a page that was filled is mapped again, and its contents lost,
by a later segment that does not lie behind it; and a segment that begins in the table in which
the last one ended must find that table to be the current one.

The refinement rests on both.  A page of a living process changes only when the process itself writes
(`PagesKeepUnwritten`): an image page that is filled is one the loader still keeps for itself, what the
end of a creation writes are pages of the new process, and what a death clears are pages of the dead.
So the rounds of a creation stutter (`RoundUnseen`), and a write shows at one address of one memory
only, because no frame is mapped twice (`TranslateOnce`).  At its start the new memory holds the image
(`LoadInv`) of the program that was asked for (`Named`), and no page of stack and heap reads
as one that is not there (`NothingStored`).

`ListProofs` has what several proofs need of `Lists`: what adding and removing do to a list without
repetition (`Queue`), which places are left when one is removed (`RemoveAtEntries`), which elements
`reschedule_process` collects and from which places (`OnlyPicks`), and that collected and left
elements together are a rearrangement (`OnlyFirst`).  The functions it has to follow are recursive:
`Induct` is induction up to a bound for a set of numbers, got from the least element of a set, and
`Recursion` says that a function with given steps exists; the value of a recursive definition is then
found at each place of its domain.

`LinkedListProofs` (for any nodes and elements, under `NodesAreNotNull`):

| theorem | states |
|---|---|
| `InvHolds` | the inductive invariant `IInv` |
| `TypeOKHolds`, `WellLinkedHolds` | `[]` of `TypeOK`, `WellLinked` |
| `IsSequenceHolds` | `IsSequence`, the refinement of `ListSpec` |

`WellLinked` speaks of the nodes reached by following `next` and is not convenient to keep: the invariant
has the chain itself, as a sequence of nodes without repetition whose fields lead forwards and
backwards and whose data are a sequence of elements (`Chain`).  One lemma per function of
`list.cpp` gives the chain afterwards (`AddFirstChain`, `AddLastChain`, `UnlinkedChain`, `RemoveChain`),
`AtChain` says that the loops walk along it, and `Represents` forgets the nodes.  For `reschedule_process`
the two loops are followed separately: what is left after some removals are the elements of the others
(`TakesLeave`), and putting the collected ones back always finds a free node, because as many were
freed before (`PutsLeave`, a count of nodes).  The order that results is one that `Reschedulings` allows.

`VfsProofs` (for any disk, file names, contents and default files, under `Geometry`, `Names` and `BootFits`: the
numbers are numbers, the marks three different ones, an entry and the count fit into a cluster, and the
directory has room for the boot's files; all of them hold of the code):

| theorem | states |
|---|---|
| `TypeOKHolds`, `ChainsAreSeparateHolds` | `[]` of `TypeOK`, `ChainsAreSeparate` |
| `PanicsOnlyWhenFullHolds` | the kernel panics for want of clusters only when fewer than three are free, or in a copy with a stale size |
| `ClustersAreReturnedHolds` | a call leaves every cluster that was free or on a chain free or on a chain, but for the one that an insertion loses and those of a system file that is copied onto |

The theorems have no hypotheses; what bounds them are the two bounds of the model.

* No call makes a file whose entry would begin outside the directory's clusters (`RoomForEntry`).  With the sizes
  of the code that is the tenth file; a boot makes seven.  That entries end outside, as the seventh does, is
  covered.  From ten on, an entry lies in a cluster of somebody else's, a write to a file can replace it by
  anything, and the chains need no longer be separate.
* The model ends (`undefined`) where a cluster with the number of a mark would be given out, which is when all
  the others are in use.

`ChainsAreSeparate` speaks of whole chains and is hard to keep link by link.  The invariant, `Inv`, speaks of
links only: no cluster is linked to a free one, no two clusters have the same successor, none is left
as taken, and the starts of the directory and of the files are in use, followed by another
cluster and linked to by nobody (`Tidy`, `Filled`); names and starts are unique (`GoodFiles`), and
every entry begins in a cluster of the directory (`Heads`), so that a write elsewhere does not change
where an entry begins.  That is enough:
from a start the links lead, without a circle, to the end of the chain, because a first cluster that
is reached twice would have two predecessors (`StartPath`), and two chains that meet have the same start
(`PathsApart`).  All of it is needed: without `Heads` a write to a file could change the directory, and
with it what the starts are; without the taken mark excluded a chain could end nowhere.

The steps of a call do not all keep the invariant.  Between freeing the directory's chain and writing it
again the root has no chain; `Tidy` is stated for a set of starts, and holds then for a table in which the root ends
the chain at once (`SaveSound`).  `GrowTidy`, `DeleteSound`, `CutSound` and the lemmas like them say
what happens to `Tidy` when clusters are appended to a chain, given back, or cut off.  Every operation
ends with a directory that was read back from the disk as it was written, or with a broken one
(`EntryRead`: an entry whose first cell was not written over is found where it was put).  Then each call is
the composition of its operations (`TouchGood`, `RmSound`, `AppendSound`, `InsertSound`, `WriteSound`, `CpSound`,
`AsSystemSound`), each of which keeps `Good`: the kernel has stopped, or the state is sound.

`PanicsOnlyWhenFull` is an action property, proved by counting.  `Spare` is the number of free clusters;
appending to a chain takes as many of them as the chain grows by and never panics while that many are
there (`GrowCalm`, `GrownSpare`), and what is given back is counted again (`FreedSpare`).  One more conjunct
of the invariant is needed: the directory's chain is exactly as long as its entries need.  Then saving
the directory takes back what it has just freed (`SaveCalm`), one more entry takes at most one cluster more
(`OneMoreEntry`), and a deletion returns the file's two clusters or more first (`DeleteCalm`).  A new file
takes at most three clusters (`CreateCalm`), which is the bound of the property; the append of `>>` and the
insertion take what they have checked (`AppendSound`, `InsertSound`).  A copy to a new name checks for the size of its
source, has created the new file before that, and frees the second of its clusters when it writes; if the source
is as long as its entry says (`Fits`), that is enough (`CpCalm`).  The two copies that the property excepts are
those for which the code's own count is of another size than what is written (`fs/vfs.cpp:705`).

`ClustersAreReturned` is an action property, too, proved by what is not lost: `Accounted` is the set of
clusters that are free or on the chain of a start, the complement of `Lost` (`LostIs`).  Each operation leaves
what is accounted for accounted for (`LosesNone`): what leaves the free list is on the chain that has
grown (`GrownOnPath`), the chains of other starts are as they were (`SameChain`), and a deletion frees a
whole chain.  There are three places where a chain loses its tail.  An append that needs more clusters
frees the end of the chain and grows the chain again behind it (`GrownOnPath`).  A copy frees the cluster
behind the first of its destination, which for a file that was just created is all there is
(`OneCluster`); a destination that exists is deleted first, and where it may not be, its clusters are
the exception.  An insertion frees the clusters behind the cut, but not the end of the old chain, the
one that is lost (`LosesOne`).  A call that stops half-way for want of clusters has saved the directory
before or not touched it, so that the same lemmas cover it.

Only model-checked: the contents of files in `Vfs` (`Isolation`, `AppendAppends`, `InsertInserts`,
`CopyCopies`, `StreamKeepsItsEnd`), and everything in `Userland`, whose properties are liveness.  Every invariant of a run is
proved.  Liveness under fairness (`ReadyRuns` too) and `ENABLED` are out of the prover's reach.

## Not modelled, and what could follow

Worth adding, in this order:

1. `Isolation` as a theorem: it needs, besides the chains, that a call's writes to the disk stay in the
   clusters of the file it names and of the directory, which the lemmas of `VfsProofs` say of each
   operation, and an account of the cells behind the directory's last cluster.
2. What the file system promises, a map from names to contents, and `Vfs` shown to implement it
   wherever the excepted cases do not occur.

Not modelled:

* The exit code of the last process (`processes/syscalls.cpp:13`): one variable that nearly every system
  call of any process overwrites; the code promises nothing about whose code `$?` shows.
* The mouse but for its message: packets and the cell whose colours it inverts, which nothing else
  reads.
* The spinlock, which no program uses and for which the kernel gives processes no memory to share.
* Boot code, GDT, TSS, IDT, PIC and PIT programming: straight-line hardware access before interrupts are
  on.  `_switch_task` and the interrupt stubs: register saving in assembly.
* C++ run-time support, string and memory functions: sequential and without state.
* The demonstration programs, each of which is an instance of the program that computes and ends, and
  the table of user programs, which is constant.
* The letters and colours in video memory, which no property is about.
