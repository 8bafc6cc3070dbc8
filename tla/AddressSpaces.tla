--------------------------- MODULE AddressSpaces ---------------------------
(***************************************************************************)
(* Physical frames and the address spaces of processes: the frame bitmap   *)
(* and the kernel's own pages (kernel/src/mem/paging.cpp), creation and    *)
(* death of an address space (kernel/src/processes/process.cpp), loading   *)
(* of an ELF image (elf_loader.cpp) and the copying in fork (syscalls.cpp).*)
(*                                                                         *)
(* A page directory, a page table and a page are each one frame.  The      *)
(* kernel reaches the tables of a process through pages of its own, so a   *)
(* frame can be mapped twice on purpose.  Creation runs with interrupts    *)
(* off: its rounds are steps, and nothing else steps while "job" is busy.  *)
(***************************************************************************)
EXTENDS Naturals, Sequences, FiniteSets, Functions

CONSTANTS
  Frames,       \* physical_frames
  WordBits,     \* bits in a word of the bitmap, 32
  LockedWords,  \* words of the bitmap locked at boot: the first 8 MB
  KernelPages,  \* pages of the kernel heap and of the file system
  Slots,        \* pages in the kernel's tables 2..767
  Entries,      \* PAGE_TABLE_ENTRIES
  HeapFirst,    \* PROCESS_HEAP_START_PAGE_TABLE; image tables are below it
  HeapLast,     \* PROCESS_HEAP_END_PAGE_TABLE
  Process,      \* PCBs
  Nobody,       \* no PCB
  Program,      \* program files
  Segments,     \* the PT_LOAD segments of every program
  Writable      \* bound: the pages <<table, entry>> that processes write to

Words == (Frames + WordBits - 1) \div WordBits
Bit == 0..(Words * WordBits - 1)
NotMapped == Words * WordBits     \* 0xFFFFF in an entry
Slot == 1..Slots
Stack == HeapLast + 1             \* PROCESS_STACK_PAGE_TABLE
Table == 0..Stack
Entry == 0..(Entries - 1)

\* A segment starts at a page (the linker script aligns it) and has "full"
\* whole pages of file data and, with "rest", a part of one more.
Segment == [first : Nat, full : Nat, rest : BOOLEAN]

ASSUME AddressSpacesAssumption ==
  /\ Frames \in Nat \ {0} /\ WordBits \in Nat \ {0} /\ Slots \in Nat \ {0}
  /\ Entries \in Nat \ {0}
  /\ LockedWords \in Nat /\ LockedWords < Words /\ KernelPages \in Nat
  /\ HeapFirst \in Nat /\ HeapLast \in Nat /\ HeapFirst <= HeapLast
  /\ Nobody \notin Process
  /\ Segments \in [Program -> Seq(Segment) \ {<<>>}]
  /\ \A x \in Program : \A k \in DOMAIN Segments[x] :
       LET s == Segments[x][k]
       IN  (s.rest \/ s.full > 0) /\ s.first + s.full < HeapFirst * Entries
  /\ Writable \subseteq Table \X Entry

\* The loader's count of a segment's pages.
PagesNeeded(s) == s.full + (IF s.rest THEN 1 ELSE 0)

\* The linker lays the segments out one after the other (userspace/link.ld).
ASSUME SegmentsInOrder ==
  \A x \in Program : \A k, m \in DOMAIN Segments[x] :
    k < m => Segments[x][k].first + PagesNeeded(Segments[x][k]) <= Segments[x][m].first

VARIABLES
  frames,   \* the frames whose bit is set
  kernel,   \* the kernel's pages: slot |-> frame
  entry,    \* the page table in a frame, if there is one
  data,     \* what a frame's page holds
  space,    \* the memory fields of every PCB
  live,     \* processes that run
  job,      \* the creation under way
  halted    \* "ERR: all frames are taken up!" or "all pages are already mapped!"

vars == <<frames, kernel, entry, data, space, live, job, halted>>

NoTable == [j \in Entry |-> NotMapped]
NoSpace == [name |-> "", dir |-> 0, cr3 |-> NotMapped,
            directory |-> [t \in Table |-> NotMapped], page_tables |-> <<>>,
            shared |-> {}]
NoJob == [step |-> "idle", pcb |-> Nobody, parent |-> Nobody, program |-> "",
          segment |-> 0, table |-> 0, page |-> 0, tables |-> {}, pages |-> <<>>]

Junk == <<"junk">>   \* whatever was there before

-----------------------------------------------------------------------------
(* paging_init *)

\* The bits of the last word that the remainder locks.
Remainder ==
  LET r == Frames % WordBits
      last == (Words - 1) * WordBits
  IN  IF r = 0 THEN {} ELSE last..(last + WordBits - 1) \ {last + WordBits - 1 - r}

Locked == 0..(LockedWords * WordBits - 1) \union Remainder

\* The n lowest members of S: what n calls of allocate_frame take.
Lowest(n, S) == {f \in S : Cardinality({g \in S : g < f}) < n}

\* The pages of tables 769..778, which map_kernel_heap and map_filesystem map
\* for good, named by their frames.  Their entries say user and writable.
KernelFrames == Lowest(KernelPages, Bit \ Locked)

Boot == Locked \union KernelFrames

Init ==
  /\ frames = Boot
  /\ kernel = [s \in Slot |-> NotMapped]
  /\ entry = [f \in Bit |-> NoTable]
  /\ data = [f \in Bit |-> Junk]
  /\ space = [p \in Process |-> NoSpace]
  /\ live = {}
  /\ job = NoJob
  /\ halted = FALSE

IsFreeFrame(f) == f \in Bit \ frames /\ \A g \in Bit \ frames : f <= g

\* Mutant: the frame's bit is not set.
allocate_frame_unmarked(f) == IsFreeFrame(f) /\ frames' = frames

\* The lowest free frame.
allocate_frame(f) == IsFreeFrame(f) /\ frames' = frames \union {f}

\* allocate_page(user) takes the first page the kernel has not mapped ...
IsFreeSlot(s) ==
  /\ s \in Slot /\ kernel[s] = NotMapped
  /\ \A r \in Slot : kernel[r] = NotMapped => s <= r

\* ... and gives it a frame.
allocate_page(s, f) ==
  /\ IsFreeSlot(s) /\ allocate_frame(f)
  /\ kernel' = [kernel EXCEPT ![s] = f]

-----------------------------------------------------------------------------
(* The creation of an address space, one allocation at a time *)

Last(seq) == seq[Len(seq)]

BeginCreate(p, x, parent) ==
  /\ job = NoJob /\ p \notin live
  /\ job' = [NoJob EXCEPT !.step = "directory", !.pcb = p, !.program = x,
                          !.parent = parent]
  /\ UNCHANGED <<frames, kernel, entry, data, space, live, halted>>

Create(p, x) == BeginCreate(p, x, Nobody)

\* sys_call_fork creates the child from the parent's program.
Fork(p, parent) == parent \in live /\ BeginCreate(p, space[parent].name, parent)

\* The directory begins with entries copied from the kernel's: those of its heap
\* and file system, with their rights.  (Tables 0, 1 and 768, the locked memory,
\* are for the supervisor only, and no program reaches them.)
AllocatePageDir ==
  /\ job.step = "directory"
  /\ \E s \in Slot, f \in Bit :
       /\ allocate_page(s, f)
       /\ space' = [space EXCEPT ![job.pcb] =
                     [NoSpace EXCEPT !.name = job.program, !.dir = s, !.cr3 = f,
                                     !.shared = KernelFrames]]
  /\ job' = [job EXCEPT !.step = "table", !.table = Stack]
  /\ UNCHANGED <<entry, data, live, halted>>

\* A kernel page becomes table t of the process.
NewTable(t) ==
  \E s \in Slot, f \in Bit :
    /\ allocate_page(s, f)
    /\ entry' = [entry EXCEPT ![f] = NoTable]
    /\ space' = [space EXCEPT ![job.pcb].directory[t] = f,
                              ![job.pcb].page_tables = Append(@, s)]

\* The table that the last kernel page in the list holds.
CurrentTable == kernel[Last(space[job.pcb].page_tables)]

\* allocate_stack_page, allocate_heap_pages: the table ...
AllocateTable ==
  /\ job.step = "table"
  /\ NewTable(job.table)
  /\ job' = [job EXCEPT !.step = "frame", !.page = 0]
  /\ UNCHANGED <<data, live, halted>>

\* Mutant: one round more.
LastRound == job.page = Entries

\* The loops over the entries of a table end.
LastEntry == job.page = Entries - 1

\* ... and a frame for each of its entries; then the next table, or the image.
AllocateTableFrame ==
  /\ job.step = "frame"
  /\ \E f \in Bit :
       /\ allocate_frame(f)
       /\ entry' = [entry EXCEPT ![CurrentTable][job.page] = f]
  /\ job' = IF ~LastEntry THEN [job EXCEPT !.page = @ + 1]
            ELSE IF job.table = Stack
              THEN [job EXCEPT !.step = "image", !.segment = 1,
                               !.page = Segments[job.program][1].first]
            ELSE IF job.table < HeapLast
              THEN [job EXCEPT !.step = "table", !.table = @ + 1]
            ELSE [job EXCEPT !.step = "heap_init"]
  /\ UNCHANGED <<kernel, data, space, live, halted>>

CurrentSegment == Segments[job.program][job.segment]

\* allocate_segment: a table that no segment of this file has asked for yet ...
AllocateImageTable ==
  LET t == job.page \div Entries
  IN  /\ job.step = "image" /\ t \notin job.tables
      /\ NewTable(t)
      /\ job' = [job EXCEPT !.tables = @ \union {t}]
      /\ UNCHANGED <<data, live, halted>>

\* ... and a page, mapped by the kernel and by the last table in the list.
\* The end address counts: a segment of whole pages gets one page more.
AllocateImagePage ==
  /\ job.step = "image" /\ job.page \div Entries \in job.tables
  /\ \E s \in Slot, f \in Bit :
       /\ allocate_page(s, f)
       /\ entry' = [entry EXCEPT ![CurrentTable][job.page % Entries] = f]
       /\ job' = [job EXCEPT !.pages = Append(@, s),
                    !.page = IF @ = CurrentSegment.first + CurrentSegment.full
                             THEN 0 ELSE @ + 1,
                    !.step = IF job.page = CurrentSegment.first + CurrentSegment.full
                             THEN "copy" ELSE "image"]
  /\ UNCHANGED <<data, space, live, halted>>

\* Mutant: unmap_page, which also gives the frame back.
ReleaseFrame(s) ==
  /\ kernel' = [kernel EXCEPT ![s] = NotMapped]
  /\ frames' = frames \ {kernel[s]}

\* The kernel forgets its page; the frame stays the process'.
LeaveFrame(s) ==
  /\ kernel' = [kernel EXCEPT ![s] = NotMapped]
  /\ frames' = frames

\* Pages are filled in order, the last one with the remainder: when that is
\* zero the last page of file data is not copied.
CopyImagePage ==
  LET n == job.page                        \* pages done before
      needed == PagesNeeded(CurrentSegment)
      s == Head(job.pages)
      next == job.segment + 1
  IN  /\ job.step = "copy"
      /\ data' = IF n + 1 < needed \/ CurrentSegment.rest
                 THEN [data EXCEPT ![kernel[s]] =
                         <<"image", job.program, CurrentSegment.first + n>>]
                 ELSE data
      /\ LeaveFrame(s)
      /\ job' = IF n + 1 < needed
                THEN [job EXCEPT !.page = @ + 1, !.pages = Tail(@)]
                ELSE IF job.segment < Len(Segments[job.program])
                THEN [job EXCEPT !.step = "image", !.segment = next, !.pages = <<>>,
                                 !.page = Segments[job.program][next].first]
                ELSE [job EXCEPT !.step = "table", !.table = HeapFirst, !.pages = <<>>]
      /\ UNCHANGED <<entry, space, live, halted>>

-----------------------------------------------------------------------------
(* What the CPU sees with a process' page directory *)

Translate(p, t, j) ==
  IF space[p].directory[t] = NotMapped THEN NotMapped
  ELSE entry[space[p].directory[t]][j]

\* Mutant: the copy stops before the last heap table.
CopiedTables == (HeapFirst..(HeapLast - 1)) \union {Stack}

\* fork copies the stack and the heap, and not the image.
ForkedTables == (HeapFirst..HeapLast) \union {Stack}

\* heap_init writes the first header; then sys_call_fork copies the pages of
\* the parent over the child's, through a buffer.
FinishCreate ==
  LET p == job.pcb
      initialised ==
        [data EXCEPT ![Translate(p, HeapFirst, 0)] = <<"heap">>]
      Source(f) == {x \in ForkedTables \X Entry : Translate(p, x[1], x[2]) = f}
  IN  /\ job.step = "heap_init"
      /\ data' = IF job.parent = Nobody THEN initialised
                 ELSE [f \in Bit |->
                        IF Source(f) = {} THEN initialised[f]
                        ELSE LET x == CHOOSE x \in Source(f) : TRUE
                             IN  initialised[Translate(job.parent, x[1], x[2])]]
      /\ live' = live \union {p}
      /\ job' = NoJob
      /\ UNCHANGED <<frames, kernel, entry, space, halted>>

\* An allocation that finds no frame or no page stops the machine.
Panic ==
  /\ ~halted
  /\ \/ job.step \in {"directory", "table", "frame", "image"} /\ Bit \subseteq frames
     \/ /\ job.step \in {"directory", "table", "image"}
        /\ \A s \in Slot : kernel[s] # NotMapped
  /\ halted' = TRUE
  /\ UNCHANGED <<frames, kernel, entry, data, space, live, job>>

\* A running program writes to a page of its own.
Write(p, t, j) ==
  /\ job = NoJob /\ p \in live
  /\ Translate(p, t, j) # NotMapped
  /\ data' = [data EXCEPT ![Translate(p, t, j)] = <<"written", p>>]
  /\ UNCHANGED <<frames, kernel, entry, space, live, job, halted>>

\* A running program writes to a page of the kernel that its directory holds:
\* the segments are flat and the entries let it.  What the kernel then makes of
\* its heap and its disk is not followed.
WriteKernel(p, f) ==
  /\ job = NoJob /\ p \in live
  /\ f \in space[p].shared
  /\ data' = [data EXCEPT ![f] = <<"overwritten">>]
  /\ UNCHANGED <<frames, kernel, entry, space, live, job, halted>>

-----------------------------------------------------------------------------
(* The death of a process: unmap_process *)

TableFrames(p) == {kernel[s] : s \in Range(space[p].page_tables)}
PageFrames(p) == {entry[f][j] : f \in TableFrames(p), j \in Entry} \ {NotMapped}

\* Mutant: only the directory's frame is freed.
FreedDirectory(p) == {kernel[space[p].dir]}

\* Every page and the directory, but not the tables: kfree does nothing for
\* an address outside the kernel heap.
Freed(p) == PageFrames(p) \union {kernel[space[p].dir]}

\* The kernel page of the directory is unmapped, those of the tables are not.
\* Pages and tables of the dead hold nothing any more that is ever read.
Kill(p) ==
  /\ job = NoJob /\ p \in live
  /\ frames' = frames \ Freed(p)
  /\ kernel' = [kernel EXCEPT ![space[p].dir] = NotMapped]
  /\ data' = [f \in Bit |-> IF f \in Freed(p) THEN Junk ELSE data[f]]
  /\ entry' = [f \in Bit |-> IF f \in TableFrames(p) THEN NoTable ELSE entry[f]]
  /\ space' = [space EXCEPT ![p] = NoSpace]
  /\ live' = live \ {p}
  /\ UNCHANGED <<job, halted>>

Stopped == halted /\ UNCHANGED vars

Creation ==
  \/ \E p \in Process, x \in Program : Create(p, x)
  \/ \E p, parent \in Process : Fork(p, parent)
  \/ AllocatePageDir \/ AllocateTable \/ AllocateTableFrame
  \/ AllocateImageTable \/ AllocateImagePage \/ CopyImagePage
  \/ FinishCreate

Next ==
  \/ Creation
  \/ \E p \in Process : Kill(p)
  \/ \E p \in Process, w \in Writable : Write(p, w[1], w[2])
  \/ \E p \in Process, f \in KernelFrames : WriteKernel(p, f)
  \/ Panic
  \/ Stopped

Spec == Init /\ [][Next]_vars

-----------------------------------------------------------------------------
(* Properties *)

\* The fields keep their types: what an entry holds is a frame number or the
\* mark of an entry that is not mapped.
TypeOK ==
  /\ frames \subseteq Bit
  /\ kernel \in [Slot -> Bit \union {NotMapped}]
  /\ entry \in [Bit -> [Entry -> Bit \union {NotMapped}]]
  /\ \A p \in Process :
       /\ space[p].cr3 \in Bit \union {NotMapped}
       /\ space[p].directory \in [Table -> Bit \union {NotMapped}]
       /\ Range(space[p].page_tables) \subseteq Slot
  /\ live \subseteq Process
  /\ job.pcb \in Process \union {Nobody} /\ job.parent \in live \union {Nobody}
  /\ job.page \in 0..(HeapFirst * Entries)
  /\ job.step = "frame" => job.page \in Entry
  /\ Range(job.pages) \subseteq Slot
  /\ halted \in BOOLEAN

Spaces == {p \in Process : space[p].cr3 # NotMapped}

\* The directory and the tables of an address space.
ControlFrames(p) == TableFrames(p) \union {space[p].cr3}

\* The kernel reaches through its own pages the very tables that the CPU finds
\* in the directory: unmap_process walks the one, the program runs on the other.
SameTables ==
  \A p \in Spaces :
    /\ kernel[space[p].dir] = space[p].cr3
    /\ TableFrames(p) = Range(space[p].directory) \ {NotMapped}
    /\ Cardinality(TableFrames(p)) = Len(space[p].page_tables)

\* No frame is a page, a table or a directory of two address spaces, or twice
\* of one, or the kernel's as well.
FramesApart ==
  \A p, q \in Spaces :
    /\ PageFrames(p) \intersect (ControlFrames(q) \union Boot) = {}
    /\ ControlFrames(p) \intersect Boot = {}
    /\ p # q => /\ PageFrames(p) \intersect PageFrames(q) = {}
                /\ ControlFrames(p) \intersect ControlFrames(q) = {}
    /\ space[p].cr3 \notin TableFrames(p)
    /\ \A f, g \in TableFrames(p), i, j \in Entry :
         entry[f][i] = entry[g][j] /\ entry[f][i] # NotMapped => f = g /\ i = j

\* What an address space is made of cannot be handed out again.
InUseIsTaken ==
  \A p \in Spaces : PageFrames(p) \union ControlFrames(p) \subseteq frames

\* Frames the machine does not have are not handed out.  The mask for the last
\* word leaves one bit open that stands for a frame only if the word is more
\* than half full: with fewer frames in it the claim does not hold.
FramesExist ==
  Frames % WordBits = 0 \/ 2 * (Frames % WordBits) > WordBits
    => \A p \in Spaces : PageFrames(p) \union ControlFrames(p) \subseteq 0..(Frames - 1)

\* Everything a process can read and write.
Reachable(p) == PageFrames(p) \union space[p].shared

\* Two processes meet in the kernel's heap and file system and nowhere else.
SharedPages ==
  \A p, q \in Spaces : p # q => Reachable(p) \intersect Reachable(q) = KernelFrames

\* The tables, stack, heap and image of a process are its own, whatever was
\* created, forked and killed before; what it shares is the kernel's heap and
\* file system, and that with everybody (paging.cpp, process.cpp).
FrameOwnership ==
  SameTables /\ FramesApart /\ InUseIsTaken /\ FramesExist /\ SharedPages

\* A frame that is taken can still be reached: from boot, by a page of the
\* kernel (the tables of the dead, never unmapped, are among these), or as a
\* page of a process.  Nothing else is lost when a process dies or an image
\* page replaces another (process.cpp:295, elf_loader.cpp:96).
AllAccounted ==
  frames \subseteq
    Boot \union Range(kernel) \union UNION {PageFrames(p) : p \in Spaces}

\* Whatever other processes and the kernel do, a process keeps its own pages
\* (image, heap and stack) and what is in them, except for what it writes itself.
OthersKeepTheirPages ==
  [][\A p \in live \intersect live', t \in Table, j \in Entry :
       LET f == Translate(p, t, j)
       IN  /\ Translate(p, t, j)' = f
           /\ f # NotMapped => data'[f] \in {data[f], <<"written", p>>}]_vars

\* The pages of a segment that the loader fills: all of them, unless the last
\* one is full to the end (elf_loader.cpp:128 copies the remainder, 0 bytes).
FilledPages(s) == s.first..(IF s.rest THEN s.first + s.full ELSE s.first + s.full - 2)

\* A process starts with a whole stack and heap, with its file's data where
\* the file wants it, and after a fork with the parent's stack and heap.
StartsComplete ==
  [][\A p \in live' \ live :
       /\ \A t \in HeapFirst..Stack, j \in Entry : Translate(p, t, j) # NotMapped
       /\ \A k \in DOMAIN Segments[job.program] :
            \A n \in FilledPages(Segments[job.program][k]) :
              data'[Translate(p, n \div Entries, n % Entries)]
                = <<"image", job.program, n>>
       /\ job.parent # Nobody =>
            \A t \in HeapFirst..Stack, j \in Entry :
              data'[Translate(p, t, j)] = data[Translate(job.parent, t, j)]]_vars

\* What the pages with file data of a program hold.
ImageOf(x) ==
  LET filled == UNION {FilledPages(Segments[x][k]) : k \in DOMAIN Segments[x]}
  IN  [a \in {<<n \div Entries, n % Entries>> : n \in filled} |->
         <<"image", x, a[1] * Entries + a[2]>>]

\* What a process finds at every page, through its directory and tables.
MemoryOf(p) ==
  [a \in Table \X Entry |->
     IF p \notin live \/ Translate(p, a[1], a[2]) = NotMapped THEN <<"nothing">>
     ELSE data[Translate(p, a[1], a[2])]]

\* What a process can read of the kernel cannot be written by it, as the comment
\* in allocate_page_dir has it: other access rights keep processes out of the
\* kernel's heap and file system (process.cpp:154).
KernelOutOfReach == [][\A f \in KernelFrames : data'[f] = data[f]]_vars

\* Seen by the processes each has an image, a heap and a stack to itself, beside
\* the kernel's heap and file system, which all of them read and write.  The
\* frames, the tables and the kernel's slots, of which a creation and a death
\* change many, one after the other, are not to be noticed by anybody else, and
\* a write to a page of one's own changes that page of that process alone
\* (paging.cpp, process.cpp, elf_loader.cpp).
AsMemories == INSTANCE Memories WITH
  Address <- Table \X Entry,
  Common <- KernelFrames,
  Own <- (HeapFirst..Stack) \X Entry,
  Image <- [x \in Program |-> ImageOf(x)],
  NoProgram <- "", Nothing <- <<"nothing">>,
  running <- live,
  program <- [p \in Process |-> IF p \in live THEN space[p].name ELSE ""],
  memory <- [p \in Process |-> MemoryOf(p)],
  common <- [f \in KernelFrames |-> data[f]],
  requests <- IF job.step = "idle" THEN {}
              ELSE {[pcb |-> job.pcb, program |-> job.program, parent |-> job.parent]}
IsolatedMemories == AsMemories!Spec
=============================================================================
