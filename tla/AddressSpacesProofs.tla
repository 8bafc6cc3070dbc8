------------------------ MODULE AddressSpacesProofs ------------------------
(***************************************************************************)
(* For every number of frames, processes, program files and tables: the    *)
(* address spaces stay apart from each other and from the kernel; for      *)
(* files whose segments are in order, no frame is lost and a process       *)
(* starts with all of its image, stack and heap; and what the processes    *)
(* see are memories that are isolated from each other.                     *)
(***************************************************************************)
EXTENDS AddressSpaces, FiniteSetTheorems, SequenceTheorems, TLAPS

-----------------------------------------------------------------------------
(* The invariant *)

Frame == Bit \union {NotMapped}

SpaceRecord ==
  [name : Program \union {""}, dir : Slot \union {0}, cr3 : Frame,
   directory : [Table -> Frame], page_tables : Seq(Slot), shared : SUBSET Bit]

JobRecord ==
  [step : {"idle", "directory", "table", "frame", "image", "copy", "heap_init"},
   pcb : Process \union {Nobody}, parent : Process \union {Nobody},
   program : Program \union {""}, segment : Nat, table : Table, page : Nat,
   tables : SUBSET (0..(HeapFirst - 1)), pages : Seq(Slot)]

Typed ==
  /\ frames \subseteq Bit
  /\ kernel \in [Slot -> Frame]
  /\ entry \in [Bit -> [Entry -> Frame]]
  /\ DOMAIN data = Bit
  /\ space \in [Process -> SpaceRecord]
  /\ live \subseteq Process
  /\ job \in JobRecord
  /\ halted \in BOOLEAN

\* The process that is being created has an address space from the moment its
\* directory is allocated.
Owners == live \union (IF job.step \in {"idle", "directory"} THEN {} ELSE {job.pcb})

\* The kernel's pages of an address space are what its directory says, each once.
Linked(p) ==
  LET tables == space[p].page_tables
  IN  /\ space[p].name \in Program
      /\ space[p].dir \in Slot /\ space[p].cr3 \in Bit
      /\ kernel[space[p].dir] = space[p].cr3
      /\ \A i \in DOMAIN tables : kernel[tables[i]] \in Bit \ {space[p].cr3}
      /\ \A i, k \in DOMAIN tables : kernel[tables[i]] = kernel[tables[k]] => i = k
      /\ TableFrames(p) = Range(space[p].directory) \ {NotMapped}
      /\ \A t, u \in Table :
           space[p].directory[t] = space[p].directory[u]
             => t = u \/ space[p].directory[t] = NotMapped

\* The tables that the loader and the allocation of stack and heap asked for.
Requested ==
  IF job.step = "table" /\ job.table = Stack THEN job.tables
  ELSE job.tables \union {Stack} \union
       (IF job.table = Stack THEN {}
        ELSE HeapFirst..(IF job.step = "table" THEN job.table - 1 ELSE job.table))

\* A kernel page of an image page: taken, and nobody's table.
ImageSlot(s) ==
  /\ kernel[s] \in frames \ Boot
  /\ \A q \in Owners : kernel[s] \notin ControlFrames(q)
  /\ \A q \in live : kernel[s] \notin PageFrames(q)

\* Where a creation is.
JobOK ==
  /\ job.step = "idle" <=> job = NoJob
  /\ job.step # "idle" =>
       /\ job.pcb \in Process \ live /\ job.program \in Program
       /\ job.parent \in live \union {Nobody}
  /\ job.step \in {"table", "frame"} => job.table \in (HeapFirst..HeapLast) \union {Stack}
  /\ job.step = "frame" => job.page \in Entry
  /\ job.step \in {"frame", "image", "copy"} => space[job.pcb].page_tables # <<>>
  /\ job.step \in {"image", "copy"} =>
       job.segment \in DOMAIN Segments[job.program] /\ job.table = Stack
  /\ job.step = "image" =>
       /\ job.page \in CurrentSegment.first..(CurrentSegment.first + CurrentSegment.full)
       /\ CurrentSegment.first + Len(job.pages) = job.page
  /\ job.step = "copy" =>
       /\ job.page < PagesNeeded(CurrentSegment)
       /\ Len(job.pages) + job.page = CurrentSegment.full + 1
  /\ job.step = "heap_init" => job.table = HeapLast
  /\ job.step \notin {"idle", "directory"} =>
       \A t \in Table : space[job.pcb].directory[t] # NotMapped => t \in Requested
  /\ job.step \notin {"image", "copy"} => job.pages = <<>>
  /\ \A i \in DOMAIN job.pages : ImageSlot(job.pages[i])
  /\ \A i, k \in DOMAIN job.pages : job.pages[i] = job.pages[k] => i = k

Inv ==
  /\ Typed
  /\ Spaces = Owners
  /\ \A p \in Spaces : Linked(p)
  /\ FramesApart
  /\ InUseIsTaken
  /\ Boot \subseteq frames
  /\ JobOK

-----------------------------------------------------------------------------
(* The constants *)

LEMMA Constants ==
  /\ Words \in Nat \ {0} /\ Words * WordBits \in Nat /\ Words * WordBits > 0
  /\ Bit \subseteq Nat /\ NotMapped \in Nat /\ NotMapped \notin Bit
  /\ Slot \subseteq Nat \ {0}
  /\ HeapFirst \in Nat /\ HeapLast \in Nat /\ Stack \in Nat /\ HeapFirst <= HeapLast
  /\ Stack = HeapLast + 1 /\ Table = 0..Stack /\ Entry \subseteq Nat /\ 0 \in Entry
  /\ Entries \in Nat \ {0} /\ Entries - 1 \in Entry
  <1>1. Words \in Nat
    BY AddressSpacesAssumption DEF Words
  <1>2. Words > 0
    BY <1>1, AddressSpacesAssumption
  <1>3. Words * WordBits \in Nat /\ Words * WordBits > 0
    BY <1>1, <1>2, AddressSpacesAssumption
  <1> QED BY <1>1, <1>2, <1>3, AddressSpacesAssumption
        DEF Bit, NotMapped, Slot, Stack, Table, Entry

\* What is taken at boot are frames of the bitmap.
LEMMA BootIsTaken == Boot \subseteq Bit
  <1>1. 0..(LockedWords * WordBits - 1) \subseteq Bit
    <2>1. LockedWords * WordBits <= Words * WordBits
      BY Constants, AddressSpacesAssumption
    <2> QED BY <2>1, Constants, AddressSpacesAssumption DEF Bit
  <1>2. Remainder \subseteq Bit
    <2>1. (Words - 1) * WordBits + WordBits = Words * WordBits /\ (Words - 1) * WordBits \in Nat
      BY Constants, AddressSpacesAssumption
    <2> QED BY <2>1, AddressSpacesAssumption DEF Bit, Remainder
  <1> QED BY <1>1, <1>2 DEF Boot, KernelFrames, Locked, Lowest

\* The pages of the kernel that processes share are taken at boot.
LEMMA KernelFramesTaken == KernelFrames \subseteq Boot /\ KernelFrames \subseteq Bit
  BY BootIsTaken DEF Boot

-----------------------------------------------------------------------------
(* The frames of one address space *)

LEMMA TableFrame ==
  ASSUME NEW p, NEW f
  PROVE  f \in TableFrames(p)
           <=> \E i \in DOMAIN space[p].page_tables : f = kernel[space[p].page_tables[i]]
  BY DEF TableFrames, Range

LEMMA PageFrame ==
  ASSUME NEW p, NEW g
  PROVE  g \in PageFrames(p)
           <=> g # NotMapped /\ \E f \in TableFrames(p), j \in Entry : g = entry[f][j]
  BY DEF PageFrames

LEMMA FrameTypes ==
  ASSUME Typed, NEW p \in Spaces, Linked(p)
  PROVE  /\ TableFrames(p) \subseteq Bit \ {space[p].cr3}
         /\ PageFrames(p) \subseteq Bit
         /\ ControlFrames(p) \subseteq Bit
  <1>1. TableFrames(p) \subseteq Bit \ {space[p].cr3}
    BY TableFrame DEF Linked
  <1>2. PageFrames(p) \subseteq Bit
    BY <1>1, PageFrame DEF Typed, Frame
  <1> QED BY <1>1, <1>2 DEF ControlFrames, Linked

\* A step that leaves the slots and the tables of an address space alone.
Untouched(q) ==
  /\ space'[q] = space[q]
  /\ kernel'[space[q].dir] = kernel[space[q].dir]
  /\ \A i \in DOMAIN space[q].page_tables :
       kernel'[space[q].page_tables[i]] = kernel[space[q].page_tables[i]]
  /\ \A f \in TableFrames(q) : entry'[f] = entry[f]

\* All of it stays then.
SameSpace(q) ==
  /\ space'[q] = space[q]
  /\ Linked(q)'
  /\ TableFrames(q)' = TableFrames(q)
  /\ PageFrames(q)' = PageFrames(q)
  /\ ControlFrames(q)' = ControlFrames(q)
  /\ \A f \in TableFrames(q) : entry'[f] = entry[f]

LEMMA UntouchedStays ==
  ASSUME NEW q, Linked(q), Untouched(q)
  PROVE  SameSpace(q)
  <1>1. TableFrames(q)' = TableFrames(q)
    <2>1. \A f : f \in TableFrames(q)' <=> f \in TableFrames(q)
      BY TableFrame DEF Untouched, TableFrames, Range
    <2> QED BY <2>1
  <1>2. PageFrames(q)' = PageFrames(q)
    BY <1>1 DEF Untouched, PageFrames
  <1>3. ControlFrames(q)' = ControlFrames(q)
    BY <1>1 DEF Untouched, ControlFrames
  <1>4. Linked(q)'
    BY <1>1 DEF Untouched, Linked
  <1> QED BY <1>1, <1>2, <1>3, <1>4 DEF SameSpace, Untouched

\* A slot that the kernel has not mapped is no slot of an address space.
LEMMA FreeSlot ==
  ASSUME Typed, NEW s \in Slot, kernel[s] = NotMapped, NEW q, Linked(q)
  PROVE  /\ s # space[q].dir
         /\ \A i \in DOMAIN space[q].page_tables : s # space[q].page_tables[i]
  BY Constants DEF Linked

\* allocate_page leaves every address space alone.
LEMMA AllocatePageUntouches ==
  ASSUME Typed, NEW s, NEW f, allocate_page(s, f), NEW q, Linked(q)
  PROVE  /\ kernel'[space[q].dir] = kernel[space[q].dir]
         /\ \A i \in DOMAIN space[q].page_tables :
              kernel'[space[q].page_tables[i]] = kernel[space[q].page_tables[i]]
  <1>1. s \in Slot /\ kernel[s] = NotMapped /\ kernel' = [kernel EXCEPT ![s] = f]
    BY DEF allocate_page, IsFreeSlot
  <1>2. /\ s # space[q].dir
        /\ \A i \in DOMAIN space[q].page_tables : s # space[q].page_tables[i]
    BY <1>1, FreeSlot
  <1>3. DOMAIN kernel = Slot
    BY DEF Typed
  <1> QED BY <1>1, <1>2, <1>3

LEMMA Allocated ==
  ASSUME Typed, NEW f, allocate_frame(f)
  PROVE  f \in Bit /\ f \notin frames /\ frames' = frames \union {f} /\ frames' \subseteq Bit
  BY DEF allocate_frame, IsFreeFrame, Typed

LEMMA AllocatedPage ==
  ASSUME Typed, NEW s, NEW f, allocate_page(s, f)
  PROVE  /\ f \in Bit /\ f \notin frames /\ frames' = frames \union {f} /\ frames' \subseteq Bit
         /\ s \in Slot /\ kernel[s] = NotMapped /\ kernel' = [kernel EXCEPT ![s] = f]
         /\ kernel' \in [Slot -> Frame] /\ kernel'[s] = f
  BY Allocated DEF allocate_page, IsFreeSlot, Typed, Frame

LEMMA JobOwner ==
  ASSUME Inv, job.step \notin {"idle", "directory"}
  PROVE  /\ job.pcb \in Spaces /\ job.pcb \in Process /\ job.pcb \notin live
         /\ Linked(job.pcb) /\ job.program \in Program
         /\ space[job.pcb] \in SpaceRecord /\ job \in JobRecord
         /\ Spaces = live \union {job.pcb}
  <1>1. job.pcb \in Owners /\ Owners = live \union {job.pcb}
    BY DEF Owners
  <1>2. job.step # "idle"
    OBVIOUS
  <1>3. job.pcb \in Process /\ job.pcb \notin live /\ job.program \in Program
    BY <1>2 DEF Inv, JobOK
  <1> QED BY <1>1, <1>3 DEF Inv, Typed

LEMMA LastOf ==
  ASSUME NEW S, NEW seq \in Seq(S), seq # <<>>
  PROVE  Len(seq) \in DOMAIN seq /\ Last(seq) = seq[Len(seq)]
  BY DEF Last

LEMMA CurrentTableIsOne ==
  ASSUME Inv, job.step \in {"frame", "image", "copy"}
  PROVE  CurrentTable \in TableFrames(job.pcb) /\ CurrentTable \in Bit
  <1>1. /\ space[job.pcb].page_tables \in Seq(Slot)
        /\ space[job.pcb].page_tables # <<>>
        /\ Linked(job.pcb) /\ job.pcb \in Spaces
    BY JobOwner DEF Inv, JobOK, SpaceRecord
  <1>2. CurrentTable \in TableFrames(job.pcb)
    BY <1>1, LastOf, TableFrame DEF CurrentTable
  <1> QED BY <1>1, <1>2, FrameTypes DEF Inv

\* The segment that is loaded, and the pages of its file.
LEMMA SegmentType ==
  ASSUME Inv, job.step \in {"image", "copy"}
  PROVE  LET s == CurrentSegment
         IN  /\ job.segment \in 1..Len(Segments[job.program])
             /\ s \in Segment /\ s.first \in Nat /\ s.full \in Nat /\ s.rest \in BOOLEAN
             /\ s.first + s.full < HeapFirst * Entries
             /\ PagesNeeded(s) \in {s.full, s.full + 1} /\ PagesNeeded(s) > 0
  <1>1. job.program \in Program /\ job.segment \in DOMAIN Segments[job.program]
    BY JobOwner DEF Inv, JobOK
  <1>2. Segments[job.program] \in Seq(Segment)
    BY <1>1, AddressSpacesAssumption
  <1>3. CurrentSegment \in Segment
    BY <1>1, <1>2 DEF CurrentSegment
  <1>4. /\ CurrentSegment.rest \/ CurrentSegment.full > 0
        /\ CurrentSegment.first + CurrentSegment.full < HeapFirst * Entries
    BY <1>1, AddressSpacesAssumption DEF CurrentSegment
  <1>5. PICK s : s = CurrentSegment
    OBVIOUS
  <1>6. /\ s.first \in Nat /\ s.full \in Nat /\ s.rest \in BOOLEAN
        /\ s.rest \/ s.full > 0
    BY <1>3, <1>4, <1>5 DEF Segment
  <1>7. PagesNeeded(s) \in {s.full, s.full + 1} /\ PagesNeeded(s) > 0
    BY <1>6 DEF PagesNeeded
  <1>8. job.segment \in 1..Len(Segments[job.program])
    BY <1>1, <1>2
  <1> QED BY <1>3, <1>4, <1>5, <1>6, <1>7, <1>8

\* The page of an image is in a table below the heap, at an entry of it.
LEMMA ImageTable ==
  ASSUME NEW n \in Nat, n < HeapFirst * Entries
  PROVE  /\ n \div Entries \in 0..(HeapFirst - 1) /\ n % Entries \in Entry
         /\ n \div Entries \in Table /\ n = (n \div Entries) * Entries + (n % Entries)
  <1>1. n \div Entries \in Nat /\ n % Entries \in 0..(Entries - 1)
    BY Constants
  <1>2. n = (n \div Entries) * Entries + (n % Entries)
    BY Constants
  <1>3. n \div Entries < HeapFirst
    <2> DEFINE d == n \div Entries
    <2>1. d \in Nat /\ d * Entries <= n
      BY <1>1, <1>2, Constants
    <2> HIDE DEF d
    <2>2. d * Entries < HeapFirst * Entries
      BY <2>1, Constants
    <2>3. ASSUME d >= HeapFirst PROVE FALSE
      <3>1. d * Entries >= HeapFirst * Entries
        BY <2>1, <2>3, Constants
      <3> QED BY <2>1, <2>2, <3>1, Constants
    <2> QED BY <2>1, <2>3, Constants DEF d
  <1> QED BY <1>1, <1>2, <1>3, Constants DEF Entry

-----------------------------------------------------------------------------
(* How a step changes the address spaces *)

OthersStay(p) == \A q \in Spaces \ {p} : SameSpace(q)

\* The directory and the tables of p are as they were.
SameControl(p) ==
  /\ space'[p] = space[p]
  /\ Linked(p)'
  /\ TableFrames(p)' = TableFrames(p)
  /\ ControlFrames(p)' = ControlFrames(p)

OnceIn(p) ==
  \A f, g \in TableFrames(p), i, j \in Entry :
    entry[f][i] = entry[g][j] /\ entry[f][i] # NotMapped => f = g /\ i = j

LEMMA ApartSame ==
  ASSUME FramesApart, Spaces' \subseteq Spaces, \A q \in Spaces' : SameSpace(q)
  PROVE  FramesApart'
  <1> SUFFICES ASSUME NEW p \in Spaces', NEW q \in Spaces'
               PROVE  /\ PageFrames(p)' \intersect (ControlFrames(q)' \union Boot) = {}
                      /\ ControlFrames(p)' \intersect Boot = {}
                      /\ p # q => /\ PageFrames(p)' \intersect PageFrames(q)' = {}
                                  /\ ControlFrames(p)' \intersect ControlFrames(q)' = {}
                      /\ (space[p].cr3 \notin TableFrames(p))'
                      /\ OnceIn(p)'
    BY DEF FramesApart, OnceIn
  <1>1. p \in Spaces /\ q \in Spaces /\ SameSpace(p) /\ SameSpace(q)
    OBVIOUS
  <1>2. OnceIn(p)
    BY <1>1 DEF FramesApart, OnceIn
  <1>3. OnceIn(p)'
    BY <1>1, <1>2 DEF SameSpace, OnceIn
  <1> QED BY <1>1, <1>3 DEF FramesApart, SameSpace

\* A free frame is in no address space.
LEMMA FreeFrame ==
  ASSUME Inv, NEW f, f \notin frames
  PROVE  f \notin Boot /\ \A q \in Spaces : f \notin PageFrames(q) /\ f \notin ControlFrames(q)
  BY DEF Inv, InUseIsTaken

\* A free frame becomes a page of p: nothing else of any address space changes.
LEMMA NewPage ==
  ASSUME Inv, NEW p \in Spaces, NEW f \in Bit, f \notin frames,
         NEW c \in TableFrames(p), NEW j \in Entry,
         Spaces' = Spaces, OthersStay(p), SameControl(p),
         entry' = [entry EXCEPT ![c][j] = f]
  PROVE  /\ FramesApart'
         /\ PageFrames(p)' \subseteq PageFrames(p) \union {f}
         /\ f \in PageFrames(p)'
  <1>1. /\ TableFrames(p) \subseteq Bit /\ c \in Bit /\ Linked(p)
        /\ entry \in [Bit -> [Entry -> Frame]]
    BY FrameTypes DEF Inv, Typed
  <1>2. \A g \in TableFrames(p), i \in Entry :
          entry'[g][i] = IF g = c /\ i = j THEN f ELSE entry[g][i]
    BY <1>1
  <1>3. PageFrames(p)' \subseteq PageFrames(p) \union {f}
    <2> SUFFICES ASSUME NEW g \in PageFrames(p)', g # f
                 PROVE  g \in PageFrames(p)
      OBVIOUS
    <2>1. PICK h \in TableFrames(p)', i \in Entry : g = entry'[h][i] /\ g # NotMapped
      BY DEF PageFrames
    <2>2. h \in TableFrames(p) /\ g = entry[h][i]
      BY <1>2, <2>1 DEF SameControl
    <2> QED BY <2>1, <2>2, PageFrame
  <1>4. f \in PageFrames(p)'
    BY <1>2, Constants DEF PageFrames, SameControl
  <1>5. f \notin Boot /\ \A q \in Spaces : f \notin PageFrames(q) /\ f \notin ControlFrames(q)
    BY FreeFrame
  <1>6. FramesApart /\ f # NotMapped
    BY Constants DEF Inv
  <1>7. OnceIn(p)'
    <2>1. \A g \in TableFrames(p), i \in Entry : entry[g][i] # f
      BY <1>5, <1>6, PageFrame
    <2>2. OnceIn(p)
      BY <1>6 DEF FramesApart, OnceIn
    <2> QED BY <1>2, <2>1, <2>2 DEF OnceIn, SameControl
  <1>8. FramesApart'
    <2> SUFFICES ASSUME NEW q \in Spaces, NEW r \in Spaces
                 PROVE  /\ PageFrames(q)' \intersect (ControlFrames(r)' \union Boot) = {}
                        /\ ControlFrames(q)' \intersect Boot = {}
                        /\ q # r => /\ PageFrames(q)' \intersect PageFrames(r)' = {}
                                    /\ ControlFrames(q)' \intersect ControlFrames(r)' = {}
                        /\ (space[q].cr3 \notin TableFrames(q))'
                        /\ OnceIn(q)'
      BY DEF FramesApart, OnceIn
    <2>1. \A u \in Spaces : /\ ControlFrames(u)' = ControlFrames(u)
                            /\ TableFrames(u)' = TableFrames(u) /\ space'[u] = space[u]
                            /\ PageFrames(u)' \subseteq PageFrames(u) \union {f}
                            /\ u # p => PageFrames(u)' = PageFrames(u)
      BY <1>3 DEF OthersStay, SameSpace, SameControl
    <2>2. OnceIn(q)'
      <3>1. CASE q = p
        BY <3>1, <1>7
      <3>2. CASE q # p
        BY <1>6, <3>2 DEF FramesApart, OnceIn, OthersStay, SameSpace
      <3> QED BY <3>1, <3>2
    <2>3. /\ PageFrames(q) \intersect (ControlFrames(r) \union Boot) = {}
          /\ ControlFrames(q) \intersect Boot = {}
          /\ q # r => /\ PageFrames(q) \intersect PageFrames(r) = {}
                      /\ ControlFrames(q) \intersect ControlFrames(r) = {}
          /\ space[q].cr3 \notin TableFrames(q)
      BY <1>6 DEF FramesApart
    <2>4. q # r => PageFrames(q)' \intersect PageFrames(r)' = {}
      BY <1>5, <2>1, <2>3
    <2> QED BY <1>5, <2>1, <2>2, <2>3, <2>4
  <1> QED BY <1>3, <1>4, <1>8

\* A free frame becomes a table or the directory of p.
LEMMA NewControl ==
  ASSUME Inv, NEW p, NEW f \in Bit, f \notin frames, frames' = frames \union {f},
         Spaces' = Spaces \union {p}, OthersStay(p),
         p \in Spaces => PageFrames(p)' = PageFrames(p),
         p \in Spaces => ControlFrames(p)' = ControlFrames(p) \union {f},
         p \notin Spaces => PageFrames(p)' = {} /\ ControlFrames(p)' = {f},
         (space[p].cr3 \notin TableFrames(p))', OnceIn(p)'
  PROVE  FramesApart' /\ InUseIsTaken'
  <1>1. f \notin Boot /\ \A q \in Spaces : f \notin PageFrames(q) /\ f \notin ControlFrames(q)
    BY FreeFrame
  <1>2. /\ PageFrames(p)' = IF p \in Spaces THEN PageFrames(p) ELSE {}
        /\ ControlFrames(p)' = (IF p \in Spaces THEN ControlFrames(p) ELSE {}) \union {f}
    OBVIOUS
  <1>3. \A q \in Spaces \ {p} :
          /\ PageFrames(q)' = PageFrames(q) /\ ControlFrames(q)' = ControlFrames(q)
          /\ TableFrames(q)' = TableFrames(q) /\ space'[q] = space[q]
    BY DEF OthersStay, SameSpace
  <1>4. FramesApart'
    <2> SUFFICES ASSUME NEW q \in Spaces', NEW r \in Spaces'
                 PROVE  /\ PageFrames(q)' \intersect (ControlFrames(r)' \union Boot) = {}
                        /\ ControlFrames(q)' \intersect Boot = {}
                        /\ q # r => /\ PageFrames(q)' \intersect PageFrames(r)' = {}
                                    /\ ControlFrames(q)' \intersect ControlFrames(r)' = {}
                        /\ (space[q].cr3 \notin TableFrames(q))'
                        /\ OnceIn(q)'
      BY DEF FramesApart, OnceIn
    <2>1. \A u, v \in Spaces :
            /\ PageFrames(u) \intersect (ControlFrames(v) \union Boot) = {}
            /\ ControlFrames(u) \intersect Boot = {}
            /\ u # v => /\ PageFrames(u) \intersect PageFrames(v) = {}
                        /\ ControlFrames(u) \intersect ControlFrames(v) = {}
            /\ space[u].cr3 \notin TableFrames(u)
            /\ OnceIn(u)
      BY DEF Inv, FramesApart, OnceIn
    <2>2. (space[q].cr3 \notin TableFrames(q))'
      <3>1. CASE q = p
        BY <3>1
      <3>2. CASE q # p
        BY <3>2, <2>1, <1>3
      <3> QED BY <3>1, <3>2
    <2>3. OnceIn(q)'
      <3>1. CASE q = p
        BY <3>1
      <3>2. CASE q # p
        BY <2>1, <3>2 DEF OnceIn, OthersStay, SameSpace
      <3> QED BY <3>1, <3>2
    <2>4. PageFrames(q)' \intersect (ControlFrames(r)' \union Boot) = {}
      BY <1>1, <1>2, <1>3, <2>1
    <2>5. ControlFrames(q)' \intersect Boot = {}
      BY <1>1, <1>2, <1>3, <2>1
    <2>6. q # r => PageFrames(q)' \intersect PageFrames(r)' = {}
      BY <1>2, <1>3, <2>1
    <2>7. q # r => ControlFrames(q)' \intersect ControlFrames(r)' = {}
      BY <1>1, <1>2, <1>3, <2>1
    <2> QED BY <2>2, <2>3, <2>4, <2>5, <2>6, <2>7
  <1>5. InUseIsTaken'
    BY <1>2, <1>3 DEF Inv, InUseIsTaken
  <1> QED BY <1>4, <1>5

\* What another process than q has is none of q's slots and tables.
LEMMA OthersSlots ==
  ASSUME Inv, NEW p \in Spaces, NEW q \in Spaces, p # q
  PROVE  /\ space[p].dir # space[q].dir
         /\ \A i \in DOMAIN space[q].page_tables : space[q].page_tables[i] # space[p].dir
         /\ TableFrames(p) \intersect TableFrames(q) = {}
  <1>1. Linked(p) /\ Linked(q) /\ ControlFrames(p) \intersect ControlFrames(q) = {}
    BY DEF Inv, FramesApart
  <1>2. TableFrames(p) \intersect TableFrames(q) = {}
    BY <1>1 DEF ControlFrames
  <1>3. space[p].cr3 \in ControlFrames(p) /\ space[q].cr3 \in ControlFrames(q)
    BY DEF ControlFrames
  <1>4. \A i \in DOMAIN space[q].page_tables :
          kernel[space[q].page_tables[i]] \in ControlFrames(q)
    BY TableFrame DEF ControlFrames
  <1> QED BY <1>1, <1>2, <1>3, <1>4 DEF Linked

-----------------------------------------------------------------------------
(* Every step keeps the invariant *)

\* Steps that leave frames, the kernel's pages, tables and spaces as they are.
LEMMA SpacesUnchanged ==
  ASSUME Inv, UNCHANGED <<frames, kernel, entry, space>>
  PROVE  /\ Spaces' = Spaces /\ \A q \in Spaces : SameSpace(q)
         /\ \A q \in Spaces' : Linked(q)'
         /\ FramesApart' /\ InUseIsTaken' /\ (Boot \subseteq frames)'
  <1>1. Spaces' = Spaces
    BY DEF Spaces
  <1>2. \A q \in Spaces : SameSpace(q)
    BY UntouchedStays DEF Inv, Untouched
  <1>3. FramesApart'
    BY <1>1, <1>2, ApartSame DEF Inv
  <1>4. InUseIsTaken'
    BY <1>1, <1>2 DEF Inv, InUseIsTaken, SameSpace
  <1> QED BY <1>1, <1>2, <1>3, <1>4 DEF Inv, SameSpace

\* A running process has the address space that it had before.
LiveStay == \A q \in live \intersect live' : SameSpace(q)

LEMMA LiveHasSpace ==
  ASSUME Inv
  PROVE  live \subseteq Spaces
  BY DEF Inv, Owners

LEMMA NoJobType ==
  /\ NoJob \in JobRecord
  /\ NoJob.step = "idle" /\ NoJob.pages = <<>> /\ DOMAIN NoJob.pages = {}
  <1>1. 0 \in Table /\ <<>> \in Seq(Slot)
    BY Constants
  <1> QED BY <1>1 DEF NoJob, JobRecord

LEMMA BeginCreateKeeps ==
  ASSUME Inv, NEW p \in Process, NEW x \in Program, NEW parent \in live \union {Nobody},
         BeginCreate(p, x, parent)
  PROVE  Inv' /\ LiveStay
  <1>1. UNCHANGED <<frames, kernel, entry, space, live, data, halted>>
    BY DEF BeginCreate
  <1>2. job' = [step |-> "directory", pcb |-> p, parent |-> parent, program |-> x,
                segment |-> 0, table |-> 0, page |-> 0, tables |-> {}, pages |-> <<>>]
    BY DEF BeginCreate, NoJob
  <1>3. p \notin live /\ job = NoJob
    BY DEF BeginCreate
  <1>4. Typed'
    <2>1. parent \in Process \union {Nobody} /\ 0 \in Table /\ <<>> \in Seq(Slot)
      BY Constants DEF Inv, Typed
    <2>2. job' \in JobRecord
      BY <1>2, <2>1 DEF JobRecord
    <2> QED BY <1>1, <2>2 DEF Inv, Typed
  <1>5. Spaces' = Owners'
    BY <1>1, <1>2, <1>3 DEF Inv, Spaces, Owners, NoJob
  <1>6. JobOK'
    <2>1. /\ job'.step = "directory" /\ job'.pcb = p /\ job'.program = x
          /\ job'.parent = parent /\ job'.pages = <<>> /\ DOMAIN job'.pages = {}
      BY <1>2
    <2>2. job' # NoJob
      BY <2>1, NoJobType
    <2> QED BY <1>1, <1>3, <2>1, <2>2 DEF JobOK
  <1> QED BY <1>1, <1>4, <1>5, <1>6, SpacesUnchanged, LiveHasSpace DEF Inv, LiveStay

LEMMA CreateKeeps ==
  ASSUME Inv, NEW p \in Process, NEW x \in Program, Create(p, x)
  PROVE  Inv' /\ LiveStay
  BY BeginCreateKeeps DEF Create

LEMMA ForkKeeps ==
  ASSUME Inv, NEW p \in Process, NEW parent \in Process, Fork(p, parent)
  PROVE  Inv' /\ LiveStay
  <1>1. parent \in live /\ parent \in Spaces
    BY DEF Fork, Inv, Owners
  <1>2. space[parent].name \in Program
    BY <1>1 DEF Inv, Linked
  <1> QED BY <1>1, <1>2, BeginCreateKeeps DEF Fork

LEMMA PanicKeeps ==
  ASSUME Inv, Panic
  PROVE  Inv' /\ LiveStay
  <1>1. UNCHANGED <<frames, kernel, entry, data, space, live, job>> /\ halted' = TRUE
    BY DEF Panic
  <1>2. Typed'
    BY <1>1 DEF Inv, Typed
  <1>3. Spaces' = Owners'
    BY <1>1 DEF Inv, Spaces, Owners
  <1>4. JobOK'
    BY <1>1 DEF Inv, JobOK, Owners, Requested, ImageSlot, CurrentSegment, ControlFrames,
                TableFrames, PageFrames
  <1> QED BY <1>1, <1>2, <1>3, <1>4, SpacesUnchanged, LiveHasSpace DEF Inv, LiveStay

LEMMA WriteKeeps ==
  ASSUME Inv, NEW p, NEW t, NEW j, Write(p, t, j)
  PROVE  Inv' /\ LiveStay
  <1>1. UNCHANGED <<frames, kernel, entry, space, live, job, halted>> /\ DOMAIN data' = DOMAIN data
    BY DEF Write
  <1>2. Typed'
    BY <1>1 DEF Inv, Typed
  <1>3. Spaces' = Owners'
    BY <1>1 DEF Inv, Spaces, Owners
  <1>4. JobOK'
    BY <1>1 DEF Inv, JobOK, Owners, Requested, ImageSlot, CurrentSegment, ControlFrames,
                TableFrames, PageFrames
  <1> QED BY <1>1, <1>2, <1>3, <1>4, SpacesUnchanged, LiveHasSpace DEF Inv, LiveStay

LEMMA WriteKernelKeeps ==
  ASSUME Inv, NEW p, NEW f, WriteKernel(p, f)
  PROVE  Inv' /\ LiveStay
  <1>1. UNCHANGED <<frames, kernel, entry, space, live, job, halted>> /\ DOMAIN data' = DOMAIN data
    BY DEF WriteKernel
  <1>2. Typed'
    BY <1>1 DEF Inv, Typed
  <1>3. Spaces' = Owners'
    BY <1>1 DEF Inv, Spaces, Owners
  <1>4. JobOK'
    BY <1>1 DEF Inv, JobOK, Owners, Requested, ImageSlot, CurrentSegment, ControlFrames,
                TableFrames, PageFrames
  <1> QED BY <1>1, <1>2, <1>3, <1>4, SpacesUnchanged, LiveHasSpace DEF Inv, LiveStay

LEMMA FinishCreateKeeps ==
  ASSUME Inv, FinishCreate
  PROVE  Inv' /\ LiveStay
  <1>1. UNCHANGED <<frames, kernel, entry, space, halted>> /\ DOMAIN data' = DOMAIN data
    BY DEF FinishCreate, Inv, Typed
  <1>2. job.step = "heap_init" /\ job' = NoJob /\ live' = live \union {job.pcb}
    BY DEF FinishCreate
  <1>3. Spaces = live \union {job.pcb} /\ job.pcb \in Process
    BY <1>2, JobOwner
  <1>4. Typed'
    <2>1. job' \in JobRecord
      BY <1>2, NoJobType
    <2> QED BY <1>1, <1>2, <1>3, <2>1 DEF Inv, Typed
  <1>5. Spaces' = Owners'
    BY <1>1, <1>2, <1>3, NoJobType DEF Spaces, Owners
  <1>6. JobOK'
    BY <1>2, NoJobType DEF JobOK
  <1> QED BY <1>1, <1>4, <1>5, <1>6, SpacesUnchanged, LiveHasSpace DEF Inv, LiveStay

LEMMA AllocatePageDirKeeps ==
  ASSUME Inv, AllocatePageDir
  PROVE  Inv' /\ LiveStay
  <1>0. PICK p : p = job.pcb
    OBVIOUS
  <1>1. /\ job.step = "directory"
        /\ job' = [job EXCEPT !.step = "table", !.table = Stack]
        /\ UNCHANGED <<entry, data, live, halted>>
    BY DEF AllocatePageDir
  <1>2. PICK s \in Slot, f \in Bit :
          /\ allocate_page(s, f)
          /\ space' = [space EXCEPT ![p] =
                         [NoSpace EXCEPT !.name = job.program, !.dir = s, !.cr3 = f,
                                         !.shared = KernelFrames]]
    BY <1>0 DEF AllocatePageDir
  <1>3. Typed /\ job \in JobRecord /\ JobOK /\ Spaces = live /\ FramesApart
    BY <1>1 DEF Inv, Typed, Owners
  <1>4. p \in Process \ live /\ job.program \in Program /\ job.parent \in live \union {Nobody}
    BY <1>0, <1>1, <1>3 DEF JobOK
  <1>5. /\ f \notin frames /\ frames' = frames \union {f} /\ frames' \subseteq Bit
        /\ kernel' \in [Slot -> Frame] /\ kernel'[s] = f /\ f # NotMapped
    BY <1>2, <1>3, AllocatedPage, Constants
  <1>6. /\ space'[p] \in SpaceRecord
        /\ space'[p].name = job.program /\ space'[p].dir = s /\ space'[p].cr3 = f
        /\ space'[p].directory = [t \in Table |-> NotMapped]
        /\ space'[p].page_tables = <<>>
        /\ \A r \in Process \ {p} : space'[r] = space[r]
        /\ space' \in [Process -> SpaceRecord]
    <2>1. PICK new : new = [NoSpace EXCEPT !.name = job.program, !.dir = s, !.cr3 = f,
                                           !.shared = KernelFrames]
      OBVIOUS
    <2>2. [t \in Table |-> NotMapped] \in [Table -> Frame] /\ <<>> \in Seq(Slot)
      BY DEF Frame
    <2>3. NoSpace \in SpaceRecord
      BY <2>2 DEF NoSpace, SpaceRecord, Frame
    <2>4. new \in SpaceRecord
      BY <1>4, <2>1, <2>3, KernelFramesTaken DEF SpaceRecord, Frame
    <2>5. /\ new.name = job.program /\ new.dir = s /\ new.cr3 = f
          /\ new.directory = [t \in Table |-> NotMapped] /\ new.page_tables = <<>>
      BY <2>1 DEF NoSpace
    <2>6. space \in [Process -> SpaceRecord] /\ space' = [space EXCEPT ![p] = new]
      BY <1>2, <1>3, <2>1 DEF Typed
    <2>7. /\ space'[p] = new /\ \A r \in Process \ {p} : space'[r] = space[r]
          /\ space' \in [Process -> SpaceRecord]
      BY <1>4, <2>4, <2>6
    <2> QED BY <2>4, <2>5, <2>7
  <1>7. job' \in JobRecord /\ Typed'
    <2>1. Stack \in Table
      BY Constants
    <2>2. job' \in JobRecord
      BY <1>1, <1>3, <2>1 DEF JobRecord
    <2> QED BY <1>1, <1>3, <1>5, <1>6, <2>2 DEF Typed
  <1>8. Spaces' = Spaces \union {p} /\ p \notin Spaces
    BY <1>3, <1>4, <1>5, <1>6 DEF Spaces
  <1>9. Spaces' = Owners'
    BY <1>0, <1>1, <1>3, <1>8 DEF Owners, JobRecord
  <1>10. \A r \in Spaces : Linked(r) /\ r \in Process
    BY DEF Inv, Spaces
  <1>11. OthersStay(p)
    <2> SUFFICES ASSUME NEW r \in Spaces PROVE SameSpace(r)
      BY DEF OthersStay
    <2>1. Untouched(r)
      BY <1>1, <1>2, <1>3, <1>6, <1>8, <1>10, AllocatePageUntouches DEF Untouched
    <2> QED BY <1>10, <2>1, UntouchedStays
  <1>12. TableFrames(p)' = {} /\ PageFrames(p)' = {} /\ ControlFrames(p)' = {f}
    BY <1>6 DEF TableFrames, PageFrames, ControlFrames, Range
  <1>13. Linked(p)'
    <2>1. Range(space'[p].directory) \ {NotMapped} = {} /\ DOMAIN space'[p].page_tables = {}
      BY <1>6 DEF Range
    <2> QED BY <1>4, <1>5, <1>6, <1>12, <2>1 DEF Linked
  <1>14. FramesApart' /\ InUseIsTaken'
    BY <1>5, <1>6, <1>8, <1>11, <1>12, NewControl DEF OnceIn
  <1>15. JobOK'
    <2>1. /\ job'.step = "table" /\ job'.table = Stack /\ job'.pcb = p
          /\ job'.program = job.program /\ job'.parent = job.parent
          /\ job'.pages = <<>>
      <3>1. job.pages = <<>>
        BY <1>1, <1>3 DEF JobOK
      <3> QED BY <1>0, <1>1, <1>3, <3>1 DEF JobRecord
    <2>2. job' # NoJob
      BY <2>1, NoJobType
    <2>3. \A t \in Table : space'[p].directory[t] = NotMapped
      BY <1>6
    <2>4. DOMAIN job'.pages = {}
      BY <2>1
    <2> QED BY <1>1, <1>4, <2>1, <2>2, <2>3, <2>4 DEF JobOK
  <1>16. \A r \in Spaces' : Linked(r)'
    BY <1>8, <1>11, <1>13 DEF OthersStay, SameSpace
  <1>17. (Boot \subseteq frames)'
    BY <1>5 DEF Inv
  <1>18. LiveStay
    BY <1>4, <1>11, LiveHasSpace DEF LiveStay, OthersStay
  <1> QED BY <1>7, <1>9, <1>14, <1>15, <1>16, <1>17, <1>18 DEF Inv

\* What NewTable does: slot s and frame f are the new table's.
TableMade(p, t, s, f) ==
  /\ s \in Slot /\ kernel[s] = NotMapped /\ kernel' = [kernel EXCEPT ![s] = f]
  /\ f \in Bit /\ f \notin frames /\ frames' = frames \union {f}
  /\ entry' = [entry EXCEPT ![f] = NoTable]
  /\ space'[p].name = space[p].name /\ space'[p].dir = space[p].dir
  /\ space'[p].cr3 = space[p].cr3
  /\ space'[p].directory = [space[p].directory EXCEPT ![t] = f]
  /\ space'[p].page_tables = Append(space[p].page_tables, s)
  /\ \A r \in Process \ {p} : space'[r] = space[r]
  /\ space' \in [Process -> SpaceRecord]
  /\ kernel' \in [Slot -> Frame] /\ entry' \in [Bit -> [Entry -> Frame]] /\ frames' \subseteq Bit

LEMMA NewTableMakes ==
  ASSUME Inv, NEW t \in Table, NEW p \in Spaces, p = job.pcb, NewTable(t)
  PROVE  \E s, f : TableMade(p, t, s, f) /\ allocate_page(s, f)
  <1>1. PICK s \in Slot, f \in Bit :
          /\ allocate_page(s, f)
          /\ entry' = [entry EXCEPT ![f] = NoTable]
          /\ space' = [space EXCEPT ![p].directory[t] = f, ![p].page_tables = Append(@, s)]
    BY DEF NewTable
  <1>2. Typed /\ p \in Process /\ space[p] \in SpaceRecord
    BY DEF Inv, Typed, Spaces
  <1>3. /\ f \notin frames /\ frames' = frames \union {f} /\ frames' \subseteq Bit
        /\ kernel[s] = NotMapped /\ kernel' = [kernel EXCEPT ![s] = f]
        /\ kernel' \in [Slot -> Frame]
    BY <1>1, <1>2, AllocatedPage
  <1>4. entry' \in [Bit -> [Entry -> Frame]]
    <2>1. NoTable \in [Entry -> Frame]
      BY DEF NoTable, Frame
    <2> QED BY <1>1, <1>2, <2>1 DEF Typed
  <1>5. PICK new : new = [space[p] EXCEPT !.directory[t] = f, !.page_tables = Append(@, s)]
    OBVIOUS
  <1>6. space' = [space EXCEPT ![p] = new]
    BY <1>1, <1>2, <1>5 DEF Typed, SpaceRecord
  <1>7. /\ new.name = space[p].name /\ new.dir = space[p].dir /\ new.cr3 = space[p].cr3
        /\ new.directory = [space[p].directory EXCEPT ![t] = f]
        /\ new.page_tables = Append(space[p].page_tables, s)
    BY <1>2, <1>5 DEF SpaceRecord
  <1>8. new \in SpaceRecord
    <2>1. /\ [space[p].directory EXCEPT ![t] = f] \in [Table -> Frame]
          /\ Append(space[p].page_tables, s) \in Seq(Slot)
      <3>1. /\ space[p].directory \in [Table -> Frame] /\ space[p].page_tables \in Seq(Slot)
            /\ f \in Frame
        BY <1>2 DEF SpaceRecord, Frame
      <3> QED BY <3>1
    <2> QED BY <1>2, <1>5, <2>1 DEF SpaceRecord
  <1>9. /\ space'[p] = new /\ \A r \in Process \ {p} : space'[r] = space[r]
        /\ space' \in [Process -> SpaceRecord]
    BY <1>2, <1>6, <1>8 DEF Typed
  <1>10. TableMade(p, t, s, f)
    BY <1>1, <1>3, <1>4, <1>7, <1>9 DEF TableMade
  <1> QED BY <1>1, <1>10

\* A new table: its process has one frame more, and nobody else is touched.
LEMMA TableMadeKeeps ==
  ASSUME Inv, NEW p \in Spaces, NEW t \in Table, space[p].directory[t] = NotMapped,
         NEW s, NEW f, TableMade(p, t, s, f), allocate_page(s, f)
  PROVE  /\ Spaces' = Spaces /\ OthersStay(p)
         /\ Linked(p)' /\ \A q \in Spaces' : Linked(q)'
         /\ TableFrames(p)' = TableFrames(p) \union {f}
         /\ PageFrames(p)' = PageFrames(p)
         /\ ControlFrames(p)' = ControlFrames(p) \union {f}
         /\ FramesApart' /\ InUseIsTaken' /\ (Boot \subseteq frames)'
  <1>0. PICK pt, n : pt = space[p].page_tables /\ n = Len(pt)
    OBVIOUS
  <1>1. /\ Typed /\ Linked(p) /\ p \in Process /\ space[p] \in SpaceRecord
        /\ pt \in Seq(Slot) /\ s \in Slot /\ f \in Bit /\ f # NotMapped
    BY <1>0, Constants DEF Inv, Typed, SpaceRecord, Spaces, TableMade
  <1>2. /\ n \in Nat /\ DOMAIN pt = 1..n
        /\ space'[p].page_tables \in Seq(Slot)
        /\ DOMAIN space'[p].page_tables = 1..(n + 1)
        /\ \A i \in 1..n : space'[p].page_tables[i] = pt[i]
        /\ space'[p].page_tables[n + 1] = s
    BY <1>0, <1>1, AppendProperties DEF TableMade
  <1>3. Spaces' = Spaces
    BY <1>1 DEF Spaces, TableMade
  <1>4. \A q \in Spaces : Linked(q) /\ q \in Process
    BY DEF Inv, Spaces
  <1>5. \A q \in Spaces : f \notin TableFrames(q) /\ f \notin ControlFrames(q) /\ f \notin PageFrames(q)
    BY FreeFrame DEF TableMade, ControlFrames
  <1>6. \A q \in Spaces : \A g \in TableFrames(q) : entry'[g] = entry[g]
    BY <1>1, <1>4, <1>5, FrameTypes DEF TableMade, Typed
  <1>7. OthersStay(p)
    <2> SUFFICES ASSUME NEW r \in Spaces \ {p} PROVE SameSpace(r)
      BY DEF OthersStay
    <2>1. Untouched(r)
      BY <1>1, <1>4, <1>6, AllocatePageUntouches DEF Untouched, TableMade
    <2> QED BY <1>4, <2>1, UntouchedStays
  <1>8. /\ kernel'[space[p].dir] = kernel[space[p].dir]
        /\ \A i \in 1..n : kernel'[pt[i]] = kernel[pt[i]]
        /\ kernel'[s] = f
        /\ \A i \in 1..(n + 1) :
             /\ i \in 1..n \/ i = n + 1
             /\ kernel'[space'[p].page_tables[i]] = IF i = n + 1 THEN f ELSE kernel[pt[i]]
    <2>1. /\ kernel'[space[p].dir] = kernel[space[p].dir]
          /\ \A i \in 1..n : kernel'[pt[i]] = kernel[pt[i]]
          /\ kernel'[s] = f
      BY <1>0, <1>1, <1>2, AllocatePageUntouches DEF TableMade, Typed
    <2>2. \A i \in 1..(n + 1) : i \in 1..n \/ i = n + 1
      BY <1>2
    <2> QED BY <1>2, <2>1, <2>2
  <1>9. TableFrames(p)' = TableFrames(p) \union {f}
    <2>1. TableFrames(p)' = {kernel'[space'[p].page_tables[i]] : i \in 1..(n + 1)}
      BY <1>2 DEF TableFrames, Range
    <2>2. TableFrames(p) = {kernel[pt[i]] : i \in 1..n}
      BY <1>0, <1>2 DEF TableFrames, Range
    <2>3. \A g : (\E i \in 1..(n + 1) : g = kernel'[space'[p].page_tables[i]])
                   <=> (\E i \in 1..n : g = kernel[pt[i]]) \/ g = f
      <3>1. n + 1 \in 1..(n + 1) /\ \A i \in 1..n : i \in 1..(n + 1) /\ i # n + 1
        BY <1>2
      <3> QED BY <1>8, <3>1
    <2> QED BY <2>1, <2>2, <2>3
  <1>10. PageFrames(p)' = PageFrames(p)
    <2>1. entry'[f] = NoTable
      BY <1>1 DEF TableMade, Typed
    <2>2. \A g : g \in PageFrames(p)' <=> g \in PageFrames(p)
      BY <1>6, <1>9, <2>1 DEF PageFrames, NoTable
    <2> QED BY <2>2
  <1>11. ControlFrames(p)' = ControlFrames(p) \union {f}
    BY <1>9 DEF ControlFrames, TableMade
  <1>12. f \notin TableFrames(p) /\ f # space[p].cr3
    BY <1>5 DEF ControlFrames
  <1>13. Linked(p)'
    <2>1. Range(space'[p].directory) \ {NotMapped} = TableFrames(p)'
      <3>1. /\ space[p].directory \in [Table -> Frame]
            /\ space'[p].directory = [space[p].directory EXCEPT ![t] = f]
        BY <1>1 DEF TableMade, SpaceRecord
      <3>2. Range(space'[p].directory) \ {NotMapped}
              = (Range(space[p].directory) \ {NotMapped}) \union {f}
        BY <1>1, <3>1 DEF Range
      <3> QED BY <1>1, <1>9, <3>2 DEF Linked
    <2>2. \A i \in 1..(n + 1) : kernel'[space'[p].page_tables[i]] \in Bit \ {space[p].cr3}
      <3>1. \A i \in 1..n : kernel[pt[i]] \in Bit \ {space[p].cr3}
        BY <1>0, <1>1, <1>2 DEF Linked
      <3> QED BY <1>1, <1>8, <1>12, <3>1
    <2>3. \A i \in 1..n : kernel[pt[i]] # f
      BY <1>0, <1>2, <1>12, TableFrame
    <2>4. \A i, k \in 1..n : kernel[pt[i]] = kernel[pt[k]] => i = k
      BY <1>0, <1>1, <1>2 DEF Linked
    <2>5. \A i, k \in 1..(n + 1) :
            kernel'[space'[p].page_tables[i]] = kernel'[space'[p].page_tables[k]] => i = k
      BY <1>8, <2>3, <2>4
    <2>6. /\ space'[p].name \in Program /\ space'[p].dir \in Slot /\ space'[p].cr3 \in Bit
          /\ kernel'[space'[p].dir] = space'[p].cr3 /\ space'[p].cr3 = space[p].cr3
      BY <1>1, <1>8 DEF Linked, TableMade
    <2>7. \A u, v \in Table : space'[p].directory[u] = space'[p].directory[v]
                                => u = v \/ space'[p].directory[u] = NotMapped
      <3>1. /\ space[p].directory \in [Table -> Frame]
            /\ space'[p].directory = [space[p].directory EXCEPT ![t] = f]
        BY <1>1 DEF TableMade, SpaceRecord
      <3>2. \A u \in Table : space[p].directory[u] # f
        BY <1>1, <1>12, <3>1 DEF Linked, Range
      <3>3. \A u, v \in Table : space[p].directory[u] = space[p].directory[v]
                                  => u = v \/ space[p].directory[u] = NotMapped
        BY <1>1 DEF Linked
      <3> QED BY <3>1, <3>2, <3>3
    <2> QED BY <1>2, <2>1, <2>2, <2>5, <2>6, <2>7 DEF Linked
  <1>14. FramesApart' /\ InUseIsTaken'
    <2>1. (space[p].cr3 \notin TableFrames(p))'
      BY <1>9, <1>12 DEF Inv, FramesApart, TableMade
    <2>2. OnceIn(p)
      BY DEF Inv, FramesApart, OnceIn
    <2>3. \A g \in TableFrames(p) : entry'[g] = entry[g]
      BY <1>6
    <2>4. \A i \in Entry : entry'[f][i] = NotMapped
      BY <1>1 DEF TableMade, Typed, NoTable
    <2>5. OnceIn(p)'
      BY <1>9, <2>2, <2>3, <2>4 DEF OnceIn
    <2> QED BY <1>1, <1>3, <1>7, <1>10, <1>11, <2>1, <2>5, NewControl DEF TableMade
  <1>15. \A q \in Spaces' : Linked(q)'
    BY <1>3, <1>7, <1>13 DEF OthersStay, SameSpace
  <1>16. (Boot \subseteq frames)'
    BY DEF Inv, TableMade
  <1> QED BY <1>3, <1>7, <1>9, <1>10, <1>11, <1>13, <1>14, <1>15, <1>16

LEMMA NoPages ==
  ASSUME NEW s, s = <<>>
  PROVE  DOMAIN s = {}
  OBVIOUS

LEMMA AllocateTableKeeps ==
  ASSUME Inv, AllocateTable
  PROVE  Inv' /\ LiveStay
  <1>1. PICK p, t : p = job.pcb /\ t = job.table
    OBVIOUS
  <1>2. /\ job.step = "table" /\ NewTable(t)
        /\ job' = [job EXCEPT !.step = "frame", !.page = 0]
        /\ UNCHANGED <<data, live, halted>>
    BY <1>1 DEF AllocateTable
  <1>3. /\ p \in Spaces /\ p \in Process \ live /\ Linked(p) /\ job.program \in Program
        /\ Spaces = live \union {p} /\ job \in JobRecord
    BY <1>1, <1>2, JobOwner
  <1>4. /\ t \in (HeapFirst..HeapLast) \union {Stack} /\ job.pages = <<>>
        /\ job.parent \in live \union {Nobody}
        /\ \A u \in Table : space[p].directory[u] # NotMapped => u \in Requested
    BY <1>1, <1>2 DEF Inv, JobOK
  <1>5. job.tables \subseteq 0..(HeapFirst - 1) /\ t \in Table
    BY <1>1, <1>3 DEF JobRecord
  <1>6. /\ job'.step = "frame" /\ job'.page = 0 /\ job'.pcb = p /\ job'.table = t
        /\ job'.program = job.program /\ job'.parent = job.parent
        /\ job'.tables = job.tables /\ job'.pages = <<>> /\ job' \in JobRecord
    BY <1>1, <1>2, <1>3, <1>4 DEF JobRecord
  <1>7. space[p].directory[t] = NotMapped
    <2>1. t \notin Requested
      BY <1>1, <1>2, <1>4, <1>5, Constants DEF Requested
    <2> QED BY <1>4, <1>5, <2>1
  <1>8. PICK s, f : TableMade(p, t, s, f) /\ allocate_page(s, f)
    BY <1>1, <1>2, <1>3, <1>5, NewTableMakes
  <1>9. /\ Spaces' = Spaces /\ \A q \in Spaces' : Linked(q)'
        /\ FramesApart' /\ InUseIsTaken' /\ (Boot \subseteq frames)' /\ OthersStay(p)
    BY <1>3, <1>5, <1>7, <1>8, TableMadeKeeps
  <1>10. Typed'
    BY <1>2, <1>6, <1>8 DEF TableMade, Typed, Inv
  <1>11. Spaces' = Owners'
    BY <1>2, <1>3, <1>6, <1>9 DEF Owners
  <1>12. JobOK'
    <2>1. \A u \in Table : space'[p].directory[u] # NotMapped => u \in Requested'
      <3>1. Requested' = job.tables \union {Stack} \union
                           (IF t = Stack THEN {} ELSE HeapFirst..t)
        BY <1>6 DEF Requested
      <3>2. Requested \subseteq Requested' /\ t \in Requested'
        BY <1>1, <1>2, <1>4, <1>5, <3>1, Constants DEF Requested
      <3>3. space[p].directory \in [Table -> Frame]
        BY <1>3, JobOwner DEF Inv, Typed, SpaceRecord
      <3>4. \A u \in Table : u # t => space'[p].directory[u] = space[p].directory[u]
        BY <1>8, <3>3 DEF TableMade
      <3> QED BY <1>4, <3>2, <3>4
    <2>2. space'[p].page_tables # <<>>
      <3>1. space[p].page_tables \in Seq(Slot) /\ s \in Slot
        BY <1>3, <1>8 DEF Inv, Typed, SpaceRecord, TableMade
      <3> QED BY <1>8, <3>1, AppendProperties DEF TableMade
    <2>3. job' # NoJob /\ DOMAIN job'.pages = {}
      BY <1>6, NoJobType, NoPages
    <2> QED BY <1>2, <1>3, <1>4, <1>6, <2>1, <2>2, <2>3, Constants DEF JobOK
  <1>13. LiveStay
    BY <1>3, <1>9, LiveHasSpace DEF LiveStay, OthersStay
  <1> QED BY <1>9, <1>10, <1>11, <1>12, <1>13 DEF Inv

LEMMA ImagePageType ==
  ASSUME Inv, job.step = "image"
  PROVE  /\ job.page \in Nat /\ job.page < HeapFirst * Entries
         /\ job.page \div Entries \in 0..(HeapFirst - 1) /\ job.page % Entries \in Entry
  <1>1. /\ CurrentSegment.first \in Nat /\ CurrentSegment.full \in Nat
        /\ CurrentSegment.first + CurrentSegment.full < HeapFirst * Entries
    BY SegmentType
  <1>2. job.page \in CurrentSegment.first..(CurrentSegment.first + CurrentSegment.full)
    BY DEF Inv, JobOK
  <1>3. HeapFirst * Entries \in Nat
    BY Constants
  <1>4. job.page \in Nat /\ job.page < HeapFirst * Entries
    BY <1>1, <1>2, <1>3
  <1> QED BY <1>4, ImageTable

\* Handing out one more frame leaves the pages of an image as they are.
LEMMA ImageSlotStays ==
  ASSUME NEW s, ImageSlot(s), Owners' = Owners, live' = live, live \subseteq Owners,
         kernel'[s] = kernel[s], frames \subseteq frames', NEW f, f \notin frames,
         \A q \in Owners : /\ ControlFrames(q)' \subseteq ControlFrames(q) \union {f}
                           /\ PageFrames(q)' \subseteq PageFrames(q) \union {f}
  PROVE  ImageSlot(s)'
  BY DEF ImageSlot

LEMMA AllocateImageTableKeeps ==
  ASSUME Inv, AllocateImageTable
  PROVE  Inv' /\ LiveStay
  <1>1. PICK p, t : p = job.pcb /\ t = job.page \div Entries
    OBVIOUS
  <1>2. /\ job.step = "image" /\ t \notin job.tables /\ NewTable(t)
        /\ job' = [job EXCEPT !.tables = @ \union {t}]
        /\ UNCHANGED <<data, live, halted>>
    BY <1>1 DEF AllocateImageTable
  <1>3. /\ p \in Spaces /\ p \in Process \ live /\ Linked(p) /\ job.program \in Program
        /\ Spaces = live \union {p} /\ job \in JobRecord
    BY <1>1, <1>2, JobOwner
  <1>4. /\ job.parent \in live \union {Nobody}
        /\ \A u \in Table : space[p].directory[u] # NotMapped => u \in Requested
        /\ space[p].page_tables # <<>> /\ job.table = Stack
        /\ job.segment \in DOMAIN Segments[job.program]
        /\ job.page \in CurrentSegment.first..(CurrentSegment.first + CurrentSegment.full)
        /\ CurrentSegment.first + Len(job.pages) = job.page
        /\ \A i \in DOMAIN job.pages : ImageSlot(job.pages[i])
        /\ \A i, k \in DOMAIN job.pages : job.pages[i] = job.pages[k] => i = k
    BY <1>1, <1>2 DEF Inv, JobOK
  <1>5. t \in 0..(HeapFirst - 1) /\ t \in Table /\ t # Stack
    <2>1. t \in 0..(HeapFirst - 1)
      BY <1>1, <1>2, ImagePageType
    <2> QED BY <2>1, Constants
  <1>6. /\ job'.step = "image" /\ job'.pcb = p /\ job'.table = Stack
        /\ job'.program = job.program /\ job'.parent = job.parent
        /\ job'.segment = job.segment /\ job'.page = job.page
        /\ job'.tables = job.tables \union {t} /\ job'.pages = job.pages
        /\ job' \in JobRecord
    BY <1>1, <1>2, <1>3, <1>4, <1>5 DEF JobRecord
  <1>7. space[p].directory[t] = NotMapped
    <2>1. t \notin Requested
      BY <1>2, <1>4, <1>5, Constants DEF Requested
    <2> QED BY <1>4, <1>5, <2>1
  <1>8. PICK s, f : TableMade(p, t, s, f) /\ allocate_page(s, f)
    BY <1>1, <1>3, <1>2, <1>5, NewTableMakes
  <1>9. /\ Spaces' = Spaces /\ \A q \in Spaces' : Linked(q)'
        /\ FramesApart' /\ InUseIsTaken' /\ (Boot \subseteq frames)'
        /\ OthersStay(p) /\ PageFrames(p)' = PageFrames(p)
        /\ ControlFrames(p)' = ControlFrames(p) \union {f}
    BY <1>3, <1>5, <1>7, <1>8, TableMadeKeeps
  <1>10. Typed'
    BY <1>2, <1>6, <1>8 DEF TableMade, Typed, Inv
  <1>11. Spaces' = Owners' /\ Owners' = Owners /\ Owners = Spaces
    BY <1>2, <1>3, <1>6, <1>9 DEF Owners, Inv
  <1>12. JobOK'
    <2>1. \A u \in Table : space'[p].directory[u] # NotMapped => u \in Requested'
      <3>1. Requested' = Requested \union {t}
        BY <1>2, <1>4, <1>6 DEF Requested
      <3>2. space[p].directory \in [Table -> Frame]
        BY <1>3, JobOwner DEF Inv, Typed, SpaceRecord
      <3>3. \A u \in Table : u # t => space'[p].directory[u] = space[p].directory[u]
        BY <1>8, <3>2 DEF TableMade
      <3> QED BY <1>4, <3>1, <3>3
    <2>2. space'[p].page_tables # <<>>
      <3>1. space[p].page_tables \in Seq(Slot) /\ s \in Slot
        BY <1>3, <1>8 DEF Inv, Typed, SpaceRecord, TableMade
      <3> QED BY <1>8, <3>1, AppendProperties DEF TableMade
    <2>3. job' # NoJob
      BY <1>6, NoJobType
    <2>4. CurrentSegment' = CurrentSegment
      BY <1>6 DEF CurrentSegment
    <2>5. ASSUME NEW i \in DOMAIN job.pages PROVE ImageSlot(job.pages[i])'
      <3>1. PICK r : r = job.pages[i]
        OBVIOUS
      <3>2. ImageSlot(r)
        BY <1>4, <3>1
      <3>3. kernel'[r] = kernel[r]
        BY <1>8, <3>2, Constants DEF ImageSlot, TableMade, Inv, Typed
      <3>4. \A q \in Spaces : /\ ControlFrames(q)' \subseteq ControlFrames(q) \union {f}
                              /\ PageFrames(q)' \subseteq PageFrames(q) \union {f}
        BY <1>9 DEF OthersStay, SameSpace
      <3>5. ImageSlot(r)'
        BY <1>2, <1>3, <1>8, <1>11, <3>2, <3>3, <3>4, ImageSlotStays DEF TableMade
      <3> QED BY <3>1, <3>5, <1>6
    <2> QED BY <1>2, <1>3, <1>4, <1>6, <2>1, <2>2, <2>3, <2>4, <2>5 DEF JobOK
  <1>13. LiveStay
    BY <1>3, <1>9, LiveHasSpace DEF LiveStay, OthersStay
  <1> QED BY <1>9, <1>10, <1>11, <1>12, <1>13 DEF Inv

\* The kernel's slots of all address spaces keep their frames.
SlotsStay ==
  \A q \in Spaces :
    /\ kernel'[space[q].dir] = kernel[space[q].dir]
    /\ \A i \in DOMAIN space[q].page_tables :
         kernel'[space[q].page_tables[i]] = kernel[space[q].page_tables[i]]

LEMMA PageMadeKeeps ==
  ASSUME Inv, NEW p \in Spaces, NEW f \in Bit, f \notin frames, frames' = frames \union {f},
         NEW c \in TableFrames(p), NEW j \in Entry, entry' = [entry EXCEPT ![c][j] = f],
         space' = space, SlotsStay
  PROVE  /\ Spaces' = Spaces /\ OthersStay(p) /\ \A q \in Spaces' : Linked(q)'
         /\ TableFrames(p)' = TableFrames(p) /\ ControlFrames(p)' = ControlFrames(p)
         /\ PageFrames(p)' \subseteq PageFrames(p) \union {f} /\ f \in PageFrames(p)'
         /\ FramesApart' /\ InUseIsTaken' /\ (Boot \subseteq frames)'
         /\ entry' \in [Bit -> [Entry -> Frame]]
  <1>1. Spaces' = Spaces
    BY DEF Spaces
  <1>2. /\ \A q \in Spaces : Linked(q)
        /\ c \in Bit /\ entry \in [Bit -> [Entry -> Frame]] /\ Typed
    BY FrameTypes DEF Inv, Typed
  <1>3. OthersStay(p)
    <2> SUFFICES ASSUME NEW r \in Spaces, r # p PROVE SameSpace(r)
      BY DEF OthersStay
    <2>1. c \notin TableFrames(r)
      BY OthersSlots
    <2>2. TableFrames(r) \subseteq Bit
      BY <1>2, FrameTypes
    <2>3. \A g \in TableFrames(r) : entry'[g] = entry[g]
      BY <1>2, <2>1, <2>2
    <2> QED BY <1>2, <2>3, UntouchedStays DEF Untouched, SlotsStay
  <1>4. TableFrames(p)' = TableFrames(p) /\ ControlFrames(p)' = ControlFrames(p)
    <2>1. \A g : g \in TableFrames(p)' <=> g \in TableFrames(p)
      BY TableFrame DEF SlotsStay, TableFrames, Range
    <2>2. TableFrames(p)' = TableFrames(p)
      BY <2>1
    <2> QED BY <2>2 DEF ControlFrames
  <1>5. Linked(p)'
    BY <1>2, <1>4 DEF Linked, SlotsStay
  <1>6. SameControl(p)
    BY <1>4, <1>5 DEF SameControl
  <1>7. /\ FramesApart' /\ PageFrames(p)' \subseteq PageFrames(p) \union {f}
        /\ f \in PageFrames(p)'
    BY <1>1, <1>3, <1>6, NewPage
  <1>8. InUseIsTaken'
    BY <1>1, <1>3, <1>4, <1>7 DEF Inv, InUseIsTaken, OthersStay, SameSpace
  <1>9. \A q \in Spaces' : Linked(q)'
    BY <1>1, <1>3, <1>5 DEF OthersStay, SameSpace
  <1>10. entry' \in [Bit -> [Entry -> Frame]]
    <2>1. [entry[c] EXCEPT ![j] = f] \in [Entry -> Frame]
      BY <1>2 DEF Frame
    <2> QED BY <1>2, <2>1
  <1> QED BY <1>1, <1>3, <1>4, <1>7, <1>8, <1>9, <1>10 DEF Inv

LEMMA AllocateTableFrameKeeps ==
  ASSUME Inv, AllocateTableFrame
  PROVE  Inv' /\ LiveStay
  <1>1. PICK p, t : p = job.pcb /\ t = job.table
    OBVIOUS
  <1>2. PICK f \in Bit :
          /\ allocate_frame(f)
          /\ entry' = [entry EXCEPT ![CurrentTable][job.page] = f]
    BY DEF AllocateTableFrame
  <1>3. /\ job.step = "frame" /\ UNCHANGED <<kernel, data, space, live, halted>>
    BY DEF AllocateTableFrame
  <1>4. /\ p \in Spaces /\ p \in Process \ live /\ Linked(p) /\ job.program \in Program
        /\ Spaces = live \union {p} /\ job \in JobRecord /\ space[p] \in SpaceRecord
    BY <1>1, <1>3, JobOwner
  <1>5. /\ t \in (HeapFirst..HeapLast) \union {Stack} /\ job.pages = <<>>
        /\ job.parent \in live \union {Nobody} /\ job.page \in Entry
        /\ space[p].page_tables # <<>>
        /\ \A u \in Table : space[p].directory[u] # NotMapped => u \in Requested
    BY <1>1, <1>3 DEF Inv, JobOK
  <1>6. f \notin frames /\ frames' = frames \union {f} /\ frames' \subseteq Bit
    BY <1>2, Allocated DEF Inv
  <1>7. CurrentTable \in TableFrames(p)
    BY <1>1, <1>3, CurrentTableIsOne
  <1>8. /\ Spaces' = Spaces /\ \A q \in Spaces' : Linked(q)'
        /\ FramesApart' /\ InUseIsTaken' /\ (Boot \subseteq frames)'
        /\ entry' \in [Bit -> [Entry -> Frame]] /\ LiveStay
    <2>1. OthersStay(p)
      BY <1>2, <1>3, <1>4, <1>5, <1>6, <1>7, PageMadeKeeps DEF SlotsStay
    <2> QED BY <1>2, <1>3, <1>4, <1>5, <1>6, <1>7, <2>1, PageMadeKeeps, LiveHasSpace
            DEF SlotsStay, LiveStay, OthersStay
  <1>9. CASE job.page # Entries - 1
    <2>1. job' = [job EXCEPT !.page = @ + 1]
      BY <1>9 DEF AllocateTableFrame, LastEntry
    <2>2. job.page + 1 \in Entry /\ job.page + 1 \in Nat
      BY <1>5, <1>9, Constants DEF Entry
    <2>3. /\ job'.step = "frame" /\ job'.pcb = p /\ job'.table = t
          /\ job'.program = job.program /\ job'.parent = job.parent
          /\ job'.page = job.page + 1 /\ job'.tables = job.tables /\ job'.pages = <<>>
          /\ job' \in JobRecord
      BY <1>1, <1>3, <1>4, <1>5, <2>1, <2>2 DEF JobRecord
    <2>4. Typed'
      BY <1>3, <1>6, <1>8, <2>3 DEF Typed, Inv
    <2>5. Spaces' = Owners'
      BY <1>3, <1>4, <1>8, <2>3 DEF Owners
    <2>6. job' # NoJob /\ DOMAIN job'.pages = {}
      BY <2>3, NoJobType, NoPages
    <2>7. Requested' = Requested
      BY <1>1, <1>3, <2>3 DEF Requested
    <2>8. JobOK'
      BY <1>3, <1>4, <1>5, <2>2, <2>3, <2>6, <2>7 DEF JobOK
    <2> QED BY <1>8, <2>4, <2>5, <2>8 DEF Inv
  <1>10. CASE job.page = Entries - 1 /\ t = Stack
    <2>1. job' = [job EXCEPT !.step = "image", !.segment = 1,
                             !.page = Segments[job.program][1].first]
      BY <1>1, <1>10 DEF AllocateTableFrame, LastEntry
    <2>2. /\ 1 \in DOMAIN Segments[job.program] /\ Segments[job.program][1] \in Segment
          /\ Segments[job.program][1].first \in Nat /\ Segments[job.program][1].full \in Nat
      <3>1. Segments[job.program] \in Seq(Segment) /\ Segments[job.program] # <<>>
        BY <1>4, AddressSpacesAssumption
      <3>2. 1 \in DOMAIN Segments[job.program] /\ Segments[job.program][1] \in Segment
        BY <3>1
      <3> QED BY <3>2 DEF Segment
    <2>3. /\ job'.step = "image" /\ job'.pcb = p /\ job'.table = Stack
          /\ job'.program = job.program /\ job'.parent = job.parent
          /\ job'.page = Segments[job.program][1].first
          /\ job'.segment = 1
          /\ job'.tables = job.tables /\ job'.pages = <<>>
          /\ job' \in JobRecord
      BY <1>1, <1>3, <1>4, <1>5, <1>10, <2>1, <2>2 DEF JobRecord
    <2>4. Typed'
      BY <1>3, <1>6, <1>8, <2>3 DEF Typed, Inv
    <2>5. Spaces' = Owners'
      BY <1>3, <1>4, <1>8, <2>3 DEF Owners
    <2>6. job' # NoJob /\ DOMAIN job'.pages = {} /\ Len(job'.pages) = 0
      BY <2>3, NoJobType, NoPages
    <2>7. Requested' = Requested
      BY <1>1, <1>3, <1>10, <2>3 DEF Requested
    <2>8. CurrentSegment' = Segments[job.program][1]
      BY <2>3 DEF CurrentSegment
    <2>9. JobOK'
      BY <1>3, <1>4, <1>5, <2>2, <2>3, <2>6, <2>7, <2>8 DEF JobOK
    <2> QED BY <1>8, <2>4, <2>5, <2>9 DEF Inv
  <1>11. CASE job.page = Entries - 1 /\ t # Stack /\ t < HeapLast
    <2>1. job' = [job EXCEPT !.step = "table", !.table = @ + 1]
      BY <1>1, <1>11 DEF AllocateTableFrame, LastEntry
    <2>2. t + 1 \in HeapFirst..HeapLast /\ t + 1 \in Table /\ t + 1 # Stack /\ t \in Nat
      BY <1>5, <1>11, Constants
    <2>3. /\ job'.step = "table" /\ job'.pcb = p /\ job'.table = t + 1
          /\ job'.program = job.program /\ job'.parent = job.parent
          /\ job'.tables = job.tables /\ job'.pages = <<>>
          /\ job' \in JobRecord
      BY <1>1, <1>3, <1>4, <1>5, <2>1, <2>2 DEF JobRecord
    <2>4. Typed'
      BY <1>3, <1>6, <1>8, <2>3 DEF Typed, Inv
    <2>5. Spaces' = Owners'
      BY <1>3, <1>4, <1>8, <2>3 DEF Owners
    <2>6. job' # NoJob /\ DOMAIN job'.pages = {}
      BY <2>3, NoJobType, NoPages
    <2>7. Requested' = Requested
      <3>1. t + 1 - 1 = t
        BY <2>2
      <3> QED BY <1>1, <1>3, <1>11, <2>2, <2>3, <3>1 DEF Requested
    <2>8. JobOK'
      BY <1>3, <1>4, <1>5, <2>2, <2>3, <2>6, <2>7 DEF JobOK
    <2> QED BY <1>8, <2>4, <2>5, <2>8 DEF Inv
  <1>12. CASE job.page = Entries - 1 /\ t # Stack /\ t = HeapLast
    <2>1. job' = [job EXCEPT !.step = "heap_init"]
      BY <1>1, <1>12, Constants DEF AllocateTableFrame, LastEntry
    <2>3. /\ job'.step = "heap_init" /\ job'.pcb = p /\ job'.table = t
          /\ job'.program = job.program /\ job'.parent = job.parent
          /\ job'.tables = job.tables /\ job'.pages = <<>>
          /\ job' \in JobRecord
      BY <1>1, <1>3, <1>4, <1>5, <2>1 DEF JobRecord
    <2>4. Typed'
      BY <1>3, <1>6, <1>8, <2>3 DEF Typed, Inv
    <2>5. Spaces' = Owners'
      BY <1>3, <1>4, <1>8, <2>3 DEF Owners
    <2>6. job' # NoJob /\ DOMAIN job'.pages = {}
      BY <2>3, NoJobType, NoPages
    <2>7. Requested' = Requested
      BY <1>1, <1>3, <1>12, <2>3 DEF Requested
    <2>8. JobOK'
      BY <1>3, <1>4, <1>5, <1>12, <2>3, <2>6, <2>7 DEF JobOK
    <2> QED BY <1>8, <2>4, <2>5, <2>8 DEF Inv
  <1>13. t = Stack \/ t < HeapLast \/ t = HeapLast
    BY <1>5, Constants
  <1> QED BY <1>9, <1>10, <1>11, <1>12, <1>13

LEMMA AllocateImagePageKeeps ==
  ASSUME Inv, AllocateImagePage
  PROVE  Inv' /\ LiveStay
  <1>1. PICK p, j, last : /\ p = job.pcb /\ j = job.page % Entries
                          /\ last = CurrentSegment.first + CurrentSegment.full
    OBVIOUS
  <1>2. PICK s \in Slot, f \in Bit :
          /\ allocate_page(s, f)
          /\ entry' = [entry EXCEPT ![CurrentTable][j] = f]
          /\ job' = [job EXCEPT !.pages = Append(@, s),
                       !.page = IF @ = last THEN 0 ELSE @ + 1,
                       !.step = IF job.page = last THEN "copy" ELSE "image"]
    BY <1>1 DEF AllocateImagePage
  <1>3. /\ job.step = "image" /\ UNCHANGED <<data, space, live, halted>>
    BY DEF AllocateImagePage
  <1>4. /\ p \in Spaces /\ p \in Process \ live /\ Linked(p) /\ job.program \in Program
        /\ Spaces = live \union {p} /\ job \in JobRecord /\ space[p] \in SpaceRecord
    BY <1>1, <1>3, JobOwner
  <1>5. /\ job.parent \in live \union {Nobody}
        /\ \A u \in Table : space[p].directory[u] # NotMapped => u \in Requested
        /\ space[p].page_tables # <<>> /\ job.table = Stack
        /\ job.segment \in DOMAIN Segments[job.program]
        /\ job.page \in CurrentSegment.first..last
        /\ CurrentSegment.first + Len(job.pages) = job.page
    BY <1>1, <1>3 DEF Inv, JobOK
  <1>6. /\ \A i \in DOMAIN job.pages : ImageSlot(job.pages[i])
        /\ \A i, k \in DOMAIN job.pages : job.pages[i] = job.pages[k] => i = k
    BY DEF Inv, JobOK
  <1>7. /\ f \notin frames /\ frames' = frames \union {f} /\ frames' \subseteq Bit
        /\ kernel[s] = NotMapped /\ kernel' = [kernel EXCEPT ![s] = f]
        /\ kernel' \in [Slot -> Frame] /\ kernel'[s] = f
    BY <1>2, AllocatedPage DEF Inv
  <1>8. SlotsStay
    BY <1>2, AllocatePageUntouches DEF Inv, SlotsStay
  <1>9. CurrentTable \in TableFrames(p) /\ j \in Entry
    BY <1>1, <1>3, CurrentTableIsOne, ImagePageType
  <1>10. /\ Spaces' = Spaces /\ \A q \in Spaces' : Linked(q)'
         /\ FramesApart' /\ InUseIsTaken' /\ (Boot \subseteq frames)'
         /\ entry' \in [Bit -> [Entry -> Frame]]
         /\ OthersStay(p) /\ ControlFrames(p)' = ControlFrames(p)
         /\ PageFrames(p)' \subseteq PageFrames(p) \union {f}
    BY <1>2, <1>3, <1>4, <1>7, <1>8, <1>9, PageMadeKeeps
  <1>11. PICK n : n = Len(job.pages)
    OBVIOUS
  <1>12. /\ n \in Nat /\ DOMAIN job.pages = 1..n
         /\ Append(job.pages, s) \in Seq(Slot) /\ Len(Append(job.pages, s)) = n + 1
         /\ DOMAIN Append(job.pages, s) = 1..(n + 1)
         /\ \A i \in 1..n : Append(job.pages, s)[i] = job.pages[i]
         /\ Append(job.pages, s)[n + 1] = s
    <2>1. job.pages \in Seq(Slot)
      BY <1>4 DEF JobRecord
    <2> QED BY <1>11, <2>1, AppendProperties
  <1>13. /\ CurrentSegment.first \in Nat /\ CurrentSegment.full \in Nat /\ last \in Nat
         /\ job.page \in Nat
         /\ PagesNeeded(CurrentSegment) \in Nat /\ PagesNeeded(CurrentSegment) > 0
    BY <1>1, <1>3, SegmentType, ImagePageType
  <1>14. /\ job'.pcb = p /\ job'.table = Stack /\ job'.program = job.program
         /\ job'.parent = job.parent /\ job'.segment = job.segment
         /\ job'.tables = job.tables /\ job'.pages = Append(job.pages, s)
         /\ job'.page = (IF job.page = last THEN 0 ELSE job.page + 1)
         /\ job'.step = (IF job.page = last THEN "copy" ELSE "image")
         /\ job' \in JobRecord
    <2>1. (IF job.page = last THEN 0 ELSE job.page + 1) \in Nat
      BY <1>13
    <2>2. (IF job.page = last THEN "copy" ELSE "image") \in {"copy", "image"}
      OBVIOUS
    <2> QED BY <1>1, <1>2, <1>4, <1>5, <1>12, <2>1, <2>2 DEF JobRecord
  <1>15. Typed'
    BY <1>3, <1>7, <1>10, <1>14 DEF Typed, Inv
  <1>16. Spaces' = Owners' /\ Owners' = Owners /\ Owners = Spaces
    BY <1>3, <1>4, <1>10, <1>14 DEF Owners, Inv
  <1>17. \A i \in 1..(n + 1) : ImageSlot(job.pages[i])'
    <2>1. ASSUME NEW r, ImageSlot(r) PROVE ImageSlot(r)'
      <3>1. kernel'[r] = kernel[r]
        <4>1. kernel[r] # NotMapped
          BY <2>1, Constants DEF ImageSlot, Inv, Typed
        <4> QED BY <1>7, <4>1 DEF Inv, Typed
      <3>2. \A q \in Spaces : /\ ControlFrames(q)' \subseteq ControlFrames(q) \union {f}
                              /\ PageFrames(q)' \subseteq PageFrames(q) \union {f}
        BY <1>10 DEF OthersStay, SameSpace
      <3> QED BY <1>3, <1>4, <1>7, <1>16, <2>1, <3>1, <3>2, ImageSlotStays
    <2>2. ImageSlot(s)'
      <3>1. f \notin Boot /\ \A q \in Spaces : f \notin ControlFrames(q) /\ f \notin PageFrames(q)
        BY <1>7, FreeFrame
      <3>2. \A q \in Spaces : ControlFrames(q)' = ControlFrames(q)
        BY <1>10 DEF OthersStay, SameSpace
      <3>3. \A q \in live : PageFrames(q)' = PageFrames(q)
        BY <1>4, <1>10 DEF OthersStay, SameSpace
      <3> QED BY <1>3, <1>4, <1>7, <1>16, <3>1, <3>2, <3>3 DEF ImageSlot
    <2>3. \A i \in 1..(n + 1) : i \in 1..n \/ i = n + 1
      BY <1>12
    <2>4. ASSUME NEW i \in 1..(n + 1) PROVE ImageSlot(job.pages[i])'
      <3>1. PICK r : r = Append(job.pages, s)[i]
        OBVIOUS
      <3>2. CASE i \in 1..n
        <4>1. ImageSlot(r)
          BY <1>6, <1>12, <3>1, <3>2
        <4> QED BY <1>14, <2>1, <3>1, <4>1
      <3>3. CASE i = n + 1
        BY <1>12, <1>14, <2>2, <3>3
      <3> QED BY <2>3, <3>2, <3>3
    <2> QED BY <2>4
  <1>18. \A i, k \in 1..(n + 1) : job'.pages[i] = job'.pages[k] => i = k
    <2>1. \A i \in 1..n : job.pages[i] # s
      BY <1>6, <1>7, <1>12, Constants DEF ImageSlot, Inv, Typed
    <2>2. \A i \in 1..(n + 1) : i \in 1..n \/ i = n + 1
      BY <1>12
    <2>3. PICK q : q = Append(job.pages, s)
      OBVIOUS
    <2>4. /\ \A i, k \in 1..n : q[i] = q[k] => i = k
          /\ \A i \in 1..n : q[i] # s
      BY <1>6, <1>12, <2>1, <2>3
    <2>5. q[n + 1] = s /\ job'.pages = q
      BY <1>12, <1>14, <2>3
    <2>6. \A i, k \in 1..(n + 1) : q[i] = q[k] => i = k
      BY <2>2, <2>4, <2>5
    <2> QED BY <2>5, <2>6
  <1>19. JobOK'
    <2>1. Requested' = Requested
      BY <1>3, <1>5, <1>14 DEF Requested
    <2>2. job' # NoJob
      BY <1>14, NoJobType
    <2>3. CurrentSegment' = CurrentSegment
      BY <1>14 DEF CurrentSegment
    <2>4. DOMAIN job'.pages = 1..(n + 1) /\ Len(job'.pages) = n + 1
      BY <1>12, <1>14
    <2>5. /\ job'.step = "image" =>
               /\ job'.page \in CurrentSegment.first..last
               /\ CurrentSegment.first + (n + 1) = job'.page
          /\ job'.step = "copy" =>
               /\ job'.page < PagesNeeded(CurrentSegment)
               /\ (n + 1) + job'.page = CurrentSegment.full + 1
      <3>1. PICK g, k, m : g = CurrentSegment /\ k = job.page /\ m = PagesNeeded(g)
        OBVIOUS
      <3>2. /\ g.first \in Nat /\ g.full \in Nat /\ last = g.first + g.full /\ k \in Nat
            /\ m \in Nat /\ m > 0 /\ k \in g.first..last /\ g.first + n = k
        BY <1>1, <1>5, <1>11, <1>13, <3>1
      <3>3. CASE k = last
        <4>1. job'.step = "copy" /\ job'.page = 0 /\ n = g.full
          BY <1>12, <1>14, <3>1, <3>2, <3>3
        <4> QED BY <1>12, <3>1, <3>2, <4>1
      <3>4. CASE k # last
        <4>1. job'.step = "image" /\ job'.page = k + 1
          BY <1>14, <3>1, <3>4
        <4>2. k + 1 \in g.first..last /\ g.first + (n + 1) = k + 1
          BY <1>12, <3>2, <3>4
        <4> QED BY <3>1, <4>1, <4>2
      <3> QED BY <3>3, <3>4
    <2>6. job'.step \in {"image", "copy"} /\ job'.pcb = p /\ job'.table = Stack
      BY <1>14
    <2>7. /\ job'.program \in Program /\ job'.parent \in live' \union {Nobody}
          /\ p \in Process \ live' /\ space'[p] = space[p]
          /\ job'.segment \in DOMAIN Segments[job'.program]
      BY <1>3, <1>4, <1>5, <1>14
    <2>8. /\ \A i \in DOMAIN job'.pages : ImageSlot(job.pages[i])'
          /\ \A i, k \in DOMAIN job'.pages : job'.pages[i] = job'.pages[k] => i = k
      BY <1>17, <1>18, <2>4
    <2> QED BY <1>1, <1>5, <2>1, <2>2, <2>3, <2>4, <2>5, <2>6, <2>7, <2>8 DEF JobOK
  <1>20. LiveStay
    BY <1>4, <1>10, LiveHasSpace DEF LiveStay, OthersStay
  <1> QED BY <1>10, <1>15, <1>16, <1>19, <1>20 DEF Inv

LEMMA CopyImagePageKeeps ==
  ASSUME Inv, CopyImagePage
  PROVE  Inv' /\ LiveStay
  <1>1. PICK p, s, needed, next :
          /\ p = job.pcb /\ s = Head(job.pages) /\ needed = PagesNeeded(CurrentSegment)
          /\ next = job.segment + 1
    OBVIOUS
  <1>2. /\ job.step = "copy" /\ UNCHANGED <<entry, space, live, halted>>
        /\ kernel' = [kernel EXCEPT ![s] = NotMapped] /\ frames' = frames
    BY <1>1 DEF CopyImagePage, LeaveFrame
  <1>3. /\ p \in Spaces /\ p \in Process \ live /\ Linked(p) /\ job.program \in Program
        /\ Spaces = live \union {p} /\ job \in JobRecord /\ space[p] \in SpaceRecord
    BY <1>1, <1>2, JobOwner
  <1>4. /\ job.parent \in live \union {Nobody}
        /\ \A u \in Table : space[p].directory[u] # NotMapped => u \in Requested
        /\ space[p].page_tables # <<>> /\ job.table = Stack
        /\ job.segment \in DOMAIN Segments[job.program]
        /\ job.page < needed
        /\ Len(job.pages) + job.page = CurrentSegment.full + 1
    BY <1>1, <1>2 DEF Inv, JobOK
  <1>5. /\ \A i \in DOMAIN job.pages : ImageSlot(job.pages[i])
        /\ \A i, k \in DOMAIN job.pages : job.pages[i] = job.pages[k] => i = k
    BY DEF Inv, JobOK
  <1>6. PICK n : n = Len(job.pages)
    OBVIOUS
  <1>7. /\ job.pages \in Seq(Slot) /\ n \in Nat /\ DOMAIN job.pages = 1..n
        /\ job.page \in Nat /\ job.segment \in Nat
    <2>1. job.pages \in Seq(Slot) /\ job.page \in Nat /\ job.segment \in Nat
      BY <1>3 DEF JobRecord
    <2> QED BY <1>6, <2>1
  <1>8. /\ CurrentSegment.full \in Nat /\ needed \in Nat
        /\ needed \in {CurrentSegment.full, CurrentSegment.full + 1}
        /\ job.segment \in 1..Len(Segments[job.program])
    BY <1>1, <1>2, SegmentType
  <1>9. n > 0 /\ job.pages # <<>>
    BY <1>4, <1>6, <1>7, <1>8
  <1>10. /\ s \in Slot /\ s = job.pages[1] /\ 1 \in DOMAIN job.pages
         /\ Tail(job.pages) \in Seq(Slot) /\ Len(Tail(job.pages)) = n - 1
         /\ DOMAIN Tail(job.pages) = 1..(n - 1)
         /\ \A i \in 1..(n - 1) : Tail(job.pages)[i] = job.pages[i + 1]
    BY <1>1, <1>6, <1>7, <1>9, HeadTailProperties
  <1>11. ImageSlot(s) /\ Owners = Spaces
    BY <1>5, <1>10 DEF Inv
  <1>12. SlotsStay
    <2> SUFFICES ASSUME NEW q \in Spaces
                 PROVE  /\ kernel'[space[q].dir] = kernel[space[q].dir]
                        /\ \A i \in DOMAIN space[q].page_tables :
                             kernel'[space[q].page_tables[i]] = kernel[space[q].page_tables[i]]
      BY DEF SlotsStay
    <2>1. Linked(q) /\ kernel[s] \notin ControlFrames(q)
      BY <1>11 DEF Inv, ImageSlot
    <2>2. space[q].dir # s
      BY <2>1 DEF Linked, ControlFrames
    <2>3. \A i \in DOMAIN space[q].page_tables : space[q].page_tables[i] # s
      BY <2>1, TableFrame DEF ControlFrames
    <2>4. DOMAIN kernel = Slot
      BY DEF Inv, Typed
    <2> QED BY <1>2, <1>10, <2>2, <2>3, <2>4
  <1>13. \A q \in Spaces : SameSpace(q)
    BY <1>2, <1>12, UntouchedStays DEF Inv, Untouched, SlotsStay
  <1>14. Spaces' = Spaces
    BY <1>2 DEF Spaces
  <1>15. /\ FramesApart' /\ InUseIsTaken' /\ (Boot \subseteq frames)'
         /\ \A q \in Spaces' : Linked(q)'
         /\ LiveStay
    <2>1. FramesApart'
      BY <1>13, <1>14, ApartSame DEF Inv
    <2>2. InUseIsTaken'
      BY <1>2, <1>13, <1>14 DEF Inv, InUseIsTaken, SameSpace
    <2>3. LiveStay
      BY <1>13, LiveHasSpace DEF LiveStay
    <2> QED BY <1>2, <1>13, <1>14, <2>1, <2>2, <2>3 DEF Inv, SameSpace
  <1>16. /\ kernel' \in [Slot -> Frame] /\ frames' \subseteq Bit
         /\ entry' \in [Bit -> [Entry -> Frame]] /\ space' \in [Process -> SpaceRecord]
         /\ live' \subseteq Process /\ halted' \in BOOLEAN /\ DOMAIN data' = Bit
    <2>1. NotMapped \in Frame
      BY DEF Frame
    <2>2. DOMAIN data' = Bit
      BY DEF CopyImagePage, Inv, Typed
    <2> QED BY <1>2, <1>10, <2>1, <2>2 DEF Inv, Typed
  <1>17. CASE job.page + 1 < needed
    <2>1. job' = [job EXCEPT !.page = @ + 1, !.pages = Tail(@)]
      BY <1>1, <1>17 DEF CopyImagePage
    <2>2. /\ job'.step = "copy" /\ job'.pcb = p /\ job'.table = Stack
          /\ job'.program = job.program /\ job'.parent = job.parent
          /\ job'.segment = job.segment /\ job'.tables = job.tables
          /\ job'.page = job.page + 1 /\ job'.pages = Tail(job.pages)
          /\ job' \in JobRecord
      <3>1. job.page + 1 \in Nat
        BY <1>7
      <3> QED BY <1>1, <1>2, <1>3, <1>4, <1>10, <2>1, <3>1 DEF JobRecord
    <2>3. Typed'
      BY <1>16, <2>2 DEF Typed
    <2>4. Spaces' = Owners' /\ Owners' = Spaces
      BY <1>2, <1>3, <1>14, <2>2 DEF Owners
    <2>5. ASSUME NEW i \in 1..(n - 1) PROVE ImageSlot(job.pages[i])'
      <3>1. PICK r : r = job.pages[i + 1]
        OBVIOUS
      <3>2. i + 1 \in 1..n /\ i + 1 # 1
        BY <1>7
      <3>3. ImageSlot(r) /\ r # s
        BY <1>5, <1>7, <1>10, <3>1, <3>2
      <3>4. kernel'[r] = kernel[r]
        BY <1>2, <3>3 DEF Inv, Typed
      <3>5. \A q \in Spaces : ControlFrames(q)' = ControlFrames(q) /\ PageFrames(q)' = PageFrames(q)
        BY <1>13 DEF SameSpace
      <3>6. ImageSlot(r)'
        BY <1>2, <1>3, <1>11, <2>4, <3>3, <3>4, <3>5 DEF ImageSlot
      <3>7. r = job'.pages[i]
        BY <1>10, <2>2, <3>1
      <3> QED BY <3>6, <3>7
    <2>6. \A i, k \in 1..(n - 1) : job'.pages[i] = job'.pages[k] => i = k
      <3>1. \A i \in 1..(n - 1) : i + 1 \in 1..n /\ i \in Nat
        BY <1>7
      <3>2. \A i, k \in 1..(n - 1) : job.pages[i + 1] = job.pages[k + 1] => i + 1 = k + 1
        BY <1>5, <1>7, <3>1
      <3> QED BY <1>10, <2>2, <3>1, <3>2
    <2>7. JobOK'
      <3>1. Requested' = Requested
        BY <1>2, <1>4, <2>2 DEF Requested
      <3>2. job' # NoJob
        BY <2>2, NoJobType
      <3>3. CurrentSegment' = CurrentSegment
        BY <2>2 DEF CurrentSegment
      <3>4. DOMAIN job'.pages = 1..(n - 1) /\ Len(job'.pages) = n - 1
        BY <1>10, <2>2
      <3>5. /\ job'.page < PagesNeeded(CurrentSegment)
            /\ (n - 1) + job'.page = CurrentSegment.full + 1
        <4>1. n + job.page = CurrentSegment.full + 1 /\ job'.page = job.page + 1
          BY <1>4, <1>6, <2>2
        <4>2. (n - 1) + (job.page + 1) = n + job.page
          BY <1>7
        <4> QED BY <1>1, <1>17, <4>1, <4>2
      <3>6. /\ job'.program \in Program /\ job'.parent \in live' \union {Nobody}
            /\ p \in Process \ live' /\ space'[p] = space[p]
            /\ job'.segment \in DOMAIN Segments[job'.program]
        BY <1>2, <1>3, <1>4, <2>2
      <3>7. /\ \A i \in DOMAIN job'.pages : ImageSlot(job.pages[i])'
            /\ \A i, k \in DOMAIN job'.pages : job'.pages[i] = job'.pages[k] => i = k
        BY <2>5, <2>6, <3>4
      <3> QED BY <1>4, <2>2, <3>1, <3>2, <3>3, <3>4, <3>5, <3>6, <3>7 DEF JobOK
    <2> QED BY <1>15, <2>3, <2>4, <2>7 DEF Inv
  <1>18. CASE job.page + 1 >= needed /\ job.segment < Len(Segments[job.program])
    <2>1. job' = [job EXCEPT !.step = "image", !.segment = next, !.pages = <<>>,
                             !.page = Segments[job.program][next].first]
      BY <1>1, <1>7, <1>8, <1>18 DEF CopyImagePage
    <2>2. /\ next \in DOMAIN Segments[job.program] /\ next \in Nat
          /\ Segments[job.program][next].first \in Nat /\ Segments[job.program][next].full \in Nat
      <3>1. Segments[job.program] \in Seq(Segment)
        BY <1>3, AddressSpacesAssumption
      <3>2. next \in DOMAIN Segments[job.program] /\ Segments[job.program][next] \in Segment
        BY <1>1, <1>8, <1>18, <3>1
      <3> QED BY <1>1, <1>7, <3>2 DEF Segment
    <2>3. /\ job'.step = "image" /\ job'.pcb = p /\ job'.table = Stack
          /\ job'.program = job.program /\ job'.parent = job.parent
          /\ job'.segment = next /\ job'.tables = job.tables
          /\ job'.page = Segments[job.program][next].first /\ job'.pages = <<>>
          /\ job' \in JobRecord
      <3>1. <<>> \in Seq(Slot)
        OBVIOUS
      <3> QED BY <1>1, <1>2, <1>3, <1>4, <2>1, <2>2, <3>1 DEF JobRecord
    <2>4. Typed'
      BY <1>16, <2>3 DEF Typed
    <2>5. Spaces' = Owners'
      BY <1>2, <1>3, <1>14, <2>3 DEF Owners
    <2>6. JobOK'
      <3>1. Requested' = Requested
        BY <1>2, <1>4, <2>3 DEF Requested
      <3>2. job' # NoJob /\ DOMAIN job'.pages = {} /\ Len(job'.pages) = 0
        BY <2>3, NoJobType, NoPages
      <3>3. CurrentSegment' = Segments[job.program][next]
        BY <2>3 DEF CurrentSegment
      <3>4. /\ job'.program \in Program /\ job'.parent \in live' \union {Nobody}
            /\ p \in Process \ live' /\ space'[p] = space[p]
        BY <1>2, <1>3, <1>4, <2>3
      <3> QED BY <1>4, <2>2, <2>3, <3>1, <3>2, <3>3, <3>4 DEF JobOK
    <2> QED BY <1>15, <2>4, <2>5, <2>6 DEF Inv
  <1>19. CASE job.page + 1 >= needed /\ job.segment >= Len(Segments[job.program])
    <2>1. job' = [job EXCEPT !.step = "table", !.table = HeapFirst, !.pages = <<>>]
      BY <1>1, <1>7, <1>8, <1>19 DEF CopyImagePage
    <2>2. HeapFirst \in Table /\ HeapFirst # Stack /\ HeapFirst \in HeapFirst..HeapLast
      BY Constants
    <2>3. /\ job'.step = "table" /\ job'.pcb = p /\ job'.table = HeapFirst
          /\ job'.program = job.program /\ job'.parent = job.parent
          /\ job'.tables = job.tables /\ job'.pages = <<>>
          /\ job' \in JobRecord
      <3>1. <<>> \in Seq(Slot)
        OBVIOUS
      <3> QED BY <1>1, <1>2, <1>3, <2>1, <2>2, <3>1 DEF JobRecord
    <2>4. Typed'
      BY <1>16, <2>3 DEF Typed
    <2>5. Spaces' = Owners'
      BY <1>2, <1>3, <1>14, <2>3 DEF Owners
    <2>6. JobOK'
      <3>1. Requested' = Requested
        BY <1>2, <1>4, <2>2, <2>3, Constants DEF Requested
      <3>2. job' # NoJob /\ DOMAIN job'.pages = {}
        BY <2>3, NoJobType, NoPages
      <3>3. /\ job'.program \in Program /\ job'.parent \in live' \union {Nobody}
            /\ p \in Process \ live' /\ space'[p] = space[p]
        BY <1>2, <1>3, <1>4, <2>3
      <3> QED BY <1>4, <2>2, <2>3, <3>1, <3>2, <3>3 DEF JobOK
    <2> QED BY <1>15, <2>4, <2>5, <2>6 DEF Inv
  <1> QED BY <1>7, <1>8, <1>17, <1>18, <1>19

LEMMA KillKeeps ==
  ASSUME Inv, NEW p \in Process, Kill(p)
  PROVE  Inv' /\ LiveStay
  <1>1. /\ job = NoJob /\ p \in live
        /\ frames' = frames \ Freed(p)
        /\ kernel' = [kernel EXCEPT ![space[p].dir] = NotMapped]
        /\ entry' = [f \in Bit |-> IF f \in TableFrames(p) THEN NoTable ELSE entry[f]]
        /\ space' = [space EXCEPT ![p] = NoSpace]
        /\ live' = live \ {p}
        /\ job' = job /\ halted' = halted
    BY DEF Kill
  <1>2. Spaces = live /\ p \in Spaces /\ Linked(p) /\ Typed /\ FramesApart
    BY <1>1, NoJobType DEF Inv, Owners
  <1>3. Freed(p) = PageFrames(p) \union {space[p].cr3}
    BY <1>2 DEF Freed, Linked
  <1>4. /\ NoSpace \in SpaceRecord /\ NoSpace.cr3 = NotMapped
    <2>1. [t \in Table |-> NotMapped] \in [Table -> Frame] /\ <<>> \in Seq(Slot)
      BY DEF Frame
    <2> QED BY <2>1 DEF NoSpace, SpaceRecord, Frame
  <1>5. /\ space' \in [Process -> SpaceRecord]
        /\ space'[p] = NoSpace /\ \A q \in Process \ {p} : space'[q] = space[q]
    BY <1>1, <1>2, <1>4 DEF Typed
  <1>6. Spaces' = Spaces \ {p}
    BY <1>4, <1>5 DEF Spaces
  <1>7. ASSUME NEW q \in Spaces, q # p PROVE SameSpace(q)
    <2>1. /\ Linked(q) /\ q \in Process /\ TableFrames(q) \subseteq Bit
          /\ DOMAIN kernel = Slot /\ space[p].dir \in Slot
      BY <1>2, FrameTypes DEF Inv, Typed, Spaces, Linked
    <2>2. /\ space[p].dir # space[q].dir
          /\ \A i \in DOMAIN space[q].page_tables : space[q].page_tables[i] # space[p].dir
          /\ TableFrames(p) \intersect TableFrames(q) = {}
      BY <1>2, <1>7, OthersSlots
    <2>3. \A f \in TableFrames(q) : entry'[f] = entry[f]
      BY <1>1, <2>1, <2>2
    <2>4. Untouched(q)
      BY <1>1, <1>5, <1>7, <2>1, <2>2, <2>3 DEF Untouched
    <2> QED BY <2>1, <2>4, UntouchedStays
  <1>8. FramesApart'
    BY <1>2, <1>6, <1>7, ApartSame
  <1>9. InUseIsTaken'
    <2> SUFFICES ASSUME NEW q \in Spaces, q # p
                 PROVE  PageFrames(q)' \union ControlFrames(q)' \subseteq frames'
      BY <1>6 DEF InUseIsTaken
    <2>1. space[p].cr3 \in ControlFrames(p)
      BY DEF ControlFrames
    <2>2. /\ PageFrames(q) \intersect PageFrames(p) = {}
          /\ PageFrames(q) \intersect ControlFrames(p) = {}
          /\ ControlFrames(q) \intersect PageFrames(p) = {}
          /\ ControlFrames(q) \intersect ControlFrames(p) = {}
      BY <1>2 DEF FramesApart
    <2>3. PageFrames(q) \union ControlFrames(q) \subseteq frames
      BY DEF Inv, InUseIsTaken
    <2>4. PageFrames(q)' = PageFrames(q) /\ ControlFrames(q)' = ControlFrames(q)
      BY <1>7 DEF SameSpace
    <2> QED BY <1>1, <1>3, <2>1, <2>2, <2>3, <2>4
  <1>10. (Boot \subseteq frames)'
    <2>1. /\ PageFrames(p) \intersect Boot = {} /\ ControlFrames(p) \intersect Boot = {}
          /\ space[p].cr3 \in ControlFrames(p)
      BY <1>2 DEF FramesApart, ControlFrames
    <2> QED BY <1>1, <1>3, <2>1 DEF Inv
  <1>11. \A q \in Spaces' : Linked(q)'
    BY <1>6, <1>7 DEF SameSpace
  <1>12. Typed'
    <2>1. kernel' \in [Slot -> Frame]
      BY <1>1, <1>2 DEF Typed, Frame, Linked
    <2>2. entry' \in [Bit -> [Entry -> Frame]]
      <3>1. NoTable \in [Entry -> Frame]
        BY DEF NoTable, Frame
      <3> QED BY <1>1, <1>2, <3>1 DEF Typed
    <2>3. DOMAIN data' = Bit
      BY DEF Kill
    <2> QED BY <1>1, <1>2, <1>5, <2>1, <2>2, <2>3 DEF Typed
  <1>13. Spaces' = Owners'
    BY <1>1, <1>2, <1>6, NoJobType DEF Owners
  <1>14. JobOK'
    BY <1>1, NoJobType DEF JobOK
  <1>15. LiveStay
    BY <1>1, <1>2, <1>7 DEF LiveStay
  <1> QED BY <1>8, <1>9, <1>10, <1>11, <1>12, <1>13, <1>14, <1>15 DEF Inv

LEMMA StoppedKeeps ==
  ASSUME Inv, UNCHANGED vars
  PROVE  Inv' /\ LiveStay
  <1>1. UNCHANGED <<frames, kernel, entry, data, space, live, job, halted>>
    BY DEF vars
  <1>2. Typed'
    BY <1>1 DEF Inv, Typed
  <1>3. Spaces' = Owners'
    BY <1>1 DEF Inv, Spaces, Owners
  <1>4. JobOK'
    BY <1>1 DEF Inv, JobOK, Owners, Requested, ImageSlot, CurrentSegment, ControlFrames,
                TableFrames, PageFrames
  <1> QED BY <1>1, <1>2, <1>3, <1>4, SpacesUnchanged, LiveHasSpace DEF Inv, LiveStay

LEMMA NextKeeps ==
  ASSUME Inv, [Next]_vars
  PROVE  Inv' /\ LiveStay
  <1>1. CASE \E p \in Process, x \in Program : Create(p, x)
    BY <1>1, CreateKeeps
  <1>2. CASE \E p, parent \in Process : Fork(p, parent)
    BY <1>2, ForkKeeps
  <1>3. CASE AllocatePageDir
    BY <1>3, AllocatePageDirKeeps
  <1>4. CASE AllocateTable
    BY <1>4, AllocateTableKeeps
  <1>5. CASE AllocateTableFrame
    BY <1>5, AllocateTableFrameKeeps
  <1>6. CASE AllocateImageTable
    BY <1>6, AllocateImageTableKeeps
  <1>7. CASE AllocateImagePage
    BY <1>7, AllocateImagePageKeeps
  <1>8. CASE CopyImagePage
    BY <1>8, CopyImagePageKeeps
  <1>9. CASE FinishCreate
    BY <1>9, FinishCreateKeeps
  <1>10. CASE \E p \in Process : Kill(p)
    BY <1>10, KillKeeps
  <1>11. CASE \E p \in Process, w \in Writable : Write(p, w[1], w[2])
    BY <1>11, WriteKeeps
  <1>14. CASE \E p \in Process, f \in KernelFrames : WriteKernel(p, f)
    BY <1>14, WriteKernelKeeps
  <1>12. CASE Panic
    BY <1>12, PanicKeeps
  <1>13. CASE UNCHANGED vars
    BY <1>13, StoppedKeeps
  <1> QED BY <1>1, <1>2, <1>3, <1>4, <1>5, <1>6, <1>7, <1>8, <1>9, <1>10, <1>11, <1>12, <1>13,
          <1>14 DEF Next, Creation, Stopped

LEMMA InitInv == Init => Inv
  <1> SUFFICES ASSUME Init PROVE Inv
    OBVIOUS
  <1>1. /\ frames = Boot /\ kernel = [s \in Slot |-> NotMapped] /\ live = {} /\ job = NoJob
        /\ halted = FALSE /\ DOMAIN data = Bit /\ entry = [f \in Bit |-> NoTable]
        /\ space = [p \in Process |-> NoSpace]
    BY DEF Init
  <1>2. NoSpace \in SpaceRecord /\ NoSpace.cr3 = NotMapped
    <2>1. [t \in Table |-> NotMapped] \in [Table -> Frame] /\ <<>> \in Seq(Slot)
      BY DEF Frame
    <2> QED BY <2>1 DEF NoSpace, SpaceRecord, Frame
  <1>3. NoTable \in [Entry -> Frame] /\ NotMapped \in Frame
    BY DEF NoTable, Frame
  <1>4. Typed
    BY <1>1, <1>2, <1>3, BootIsTaken, NoJobType DEF Typed
  <1>5. Spaces = {}
    BY <1>1, <1>2 DEF Spaces
  <1>6. Spaces = Owners
    BY <1>1, <1>5, NoJobType DEF Owners
  <1>7. JobOK
    BY <1>1, NoJobType DEF JobOK
  <1> QED BY <1>1, <1>4, <1>5, <1>6, <1>7 DEF Inv, FramesApart, InUseIsTaken

\* At every step of every creation, fork and death, each frame is in one place.
THEOREM InvHolds == Spec => []Inv
  BY InitInv, NextKeeps, PTL DEF Spec

-----------------------------------------------------------------------------
(* What follows from the invariant *)

LEMMA TablesCounted ==
  ASSUME Inv, NEW p \in Spaces
  PROVE  Cardinality(TableFrames(p)) = Len(space[p].page_tables)
  <1>1. PICK pt, n : pt = space[p].page_tables /\ n = Len(pt)
    OBVIOUS
  <1>2. Linked(p) /\ pt \in Seq(Slot) /\ n \in Nat /\ DOMAIN pt = 1..n
    <2>1. Linked(p) /\ space[p] \in SpaceRecord
      BY DEF Inv, Typed, Spaces
    <2>2. pt \in Seq(Slot)
      BY <1>1, <2>1 DEF SpaceRecord
    <2> QED BY <1>1, <2>1, <2>2
  <1> DEFINE g == [i \in 1..n |-> kernel[pt[i]]]
  <1>3. TableFrames(p) = {g[i] : i \in 1..n}
    BY <1>1, <1>2 DEF TableFrames, Range
  <1>4. \A i, k \in 1..n : g[i] = g[k] => i = k
    BY <1>1, <1>2 DEF Linked
  <1>5. g \in [1..n -> TableFrames(p)]
    BY <1>3
  <1> HIDE DEF g
  <1>6. g \in Bijection(1..n, TableFrames(p))
    BY <1>3, <1>4, <1>5 DEF Bijection, Injection, IsInjective, Surjection
  <1>7. ExistsBijection(1..n, TableFrames(p))
    BY <1>6 DEF ExistsBijection
  <1> QED BY <1>1, <1>2, <1>7, FS_CountingElements

LEMMA Quotient ==
  ASSUME NEW a \in Nat, NEW w \in Nat, w > 0, NEW m \in Nat, m * w <= a, a < (m + 1) * w
  PROVE  a \div w = m
  <1>1. PICK d : d = a \div w
    OBVIOUS
  <1>2. d \in Nat /\ d * w <= a /\ a < (d + 1) * w
    BY <1>1
  <1>3. ASSUME d < m PROVE FALSE
    <2>1. (d + 1) * w <= m * w
      BY <1>2, <1>3
    <2> QED BY <1>2, <2>1
  <1>4. ASSUME m < d PROVE FALSE
    <2>1. (m + 1) * w <= d * w
      BY <1>2, <1>4
    <2> QED BY <1>2, <2>1
  <1> QED BY <1>1, <1>2, <1>3, <1>4

\* Beyond the frames of the machine all bits are locked, if the last word is
\* full or more than half full.
LEMMA LockedBeyond ==
  ASSUME Frames % WordBits = 0 \/ 2 * (Frames % WordBits) > WordBits,
         NEW f \in Bit \ Boot
  PROVE  f \in 0..(Frames - 1)
  <1> DEFINE q == Frames \div WordBits
             r == Frames % WordBits
  <1>1. /\ Frames \in Nat \ {0} /\ WordBits \in Nat \ {0} /\ q \in Nat /\ r \in 0..(WordBits - 1)
        /\ Frames = q * WordBits + r
    <2>1. Frames \in Nat \ {0} /\ WordBits \in Nat \ {0}
      BY AddressSpacesAssumption
    <2>2. q \in Nat /\ r \in 0..(WordBits - 1)
      BY <2>1
    <2>3. Frames = WordBits * q + r
      BY <2>1
    <2>4. WordBits * q = q * WordBits
      BY <2>1, <2>2
    <2> QED BY <2>1, <2>2, <2>3, <2>4
  <1>2. Words = IF r = 0 THEN q ELSE q + 1
    <2> HIDE DEF q, r
    <2>1. q * WordBits \in Nat /\ (q + 1) * WordBits = q * WordBits + WordBits
          /\ (q + 2) * WordBits = q * WordBits + WordBits + WordBits
      BY <1>1
    <2>2. CASE r = 0
      <3>1. (Frames + WordBits - 1) \div WordBits = q
        BY <1>1, <2>1, <2>2, Quotient
      <3> QED BY <2>2, <3>1 DEF Words
    <2>3. CASE r # 0
      <3>1. (Frames + WordBits - 1) \div WordBits = q + 1
        BY <1>1, <2>1, <2>3, Quotient
      <3> QED BY <2>3, <3>1 DEF Words
    <2> QED BY <2>2, <2>3
  <1>3. f \in Nat /\ f < Words * WordBits /\ f \notin Remainder
    BY Constants DEF Bit, Boot, Locked
  <1>4. CASE r = 0
    BY <1>1, <1>2, <1>3, <1>4
  <1>5. CASE r # 0
    <2>1. /\ Remainder = (q * WordBits)..(q * WordBits + WordBits - 1)
                           \ {q * WordBits + WordBits - 1 - r}
          /\ f < q * WordBits + WordBits /\ q * WordBits \in Nat
      <3>1. Words - 1 = q /\ (q + 1) * WordBits = q * WordBits + WordBits
        BY <1>1, <1>2, <1>5
      <3> QED BY <1>1, <1>2, <1>3, <1>5, <3>1 DEF Remainder
    <2>2. 2 * r > WordBits
      BY <1>5
    <2> HIDE DEF q, r
    <2> QED BY <1>1, <1>3, <2>1, <2>2
  <1> QED BY <1>4, <1>5

\* The page a creation works on stays below the heap, or is an entry of a table.
PageInRange == job.page \in 0..(HeapFirst * Entries)

LEMMA ImageBelowHeap ==
  ASSUME NEW x \in Program
  PROVE  /\ Segments[x] \in Seq(Segment) /\ Segments[x] # <<>>
         /\ \A k \in DOMAIN Segments[x] :
              /\ Segments[x][k].first \in Nat /\ Segments[x][k].full \in Nat
              /\ Segments[x][k].first + Segments[x][k].full < HeapFirst * Entries
         /\ Entries <= HeapFirst * Entries /\ HeapFirst * Entries \in Nat
  <1>1. Segments[x] \in Seq(Segment) /\ Segments[x] # <<>>
    BY AddressSpacesAssumption
  <1>2. \A k \in DOMAIN Segments[x] : Segments[x][k] \in Segment
    BY <1>1
  <1>3. \A k \in DOMAIN Segments[x] : Segments[x][k].first + Segments[x][k].full < HeapFirst * Entries
    BY AddressSpacesAssumption
  <1>4. \A k \in DOMAIN Segments[x] : Segments[x][k].first \in Nat /\ Segments[x][k].full \in Nat
    BY <1>2 DEF Segment
  <1>5. 1 \in DOMAIN Segments[x]
    BY <1>1
  <1>6. HeapFirst * Entries > 0 /\ HeapFirst * Entries \in Nat
    BY <1>3, <1>4, <1>5, Constants
  <1>7. HeapFirst > 0
    BY <1>6, Constants
  <1>8. HeapFirst = (HeapFirst - 1) + 1 /\ HeapFirst - 1 \in Nat
    BY <1>7, Constants
  <1>9. HeapFirst * Entries = (HeapFirst - 1) * Entries + Entries /\ (HeapFirst - 1) * Entries \in Nat
    BY <1>8, Constants
  <1> QED BY <1>1, <1>3, <1>4, <1>6, <1>9, Constants

LEMMA PageInRangeKept ==
  ASSUME Inv, PageInRange, [Next]_vars
  PROVE  PageInRange'
  <1>1. HeapFirst * Entries \in Nat /\ job \in JobRecord
    BY Constants DEF Inv, Typed
  <1>2. CASE UNCHANGED job
    BY <1>2 DEF PageInRange
  <1>3. ASSUME NEW p, NEW x, NEW parent, BeginCreate(p, x, parent) PROVE PageInRange'
    <2>1. job'.page = 0
      BY <1>3 DEF BeginCreate, NoJob
    <2> QED BY <1>1, <2>1 DEF PageInRange
  <1>4. CASE FinishCreate
    <2>1. job'.page = 0
      BY <1>4 DEF FinishCreate, NoJob
    <2> QED BY <1>1, <2>1 DEF PageInRange
  <1>5. CASE AllocatePageDir
    <2>1. job'.page = job.page
      BY <1>1, <1>5 DEF AllocatePageDir, JobRecord
    <2> QED BY <2>1 DEF PageInRange
  <1>6. CASE AllocateTable
    <2>1. job'.page = 0
      BY <1>1, <1>6 DEF AllocateTable, JobRecord
    <2> QED BY <1>1, <2>1 DEF PageInRange
  <1>7. CASE AllocateImageTable
    <2>1. job'.page = job.page
      BY <1>1, <1>7 DEF AllocateImageTable, JobRecord
    <2> QED BY <2>1 DEF PageInRange
  <1>8. CASE AllocateTableFrame
    <2>1. job.step = "frame"
      BY <1>8 DEF AllocateTableFrame
    <2>2. job.page \in Entry /\ job.program \in Program
      BY <2>1, JobOwner DEF Inv, JobOK
    <2>3. 1 \in DOMAIN Segments[job.program]
      BY <2>2, ImageBelowHeap
    <2>4. \/ job'.page = job.page + 1 /\ job.page # Entries - 1
          \/ job'.page = Segments[job.program][1].first
          \/ job'.page = job.page
      BY <1>1, <1>8 DEF AllocateTableFrame, LastEntry, JobRecord
    <2>5. job.page \in 0..(Entries - 1)
      BY <2>2 DEF Entry
    <2>6. Entries <= HeapFirst * Entries /\ Entries \in Nat
      BY <2>2, ImageBelowHeap, Constants
    <2>7. /\ Segments[job.program][1].first \in Nat
          /\ Segments[job.program][1].first <= HeapFirst * Entries
      <3>1. /\ Segments[job.program][1].first \in Nat /\ Segments[job.program][1].full \in Nat
            /\ Segments[job.program][1].first + Segments[job.program][1].full
                 < HeapFirst * Entries
        BY <2>2, <2>3, ImageBelowHeap
      <3> QED BY <1>1, <3>1
    <2> QED BY <1>1, <2>4, <2>5, <2>6, <2>7 DEF PageInRange
  <1>9. CASE AllocateImagePage
    <2>1. job.step = "image"
      BY <1>9 DEF AllocateImagePage
    <2>2. job'.page \in {0, job.page + 1}
      BY <1>1, <1>9 DEF AllocateImagePage, JobRecord
    <2> QED BY <1>1, <2>1, <2>2, ImagePageType DEF PageInRange
  <1>10. CASE CopyImagePage
    <2>1. job.step = "copy"
      BY <1>10 DEF CopyImagePage
    <2>2. job.program \in Program /\ job.segment \in DOMAIN Segments[job.program]
      BY <2>1, JobOwner DEF Inv, JobOK
    <2>3. \/ job'.page = job.page + 1 /\ job.page + 1 < PagesNeeded(CurrentSegment)
          \/ /\ job.segment < Len(Segments[job.program])
             /\ job'.page = Segments[job.program][job.segment + 1].first
          \/ job'.page = job.page
      BY <1>1, <1>10 DEF CopyImagePage, JobRecord
    <2>4. /\ PagesNeeded(CurrentSegment) \in Nat
          /\ PagesNeeded(CurrentSegment) <= HeapFirst * Entries
          /\ job.segment \in 1..Len(Segments[job.program])
      BY <1>1, <2>1, SegmentType
    <2>5. Segments[job.program] \in Seq(Segment)
      BY <2>2, ImageBelowHeap
    <2>6. job.segment < Len(Segments[job.program]) =>
            job.segment + 1 \in DOMAIN Segments[job.program]
      BY <2>4, <2>5
    <2>7. job.page \in Nat
      BY <1>1 DEF JobRecord
    <2>8. CASE job.segment < Len(Segments[job.program])
      <3> DEFINE next == Segments[job.program][job.segment + 1]
      <3>1. /\ next.first \in Nat /\ next.full \in Nat
            /\ next.first + next.full < HeapFirst * Entries
        BY <2>2, <2>6, <2>8, ImageBelowHeap
      <3>2. next.first \in 0..(HeapFirst * Entries)
        BY <1>1, <3>1
      <3>3. job.page + 1 < PagesNeeded(CurrentSegment) => job.page + 1 \in 0..(HeapFirst * Entries)
        BY <1>1, <2>4, <2>7
      <3> QED BY <1>1, <2>3, <3>2, <3>3 DEF PageInRange
    <2>9. CASE ~(job.segment < Len(Segments[job.program]))
      BY <1>1, <2>3, <2>4, <2>7, <2>9 DEF PageInRange
    <2> QED BY <2>8, <2>9
  <1> QED BY <1>2, <1>3, <1>4, <1>5, <1>6, <1>7, <1>8, <1>9, <1>10
          DEF Next, Creation, Create, Fork, Kill, Write, WriteKernel, Panic, Stopped, vars

\* The fields keep their types.
THEOREM TypeOKHolds == Spec => []TypeOK
  <1>1. Init => PageInRange
    <2>1. 0 \in 0..(HeapFirst * Entries) /\ NoJob.page = 0
      BY Constants DEF NoJob
    <2> QED BY <2>1 DEF Init, PageInRange
  <1>2. Inv /\ PageInRange => TypeOK
    <2> SUFFICES ASSUME Inv, PageInRange PROVE TypeOK
      OBVIOUS
    <2>1. /\ frames \subseteq Bit /\ kernel \in [Slot -> Frame]
          /\ entry \in [Bit -> [Entry -> Frame]] /\ space \in [Process -> SpaceRecord]
          /\ live \subseteq Process /\ job \in JobRecord /\ halted \in BOOLEAN
      BY DEF Inv, Typed
    <2>2. \A p \in Process : /\ space[p].cr3 \in Frame
                             /\ space[p].directory \in [Table -> Frame]
                             /\ space[p].page_tables \in Seq(Slot)
      BY <2>1 DEF SpaceRecord
    <2>3. \A p \in Process : Range(space[p].page_tables) \subseteq Slot
      BY <2>2 DEF Range
    <2>4. job.pcb \in Process \union {Nobody} /\ job.pages \in Seq(Slot)
      BY <2>1 DEF JobRecord
    <2>5. Range(job.pages) \subseteq Slot
      BY <2>4 DEF Range
    <2>6. job.parent \in live \union {Nobody}
      <3>1. CASE job.step = "idle"
        <4>1. job = NoJob
          BY <3>1 DEF Inv, JobOK
        <4> QED BY <4>1 DEF NoJob
      <3>2. CASE job.step # "idle"
        BY <3>2 DEF Inv, JobOK
      <3> QED BY <3>1, <3>2
    <2>7. job.step = "frame" => job.page \in Entry
      BY DEF Inv, JobOK
    <2> QED BY <2>1, <2>2, <2>3, <2>4, <2>5, <2>6, <2>7 DEF TypeOK, PageInRange, Frame
  <1>3. Inv /\ PageInRange /\ [Next]_vars => PageInRange'
    BY PageInRangeKept
  <1> QED BY <1>1, <1>2, <1>3, InvHolds, PTL DEF Spec

\* A directory begins with the kernel's heap and file system and keeps them.
SharesKernel == \A p \in Spaces : space[p].shared = KernelFrames

LEMMA SharesKernelKept ==
  ASSUME Inv, SharesKernel, [Next]_vars
  PROVE  SharesKernel'
  <1>1. Typed /\ DOMAIN space = Process /\ job \in JobRecord
    BY DEF Inv, Typed
  <1>2. CASE UNCHANGED space
    BY <1>2 DEF SharesKernel, Spaces
  <1>3. CASE AllocatePageDir
    <2>1. PICK s \in Slot, f \in Bit :
            space' = [space EXCEPT ![job.pcb] =
                       [NoSpace EXCEPT !.name = job.program, !.dir = s, !.cr3 = f,
                                       !.shared = KernelFrames]]
      BY <1>3 DEF AllocatePageDir
    <2>2. \A q \in Process : space'[q] = space[q] \/ space'[q].shared = KernelFrames
      BY <1>1, <2>1 DEF NoSpace
    <2> QED BY <2>2 DEF SharesKernel, Spaces
  <1>4. CASE AllocateTable \/ AllocateImageTable
    <2>1. PICK t : NewTable(t)
      BY <1>4 DEF AllocateTable, AllocateImageTable
    <2>2. PICK s \in Slot, f \in Bit :
            space' = [space EXCEPT ![job.pcb].directory[t] = f,
                                   ![job.pcb].page_tables = Append(@, s)]
      BY <2>1 DEF NewTable
    <2>3. \A q \in Process : /\ space'[q].shared = space[q].shared
                             /\ space'[q].cr3 = space[q].cr3
      BY <1>1, <2>2 DEF Typed, SpaceRecord
    <2> QED BY <2>3 DEF SharesKernel, Spaces
  <1>5. ASSUME NEW p \in Process, Kill(p) PROVE SharesKernel'
    <2>1. \A q \in Process : space'[q] = space[q] \/ space'[q].cr3 = NotMapped
      BY <1>1, <1>5 DEF Kill, NoSpace
    <2> QED BY <2>1 DEF SharesKernel, Spaces
  <1> QED BY <1>2, <1>3, <1>4, <1>5
          DEF Next, Creation, Create, Fork, BeginCreate, AllocateTableFrame,
              AllocateImagePage, CopyImagePage, FinishCreate, Write, WriteKernel, Panic,
              Stopped, vars

\* The tables and the pages of a process are its own, and what it shares with
\* any other is the kernel's heap and file system.
THEOREM FrameOwnershipHolds == Spec => []FrameOwnership
  <1>1. Inv /\ SharesKernel => FrameOwnership
    <2> SUFFICES ASSUME Inv, SharesKernel PROVE FrameOwnership
      OBVIOUS
    <2>1. SameTables
      BY TablesCounted DEF SameTables, Inv, Linked
    <2>2. FramesExist
      <3> SUFFICES ASSUME Frames % WordBits = 0 \/ 2 * (Frames % WordBits) > WordBits,
                          NEW p \in Spaces, NEW f \in PageFrames(p) \union ControlFrames(p)
                   PROVE  f \in 0..(Frames - 1)
        BY DEF FramesExist
      <3>1. f \notin Boot
        BY DEF Inv, FramesApart
      <3>2. f \in Bit
        BY FrameTypes DEF Inv
      <3> QED BY <3>1, <3>2, LockedBeyond
    <2>3. SharedPages
      <3> SUFFICES ASSUME NEW p \in Spaces, NEW q \in Spaces, p # q
                   PROVE  Reachable(p) \intersect Reachable(q) = KernelFrames
        BY DEF SharedPages
      <3>1. /\ PageFrames(p) \intersect PageFrames(q) = {}
            /\ PageFrames(p) \intersect KernelFrames = {}
            /\ PageFrames(q) \intersect KernelFrames = {}
        BY KernelFramesTaken DEF Inv, FramesApart
      <3> QED BY <3>1 DEF Reachable, SharesKernel
    <2> QED BY <2>1, <2>2, <2>3 DEF FrameOwnership, Inv
  <1>2. Init => SharesKernel
    <2>1. NoSpace.cr3 = NotMapped
      BY DEF NoSpace
    <2>2. Init => Spaces = {}
      BY <2>1 DEF Init, Spaces
    <2> QED BY <2>2 DEF SharesKernel
  <1>3. Inv /\ SharesKernel /\ [Next]_vars => SharesKernel'
    BY SharesKernelKept
  <1> QED BY <1>1, <1>2, <1>3, InvHolds, PTL DEF Spec

-----------------------------------------------------------------------------
(* What processes do to each other's pages *)

\* What the CPU translates is a page of the process.
LEMMA TranslatePage ==
  ASSUME Inv, NEW p \in Spaces, NEW t \in Table, NEW j \in Entry, Translate(p, t, j) # NotMapped
  PROVE  /\ space[p].directory[t] \in TableFrames(p)
         /\ Translate(p, t, j) = entry[space[p].directory[t]][j]
         /\ Translate(p, t, j) \in PageFrames(p) /\ Translate(p, t, j) \in Bit
  <1>1. Linked(p) /\ space[p] \in SpaceRecord /\ Typed
    BY DEF Inv, Typed, Spaces
  <1>2. space[p].directory[t] # NotMapped /\ Translate(p, t, j) = entry[space[p].directory[t]][j]
    BY DEF Translate
  <1>3. space[p].directory[t] \in TableFrames(p)
    BY <1>1, <1>2 DEF Linked, Range, SpaceRecord
  <1>4. Translate(p, t, j) \in PageFrames(p)
    BY <1>2, <1>3, PageFrame
  <1> QED BY <1>1, <1>2, <1>3, <1>4, FrameTypes

LEMMA TranslateStays ==
  ASSUME Inv, NEW p \in Spaces, SameSpace(p), NEW t \in Table, NEW j \in Entry
  PROVE  Translate(p, t, j)' = Translate(p, t, j)
  <1>1. Linked(p) /\ space[p] \in SpaceRecord
    BY DEF Inv, Typed, Spaces
  <1>2. space[p].directory[t] # NotMapped => space[p].directory[t] \in TableFrames(p)
    BY <1>1 DEF Linked, Range, SpaceRecord
  <1> QED BY <1>2 DEF SameSpace, Translate

\* What is in a page changes only when its process writes to it.
LEMMA PagesKeepUnwritten ==
  ASSUME Inv, [Next]_vars, NEW p \in live \intersect live', NEW f \in PageFrames(p),
         \A w \in Writable : ~Write(p, w[1], w[2])
  PROVE  data'[f] = data[f]
  <1>1. p \in Spaces /\ f \in Bit /\ DOMAIN data = Bit /\ f # NotMapped
    BY LiveHasSpace, FrameTypes, PageFrame DEF Inv, Typed
  <1>2. CASE UNCHANGED data
    BY <1>2
  <1>3. CASE CopyImagePage
    <2>1. job.step = "copy"
      BY <1>3 DEF CopyImagePage
    <2>2. /\ job.pages # <<>> /\ job.pages \in Seq(Slot)
      <3>1. /\ job.page < PagesNeeded(CurrentSegment)
            /\ Len(job.pages) + job.page = CurrentSegment.full + 1
        BY <2>1 DEF Inv, JobOK
      <3>2. /\ CurrentSegment.full \in Nat
            /\ PagesNeeded(CurrentSegment) \in {CurrentSegment.full, CurrentSegment.full + 1}
        BY <2>1, SegmentType
      <3>3. job.pages \in Seq(Slot) /\ job.page \in Nat
        BY DEF Inv, Typed, JobRecord
      <3> QED BY <3>1, <3>2, <3>3
    <2>3. 1 \in DOMAIN job.pages /\ Head(job.pages) = job.pages[1]
      BY <2>2
    <2>4. ImageSlot(Head(job.pages))
      BY <2>3 DEF Inv, JobOK
    <2>5. f # kernel[Head(job.pages)]
      BY <2>4 DEF ImageSlot
    <2> QED BY <1>1, <1>3, <2>5 DEF CopyImagePage
  <1>4. CASE FinishCreate
    <2>1. job.step = "heap_init"
      BY <1>4 DEF FinishCreate
    <2>2. /\ job.pcb \in Spaces /\ job.pcb # p
      BY <2>1, JobOwner
    <2>3. f \notin PageFrames(job.pcb)
      BY <1>1, <2>2 DEF Inv, FramesApart
    <2>4. \A t \in Table, j \in Entry : Translate(job.pcb, t, j) # f
      BY <1>1, <2>2, <2>3, TranslatePage
    <2>5. HeapFirst \in Table /\ 0 \in Entry /\ ForkedTables \subseteq Table
      BY Constants DEF ForkedTables
    <2>6. \A x \in ForkedTables \X Entry : Translate(job.pcb, x[1], x[2]) # f
      BY <2>4, <2>5
    <2>7. [data EXCEPT ![Translate(job.pcb, HeapFirst, 0)] = <<"heap">>][f] = data[f]
      BY <1>1, <2>4, <2>5
    <2> QED BY <1>1, <1>4, <2>6, <2>7 DEF FinishCreate
  <1>5. ASSUME NEW q \in Process, Kill(q) PROVE data'[f] = data[f]
    <2>1. q \in Spaces /\ q # p
      BY <1>5, LiveHasSpace DEF Kill
    <2>2. Freed(q) = PageFrames(q) \union {space[q].cr3} /\ space[q].cr3 \in ControlFrames(q)
      BY <2>1 DEF Freed, Inv, Linked, ControlFrames
    <2>3. f \notin Freed(q)
      BY <1>1, <2>1, <2>2 DEF Inv, FramesApart
    <2> QED BY <1>1, <1>5, <2>3 DEF Kill
  <1>6. ASSUME NEW q \in Process, NEW w \in Writable, Write(q, w[1], w[2])
        PROVE  data'[f] = data[f]
    <2>1. w[1] \in Table /\ w[2] \in Entry
      BY AddressSpacesAssumption
    <2>2. PICK g : g = Translate(q, w[1], w[2])
      OBVIOUS
    <2>3. q \in Spaces /\ g # NotMapped /\ data' = [data EXCEPT ![g] = <<"written", q>>]
      BY <1>6, <2>2, LiveHasSpace DEF Write
    <2>4. g \in PageFrames(q)
      BY <2>1, <2>2, <2>3, TranslatePage
    <2>5. q # p
      BY <1>6
    <2>6. g # f
      BY <1>1, <2>3, <2>4, <2>5 DEF Inv, FramesApart
    <2> QED BY <1>1, <2>3, <2>6
  <1>7. ASSUME NEW q \in Process, NEW g \in KernelFrames, WriteKernel(q, g)
        PROVE  data'[f] = data[f]
    <2>1. g # f
      BY <1>1, KernelFramesTaken DEF Inv, FramesApart
    <2> QED BY <1>1, <1>7, <2>1 DEF WriteKernel
  <1> QED BY <1>2, <1>3, <1>4, <1>5, <1>6, <1>7
          DEF Next, Creation, Create, Fork, BeginCreate, AllocatePageDir, AllocateTable,
              AllocateTableFrame, AllocateImageTable, AllocateImagePage, Panic, Stopped, vars

LEMMA PagesKeepData ==
  ASSUME Inv, [Next]_vars, NEW p \in live \intersect live', NEW f \in PageFrames(p)
  PROVE  data'[f] \in {data[f], <<"written", p>>}
  <1>1. f \in Bit /\ DOMAIN data = Bit
    BY LiveHasSpace, FrameTypes, PageFrame DEF Inv, Typed
  <1>2. ASSUME NEW w \in Writable, Write(p, w[1], w[2])
        PROVE  data'[f] \in {data[f], <<"written", p>>}
    <2>1. PICK g : g = Translate(p, w[1], w[2])
      OBVIOUS
    <2>2. data' = [data EXCEPT ![g] = <<"written", p>>]
      BY <1>2, <2>1 DEF Write
    <2> QED BY <1>1, <2>2
  <1> QED BY <1>2, PagesKeepUnwritten

\* Whatever other processes and the kernel do, a process keeps its own pages and
\* what is in them, except for what it writes itself.
THEOREM OthersKeepTheirPagesHolds == Spec => OthersKeepTheirPages
  <1>1. ASSUME Inv, [Next]_vars
        PROVE  \A p \in live \intersect live', t \in Table, j \in Entry :
                 LET f == Translate(p, t, j)
                 IN  /\ Translate(p, t, j)' = f
                     /\ f # NotMapped => data'[f] \in {data[f], <<"written", p>>}
    <2> SUFFICES ASSUME NEW p \in live \intersect live', NEW t \in Table, NEW j \in Entry
                 PROVE  /\ Translate(p, t, j)' = Translate(p, t, j)
                        /\ Translate(p, t, j) # NotMapped =>
                             data'[Translate(p, t, j)] \in {data[Translate(p, t, j)], <<"written", p>>}
      OBVIOUS
    <2>1. p \in Spaces /\ SameSpace(p)
      BY <1>1, NextKeeps, LiveHasSpace DEF LiveStay
    <2>2. Translate(p, t, j) # NotMapped => Translate(p, t, j) \in PageFrames(p)
      BY <1>1, <2>1, TranslatePage
    <2> QED BY <1>1, <2>1, <2>2, TranslateStays, PagesKeepData
  <1> QED BY <1>1, InvHolds, PTL DEF Spec, OthersKeepTheirPages

-----------------------------------------------------------------------------
(* The loader's invariant *)

ImagePages == 0..(HeapFirst * Entries - 1)

\* The frame of page n of the image of p.
PageOf(p, n) == Translate(p, n \div Entries, n % Entries)

WholeTable(p, t) == \A j \in Entry : Translate(p, t, j) \in Bit

\* Pages from n on are not mapped, or the kernel keeps its page.
KeptFrom(p, n) ==
  \A m \in ImagePages : m >= n => PageOf(p, m) \in Range(kernel) \union {NotMapped}

Loaded(p, x, n) == PageOf(p, n) \in Bit /\ data[PageOf(p, n)] = <<"image", x, n>>

LoadedSegments(p, x, K) ==
  \A k \in K : \A n \in FilledPages(Segments[x][k]) : Loaded(p, x, n)

\* The table that the loader fills is the last of those it asked for, and none
\* of them is beyond the table of page n.
LatestTable(p, n) ==
  /\ \A t \in job.tables : t <= n \div Entries
  /\ \A t \in job.tables :
       (\A u \in job.tables : u <= t) => space[p].directory[t] = CurrentTable

\* The kernel's pages of the image are pages n, n + 1, ... of the process.
PagesFrom(p, n) == \A i \in DOMAIN job.pages : PageOf(p, n + i - 1) = kernel[job.pages[i]]

FrameRound(p) ==
  /\ space[p].directory[job.table] = CurrentTable
  /\ \A j \in Entry : j < job.page <=> entry[CurrentTable][j] # NotMapped

ImageRound(p) ==
  /\ LatestTable(p, job.page) /\ KeptFrom(p, job.page)
  /\ PagesFrom(p, CurrentSegment.first)
  /\ LoadedSegments(p, job.program, 1..(job.segment - 1))

CopyRound(p) ==
  /\ LatestTable(p, CurrentSegment.first + CurrentSegment.full)
  /\ KeptFrom(p, CurrentSegment.first + PagesNeeded(CurrentSegment))
  /\ PagesFrom(p, CurrentSegment.first + job.page)
  /\ LoadedSegments(p, job.program, 1..(job.segment - 1))
  /\ \A n \in 0..(job.page - 1) : Loaded(p, job.program, CurrentSegment.first + n)

LiveWhole == \A p \in live : \A t \in HeapFirst..Stack : WholeTable(p, t)

RequestedWhole(p) ==
  \A t \in Requested \ job.tables : (job.step = "frame" /\ t = job.table) \/ WholeTable(p, t)

Progress(p) ==
  /\ job.step \notin {"idle", "directory"} => RequestedWhole(p)
  /\ job.step = "frame" => FrameRound(p)
  /\ job.step = "image" => ImageRound(p)
  /\ job.step = "copy" => CopyRound(p)
  /\ job.step \in {"table", "frame", "heap_init"} /\ job.table # Stack =>
       LoadedSegments(p, job.program, DOMAIN Segments[job.program])
  /\ job.step = "directory" \/ (job.step \in {"table", "frame"} /\ job.table = Stack) =>
       job.tables = {}

LoadInv == Inv /\ LiveWhole /\ Progress(job.pcb)

-----------------------------------------------------------------------------
(* Pages of an image *)

LEMMA Places ==
  /\ \A n \in ImagePages : /\ n \in Nat /\ n < HeapFirst * Entries
                           /\ n \div Entries \in 0..(HeapFirst - 1)
                           /\ n \div Entries \in Table /\ n % Entries \in Entry
  /\ \A n, m \in ImagePages :
       n \div Entries = m \div Entries /\ n % Entries = m % Entries => n = m
  <1>1. ASSUME NEW n \in ImagePages
        PROVE  /\ n \in Nat /\ n < HeapFirst * Entries
               /\ n \div Entries \in 0..(HeapFirst - 1)
               /\ n \div Entries \in Table /\ n % Entries \in Entry
               /\ n = (n \div Entries) * Entries + (n % Entries)
    <2>1. n \in Nat /\ n < HeapFirst * Entries
      BY Constants DEF ImagePages
    <2> QED BY <2>1, ImageTable
  <1> QED BY <1>1

LEMMA InOrder ==
  ASSUME NEW n \in Nat, NEW m \in Nat, n <= m
  PROVE  n \div Entries <= m \div Entries
  <1>1. PICK a, b : a = n \div Entries /\ b = m \div Entries
    OBVIOUS
  <1>2. a \in Nat /\ b \in Nat /\ a * Entries <= n /\ m < (b + 1) * Entries /\ Entries \in Nat
    BY <1>1, Constants
  <1>3. ASSUME b < a PROVE FALSE
    <2>1. (b + 1) * Entries <= a * Entries
      BY <1>2, <1>3, Constants
    <2> QED BY <1>2, <2>1
  <1> QED BY <1>1, <1>2, <1>3

LEMMA NeededPages ==
  ASSUME NEW s \in Segment
  PROVE  /\ s.first \in Nat /\ s.full \in Nat /\ s.rest \in BOOLEAN
         /\ PagesNeeded(s) \in Nat /\ PagesNeeded(s) \in {s.full, s.full + 1}
         /\ s.rest => FilledPages(s) = s.first..(s.first + PagesNeeded(s) - 1)
         /\ ~s.rest => FilledPages(s) = s.first..(s.first + PagesNeeded(s) - 2)
  <1>1. s.first \in Nat /\ s.full \in Nat /\ s.rest \in BOOLEAN
    BY DEF Segment
  <1> QED BY <1>1 DEF PagesNeeded, FilledPages

\* The segment that is loaded is beyond the pages of those before it.
LEMMA SegmentsBefore ==
  ASSUME NEW x \in Program, NEW k \in DOMAIN Segments[x]
  PROVE  /\ Segments[x][k] \in Segment
         /\ Segments[x][k].first + Segments[x][k].full < HeapFirst * Entries
         /\ \A n \in FilledPages(Segments[x][k]) : n \in ImagePages
         /\ \A m \in DOMAIN Segments[x] : k < m =>
              /\ Segments[x][k].first + PagesNeeded(Segments[x][k]) <= Segments[x][m].first
              /\ \A n \in FilledPages(Segments[x][k]) : n < Segments[x][m].first
  <1>1. PICK s : s = Segments[x][k]
    OBVIOUS
  <1>2. s \in Segment /\ s.first + s.full < HeapFirst * Entries
    BY <1>1, ImageBelowHeap
  <1>3. \A n \in FilledPages(s) :
          n \in Nat /\ n <= s.first + s.full /\ n < s.first + PagesNeeded(s)
    <2>1. /\ s.first \in Nat /\ s.full \in Nat /\ PagesNeeded(s) \in {s.full, s.full + 1}
          /\ s.rest \in BOOLEAN
      BY <1>2, NeededPages
    <2>2. CASE s.rest
      <3>1. FilledPages(s) = s.first..(s.first + PagesNeeded(s) - 1)
        BY <1>2, <2>2, NeededPages
      <3> QED BY <2>1, <3>1
    <2>3. CASE ~s.rest
      <3>1. FilledPages(s) = s.first..(s.first + PagesNeeded(s) - 2)
        BY <1>2, <2>3, NeededPages
      <3> QED BY <2>1, <3>1
    <2> QED BY <2>2, <2>3
  <1>4. \A n \in FilledPages(s) : n \in ImagePages
    BY <1>2, <1>3, NeededPages, Constants DEF ImagePages
  <1>5. ASSUME NEW m \in DOMAIN Segments[x], k < m
        PROVE  /\ s.first + PagesNeeded(s) <= Segments[x][m].first
               /\ \A n \in FilledPages(s) : n < Segments[x][m].first
    <2>1. s.first + PagesNeeded(s) <= Segments[x][m].first
      BY <1>1, <1>5, SegmentsInOrder
    <2>2. Segments[x][m].first \in Nat
      BY ImageBelowHeap
    <2> QED BY <1>2, <1>3, <2>1, <2>2, NeededPages
  <1> QED BY <1>1, <1>2, <1>4, <1>5

\* No frame is mapped twice in one address space.
LEMMA TranslateOnce ==
  ASSUME Inv, NEW p \in Spaces, NEW t \in Table, NEW j \in Entry, NEW u \in Table, NEW i \in Entry,
         Translate(p, t, j) = Translate(p, u, i), Translate(p, t, j) # NotMapped
  PROVE  t = u /\ j = i
  <1>1. /\ space[p].directory[t] \in TableFrames(p)
        /\ Translate(p, t, j) = entry[space[p].directory[t]][j]
        /\ space[p].directory[t] # NotMapped
    BY TranslatePage DEF Translate
  <1>2. /\ space[p].directory[u] \in TableFrames(p)
        /\ Translate(p, u, i) = entry[space[p].directory[u]][i]
    BY TranslatePage
  <1>3. space[p].directory[t] = space[p].directory[u] /\ j = i
    <2>1. OnceIn(p)
      BY DEF Inv, FramesApart, OnceIn
    <2>2. PICK f, g : f = space[p].directory[t] /\ g = space[p].directory[u]
      OBVIOUS
    <2>3. /\ f \in TableFrames(p) /\ g \in TableFrames(p)
          /\ entry[f][j] = entry[g][i] /\ entry[f][j] # NotMapped
      BY <1>1, <1>2, <2>2
    <2>4. f = g /\ j = i
      BY <2>1, <2>3 DEF OnceIn
    <2> QED BY <2>2, <2>4
  <1> QED BY <1>1, <1>3 DEF Inv, Linked

LEMMA PageOnce ==
  ASSUME Inv, NEW p \in Spaces, NEW n \in ImagePages, NEW m \in ImagePages,
         PageOf(p, n) = PageOf(p, m), PageOf(p, n) # NotMapped
  PROVE  n = m
  BY TranslateOnce, Places DEF PageOf

-----------------------------------------------------------------------------
(* What a step does to the pages of a process *)

\* A new table has no pages: the CPU translates what it translated before.
LEMMA TableTranslates ==
  ASSUME Inv, NEW p \in Spaces, NEW t \in Table, space[p].directory[t] = NotMapped,
         NEW s, NEW f, TableMade(p, t, s, f)
  PROVE  \A u \in Table, j \in Entry : Translate(p, u, j)' = Translate(p, u, j)
  <1>1. /\ space'[p].directory = [space[p].directory EXCEPT ![t] = f]
        /\ space[p].directory \in [Table -> Frame] /\ entry \in [Bit -> [Entry -> Frame]]
        /\ f \in Bit /\ f \notin frames /\ entry' = [entry EXCEPT ![f] = NoTable]
    BY DEF Inv, Typed, SpaceRecord, Spaces, TableMade
  <1>2. \A u \in Table : space[p].directory[u] # NotMapped =>
          /\ space[p].directory[u] \in Bit /\ space[p].directory[u] # f
    <2> SUFFICES ASSUME NEW u \in Table, space[p].directory[u] # NotMapped
                 PROVE  space[p].directory[u] \in Bit /\ space[p].directory[u] # f
      OBVIOUS
    <2>1. space[p].directory[u] \in TableFrames(p)
      BY <1>1 DEF Inv, Linked, Range
    <2> QED BY <1>1, <2>1, FreeFrame, FrameTypes DEF Inv, ControlFrames
  <1>3. ASSUME NEW u \in Table, NEW j \in Entry, u # t
        PROVE  Translate(p, u, j)' = Translate(p, u, j)
    <2>1. space'[p].directory[u] = space[p].directory[u]
      BY <1>1, <1>3
    <2>2. space[p].directory[u] # NotMapped =>
            entry'[space[p].directory[u]] = entry[space[p].directory[u]]
      BY <1>1, <1>2
    <2> QED BY <2>1, <2>2 DEF Translate
  <1>4. ASSUME NEW j \in Entry PROVE Translate(p, t, j)' = Translate(p, t, j)
    <2>1. space'[p].directory[t] = f /\ entry'[f][j] = NotMapped
      BY <1>1 DEF NoTable
    <2> QED BY <2>1 DEF Translate
  <1> QED BY <1>3, <1>4

\* Only the page in entry j of table t changes.
OnlyPage(p, t, j) ==
  \A u \in Table, i \in Entry :
    ~(u = t /\ i = j) => Translate(p, u, i)' = Translate(p, u, i)

LEMMA PageTranslates ==
  ASSUME Inv, NEW p \in Spaces, NEW t \in Table, NEW j \in Entry, NEW f \in Bit,
         NEW c \in TableFrames(p), space[p].directory[t] = c,
         entry' = [entry EXCEPT ![c][j] = f], space' = space
  PROVE  Translate(p, t, j)' = f /\ OnlyPage(p, t, j)
  <1>1. /\ Linked(p) /\ c \in Bit /\ c # NotMapped /\ entry \in [Bit -> [Entry -> Frame]]
    BY FrameTypes, Constants DEF Inv, Typed
  <1>2. Translate(p, t, j)' = f
    BY <1>1 DEF Translate
  <1>3. ASSUME NEW u \in Table, NEW i \in Entry, ~(u = t /\ i = j)
        PROVE  Translate(p, u, i)' = Translate(p, u, i)
    <2>1. CASE u = t
      BY <1>1, <1>3, <2>1 DEF Translate
    <2>2. CASE u # t
      <3>1. space[p].directory[u] # c
        BY <1>1, <2>2 DEF Linked
      <3>2. entry'[space[p].directory[u]] = entry[space[p].directory[u]]
        BY <1>1, <3>1
      <3> QED BY <3>2 DEF Translate
    <2> QED BY <2>1, <2>2
  <1> QED BY <1>2, <1>3 DEF OnlyPage

\* The pages of a process that runs, or of one whose directory and tables stay.
SamePages(p) ==
  \A u \in Table, j \in Entry : Translate(p, u, j)' = Translate(p, u, j)

LEMMA SameSpacePages ==
  ASSUME Inv, NEW p \in Spaces, SameSpace(p)
  PROVE  SamePages(p)
  BY TranslateStays DEF SamePages

LEMMA SamePagesOf ==
  ASSUME NEW p, SamePages(p)
  PROVE  /\ \A n \in ImagePages : PageOf(p, n)' = PageOf(p, n)
         /\ \A t \in Table : WholeTable(p, t) => WholeTable(p, t)'
  BY Places DEF SamePages, PageOf, WholeTable

LEMMA LiveWholeStays ==
  ASSUME Inv, LiveWhole, [Next]_vars, live' \subseteq live
  PROVE  LiveWhole'
  <1> SUFFICES ASSUME NEW p \in live', NEW t \in HeapFirst..Stack PROVE WholeTable(p, t)'
    BY DEF LiveWhole
  <1>1. p \in Spaces /\ SameSpace(p)
    BY NextKeeps, LiveHasSpace DEF LiveStay
  <1>2. WholeTable(p, t) /\ t \in Table
    BY Constants DEF LiveWhole
  <1> QED BY <1>1, <1>2, SameSpacePages, SamePagesOf

-----------------------------------------------------------------------------
(* What each step of a creation adds *)

LEMMA BeginCreateProgress ==
  ASSUME NEW p, NEW x, NEW parent, BeginCreate(p, x, parent), NEW q
  PROVE  Progress(q)'
  BY DEF BeginCreate, Progress, NoJob

LEMMA AllocatePageDirProgress ==
  ASSUME Inv, NEW p, p = job.pcb, Progress(p), AllocatePageDir
  PROVE  Progress(p)'
  <1>1. /\ job.step = "directory" /\ job \in JobRecord
        /\ job' = [job EXCEPT !.step = "table", !.table = Stack]
    BY DEF AllocatePageDir, Inv, Typed
  <1>2. job'.step = "table" /\ job'.table = Stack /\ job'.tables = job.tables /\ job.tables = {}
    BY <1>1 DEF JobRecord, Progress
  <1>3. Requested' = {}
    BY <1>2 DEF Requested
  <1> QED BY <1>2, <1>3 DEF Progress, RequestedWhole

\* What is loaded stays loaded while its pages stay.
LEMMA LoadedStay ==
  ASSUME NEW p, NEW x \in Program, NEW K, K \subseteq DOMAIN Segments[x],
         LoadedSegments(p, x, K), \A n \in ImagePages : Loaded(p, x, n) => Loaded(p, x, n)'
  PROVE  LoadedSegments(p, x, K)'
  BY SegmentsBefore DEF LoadedSegments

\* The new table is the last in the list.
LEMMA LatestMade ==
  ASSUME Inv, NEW p \in Spaces, p = job'.pcb, NEW t \in Table, NEW s, NEW f,
         TableMade(p, t, s, f)
  PROVE  CurrentTable' = f /\ space'[p].directory[t] = f
  <1>1. PICK pt : pt = space[p].page_tables
    OBVIOUS
  <1>2. /\ pt \in Seq(Slot) /\ s \in Slot /\ space'[p].page_tables = Append(pt, s)
        /\ space[p].directory \in [Table -> Frame]
        /\ kernel \in [Slot -> Frame]
    BY <1>1 DEF Inv, Typed, SpaceRecord, Spaces, TableMade
  <1>3. PICK qt : qt = Append(pt, s)
    OBVIOUS
  <1>4. Len(qt) = Len(pt) + 1 /\ qt[Len(pt) + 1] = s
    BY <1>2, <1>3, AppendProperties
  <1>5. Last(qt) = s
    BY <1>4 DEF Last
  <1>6. CurrentTable' = kernel'[s]
    <2>1. CurrentTable' = kernel'[Last(space'[p].page_tables)]
      BY DEF CurrentTable
    <2> QED BY <1>2, <1>3, <1>5, <2>1
  <1> QED BY <1>2, <1>6 DEF TableMade

LEMMA AllocateTableProgress ==
  ASSUME Inv, NEW p, p = job.pcb, Progress(p), AllocateTable
  PROVE  Progress(p)'
  <1>1. PICK t, x : t = job.table /\ x = job.program
    OBVIOUS
  <1>2. /\ job.step = "table" /\ NewTable(t) /\ data' = data
        /\ job' = [job EXCEPT !.step = "frame", !.page = 0]
    BY <1>1 DEF AllocateTable
  <1>3. p \in Spaces /\ x \in Program /\ job \in JobRecord
    BY <1>1, <1>2, JobOwner
  <1>4. /\ job'.step = "frame" /\ job'.page = 0 /\ job'.pcb = p /\ job'.table = t
        /\ job'.program = x /\ job'.tables = job.tables
        /\ t \in Table /\ job.tables \subseteq 0..(HeapFirst - 1)
    BY <1>1, <1>2, <1>3 DEF JobRecord
  <1>5. t \in (HeapFirst..HeapLast) \union {Stack} /\ space[p].directory[t] = NotMapped
    <2>1. /\ t \in (HeapFirst..HeapLast) \union {Stack}
          /\ \A u \in Table : space[p].directory[u] # NotMapped => u \in Requested
      BY <1>1, <1>2 DEF Inv, JobOK
    <2>2. t \notin Requested
      BY <1>1, <1>2, <1>4, <2>1, Constants DEF Requested
    <2> QED BY <1>4, <2>1, <2>2
  <1>6. PICK s, f : TableMade(p, t, s, f) /\ allocate_page(s, f)
    BY <1>2, <1>3, <1>4, NewTableMakes
  <1>7. SamePages(p)
    BY <1>3, <1>4, <1>5, <1>6, TableTranslates DEF SamePages
  <1>8. RequestedWhole(p)'
    <2> SUFFICES ASSUME NEW u \in Requested', u \notin job.tables, u # t
                 PROVE  WholeTable(p, u)'
      BY <1>4 DEF RequestedWhole
    <2>1. u \in Requested /\ u \in Table
      BY <1>1, <1>2, <1>4, <1>5, Constants DEF Requested
    <2>2. WholeTable(p, u)
      BY <1>2, <2>1 DEF Progress, RequestedWhole
    <2> QED BY <1>7, <2>1, <2>2, SamePagesOf
  <1>9. FrameRound(p)'
    <2>1. CurrentTable' = f /\ space'[p].directory[t] = f
      BY <1>3, <1>4, <1>6, LatestMade
    <2>2. \A j \in Entry : entry'[f][j] = NotMapped
      <3>1. entry \in [Bit -> [Entry -> Frame]] /\ f \in Bit
        BY <1>6 DEF Inv, Typed, TableMade
      <3> QED BY <1>6, <3>1 DEF TableMade, NoTable
    <2>3. \A j \in Entry : ~(j < 0)
      BY Constants
    <2> QED BY <1>4, <2>1, <2>2, <2>3 DEF FrameRound
  <1>10. t # Stack => LoadedSegments(p, x, DOMAIN Segments[x])'
    <2>1. \A n \in ImagePages : Loaded(p, x, n) => Loaded(p, x, n)'
      BY <1>2, <1>7, SamePagesOf DEF Loaded
    <2> QED BY <1>1, <1>2, <1>3, <2>1, LoadedStay DEF Progress
  <1>11. t = Stack => job.tables = {}
    BY <1>1, <1>2 DEF Progress
  <1> QED BY <1>4, <1>8, <1>9, <1>10, <1>11 DEF Progress

\* A frame for one entry: the pages before it in this table, and the other
\* tables, stay.
LEMMA TableFrameMade ==
  ASSUME Inv, NEW p, p = job.pcb, NEW t, t = job.table, Progress(p), AllocateTableFrame
  PROVE  /\ p \in Spaces /\ job.page \in Entry
         /\ \A u \in Table, i \in Entry :
              ~(u = t /\ i = job.page) => Translate(p, u, i)' = Translate(p, u, i)
         /\ CurrentTable \in TableFrames(p)
         /\ space[p].directory[t] = CurrentTable
         /\ \A i \in Entry : i < job.page + 1 <=> entry'[CurrentTable][i] # NotMapped
         /\ LastEntry => WholeTable(p, t)'
         /\ LastEntry \/ \A u \in Requested \ job.tables : u = t \/ WholeTable(p, u)'
         /\ LastEntry => \A u \in Requested \ job.tables : WholeTable(p, u)'
  <1>1. PICK j, c : j = job.page /\ c = CurrentTable
    OBVIOUS
  <1>2. PICK f \in Bit : entry' = [entry EXCEPT ![c][j] = f]
    BY <1>1 DEF AllocateTableFrame
  <1>3. job.step = "frame" /\ UNCHANGED <<kernel, data, space, live, halted>>
    BY DEF AllocateTableFrame
  <1>4. p \in Spaces /\ job \in JobRecord
    BY <1>3, JobOwner
  <1>5. j \in Entry /\ t \in Table /\ c \in TableFrames(p) /\ c \in Bit
    BY <1>1, <1>3, <1>4, CurrentTableIsOne DEF Inv, JobOK, JobRecord
  <1>6. space[p].directory[t] = c /\ \A i \in Entry : i < j <=> entry[c][i] # NotMapped
    BY <1>1, <1>3 DEF Progress, FrameRound
  <1>7. /\ Translate(p, t, j)' = f
        /\ \A u \in Table, i \in Entry :
             ~(u = t /\ i = j) => Translate(p, u, i)' = Translate(p, u, i)
    <2>1. /\ t \in Table /\ j \in Entry /\ c \in TableFrames(p) /\ p \in Spaces
          /\ space[p].directory[t] = c /\ space' = space
      BY <1>3, <1>4, <1>5, <1>6
    <2>2. Translate(p, t, j)' = f /\ OnlyPage(p, t, j)
      BY <1>2, <2>1, PageTranslates
    <2> QED BY <2>2 DEF OnlyPage
  <1>8. \A i \in Entry : i < j + 1 <=> entry'[c][i] # NotMapped
    <2>1. entry \in [Bit -> [Entry -> Frame]]
      BY DEF Inv, Typed
    <2>2. entry'[c][j] = f /\ \A i \in Entry : i # j => entry'[c][i] = entry[c][i]
      BY <1>2, <1>5, <2>1
    <2> QED BY <1>5, <1>6, <2>2, Constants
  <1>9. ASSUME LastEntry PROVE WholeTable(p, t)'
    <2> SUFFICES ASSUME NEW i \in Entry PROVE Translate(p, t, i)' \in Bit
      BY DEF WholeTable
    <2>1. CASE i = j
      BY <1>7, <2>1
    <2>2. CASE i # j
      <3>1. i < j
        BY <1>1, <1>5, <1>9, <2>2, Constants DEF LastEntry, Entry
      <3>2. Translate(p, t, i) # NotMapped
        <4>1. c # NotMapped
          BY <1>5, Constants
        <4> QED BY <1>6, <3>1, <4>1 DEF Translate
      <3>3. Translate(p, t, i) \in Bit
        BY <1>4, <1>5, <3>2, TranslatePage
      <3> QED BY <1>5, <1>7, <2>2, <3>3
    <2> QED BY <2>1, <2>2
  <1>10. ASSUME NEW u \in Requested, u \notin job.tables, u # t
         PROVE  WholeTable(p, u)'
    <2>1. WholeTable(p, u)
      BY <1>1, <1>3, <1>10 DEF Progress, RequestedWhole
    <2>2. u \in Table
      <3>1. Requested = job.tables \union {Stack} \union (IF t = Stack THEN {} ELSE HeapFirst..t)
        BY <1>1, <1>3 DEF Requested
      <3>2. job.tables \subseteq 0..(HeapFirst - 1)
        BY <1>4 DEF JobRecord
      <3> QED BY <1>5, <1>10, <3>1, <3>2, Constants
    <2>3. ASSUME NEW i \in Entry PROVE Translate(p, u, i)' \in Bit
      <3>1. Translate(p, u, i)' = Translate(p, u, i)
        BY <1>7, <1>10, <2>2
      <3> QED BY <2>1, <3>1 DEF WholeTable
    <2> QED BY <2>3 DEF WholeTable
  <1>11. /\ LastEntry \/ \A u \in Requested \ job.tables : u = t \/ WholeTable(p, u)'
         /\ LastEntry => \A u \in Requested \ job.tables : WholeTable(p, u)'
    BY <1>9, <1>10
  <1> QED BY <1>1, <1>4, <1>5, <1>6, <1>7, <1>8, <1>9, <1>11

LEMMA AllocateTableFrameProgress ==
  ASSUME Inv, NEW p, p = job.pcb, Progress(p), AllocateTableFrame
  PROVE  Progress(p)'
  <1>1. PICK t, j, x : t = job.table /\ j = job.page /\ x = job.program
    OBVIOUS
  <1>2. job.step = "frame" /\ UNCHANGED <<kernel, data, space, live, halted>>
    BY DEF AllocateTableFrame
  <1>3. /\ p \in Spaces /\ x \in Program /\ job \in JobRecord
        /\ t \in (HeapFirst..HeapLast) \union {Stack} /\ t \in Table /\ j \in Entry
        /\ job.tables \subseteq 0..(HeapFirst - 1) /\ job.pages = <<>>
        /\ \A u \in Table : space[p].directory[u] # NotMapped => u \in Requested
    BY <1>1, <1>2, JobOwner DEF Inv, JobOK, JobRecord
  <1>4. \A n \in ImagePages : PageOf(p, n)' = PageOf(p, n)
    <2> SUFFICES ASSUME NEW n \in ImagePages PROVE PageOf(p, n)' = PageOf(p, n)
      OBVIOUS
    <2>1. PICK u, i : u = n \div Entries /\ i = n % Entries
      OBVIOUS
    <2>2. u \in Table /\ i \in Entry /\ u # t
      BY <1>3, <2>1, Places, Constants
    <2>3. Translate(p, u, i)' = Translate(p, u, i)
      BY <1>1, <2>2, TableFrameMade
    <2> QED BY <2>1, <2>3 DEF PageOf
  <1>5. t # Stack => LoadedSegments(p, x, DOMAIN Segments[x])'
    <2>1. \A n \in ImagePages : Loaded(p, x, n) => Loaded(p, x, n)'
      BY <1>2, <1>4 DEF Loaded
    <2> QED BY <1>1, <1>2, <1>3, <2>1, LoadedStay DEF Progress
  <1>6. t = Stack => job.tables = {}
    BY <1>1, <1>2 DEF Progress
  <1>7. CASE j # Entries - 1
    <2>1. job' = [job EXCEPT !.page = @ + 1]
      BY <1>1, <1>7 DEF AllocateTableFrame, LastEntry
    <2>2. /\ job'.step = "frame" /\ job'.table = t /\ job'.program = x /\ job'.page = j + 1
          /\ job'.pcb = p /\ job'.tables = job.tables
      BY <1>1, <1>2, <1>3, <2>1 DEF JobRecord
    <2>3. RequestedWhole(p)'
      <3>1. Requested' = Requested
        BY <1>1, <1>2, <2>2 DEF Requested
      <3>2. \A u \in Requested \ job.tables : u = t \/ WholeTable(p, u)'
        BY <1>1, TableFrameMade
      <3> QED BY <2>2, <3>1, <3>2 DEF RequestedWhole
    <2>4. FrameRound(p)'
      <3>1. CurrentTable' = CurrentTable
        BY <1>2, <2>2 DEF CurrentTable
      <3> QED BY <1>1, <1>2, <2>2, <3>1, TableFrameMade DEF FrameRound
    <2> QED BY <1>5, <1>6, <2>2, <2>3, <2>4 DEF Progress
  <1>8. ASSUME j = Entries - 1
        PROVE  \A u \in Requested \ job.tables : WholeTable(p, u)'
    BY <1>1, <1>8, TableFrameMade DEF LastEntry
  <1>9. CASE j = Entries - 1 /\ t = Stack
    <2>1. job' = [job EXCEPT !.step = "image", !.segment = 1, !.page = Segments[x][1].first]
      BY <1>1, <1>9 DEF AllocateTableFrame, LastEntry
    <2>2. /\ job'.step = "image" /\ job'.table = Stack /\ job'.program = x /\ job'.segment = 1
          /\ job'.pcb = p /\ job'.tables = job.tables /\ job'.pages = <<>>
          /\ job'.page = Segments[x][1].first
      BY <1>1, <1>3, <1>9, <2>1 DEF JobRecord
    <2>3. Requested' = {Stack} /\ Requested = {Stack}
      BY <1>1, <1>2, <1>6, <1>9, <2>2 DEF Requested
    <2>4. RequestedWhole(p)'
      BY <1>8, <1>9, <2>2, <2>3 DEF RequestedWhole
    <2>5. \A n \in ImagePages : PageOf(p, n)' = NotMapped
      <3> SUFFICES ASSUME NEW n \in ImagePages PROVE PageOf(p, n) = NotMapped
        BY <1>4
      <3>1. n \div Entries \in Table /\ n \div Entries # Stack
        BY Places, Constants
      <3>2. space[p].directory[n \div Entries] = NotMapped
        BY <1>3, <2>3, <3>1
      <3> QED BY <3>2 DEF PageOf, Translate
    <2>6. ImageRound(p)'
      <3>1. DOMAIN job'.pages = {} /\ 1..(job'.segment - 1) = {} /\ job'.tables = {}
        BY <1>6, <1>9, <2>2, NoPages
      <3>2. LatestTable(p, job.page)'
        BY <3>1 DEF LatestTable
      <3>3. PagesFrom(p, CurrentSegment.first)'
        BY <3>1 DEF PagesFrom
      <3>4. KeptFrom(p, job.page)'
        BY <2>5 DEF KeptFrom
      <3>5. LoadedSegments(p, job.program, 1..(job.segment - 1))'
        BY <3>1 DEF LoadedSegments
      <3> QED BY <3>2, <3>3, <3>4, <3>5 DEF ImageRound
    <2> QED BY <2>2, <2>4, <2>6 DEF Progress
  <1>10. CASE j = Entries - 1 /\ t # Stack
    <2>1. t \in HeapFirst..HeapLast
      BY <1>3, <1>10
    <2>2. /\ job'.step \in {"table", "heap_init"} /\ job'.table # Stack /\ job'.program = x
          /\ job'.tables = job.tables /\ Requested' = Requested
      <3>1. CASE t < HeapLast
        <4>1. job' = [job EXCEPT !.step = "table", !.table = @ + 1]
          BY <1>1, <1>10, <3>1 DEF AllocateTableFrame, LastEntry
        <4>2. t + 1 \in HeapFirst..HeapLast /\ t + 1 # Stack /\ t + 1 - 1 = t
          BY <2>1, <3>1, Constants
        <4>3. /\ job'.step = "table" /\ job'.table = t + 1 /\ job'.program = x
              /\ job'.tables = job.tables
          BY <1>1, <1>3, <4>1 DEF JobRecord
        <4>4. Requested = job.tables \union {Stack} \union (HeapFirst..t)
          BY <1>1, <1>2, <1>10 DEF Requested
        <4>5. Requested' = job.tables \union {Stack} \union (HeapFirst..t)
          <5>1. job'.table - 1 = t /\ job'.table # Stack /\ job'.step = "table"
            <6>1. t \in Nat
              BY <2>1, Constants
            <6> QED BY <4>2, <4>3, <6>1
          <5> QED BY <4>3, <5>1 DEF Requested
        <4> QED BY <4>2, <4>3, <4>4, <4>5
      <3>2. CASE t = HeapLast
        <4>1. job' = [job EXCEPT !.step = "heap_init"]
          BY <1>1, <1>10, <3>2, Constants DEF AllocateTableFrame, LastEntry
        <4>2. /\ job'.step = "heap_init" /\ job'.table = t /\ job'.program = x
              /\ job'.tables = job.tables
          BY <1>1, <1>3, <4>1 DEF JobRecord
        <4>3. Requested = job.tables \union {Stack} \union (HeapFirst..t)
          BY <1>1, <1>2, <1>10 DEF Requested
        <4>4. Requested' = job.tables \union {Stack} \union (HeapFirst..t)
          BY <1>10, <4>2 DEF Requested
        <4> QED BY <1>10, <4>2, <4>3, <4>4
      <3> QED BY <2>1, <3>1, <3>2, Constants
    <2>3. RequestedWhole(p)'
      BY <1>8, <1>10, <2>2 DEF RequestedWhole
    <2>4. LoadedSegments(p, job.program, DOMAIN Segments[job.program])'
      BY <1>5, <1>10, <2>2
    <2> QED BY <2>2, <2>3, <2>4 DEF Progress
  <1> QED BY <1>7, <1>9, <1>10

\* What the kernel maps it maps still, when it maps one page more.
LEMMA MoreMapped ==
  ASSUME Typed, NEW s \in Slot, kernel[s] = NotMapped, NEW f, kernel' = [kernel EXCEPT ![s] = f]
  PROVE  /\ Range(kernel) \ {NotMapped} \subseteq Range(kernel')
         /\ f \in Range(kernel')
         /\ \A r \in Slot : kernel[r] # NotMapped => kernel'[r] = kernel[r]
  <1>1. DOMAIN kernel = Slot /\ DOMAIN kernel' = Slot
    BY DEF Typed
  <1>2. \A r \in Slot : kernel[r] # NotMapped => kernel'[r] = kernel[r]
    BY <1>1
  <1> QED BY <1>1, <1>2 DEF Range

\* The kernel's pages of an image are mapped.
LEMMA ImageSlots ==
  ASSUME Inv
  PROVE  /\ \A i \in DOMAIN job.pages : job.pages[i] \in Slot /\ kernel[job.pages[i]] \in Bit
         /\ job.pages \in Seq(Slot)
  <1>1. job.pages \in Seq(Slot) /\ frames \subseteq Bit
    BY DEF Inv, Typed, JobRecord
  <1>2. \A i \in DOMAIN job.pages : kernel[job.pages[i]] \in frames
    BY DEF Inv, JobOK, ImageSlot
  <1> QED BY <1>1, <1>2

\* The pages that the kernel has mapped so far are pages of the image.
LEMMA PageIndex ==
  ASSUME Inv, job.step \in {"image", "copy"}, NEW i \in DOMAIN job.pages,
         NEW b, job.step = "image" => b = CurrentSegment.first,
         job.step = "copy" => b = CurrentSegment.first + job.page
  PROVE  /\ b \in Nat /\ i \in Nat \ {0} /\ b + i - 1 \in ImagePages
         /\ b + i - 1 <= CurrentSegment.first + CurrentSegment.full
         /\ job.step = "image" => b + i - 1 < job.page
  <1>1. PICK c, n, l, h :
          c = CurrentSegment /\ n = job.page /\ l = Len(job.pages) /\ h = HeapFirst * Entries
    OBVIOUS
  <1>2. c.first \in Nat /\ c.full \in Nat /\ c.first + c.full < h /\ h \in Nat
    BY <1>1, SegmentType, Constants
  <1>3. l \in Nat /\ i \in 1..l /\ n \in Nat
    <2>1. n \in Nat
      BY <1>1 DEF Inv, Typed, JobRecord
    <2>2. job.pages \in Seq(Slot)
      BY ImageSlots
    <2> QED BY <1>1, <2>1, <2>2
  <1>4. /\ job.step = "image" => c.first + l = n /\ n <= c.first + c.full
        /\ job.step = "copy" => l + n = c.full + 1
    BY <1>1, <1>2 DEF Inv, JobOK
  <1>5. PICK k : k = b + i - 1
    OBVIOUS
  <1>6. k \in Nat /\ b \in Nat /\ k <= c.first + c.full /\ (job.step = "image" => k < n)
    <2>1. CASE job.step = "image"
      <3>1. b = c.first /\ c.first + l = n /\ n <= c.first + c.full
        BY <1>1, <1>4, <2>1
      <3> QED BY <1>2, <1>3, <1>5, <3>1
    <2>2. CASE job.step = "copy"
      <3>1. b = c.first + n /\ l + n = c.full + 1
        BY <1>1, <1>4, <2>2
      <3> QED BY <1>2, <1>3, <1>5, <2>2, <3>1
    <2> QED BY <2>1, <2>2
  <1>7. k \in 0..(h - 1)
    BY <1>2, <1>6
  <1>8. k \in ImagePages
    BY <1>1, <1>7 DEF ImagePages
  <1>9. i \in Nat \ {0}
    BY <1>3
  <1> QED BY <1>1, <1>5, <1>6, <1>8, <1>9

LEMMA AllocateImageTableProgress ==
  ASSUME Inv, NEW p, p = job.pcb, Progress(p), AllocateImageTable
  PROVE  Progress(p)'
  <1>1. PICK t, x, n, m :
          t = n \div Entries /\ x = job.program /\ n = job.page /\ m = job.segment
    OBVIOUS
  <1>2. /\ job.step = "image" /\ t \notin job.tables /\ NewTable(t) /\ data' = data
        /\ job' = [job EXCEPT !.tables = @ \union {t}]
    BY <1>1 DEF AllocateImageTable
  <1>3. /\ p \in Spaces /\ x \in Program /\ job \in JobRecord
        /\ job.table = Stack /\ m \in DOMAIN Segments[x]
        /\ \A u \in Table : space[p].directory[u] # NotMapped => u \in Requested
    BY <1>1, <1>2, JobOwner DEF Inv, JobOK
  <1>4. t \in 0..(HeapFirst - 1) /\ t \in Table /\ t # Stack /\ n \in Nat
    <2>1. t \in 0..(HeapFirst - 1) /\ n \in Nat
      BY <1>1, <1>2, ImagePageType
    <2> QED BY <2>1, Constants
  <1>5. /\ job'.step = "image" /\ job'.page = n /\ job'.pcb = p /\ job'.table = Stack
        /\ job'.program = x /\ job'.tables = job.tables \union {t} /\ job'.segment = m
        /\ job'.pages = job.pages /\ job.tables \subseteq 0..(HeapFirst - 1)
    BY <1>1, <1>2, <1>3 DEF JobRecord
  <1>6. space[p].directory[t] = NotMapped
    <2>1. t \notin Requested
      BY <1>2, <1>3, <1>4, Constants DEF Requested
    <2> QED BY <1>3, <1>4, <2>1
  <1>7. PICK s, f : TableMade(p, t, s, f) /\ allocate_page(s, f)
    BY <1>2, <1>3, <1>4, NewTableMakes
  <1>8. SamePages(p) /\ \A i \in ImagePages : PageOf(p, i)' = PageOf(p, i)
    BY <1>3, <1>4, <1>6, <1>7, TableTranslates, SamePagesOf DEF SamePages
  <1>9. /\ s \in Slot /\ kernel[s] = NotMapped /\ kernel' = [kernel EXCEPT ![s] = f]
        /\ Typed /\ space[p].directory \in [Table -> Frame]
        /\ space'[p].directory = [space[p].directory EXCEPT ![t] = f]
    BY <1>3, <1>7 DEF TableMade, Inv, Typed, SpaceRecord, Spaces
  <1>10. RequestedWhole(p)'
    <2>1. Requested = job.tables \union {Stack} /\ Requested' = job.tables \union {t} \union {Stack}
      BY <1>2, <1>3, <1>5 DEF Requested
    <2>2. WholeTable(p, Stack)
      <3>1. Stack \notin job.tables
        BY <1>5, Constants
      <3> QED BY <1>2, <2>1, <3>1 DEF Progress, RequestedWhole
    <2>3. WholeTable(p, Stack)'
      BY <1>8, <2>2, SamePagesOf, Constants
    <2> QED BY <1>5, <2>1, <2>3 DEF RequestedWhole
  <1>11. LatestTable(p, n)'
    <2>1. \A u \in job.tables : u <= t /\ u \in Nat
      BY <1>1, <1>2, <1>5, Constants DEF Progress, ImageRound, LatestTable
    <2>2. CurrentTable' = f /\ space'[p].directory[t] = f
      BY <1>3, <1>4, <1>5, <1>7, LatestMade
    <2>3. ASSUME NEW u \in job'.tables, \A v \in job'.tables : v <= u
          PROVE  u = t
      BY <1>4, <1>5, <2>1, <2>3
    <2> QED BY <1>1, <1>4, <1>5, <2>1, <2>2, <2>3 DEF LatestTable
  <1>12. KeptFrom(p, n)'
    <2>1. KeptFrom(p, n)
      BY <1>1, <1>2 DEF Progress, ImageRound
    <2>2. Range(kernel) \ {NotMapped} \subseteq Range(kernel')
      BY <1>9, MoreMapped
    <2> QED BY <1>8, <2>1, <2>2 DEF KeptFrom
  <1>13. CurrentSegment' = CurrentSegment
    BY <1>1, <1>5 DEF CurrentSegment
  <1>14. PagesFrom(p, CurrentSegment.first)'
    <2>1. PICK b : b = CurrentSegment.first
      OBVIOUS
    <2>2. \A i \in DOMAIN job.pages : PageOf(p, b + i - 1) = kernel[job.pages[i]]
      BY <1>2, <2>1 DEF Progress, ImageRound, PagesFrom
    <2>3. \A i \in DOMAIN job.pages : kernel'[job.pages[i]] = kernel[job.pages[i]]
      BY <1>9, ImageSlots, MoreMapped, Constants
    <2>4. ASSUME NEW i \in DOMAIN job.pages PROVE PageOf(p, b + i - 1)' = PageOf(p, b + i - 1)
      <3>1. b + i - 1 \in ImagePages
        BY <1>2, <2>1, <2>4, PageIndex
      <3> QED BY <1>8, <3>1
    <2> QED BY <1>5, <1>13, <2>1, <2>2, <2>3, <2>4 DEF PagesFrom
  <1>15. LoadedSegments(p, x, 1..(m - 1))'
    <2>1. \A i \in ImagePages : Loaded(p, x, i) => Loaded(p, x, i)'
      BY <1>2, <1>8 DEF Loaded
    <2>2. LoadedSegments(p, x, 1..(m - 1)) /\ 1..(m - 1) \subseteq DOMAIN Segments[x]
      <3>1. Segments[x] \in Seq(Segment)
        BY <1>3, ImageBelowHeap
      <3> QED BY <1>1, <1>2, <1>3, <3>1 DEF Progress, ImageRound
    <2> QED BY <1>3, <2>1, <2>2, LoadedStay
  <1>16. ImageRound(p)'
    BY <1>5, <1>11, <1>12, <1>14, <1>15 DEF ImageRound
  <1> QED BY <1>5, <1>10, <1>16 DEF Progress

\* What is loaded of the segments before segment m stays, while the pages
\* below that segment do.
LEMMA LoadedBefore ==
  ASSUME NEW p, NEW x \in Program, NEW m \in DOMAIN Segments[x],
         LoadedSegments(p, x, 1..(m - 1)),
         \A n \in ImagePages : n < Segments[x][m].first /\ Loaded(p, x, n) => Loaded(p, x, n)'
  PROVE  LoadedSegments(p, x, 1..(m - 1))'
  <1> SUFFICES ASSUME NEW k \in 1..(m - 1), NEW n \in FilledPages(Segments[x][k])
               PROVE  Loaded(p, x, n)'
    BY DEF LoadedSegments
  <1>1. k \in DOMAIN Segments[x] /\ k < m
    <2>1. Segments[x] \in Seq(Segment)
      BY ImageBelowHeap
    <2> QED BY <2>1
  <1>2. n \in ImagePages /\ n < Segments[x][m].first
    BY <1>1, SegmentsBefore
  <1>3. Loaded(p, x, n)
    BY DEF LoadedSegments
  <1> QED BY <1>2, <1>3

LEMMA AllocateImagePageProgress ==
  ASSUME Inv, NEW p, p = job.pcb, Progress(p), AllocateImagePage
  PROVE  Progress(p)'
  <1>1. PICK c, t, x, n, m, g, l, j :
          /\ t = n \div Entries /\ j = n % Entries /\ x = job.program /\ n = job.page
          /\ m = job.segment /\ g = CurrentSegment /\ l = Len(job.pages) /\ c = CurrentTable
    OBVIOUS
  <1>2. PICK s \in Slot, f \in Bit :
          /\ allocate_page(s, f) /\ entry' = [entry EXCEPT ![c][j] = f]
          /\ job' = [job EXCEPT !.pages = Append(@, s),
                       !.page = IF @ = g.first + g.full THEN 0 ELSE @ + 1,
                       !.step = IF n = g.first + g.full THEN "copy" ELSE "image"]
    BY <1>1 DEF AllocateImagePage
  <1>3. job.step = "image" /\ t \in job.tables /\ data' = data /\ space' = space
    BY <1>1 DEF AllocateImagePage
  <1>4. /\ p \in Spaces /\ x \in Program /\ job \in JobRecord
        /\ job.table = Stack /\ m \in DOMAIN Segments[x]
        /\ g.first + l = n /\ n \in g.first..(g.first + g.full) /\ g = Segments[x][m]
    BY <1>1, <1>3, JobOwner DEF Inv, JobOK, CurrentSegment
  <1>5. /\ t \in 0..(HeapFirst - 1) /\ t \in Table /\ t # Stack /\ n \in Nat
        /\ n \in ImagePages /\ j \in Entry
    <2>1. n \in Nat /\ n < HeapFirst * Entries
      BY <1>1, <1>3, ImagePageType
    <2>2. n \in ImagePages
      BY <2>1, Constants DEF ImagePages
    <2> QED BY <1>1, <2>1, <2>2, Places, Constants
  <1>6. /\ g.first \in Nat /\ g.full \in Nat /\ PagesNeeded(g) \in {g.full, g.full + 1}
        /\ l \in Nat /\ DOMAIN job.pages = 1..l /\ job.pages \in Seq(Slot)
    BY <1>1, <1>3, SegmentType, ImageSlots
  <1>7. /\ job'.pcb = p /\ job'.table = Stack /\ job'.program = x /\ job'.tables = job.tables
        /\ job'.segment = m /\ job'.pages = Append(job.pages, s)
        /\ job.tables \subseteq 0..(HeapFirst - 1)
        /\ job'.page = IF n = g.first + g.full THEN 0 ELSE n + 1
        /\ job'.step = IF n = g.first + g.full THEN "copy" ELSE "image"
    BY <1>1, <1>2, <1>4 DEF JobRecord
  <1>8. c \in TableFrames(p) /\ c \in Bit /\ space[p].directory[t] = c
    <2>1. /\ \A u \in job.tables : u <= t
          /\ (\A u \in job.tables : u <= t) => space[p].directory[t] = c
      BY <1>1, <1>3 DEF Progress, ImageRound, LatestTable
    <2> QED BY <1>1, <1>3, <2>1, CurrentTableIsOne
  <1>9. /\ Translate(p, t, j)' = f
        /\ \A u \in Table, i \in Entry :
             ~(u = t /\ i = j) => Translate(p, u, i)' = Translate(p, u, i)
    <2>1. Translate(p, t, j)' = f /\ OnlyPage(p, t, j)
      BY <1>2, <1>3, <1>4, <1>5, <1>8, PageTranslates
    <2> QED BY <2>1 DEF OnlyPage
  <1>10. PageOf(p, n)' = f /\ \A i \in ImagePages : i # n => PageOf(p, i)' = PageOf(p, i)
    <2>1. PageOf(p, n)' = f
      BY <1>1, <1>9 DEF PageOf
    <2>2. ASSUME NEW i \in ImagePages, i # n PROVE PageOf(p, i)' = PageOf(p, i)
      <3>1. PICK u, k : u = i \div Entries /\ k = i % Entries
        OBVIOUS
      <3>2. u \in Table /\ k \in Entry /\ ~(u = t /\ k = j)
        BY <1>1, <1>5, <2>2, <3>1, Places
      <3>3. Translate(p, u, k)' = Translate(p, u, k)
        BY <1>9, <3>2
      <3> QED BY <3>1, <3>3 DEF PageOf
    <2> QED BY <2>1, <2>2
  <1>11. /\ Typed /\ kernel[s] = NotMapped /\ kernel' = [kernel EXCEPT ![s] = f]
    BY <1>2, AllocatedPage DEF Inv
  <1>12. /\ Range(kernel) \ {NotMapped} \subseteq Range(kernel') /\ f \in Range(kernel')
         /\ \A r \in Slot : kernel[r] # NotMapped => kernel'[r] = kernel[r]
    BY <1>11, MoreMapped
  <1>13. kernel'[s] = f
    BY <1>11 DEF Typed
  <1>14. RequestedWhole(p)'
    <2>1. Requested = job.tables \union {Stack} /\ Requested' = job.tables \union {Stack}
      BY <1>3, <1>4, <1>7 DEF Requested
    <2>2. WholeTable(p, Stack)
      <3>1. Stack \notin job.tables
        BY <1>7, Constants
      <3> QED BY <1>3, <2>1, <3>1 DEF Progress, RequestedWhole
    <2>3. WholeTable(p, Stack)'
      <3>1. \A i \in Entry : Translate(p, Stack, i)' = Translate(p, Stack, i)
        BY <1>5, <1>9, Constants
      <3> QED BY <2>2, <3>1 DEF WholeTable
    <2> QED BY <1>7, <2>1, <2>3 DEF RequestedWhole
  <1>15. CurrentTable' = c
    <2>1. PICK r : r = Last(space[p].page_tables)
      OBVIOUS
    <2>2. r \in Slot
      <3>1. space[p].page_tables \in Seq(Slot) /\ space[p].page_tables # <<>>
        BY <1>3, <1>4 DEF Inv, JobOK, Typed, SpaceRecord, Spaces
      <3> QED BY <2>1, <3>1, LastOf
    <2>3. c = kernel[r] /\ CurrentTable' = kernel'[r]
      BY <1>1, <1>3, <1>7, <2>1 DEF CurrentTable
    <2> QED BY <1>8, <1>12, <2>2, <2>3, Constants
  <1>16. \A u \in job.tables : u <= t /\ ((\A v \in job.tables : v <= u) => u = t)
    <2>1. \A u \in job.tables : u <= t /\ u \in Nat
      BY <1>1, <1>3, <1>7, Constants DEF Progress, ImageRound, LatestTable
    <2> QED BY <1>3, <1>5, <2>1
  <1>17. ASSUME NEW k \in Nat, n <= k PROVE KeptFrom(p, k)'
    <2>1. \A i \in ImagePages : i >= n => PageOf(p, i) \in Range(kernel) \union {NotMapped}
      BY <1>1, <1>3 DEF Progress, ImageRound, KeptFrom
    <2>2. \A i \in ImagePages : i >= n => PageOf(p, i)' \in Range(kernel') \union {NotMapped}
      BY <1>10, <1>12, <2>1
    <2>3. \A i \in ImagePages : i >= k => i >= n
      BY <1>5, <1>17, Places
    <2> QED BY <2>2, <2>3 DEF KeptFrom
  <1>18. CurrentSegment' = g
    BY <1>1, <1>7 DEF CurrentSegment
  <1>19. \A i \in DOMAIN job'.pages : PageOf(p, g.first + i - 1)' = kernel'[job'.pages[i]]
    <2> SUFFICES ASSUME NEW i \in 1..(l + 1)
                 PROVE  PageOf(p, g.first + i - 1)' = kernel'[Append(job.pages, s)[i]]
      BY <1>1, <1>6, <1>7, AppendProperties
    <2>1. CASE i = l + 1
      <3>1. g.first + i - 1 = n /\ Append(job.pages, s)[i] = s
        BY <1>1, <1>4, <1>6, <2>1, AppendProperties
      <3> QED BY <1>10, <1>13, <3>1
    <2>2. CASE i # l + 1
      <3>1. i \in DOMAIN job.pages /\ Append(job.pages, s)[i] = job.pages[i]
        BY <1>1, <1>6, <2>2, AppendProperties
      <3>2. g.first + i - 1 \in ImagePages /\ g.first + i - 1 < n
        BY <1>1, <1>3, <3>1, PageIndex
      <3>3. PageOf(p, g.first + i - 1)' = PageOf(p, g.first + i - 1)
        <4>1. PICK k : k = g.first + i - 1
          OBVIOUS
        <4>2. k \in ImagePages /\ k # n
          BY <1>5, <3>2, <4>1, Places
        <4>3. PageOf(p, k)' = PageOf(p, k)
          BY <1>10, <4>2
        <4> QED BY <4>1, <4>3
      <3>4. PageOf(p, g.first + i - 1) = kernel[job.pages[i]]
        BY <1>1, <1>3, <3>1 DEF Progress, ImageRound, PagesFrom
      <3>5. kernel'[job.pages[i]] = kernel[job.pages[i]]
        BY <1>12, <3>1, ImageSlots, Constants
      <3> QED BY <3>1, <3>3, <3>4, <3>5
    <2> QED BY <2>1, <2>2
  <1>20. LoadedSegments(p, x, 1..(m - 1))'
    <2>1. LoadedSegments(p, x, 1..(m - 1))
      BY <1>1, <1>3 DEF Progress, ImageRound
    <2>2. ASSUME NEW i \in ImagePages, i < g.first, Loaded(p, x, i) PROVE Loaded(p, x, i)'
      <3>1. i # n
        BY <1>4, <1>6, <2>2, Places
      <3>2. PageOf(p, i)' = PageOf(p, i)
        BY <1>10, <3>1
      <3> QED BY <1>3, <2>2, <3>2 DEF Loaded
    <2> QED BY <1>4, <2>1, <2>2, LoadedBefore
  <1>21. CASE n # g.first + g.full
    <2>1. job'.step = "image" /\ job'.page = n + 1
      BY <1>7, <1>21
    <2>2. LatestTable(p, n + 1)'
      <3>1. t <= (n + 1) \div Entries /\ (n + 1) \div Entries \in Int
        <4>1. n + 1 \in Nat /\ n <= n + 1
          BY <1>5
        <4>2. n \div Entries <= (n + 1) \div Entries
          BY <1>5, <4>1, InOrder
        <4>3. (n + 1) \div Entries \in Int
          BY <4>1, Constants
        <4> QED BY <1>1, <4>2, <4>3
      <3>2. \A u \in job.tables : u <= (n + 1) \div Entries
        BY <1>5, <1>7, <1>16, <3>1, Constants
      <3> QED BY <1>3, <1>7, <1>8, <1>15, <1>16, <3>2 DEF LatestTable
    <2>3. KeptFrom(p, n + 1)'
      BY <1>5, <1>17
    <2>4. PagesFrom(p, g.first)'
      BY <1>19 DEF PagesFrom
    <2>5. ImageRound(p)'
      BY <1>7, <1>18, <1>20, <2>1, <2>2, <2>3, <2>4 DEF ImageRound
    <2> QED BY <1>7, <1>14, <2>1, <2>5 DEF Progress
  <1>22. CASE n = g.first + g.full
    <2>1. job'.step = "copy" /\ job'.page = 0
      BY <1>7, <1>22
    <2>2. LatestTable(p, n)'
      BY <1>1, <1>3, <1>7, <1>8, <1>15, <1>16 DEF LatestTable
    <2>3. KeptFrom(p, g.first + PagesNeeded(g))'
      BY <1>6, <1>17, <1>22
    <2>4. PagesFrom(p, g.first + 0)'
      <3>1. g.first + 0 = g.first
        BY <1>6
      <3> QED BY <1>19, <3>1 DEF PagesFrom
    <2>5. 0..(job'.page - 1) = {}
      BY <2>1
    <2>6. CopyRound(p)'
      BY <1>7, <1>18, <1>20, <1>22, <2>1, <2>2, <2>3, <2>4, <2>5 DEF CopyRound
    <2> QED BY <1>7, <1>14, <2>1, <2>6 DEF Progress
  <1> QED BY <1>21, <1>22

\* One page is copied: the frame is the process' page, the kernel forgets its
\* own, and what was loaded before is not written to.
LEMMA PageCopied ==
  ASSUME Inv, NEW p, p = job.pcb, Progress(p), CopyImagePage,
         NEW x, x = job.program, NEW g, g = CurrentSegment, NEW n, n = job.page
  PROVE  /\ p \in Spaces /\ x \in Program /\ g \in Segment /\ n \in Nat /\ n < PagesNeeded(g)
         /\ \A i \in ImagePages : PageOf(p, i)' = PageOf(p, i)
         /\ WholeTable(p, Stack)'
         /\ kernel'[Last(space[p].page_tables)] = CurrentTable
         /\ \A i \in ImagePages : i >= g.first + PagesNeeded(g) =>
              PageOf(p, i)' \in Range(kernel') \union {NotMapped}
         /\ \A i \in ImagePages : i # g.first + n /\ Loaded(p, x, i) => Loaded(p, x, i)'
         /\ \A k \in 0..(n - 1) : Loaded(p, x, g.first + k)'
         /\ n + 1 < PagesNeeded(g) \/ g.rest => Loaded(p, x, g.first + n)'
         /\ \A i \in DOMAIN job.pages : i # 1 => kernel'[job.pages[i]] = kernel[job.pages[i]]
         /\ Len(job.pages) > 0
  <1>1. PICK s, e, N : s = Head(job.pages) /\ e = PageOf(p, g.first + n) /\ N = PagesNeeded(g)
    OBVIOUS
  <1>2. /\ job.step = "copy" /\ entry' = entry /\ space' = space
        /\ kernel' = [kernel EXCEPT ![s] = NotMapped]
        /\ data' = IF n + 1 < N \/ g.rest
                   THEN [data EXCEPT ![kernel[s]] = <<"image", x, g.first + n>>] ELSE data
    BY <1>1 DEF CopyImagePage, LeaveFrame
  <1>3. /\ p \in Spaces /\ x \in Program /\ job \in JobRecord /\ job.table = Stack
        /\ job.segment \in DOMAIN Segments[x] /\ n < N /\ n \in Nat
        /\ Len(job.pages) + n = g.full + 1 /\ job.tables \subseteq 0..(HeapFirst - 1)
    BY <1>1, <1>2, JobOwner DEF Inv, JobOK, JobRecord
  <1>4. /\ g \in Segment /\ g.first \in Nat /\ g.full \in Nat /\ N \in {g.full, g.full + 1}
        /\ g.first + g.full < HeapFirst * Entries /\ HeapFirst * Entries \in Nat
    BY <1>1, <1>2, SegmentType, Constants
  <1>5. PICK l : l = Len(job.pages)
    OBVIOUS
  <1>6. l \in Nat /\ l > 0 /\ job.pages \in Seq(Slot) /\ DOMAIN job.pages = 1..l
    <2>1. job.pages \in Seq(Slot)
      BY ImageSlots
    <2> QED BY <1>3, <1>4, <1>5, <2>1
  <1>7. s = job.pages[1] /\ 1 \in DOMAIN job.pages
    BY <1>1, <1>6
  <1>8. /\ s \in Slot /\ kernel[s] \in Bit /\ kernel[s] \notin ControlFrames(p)
        /\ \A i \in DOMAIN job.pages : i # 1 => job.pages[i] \in Slot /\ job.pages[i] # s
    <2>1. ImageSlot(s) /\ p \in Owners
      BY <1>3, <1>7 DEF Inv, JobOK
    <2>2. \A i \in DOMAIN job.pages : i # 1 => job.pages[i] # s
      BY <1>7 DEF Inv, JobOK
    <2> QED BY <1>7, <2>1, <2>2, ImageSlots DEF ImageSlot
  <1>9. DOMAIN kernel = Slot /\ DOMAIN data = Bit
    BY DEF Inv, Typed
  <1>10. CopyRound(p)
    BY <1>2 DEF Progress
  <1>11. e = kernel[s] /\ g.first + n \in ImagePages
    <2>1. g.first + n + 1 - 1 = g.first + n
      BY <1>3, <1>4
    <2>2. e = kernel[s]
      BY <1>1, <1>7, <1>10, <2>1 DEF CopyRound, PagesFrom
    <2>3. g.first + n < HeapFirst * Entries
      BY <1>3, <1>4
    <2> QED BY <1>3, <1>4, <2>2, <2>3 DEF ImagePages
  <1>12. \A u \in Table, i \in Entry : Translate(p, u, i)' = Translate(p, u, i)
    BY <1>2 DEF Translate
  <1>13. \A i \in ImagePages : PageOf(p, i)' = PageOf(p, i)
    BY <1>2 DEF PageOf, Translate
  <1>14. \A i \in ImagePages : i # g.first + n => PageOf(p, i) # e
    <2> SUFFICES ASSUME NEW i \in ImagePages, PageOf(p, i) = e PROVE i = g.first + n
      OBVIOUS
    <2>1. e # NotMapped
      BY <1>8, <1>11, Constants
    <2> QED BY <1>1, <1>3, <1>11, <2>1, PageOnce
  <1>15. WholeTable(p, Stack)'
    <2>1. Stack \in Requested /\ Stack \notin job.tables
      BY <1>2, <1>3, Constants DEF Requested
    <2>2. WholeTable(p, Stack)
      BY <1>2, <2>1 DEF Progress, RequestedWhole
    <2> QED BY <1>12, <2>2, Constants DEF WholeTable
  <1>16. kernel'[Last(space[p].page_tables)] = CurrentTable
    <2>1. PICK r : r = Last(space[p].page_tables)
      OBVIOUS
    <2>2. r \in Slot
      <3>1. space[p].page_tables \in Seq(Slot) /\ space[p].page_tables # <<>>
        BY <1>2, <1>3 DEF Inv, JobOK, Typed, SpaceRecord, Spaces
      <3> QED BY <2>1, <3>1, LastOf
    <2>3. CurrentTable = kernel[r] /\ CurrentTable \in ControlFrames(p)
      BY <1>2, <2>1, CurrentTableIsOne DEF CurrentTable, ControlFrames
    <2>4. r # s
      BY <1>8, <2>3
    <2> QED BY <1>2, <1>9, <2>1, <2>2, <2>3, <2>4
  <1>17. ASSUME NEW i \in ImagePages, i >= g.first + N
         PROVE  PageOf(p, i)' \in Range(kernel') \union {NotMapped}
    <2>1. PageOf(p, i) \in Range(kernel) \union {NotMapped}
      BY <1>1, <1>10, <1>17 DEF CopyRound, KeptFrom
    <2>2. PageOf(p, i) # e
      <3>1. i # g.first + n
        BY <1>3, <1>4, <1>17, Places
      <3> QED BY <1>14, <3>1
    <2>3. CASE PageOf(p, i) # NotMapped
      <3>1. PICK r \in Slot : kernel[r] = PageOf(p, i)
        BY <1>9, <2>1, <2>3 DEF Range
      <3>2. kernel'[r] = PageOf(p, i) /\ DOMAIN kernel' = Slot
        BY <1>2, <1>9, <1>11, <2>2, <3>1
      <3> QED BY <1>13, <3>1, <3>2 DEF Range
    <2> QED BY <1>13, <2>3
  <1>18. ASSUME NEW i \in ImagePages, i # g.first + n, Loaded(p, x, i)
         PROVE  Loaded(p, x, i)'
    <2>1. PageOf(p, i) # e /\ PageOf(p, i) \in Bit /\ data[PageOf(p, i)] = <<"image", x, i>>
      BY <1>14, <1>18 DEF Loaded
    <2>2. data'[PageOf(p, i)] = data[PageOf(p, i)]
      BY <1>2, <1>9, <1>11, <2>1
    <2> QED BY <1>13, <2>1, <2>2 DEF Loaded
  <1>19. ASSUME NEW k \in 0..(n - 1) PROVE Loaded(p, x, g.first + k)'
    <2>1. PICK i : i = g.first + k
      OBVIOUS
    <2>2. i \in ImagePages /\ i # g.first + n
      <3>1. i \in Nat /\ i < g.first + n
        BY <1>3, <1>4, <2>1
      <3>2. PICK h : h = HeapFirst * Entries
        OBVIOUS
      <3>3. g.first + n \in 0..(h - 1) /\ h \in Nat
        BY <1>4, <1>11, <3>2 DEF ImagePages
      <3> QED BY <3>1, <3>2, <3>3 DEF ImagePages
    <2>3. Loaded(p, x, i)
      BY <1>10, <2>1 DEF CopyRound
    <2> QED BY <1>18, <2>1, <2>2, <2>3
  <1>20. ASSUME n + 1 < N \/ g.rest PROVE Loaded(p, x, g.first + n)'
    <2>1. PICK i : i = g.first + n
      OBVIOUS
    <2>2. data'[e] = <<"image", x, i>>
      BY <1>2, <1>8, <1>9, <1>11, <1>20, <2>1
    <2>3. PageOf(p, i)' = e /\ e \in Bit
      BY <1>1, <1>8, <1>11, <1>13, <2>1
    <2> QED BY <2>1, <2>2, <2>3 DEF Loaded
  <1>21. \A i \in DOMAIN job.pages : i # 1 => kernel'[job.pages[i]] = kernel[job.pages[i]]
    BY <1>2, <1>8, <1>9
  <1> QED BY <1>1, <1>3, <1>4, <1>5, <1>6, <1>13, <1>15, <1>16, <1>17, <1>18, <1>19, <1>20, <1>21

LEMMA CopyImagePageProgress ==
  ASSUME Inv, NEW p, p = job.pcb, Progress(p), CopyImagePage
  PROVE  Progress(p)'
  <1>1. PICK x, n, m, g, N, q :
          /\ x = job.program /\ n = job.page /\ m = job.segment /\ g = CurrentSegment
          /\ N = PagesNeeded(g) /\ q = job.pages
    OBVIOUS
  <1>2. job.step = "copy" /\ UNCHANGED <<entry, space, live, halted>>
    BY DEF CopyImagePage
  <1>3. /\ job.table = Stack /\ job \in JobRecord /\ job.tables \subseteq 0..(HeapFirst - 1)
        /\ m \in DOMAIN Segments[x] /\ g = Segments[x][m]
        /\ Segments[x] \in Seq(Segment) /\ m \in Nat /\ CopyRound(p)
    BY <1>1, <1>2, JobOwner, ImageBelowHeap DEF Inv, JobOK, JobRecord, CurrentSegment, Progress
  <1>4. /\ p \in Spaces /\ x \in Program /\ g \in Segment /\ n \in Nat /\ n < N
        /\ \A i \in ImagePages : PageOf(p, i)' = PageOf(p, i)
        /\ WholeTable(p, Stack)'
        /\ kernel'[Last(space[p].page_tables)] = CurrentTable
        /\ \A i \in ImagePages : i >= g.first + N => PageOf(p, i)' \in Range(kernel') \union {NotMapped}
        /\ \A i \in ImagePages : i # g.first + n /\ Loaded(p, x, i) => Loaded(p, x, i)'
    BY <1>1, PageCopied
  <1>5. /\ \A k \in 0..(n - 1) : Loaded(p, x, g.first + k)'
        /\ n + 1 < N \/ g.rest => Loaded(p, x, g.first + n)'
        /\ \A i \in DOMAIN q : i # 1 => kernel'[q[i]] = kernel[q[i]]
        /\ Len(q) > 0 /\ q \in Seq(Slot)
    BY <1>1, PageCopied, ImageSlots
  <1>6. /\ g.first \in Nat /\ g.full \in Nat /\ g.rest \in BOOLEAN
        /\ N \in Nat /\ N \in {g.full, g.full + 1}
    BY <1>1, <1>4, NeededPages
  <1>7. LoadedSegments(p, x, 1..(m - 1))'
    <2>1. \A i \in ImagePages : i < g.first /\ Loaded(p, x, i) => Loaded(p, x, i)'
      BY <1>4, <1>6, Places
    <2>2. LoadedSegments(p, x, 1..(m - 1))
      BY <1>1, <1>3 DEF CopyRound
    <2> QED BY <1>3, <1>4, <2>1, <2>2, LoadedBefore
  <1>8. /\ \A u \in job.tables : u <= (g.first + g.full) \div Entries
        /\ \A u \in job.tables :
             (\A v \in job.tables : v <= u) => space[p].directory[u] = CurrentTable
    BY <1>1, <1>3 DEF CopyRound, LatestTable
  <1>9. ASSUME job'.pcb = p PROVE CurrentTable' = CurrentTable
    BY <1>2, <1>4, <1>9 DEF CurrentTable
  <1>10. CASE n + 1 < N
    <2>1. job' = [job EXCEPT !.page = @ + 1, !.pages = Tail(@)]
      BY <1>1, <1>10 DEF CopyImagePage
    <2>2. /\ job'.step = "copy" /\ job'.pcb = p /\ job'.table = Stack /\ job'.program = x
          /\ job'.segment = m /\ job'.tables = job.tables /\ job'.page = n + 1
          /\ job'.pages = Tail(q)
      BY <1>1, <1>2, <1>3, <2>1 DEF JobRecord
    <2>3. CurrentSegment' = g
      BY <1>1, <2>2 DEF CurrentSegment
    <2>4. RequestedWhole(p)'
      <3>1. Requested' = job.tables \union {Stack}
        BY <2>2 DEF Requested
      <3> QED BY <1>4, <2>2, <3>1 DEF RequestedWhole
    <2>5. LatestTable(p, g.first + g.full)'
      BY <1>2, <1>8, <1>9, <2>2 DEF LatestTable
    <2>6. KeptFrom(p, g.first + N)'
      BY <1>4 DEF KeptFrom
    <2>7. PagesFrom(p, g.first + (n + 1))'
      <3>1. PICK l : l = Len(q)
        OBVIOUS
      <3>2. /\ l \in Nat /\ l > 0 /\ DOMAIN q = 1..l /\ DOMAIN Tail(q) = 1..(l - 1)
            /\ \A i \in 1..(l - 1) : Tail(q)[i] = q[i + 1]
        BY <1>5, <3>1, HeadTailProperties
      <3> SUFFICES ASSUME NEW i \in 1..(l - 1)
                   PROVE  PageOf(p, g.first + (n + 1) + i - 1)' = kernel'[q[i + 1]]
        BY <2>2, <3>2 DEF PagesFrom
      <3>3. PICK r, k : r = i + 1 /\ k = g.first + n + r - 1
        OBVIOUS
      <3>4. k = g.first + (n + 1) + i - 1 /\ r \in DOMAIN q /\ r # 1
        BY <1>4, <1>6, <3>2, <3>3
      <3>5. k \in ImagePages
        BY <1>1, <1>2, <3>3, <3>4, PageIndex
      <3>6. PageOf(p, k) = kernel[q[r]]
        BY <1>1, <1>3, <3>3, <3>4 DEF CopyRound, PagesFrom
      <3>7. PageOf(p, k)' = kernel'[q[r]]
        BY <1>4, <1>5, <3>4, <3>5, <3>6
      <3> QED BY <3>3, <3>4, <3>7
    <2>8. \A k \in 0..n : Loaded(p, x, g.first + k)'
      BY <1>4, <1>5, <1>10
    <2>9. \A k \in 0..(job'.page - 1) : Loaded(p, job.program, CurrentSegment.first + k)'
      <3>1. job'.page - 1 = n
        BY <1>4, <2>2
      <3> QED BY <2>2, <2>3, <2>8, <3>1
    <2>10. CopyRound(p)'
      <3>1. KeptFrom(p, CurrentSegment.first + PagesNeeded(CurrentSegment))'
        BY <1>1, <2>3, <2>6
      <3>2. PagesFrom(p, CurrentSegment.first + job.page)'
        BY <2>2, <2>3, <2>7
      <3> QED BY <1>7, <2>2, <2>3, <2>5, <2>9, <3>1, <3>2 DEF CopyRound
    <2> QED BY <2>2, <2>4, <2>10 DEF Progress
  <1>11. CASE n + 1 >= N
    <2>1. n + 1 = N
      BY <1>4, <1>6, <1>11
    <2>2. \A i \in FilledPages(g) : Loaded(p, x, i)'
      <3> SUFFICES ASSUME NEW i \in FilledPages(g) PROVE Loaded(p, x, i)'
        OBVIOUS
      <3>1. PICK k : k = i - g.first
        OBVIOUS
      <3>2. i = g.first + k /\ k \in Int
        <4>1. i \in Int
          BY <1>6 DEF FilledPages
        <4> QED BY <1>6, <3>1, <4>1
      <3>3. CASE g.rest
        <4>1. i \in g.first..(g.first + N - 1)
          BY <1>1, <1>4, <3>3, NeededPages
        <4>2. k \in 0..n
          BY <1>4, <1>6, <2>1, <3>1, <4>1
        <4>3. k = n \/ k \in 0..(n - 1)
          BY <1>4, <4>2
        <4> QED BY <1>5, <3>2, <3>3, <4>3
      <3>4. CASE ~g.rest
        <4>1. i \in g.first..(g.first + N - 2)
          BY <1>1, <1>4, <3>4, NeededPages
        <4>2. k \in 0..(n - 1)
          BY <1>4, <1>6, <2>1, <3>1, <4>1
        <4> QED BY <1>5, <3>2, <4>2
      <3> QED BY <1>6, <3>3, <3>4
    <2>3. LoadedSegments(p, x, 1..m)'
      <3> SUFFICES ASSUME NEW k \in 1..m, NEW i \in FilledPages(Segments[x][k])
                   PROVE  Loaded(p, x, i)'
        BY DEF LoadedSegments
      <3>1. k = m \/ k \in 1..(m - 1)
        BY <1>3
      <3> QED BY <1>3, <1>7, <2>2, <3>1 DEF LoadedSegments
    <2>4. CASE m < Len(Segments[x])
      <3>1. job' = [job EXCEPT !.step = "image", !.segment = m + 1, !.pages = <<>>,
                               !.page = Segments[x][m + 1].first]
        BY <1>1, <1>11, <1>4, <1>6, <2>4 DEF CopyImagePage
      <3>2. PICK b : b = Segments[x][m + 1].first
        OBVIOUS
      <3>3. /\ job'.step = "image" /\ job'.pcb = p /\ job'.table = Stack /\ job'.program = x
            /\ job'.segment = m + 1 /\ job'.tables = job.tables /\ job'.page = b
            /\ job'.pages = <<>> /\ DOMAIN job'.pages = {}
        BY <1>1, <1>2, <1>3, <3>1, <3>2, NoPages DEF JobRecord
      <3>4. m + 1 \in DOMAIN Segments[x] /\ m < m + 1 /\ m + 1 - 1 = m
        BY <1>3, <2>4
      <3>5. b \in Nat /\ g.first + N <= b /\ g.first + g.full <= b
        <4>1. g.first + N <= b
          BY <1>1, <1>3, <1>4, <3>2, <3>4, SegmentsBefore
        <4>2. b \in Nat
          BY <1>4, <3>2, <3>4, ImageBelowHeap
        <4> QED BY <1>6, <4>1, <4>2
      <3>6. RequestedWhole(p)'
        <4>1. Requested' = job.tables \union {Stack}
          BY <3>3 DEF Requested
        <4> QED BY <1>4, <3>3, <4>1 DEF RequestedWhole
      <3>7. LatestTable(p, b)'
        <4>1. g.first + g.full \in Nat
          BY <1>6
        <4>2. (g.first + g.full) \div Entries <= b \div Entries
          BY <3>5, <4>1, InOrder
        <4>3. (g.first + g.full) \div Entries \in Int /\ b \div Entries \in Int
          BY <3>5, <4>1, Constants
        <4>4. \A u \in job.tables : u <= b \div Entries
          BY <1>3, <1>8, <4>2, <4>3, Constants
        <4> QED BY <1>2, <1>8, <1>9, <3>3, <4>4 DEF LatestTable
      <3>8. KeptFrom(p, b)'
        <4>1. \A i \in ImagePages : i >= b => i >= g.first + N
          BY <1>6, <3>5, Places
        <4> QED BY <1>4, <4>1 DEF KeptFrom
      <3>9. PagesFrom(p, CurrentSegment.first)'
        BY <3>3 DEF PagesFrom
      <3>10. LoadedSegments(p, job.program, 1..(job.segment - 1))'
        <4>1. job'.segment - 1 = m
          <5>1. PICK z : z = job'.segment
            OBVIOUS
          <5>2. z = m + 1
            BY <3>3, <5>1
          <5> QED BY <1>3, <5>1, <5>2
        <4> QED BY <2>3, <3>3, <4>1
      <3>11. ImageRound(p)'
        BY <3>3, <3>7, <3>8, <3>9, <3>10 DEF ImageRound
      <3> QED BY <3>3, <3>6, <3>11 DEF Progress
    <2>5. CASE ~(m < Len(Segments[x]))
      <3>1. job' = [job EXCEPT !.step = "table", !.table = HeapFirst, !.pages = <<>>]
        BY <1>1, <1>11, <1>4, <1>6, <2>5 DEF CopyImagePage
      <3>2. /\ job'.step = "table" /\ job'.pcb = p /\ job'.table = HeapFirst
            /\ job'.program = x /\ job'.tables = job.tables
        BY <1>1, <1>2, <1>3, <3>1 DEF JobRecord
      <3>3. HeapFirst # Stack /\ HeapFirst..(HeapFirst - 1) = {}
        BY Constants
      <3>4. RequestedWhole(p)'
        <4>1. Requested' = job.tables \union {Stack}
          BY <3>2, <3>3 DEF Requested
        <4> QED BY <1>4, <3>2, <4>1 DEF RequestedWhole
      <3>5. DOMAIN Segments[x] = 1..m
        BY <1>3, <2>5
      <3>6. LoadedSegments(p, job.program, DOMAIN Segments[job.program])'
        BY <2>3, <3>2, <3>5
      <3> QED BY <3>2, <3>3, <3>4, <3>6 DEF Progress
    <2> QED BY <2>4, <2>5
  <1> QED BY <1>4, <1>6, <1>10, <1>11

-----------------------------------------------------------------------------
(* The loader's invariant is kept *)

\* At the end the process has its stack and heap, and its image.
LEMMA ReadyToStart ==
  ASSUME Inv, NEW p, p = job.pcb, NEW x, x = job.program, Progress(p), job.step = "heap_init"
  PROVE  /\ \A t \in HeapFirst..Stack : WholeTable(p, t)
         /\ LoadedSegments(p, x, DOMAIN Segments[x])
  <1>1. job \in JobRecord /\ job.table = HeapLast
    BY DEF Inv, Typed, JobOK
  <1>2. job.tables \subseteq 0..(HeapFirst - 1) /\ job.table # Stack
    <2>1. job.tables \in SUBSET (0..(HeapFirst - 1))
      BY <1>1 DEF JobRecord
    <2>2. HeapLast # Stack
      BY Constants
    <2> QED BY <1>1, <2>1, <2>2
  <1>3. Requested = job.tables \union {Stack} \union (HeapFirst..HeapLast)
    BY <1>1, <1>2 DEF Requested
  <1>4. HeapFirst..Stack \subseteq Requested \ job.tables
    BY <1>2, <1>3, Constants
  <1>5. \A t \in Requested \ job.tables : WholeTable(p, t)
    BY DEF Progress, RequestedWhole
  <1>6. LoadedSegments(p, x, DOMAIN Segments[x])
    BY <1>2 DEF Progress
  <1> QED BY <1>4, <1>5, <1>6

LEMMA IdleProgress ==
  ASSUME NEW p, job'.step = "idle"
  PROVE  Progress(p)'
  BY DEF Progress

LEMMA ProgressKept ==
  ASSUME Inv, Progress(job.pcb), [Next]_vars
  PROVE  Progress(job.pcb)'
  <1>1. PICK p, q : p = job.pcb /\ q = job'.pcb
    OBVIOUS
  <1>2. Progress(p)
    BY <1>1
  <1> SUFFICES Progress(q)'
    BY <1>1
  <1>3. CASE \E r \in Process : \E x, parent : BeginCreate(r, x, parent)
    BY <1>3, BeginCreateProgress
  <1>4. CASE AllocatePageDir
    <2>1. q = p
      BY <1>1, <1>4 DEF AllocatePageDir, Inv, Typed, JobRecord
    <2> QED BY <1>1, <1>2, <1>4, <2>1, AllocatePageDirProgress
  <1>5. CASE AllocateTable
    <2>1. q = p
      BY <1>1, <1>5 DEF AllocateTable, Inv, Typed, JobRecord
    <2> QED BY <1>1, <1>2, <1>5, <2>1, AllocateTableProgress
  <1>6. CASE AllocateTableFrame
    <2>1. q = p
      BY <1>1, <1>6 DEF AllocateTableFrame, Inv, Typed, JobRecord
    <2> QED BY <1>1, <1>2, <1>6, <2>1, AllocateTableFrameProgress
  <1>7. CASE AllocateImageTable
    <2>1. q = p
      BY <1>1, <1>7 DEF AllocateImageTable, Inv, Typed, JobRecord
    <2> QED BY <1>1, <1>2, <1>7, <2>1, AllocateImageTableProgress
  <1>8. CASE AllocateImagePage
    <2>1. q = p
      BY <1>1, <1>8 DEF AllocateImagePage, Inv, Typed, JobRecord
    <2> QED BY <1>1, <1>2, <1>8, <2>1, AllocateImagePageProgress
  <1>9. CASE CopyImagePage
    <2>1. q = p
      BY <1>1, <1>9 DEF CopyImagePage, Inv, Typed, JobRecord
    <2> QED BY <1>1, <1>2, <1>9, <2>1, CopyImagePageProgress
  <1>10. CASE \/ FinishCreate
              \/ \E r \in Process : Kill(r)
              \/ \E r \in Process, w \in Writable : Write(r, w[1], w[2])
              \/ \E r \in Process, f \in KernelFrames : WriteKernel(r, f)
    <2>1. job' = NoJob
      BY <1>10 DEF FinishCreate, Kill, Write, WriteKernel
    <2> QED BY <2>1, NoJobType, IdleProgress
  <1>11. CASE UNCHANGED <<kernel, entry, data, space, job>>
    <2>1. q = p
      BY <1>1, <1>11
    <2>2. /\ \A n : PageOf(p, n)' = PageOf(p, n) /\ \A t : WholeTable(p, t)' = WholeTable(p, t)
          /\ \A x, n : Loaded(p, x, n)' = Loaded(p, x, n)
      BY <1>11 DEF PageOf, Translate, WholeTable, Loaded
    <2>3. CurrentTable' = CurrentTable /\ CurrentSegment' = CurrentSegment /\ Requested' = Requested
      BY <1>11 DEF CurrentTable, CurrentSegment, Requested
    <2>4. RequestedWhole(p)' = RequestedWhole(p) /\ FrameRound(p)' = FrameRound(p)
      BY <1>11, <2>2, <2>3 DEF RequestedWhole, FrameRound
    <2>5. /\ \A n : LatestTable(p, n)' = LatestTable(p, n) /\ KeptFrom(p, n)' = KeptFrom(p, n)
          /\ \A n : PagesFrom(p, n)' = PagesFrom(p, n)
          /\ \A x, K : LoadedSegments(p, x, K)' = LoadedSegments(p, x, K)
      BY <1>11, <2>2, <2>3 DEF LatestTable, KeptFrom, PagesFrom, LoadedSegments
    <2>6. ImageRound(p)' = ImageRound(p)
      BY <1>11, <2>3, <2>5 DEF ImageRound
    <2>7. CopyRound(p)' = CopyRound(p)
      BY <1>11, <2>2, <2>3, <2>5 DEF CopyRound
    <2> QED BY <1>2, <1>11, <2>1, <2>4, <2>5, <2>6, <2>7 DEF Progress
  <1> QED BY <1>3, <1>4, <1>5, <1>6, <1>7, <1>8, <1>9, <1>10, <1>11
          DEF Next, Creation, Create, Fork, Panic, Stopped, vars

\* Only the end of a creation makes a process run.
LEMMA StartedBy ==
  ASSUME [Next]_vars
  PROVE  live' \subseteq live \/ FinishCreate
  BY DEF Next, Creation, Create, Fork, BeginCreate, AllocatePageDir, AllocateTable,
         AllocateTableFrame, AllocateImageTable, AllocateImagePage, CopyImagePage, Kill,
         Write, WriteKernel, Panic, Stopped, vars

LEMMA LiveWholeKept ==
  ASSUME Inv, LiveWhole, Progress(job.pcb), [Next]_vars
  PROVE  LiveWhole'
  <1>1. CASE live' \subseteq live
    BY <1>1, LiveWholeStays
  <1>2. CASE FinishCreate
    <2>1. PICK p : p = job.pcb
      OBVIOUS
    <2>2. /\ job.step = "heap_init" /\ live' = live \union {p}
          /\ UNCHANGED <<entry, space>>
      BY <1>2, <2>1 DEF FinishCreate
    <2>3. \A q, t, j : Translate(q, t, j)' = Translate(q, t, j)
      BY <2>2 DEF Translate
    <2>4. \A t \in HeapFirst..Stack : WholeTable(p, t)
      BY <2>1, <2>2, ReadyToStart
    <2> QED BY <2>2, <2>3, <2>4 DEF LiveWhole, WholeTable
  <1> QED BY <1>1, <1>2, StartedBy

LEMMA LoadInvKept ==
  ASSUME LoadInv, [Next]_vars
  PROVE  LoadInv'
  BY NextKeeps, LiveWholeKept, ProgressKept DEF LoadInv

LEMMA InitLoadInv ==
  ASSUME Init
  PROVE  LoadInv
  <1>1. live = {} /\ job.step = "idle"
    BY NoJobType DEF Init
  <1> QED BY <1>1, InitInv DEF LoadInv, LiveWhole, Progress

\* What the loader has done at every point of a creation (elf_loader.cpp,
\* process.cpp).
THEOREM LoadInvHolds == Spec => []LoadInv
  BY InitLoadInv, LoadInvKept, PTL DEF Spec

-----------------------------------------------------------------------------
(* A process starts complete *)

\* What FinishCreate leaves in the pages of the new process and of a parent.
LEMMA FinishedData ==
  ASSUME LoadInv, NEW p, p = job.pcb, NEW x, x = job.program, FinishCreate
  PROVE  /\ \A n \in ImagePages : Loaded(p, x, n) => data'[PageOf(p, n)] = <<"image", x, n>>
         /\ job.parent # Nobody =>
              \A t \in HeapFirst..Stack, j \in Entry :
                data'[Translate(p, t, j)] = data[Translate(job.parent, t, j)]
  <1>1. PICK h, I, r :
          /\ h = Translate(p, HeapFirst, 0) /\ I = [data EXCEPT ![h] = <<"heap">>]
          /\ r = job.parent
    OBVIOUS
  <1> DEFINE S(f) == {y \in ForkedTables \X Entry : Translate(p, y[1], y[2]) = f}
  <1>2. /\ job.step = "heap_init"
        /\ r = Nobody => data' = I
        /\ r # Nobody =>
             data' = [f \in Bit |->
                        IF S(f) = {} THEN I[f]
                        ELSE I[Translate(r, (CHOOSE y \in S(f) : TRUE)[1],
                                            (CHOOSE y \in S(f) : TRUE)[2])]]
    BY <1>1 DEF FinishCreate
  <1>3. /\ Inv /\ LiveWhole /\ Progress(p) /\ p \in Spaces /\ p \notin live /\ DOMAIN data = Bit
        /\ r \in live \union {Nobody}
    BY <1>1, <1>2, JobOwner DEF LoadInv, Inv, JobOK, Typed
  <1>4. \A t \in HeapFirst..Stack : t \in Table /\ WholeTable(p, t)
    BY <1>2, <1>3, ReadyToStart, Constants
  <1>5. HeapFirst \in HeapFirst..Stack /\ 0 \in Entry /\ ForkedTables = HeapFirst..Stack
    BY Constants DEF ForkedTables
  <1>6. h \in Bit
    BY <1>1, <1>4, <1>5 DEF WholeTable
  <1>7. ASSUME NEW n \in ImagePages, Loaded(p, x, n)
        PROVE  data'[PageOf(p, n)] = <<"image", x, n>>
    <2>1. PICK t, j, f : t = n \div Entries /\ j = n % Entries /\ f = PageOf(p, n)
      OBVIOUS
    <2>2. t \in 0..(HeapFirst - 1) /\ t \in Table /\ j \in Entry
      BY <2>1, Places
    <2>3. f = Translate(p, t, j) /\ f \in Bit /\ data[f] = <<"image", x, n>> /\ f # NotMapped
      BY <1>7, <2>1, Constants DEF Loaded, PageOf
    <2>4. ASSUME NEW u \in HeapFirst..Stack, NEW i \in Entry PROVE Translate(p, u, i) # f
      <3>1. t # u /\ u \in Table
        BY <1>4, <2>2, Constants
      <3> QED BY <1>3, <2>2, <2>3, <3>1, TranslateOnce
    <2>5. S(f) = {}
      BY <1>5, <2>4
    <2>6. I[f] = data[f]
      BY <1>1, <1>3, <1>5, <2>3, <2>4
    <2> QED BY <1>2, <2>1, <2>3, <2>5, <2>6
  <1>8. ASSUME r # Nobody, NEW t \in HeapFirst..Stack, NEW j \in Entry
        PROVE  data'[Translate(p, t, j)] = data[Translate(r, t, j)]
    <2>1. PICK f, g : f = Translate(p, t, j) /\ g = Translate(r, t, j)
      OBVIOUS
    <2>2. f \in Bit /\ f # NotMapped
      BY <1>4, <2>1, Constants DEF WholeTable
    <2>3. S(f) = {<<t, j>>}
      <3>1. <<t, j>> \in S(f)
        BY <1>5, <2>1
      <3>2. ASSUME NEW y \in S(f) PROVE y = <<t, j>>
        <4>1. y[1] \in HeapFirst..Stack /\ y[2] \in Entry /\ y = <<y[1], y[2]>>
          BY <1>5
        <4>2. Translate(p, y[1], y[2]) = f
          OBVIOUS
        <4>3. y[1] = t /\ y[2] = j
          BY <1>3, <1>4, <2>1, <2>2, <4>1, <4>2, TranslateOnce
        <4> QED BY <4>1, <4>3
      <3> QED BY <3>1, <3>2
    <2>4. (CHOOSE y \in S(f) : TRUE) = <<t, j>>
      BY <2>3
    <2>5. data'[f] = I[g]
      <3> HIDE DEF S
      <3>1. S(f) # {}
        BY <2>3
      <3> QED BY <1>2, <1>8, <2>1, <2>2, <2>4, <3>1
    <2>6. g \in Bit /\ g # h
      <3>1. r \in live /\ r \in Spaces /\ r # p
        BY <1>3, <1>8, LiveHasSpace
      <3>2. g \in Bit /\ g # NotMapped
        BY <1>3, <2>1, <3>1, Constants DEF LiveWhole, WholeTable
      <3>3. g \in PageFrames(r)
        BY <1>3, <1>4, <2>1, <3>1, <3>2, TranslatePage
      <3>4. h \in PageFrames(p)
        BY <1>1, <1>3, <1>4, <1>5, <1>6, TranslatePage, Constants
      <3>5. PageFrames(p) \intersect PageFrames(r) = {}
        BY <1>3, <3>1 DEF Inv, FramesApart
      <3> QED BY <3>2, <3>3, <3>4, <3>5
    <2>7. I[g] = data[g]
      BY <1>1, <1>3, <2>6
    <2> QED BY <2>1, <2>5, <2>7
  <1> QED BY <1>1, <1>7, <1>8

\* A process starts with a whole stack and heap, with its file's data where the
\* file wants it, and after a fork with the parent's stack and heap
\* (process.cpp, elf_loader.cpp and sys_call_fork).
THEOREM StartsCompleteHolds == Spec => StartsComplete
  <1>1. ASSUME LoadInv, [Next]_vars
        PROVE  \A p \in live' \ live :
                 /\ \A t \in HeapFirst..Stack, j \in Entry : Translate(p, t, j) # NotMapped
                 /\ \A k \in DOMAIN Segments[job.program] :
                      \A n \in FilledPages(Segments[job.program][k]) :
                        data'[Translate(p, n \div Entries, n % Entries)]
                          = <<"image", job.program, n>>
                 /\ job.parent # Nobody =>
                      \A t \in HeapFirst..Stack, j \in Entry :
                        data'[Translate(p, t, j)] = data[Translate(job.parent, t, j)]
    <2> SUFFICES ASSUME NEW p \in live' \ live
                 PROVE  /\ \A t \in HeapFirst..Stack, j \in Entry : Translate(p, t, j) # NotMapped
                        /\ \A k \in DOMAIN Segments[job.program] :
                             \A n \in FilledPages(Segments[job.program][k]) :
                               data'[Translate(p, n \div Entries, n % Entries)]
                                 = <<"image", job.program, n>>
                        /\ job.parent # Nobody =>
                             \A t \in HeapFirst..Stack, j \in Entry :
                               data'[Translate(p, t, j)] = data[Translate(job.parent, t, j)]
      OBVIOUS
    <2>1. FinishCreate
      BY <1>1, StartedBy
    <2>2. p = job.pcb /\ job.step = "heap_init"
      BY <1>1, <2>1 DEF FinishCreate
    <2>3. PICK x : x = job.program
      OBVIOUS
    <2>4. x \in Program /\ Inv /\ Progress(p)
      BY <1>1, <2>2, <2>3, JobOwner DEF LoadInv
    <2>5. \A t \in HeapFirst..Stack, j \in Entry : Translate(p, t, j) # NotMapped
      BY <2>2, <2>4, ReadyToStart, Constants DEF WholeTable
    <2>6. ASSUME NEW k \in DOMAIN Segments[x], NEW n \in FilledPages(Segments[x][k])
          PROVE  data'[PageOf(p, n)] = <<"image", x, n>>
      <3>1. n \in ImagePages
        BY <2>4, SegmentsBefore
      <3>2. Loaded(p, x, n)
        BY <2>2, <2>3, <2>4, ReadyToStart DEF LoadedSegments
      <3> QED BY <1>1, <2>1, <2>2, <2>3, <3>1, <3>2, FinishedData
    <2>7. job.parent # Nobody =>
            \A t \in HeapFirst..Stack, j \in Entry :
              data'[Translate(p, t, j)] = data[Translate(job.parent, t, j)]
      BY <1>1, <2>1, <2>2, <2>3, FinishedData
    <2> QED BY <2>3, <2>5, <2>6, <2>7 DEF PageOf
  <1> QED BY <1>1, LoadInvHolds, PTL DEF Spec, StartsComplete

-----------------------------------------------------------------------------
(* No frame is lost *)

\* One frame more is taken, and what was reached is.
LEMMA ReachedMore ==
  ASSUME AllAccounted, NEW f, frames' = frames \union {f},
         f \in Range(kernel') \/ \E p \in Spaces' : f \in PageFrames(p)',
         \A g \in Range(kernel) : g \in frames =>
           g \in Range(kernel') \/ \E p \in Spaces' : g \in PageFrames(p)',
         \A p \in Spaces : \A g \in PageFrames(p) :
           g \in Range(kernel') \/ \E q \in Spaces' : g \in PageFrames(q)'
  PROVE  AllAccounted'
  BY DEF AllAccounted

\* Only the process that is being created gets pages.
LEMMA OthersPages ==
  ASSUME Inv, [Next]_vars, live' = live, NEW q \in live
  PROVE  PageFrames(q)' = PageFrames(q)
  BY NextKeeps DEF LiveStay, SameSpace

LEMMA AllocatePageDirAccounts ==
  ASSUME Inv, AllAccounted, AllocatePageDir
  PROVE  AllAccounted'
  <1>1. PICK s, f : allocate_page(s, f)
    BY DEF AllocatePageDir
  <1>2. job.step = "directory" /\ live' = live /\ [Next]_vars
    BY DEF AllocatePageDir, Next, Creation
  <1>3. Spaces = live
    BY <1>2 DEF Inv, Owners
  <1>4. Spaces \subseteq Spaces'
    <2>1. Inv'
      BY <1>2, NextKeeps
    <2> QED BY <1>2, <1>3, <2>1 DEF Inv, Owners
  <1>5. /\ s \in Slot /\ kernel[s] = NotMapped /\ kernel' = [kernel EXCEPT ![s] = f]
        /\ frames' = frames \union {f} /\ frames \subseteq Bit
    BY <1>1, AllocatedPage DEF Inv, Typed
  <1>6. Range(kernel) \ {NotMapped} \subseteq Range(kernel') /\ f \in Range(kernel')
    BY <1>5, MoreMapped DEF Inv
  <1>7. NotMapped \notin frames
    BY <1>5, Constants
  <1>8. \A q \in Spaces : q \in Spaces' /\ PageFrames(q)' = PageFrames(q)
    BY <1>2, <1>3, <1>4, OthersPages
  <1>9. \A g \in Range(kernel) : g \in frames => g \in Range(kernel')
    BY <1>6, <1>7
  <1> QED BY <1>5, <1>6, <1>8, <1>9, ReachedMore

\* A table is reached through the kernel's page of it.
LEMMA NewTableAccounts ==
  ASSUME Inv, AllAccounted, [Next]_vars, live' = live, NEW p \in Spaces, p = job.pcb,
         job.step \notin {"idle", "directory"},
         NEW t \in Table, space[p].directory[t] = NotMapped, NewTable(t)
  PROVE  AllAccounted'
  <1>1. PICK s, f : TableMade(p, t, s, f) /\ allocate_page(s, f)
    BY NewTableMakes
  <1>2. /\ s \in Slot /\ kernel[s] = NotMapped /\ kernel' = [kernel EXCEPT ![s] = f]
        /\ frames' = frames \union {f} /\ frames \subseteq Bit
    BY <1>1 DEF TableMade, Inv, Typed
  <1>3. Range(kernel) \ {NotMapped} \subseteq Range(kernel') /\ f \in Range(kernel')
    BY <1>2, MoreMapped DEF Inv
  <1>4. Spaces' = Spaces /\ Spaces = live \union {p} /\ PageFrames(p)' = PageFrames(p)
    BY <1>1, JobOwner, TableMadeKeeps
  <1>5. NotMapped \notin frames
    BY <1>2, Constants
  <1>6. \A q \in Spaces : q \in Spaces' /\ PageFrames(q)' = PageFrames(q)
    BY <1>4, OthersPages
  <1>7. \A g \in Range(kernel) : g \in frames => g \in Range(kernel')
    BY <1>3, <1>5
  <1> QED BY <1>2, <1>3, <1>6, <1>7, ReachedMore

\* A page that takes the place of another leaves it to the kernel.
LEMMA PageAccounts ==
  ASSUME Inv, AllAccounted, [Next]_vars, live' = live, NEW p \in Spaces,
         Spaces = live \union {p}, Spaces' = Spaces,
         NEW c \in TableFrames(p), NEW j \in Entry, NEW f \in Bit,
         TableFrames(p)' = TableFrames(p), entry' = [entry EXCEPT ![c][j] = f],
         frames' = frames \union {f},
         Range(kernel) \ {NotMapped} \subseteq Range(kernel'),
         entry[c][j] \in Range(kernel) \union {NotMapped}
  PROVE  AllAccounted'
  <1>1. Typed /\ c \in Bit /\ f # NotMapped /\ NotMapped \notin frames
    BY FrameTypes, Constants DEF Inv, Typed
  <1>2. f \in PageFrames(p)'
    BY <1>1 DEF PageFrames, Typed
  <1>3. ASSUME NEW g \in PageFrames(p)
        PROVE  g \in Range(kernel') \/ g \in PageFrames(p)'
    <2>1. PICK h \in TableFrames(p), i \in Entry : g = entry[h][i]
      BY PageFrame
    <2>2. g # NotMapped
      BY PageFrame
    <2>3. CASE h = c /\ i = j
      BY <2>1, <2>2, <2>3
    <2>4. CASE ~(h = c /\ i = j)
      <3>1. entry'[h][i] = g
        BY <1>1, <2>1, <2>4, FrameTypes DEF Typed, Inv
      <3> QED BY <2>1, <2>2, <3>1 DEF PageFrames
    <2> QED BY <2>3, <2>4
  <1>4. \A q \in live : PageFrames(q)' = PageFrames(q)
    BY OthersPages
  <1> QED BY <1>1, <1>2, <1>3, <1>4, ReachedMore

LEMMA AllocateTableFrameAccounts ==
  ASSUME LoadInv, AllAccounted, AllocateTableFrame
  PROVE  AllAccounted'
  <1>1. PICK p, j, c : p = job.pcb /\ j = job.page /\ c = CurrentTable
    OBVIOUS
  <1>2. PICK f \in Bit : allocate_frame(f) /\ entry' = [entry EXCEPT ![c][j] = f]
    BY <1>1 DEF AllocateTableFrame
  <1>3. /\ job.step = "frame" /\ UNCHANGED <<kernel, space, live>> /\ [Next]_vars
        /\ Inv /\ Progress(p)
    BY <1>1 DEF AllocateTableFrame, LoadInv, Next, Creation
  <1>4. /\ p \in Spaces /\ Spaces = live \union {p} /\ Spaces' = Spaces
        /\ TableFrames(p)' = TableFrames(p)
    BY <1>1, <1>3, JobOwner DEF Spaces, TableFrames
  <1>5. c \in TableFrames(p) /\ j \in Entry
    BY <1>1, <1>3, CurrentTableIsOne DEF Inv, JobOK
  <1>6. entry[c][j] = NotMapped
    <2>1. j < j <=> entry[c][j] # NotMapped
      BY <1>1, <1>3, <1>5 DEF Progress, FrameRound
    <2> QED BY <1>5, <2>1, Constants
  <1>7. frames' = frames \union {f}
    BY <1>2, <1>3, Allocated DEF Inv
  <1> QED BY <1>2, <1>3, <1>4, <1>5, <1>6, <1>7, PageAccounts

LEMMA AllocateImagePageAccounts ==
  ASSUME LoadInv, AllAccounted, AllocateImagePage
  PROVE  AllAccounted'
  <1>1. PICK p, n, t, j, c :
          /\ p = job.pcb /\ n = job.page /\ t = n \div Entries /\ j = n % Entries
          /\ c = CurrentTable
    OBVIOUS
  <1>2. PICK s \in Slot, f \in Bit : allocate_page(s, f) /\ entry' = [entry EXCEPT ![c][j] = f]
    BY <1>1 DEF AllocateImagePage
  <1>3. /\ job.step = "image" /\ UNCHANGED <<space, live>> /\ [Next]_vars
        /\ t \in job.tables /\ Inv /\ Progress(p)
    BY <1>1 DEF AllocateImagePage, LoadInv, Next, Creation
  <1>4. /\ p \in Spaces /\ Spaces = live \union {p} /\ Spaces' = Spaces /\ Linked(p)
    BY <1>1, <1>3, JobOwner DEF Spaces
  <1>5. /\ s \in Slot /\ kernel[s] = NotMapped /\ kernel' = [kernel EXCEPT ![s] = f]
        /\ frames' = frames \union {f}
    BY <1>2, <1>3, AllocatedPage DEF Inv
  <1>6. /\ c \in TableFrames(p) /\ c \in Bit /\ j \in Entry /\ n \in ImagePages
        /\ space[p].directory[t] = c
    <2>1. n \in Nat /\ n < HeapFirst * Entries /\ j \in Entry
      BY <1>1, <1>3, ImagePageType
    <2>2. n \in ImagePages
      BY <2>1, Constants DEF ImagePages
    <2>3. /\ \A u \in job.tables : u <= t
          /\ (\A u \in job.tables : u <= t) => space[p].directory[t] = c
      BY <1>1, <1>3 DEF Progress, ImageRound, LatestTable
    <2> QED BY <1>1, <1>3, <2>1, <2>2, <2>3, CurrentTableIsOne
  <1>7. TableFrames(p)' = TableFrames(p)
    <2>1. \A i \in DOMAIN space[p].page_tables :
            kernel'[space[p].page_tables[i]] = kernel[space[p].page_tables[i]]
      BY <1>2, <1>3, <1>4, AllocatePageUntouches DEF Inv
    <2> QED BY <1>3, <2>1 DEF TableFrames, Range
  <1>8. entry[c][j] \in Range(kernel) \union {NotMapped}
    <2>1. n >= n
      BY <1>6, Places
    <2>2. PageOf(p, n) \in Range(kernel) \union {NotMapped}
      BY <1>1, <1>3, <1>6, <2>1 DEF Progress, ImageRound, KeptFrom
    <2>3. PageOf(p, n) = entry[c][j]
      BY <1>1, <1>6, Constants DEF PageOf, Translate
    <2> QED BY <2>2, <2>3
  <1>9. Range(kernel) \ {NotMapped} \subseteq Range(kernel')
    BY <1>3, <1>5, MoreMapped DEF Inv
  <1> QED BY <1>2, <1>3, <1>4, <1>5, <1>6, <1>7, <1>8, <1>9, PageAccounts

\* The kernel forgets a page that is the process' by now.
LEMMA CopyImagePageAccounts ==
  ASSUME LoadInv, AllAccounted, CopyImagePage
  PROVE  AllAccounted'
  <1>1. PICK p, s : p = job.pcb /\ s = Head(job.pages)
    OBVIOUS
  <1>2. /\ job.step = "copy" /\ UNCHANGED <<entry, space, live, frames>> /\ [Next]_vars
        /\ kernel' = [kernel EXCEPT ![s] = NotMapped] /\ Inv /\ Progress(p)
    BY <1>1 DEF CopyImagePage, LeaveFrame, LoadInv, Next, Creation
  <1>3. p \in Spaces /\ Spaces = live \union {p} /\ Spaces' = Spaces
    BY <1>1, <1>2, JobOwner DEF Spaces
  <1>4. /\ s = job.pages[1] /\ 1 \in DOMAIN job.pages
        /\ \A q \in Owners : kernel[s] \notin ControlFrames(q)
    <2>1. Len(job.pages) > 0 /\ job.pages \in Seq(Slot)
      BY <1>1, <1>2, PageCopied, ImageSlots
    <2>2. s = job.pages[1] /\ 1 \in DOMAIN job.pages
      BY <1>1, <2>1
    <2> QED BY <1>2, <2>2 DEF Inv, JobOK, ImageSlot
  <1>5. PageFrames(p)' = PageFrames(p)
    <2>1. kernel[s] \notin ControlFrames(p)
      BY <1>2, <1>3, <1>4 DEF Inv
    <2>2. \A i \in DOMAIN space[p].page_tables : space[p].page_tables[i] # s
      BY <2>1, TableFrame DEF ControlFrames
    <2>3. \A i \in DOMAIN space[p].page_tables :
            kernel'[space[p].page_tables[i]] = kernel[space[p].page_tables[i]]
      BY <1>2, <2>2 DEF Inv, Typed
    <2>4. TableFrames(p)' = TableFrames(p)
      BY <1>2, <2>3 DEF TableFrames, Range
    <2> QED BY <1>2, <2>4 DEF PageFrames
  <1>6. kernel[s] \in PageFrames(p)
    <2>1. PICK n : n = CurrentSegment.first + job.page + 1 - 1
      OBVIOUS
    <2>2. n \in ImagePages
      BY <1>2, <1>4, <2>1, PageIndex
    <2>3. PageOf(p, n) = kernel[s]
      BY <1>2, <1>4, <2>1 DEF Progress, CopyRound, PagesFrom
    <2>4. kernel[s] # NotMapped
      BY <1>2, <1>4, ImageSlots, Constants
    <2> QED BY <1>2, <1>3, <2>2, <2>3, <2>4, Places, TranslatePage DEF PageOf
  <1>7. \A g \in Range(kernel) : g # kernel[s] => g \in Range(kernel')
    BY <1>2 DEF Range, Inv, Typed
  <1>8. \A q \in live : PageFrames(q)' = PageFrames(q)
    BY <1>2, OthersPages
  <1>9. ASSUME NEW q \in Spaces, NEW g \in PageFrames(q)
        PROVE  q \in Spaces' /\ g \in PageFrames(q)'
    BY <1>3, <1>5, <1>8, <1>9
  <1> SUFFICES ASSUME NEW g \in frames
               PROVE  \/ g \in Boot \/ g \in Range(kernel')
                      \/ \E q \in Spaces' : g \in PageFrames(q)'
    BY <1>2 DEF AllAccounted
  <1>10. g \in Boot \/ g \in Range(kernel) \/ \E q \in Spaces : g \in PageFrames(q)
    BY DEF AllAccounted
  <1>11. CASE g = kernel[s]
    BY <1>3, <1>6, <1>9, <1>11
  <1> QED BY <1>7, <1>9, <1>10, <1>11

\* With a process its pages and its directory are given back, no more.
LEMMA KillAccounts ==
  ASSUME Inv, AllAccounted, NEW p \in Process, Kill(p)
  PROVE  AllAccounted'
  <1>1. /\ job = NoJob /\ p \in live /\ frames' = frames \ Freed(p)
        /\ kernel' = [kernel EXCEPT ![space[p].dir] = NotMapped]
        /\ live' = live \ {p} /\ job' = job /\ [Next]_vars
    BY DEF Kill, Next
  <1>2. Spaces = live
    BY <1>1, NoJobType DEF Inv, Owners
  <1>3. Spaces' = live'
    <2>1. Inv'
      BY <1>1, NextKeeps
    <2> QED BY <1>1, <2>1, NoJobType DEF Inv, Owners
  <1>4. \A q \in live' : PageFrames(q)' = PageFrames(q)
    BY <1>1, NextKeeps DEF LiveStay, SameSpace
  <1>5. \A g \in Range(kernel) : g # kernel[space[p].dir] => g \in Range(kernel')
    BY <1>1 DEF Range, Inv, Typed
  <1> SUFFICES ASSUME NEW g \in frames'
               PROVE  \/ g \in Boot \/ g \in Range(kernel')
                      \/ \E q \in Spaces' : g \in PageFrames(q)'
    BY DEF AllAccounted
  <1>6. g \in frames /\ g \notin PageFrames(p) /\ g # kernel[space[p].dir]
    BY <1>1 DEF Freed
  <1>7. g \in Boot \/ g \in Range(kernel) \/ \E q \in Spaces : g \in PageFrames(q)
    BY <1>6 DEF AllAccounted
  <1>8. ASSUME NEW q \in Spaces, g \in PageFrames(q)
        PROVE  q \in Spaces' /\ g \in PageFrames(q)'
    BY <1>1, <1>2, <1>3, <1>4, <1>6, <1>8
  <1> QED BY <1>5, <1>6, <1>7, <1>8

LEMMA AccountsKept ==
  ASSUME LoadInv, AllAccounted, [Next]_vars
  PROVE  AllAccounted'
  <1>1. CASE UNCHANGED <<frames, kernel, entry, space>>
    BY <1>1 DEF AllAccounted, Spaces, PageFrames, TableFrames
  <1>2. CASE AllocateTable
    <2>1. PICK p, t : p = job.pcb /\ t = job.table
      OBVIOUS
    <2>2. job.step = "table" /\ NewTable(t) /\ live' = live /\ Inv
      BY <1>2, <2>1 DEF AllocateTable, LoadInv
    <2>3. /\ p \in Spaces /\ t \in (HeapFirst..HeapLast) \union {Stack} /\ t \in Table
          /\ job.tables \subseteq 0..(HeapFirst - 1)
          /\ \A u \in Table : space[p].directory[u] # NotMapped => u \in Requested
      BY <2>1, <2>2, JobOwner DEF Inv, JobOK, JobRecord
    <2>4. t \notin Requested
      BY <2>1, <2>2, <2>3, Constants DEF Requested
    <2> QED BY <2>1, <2>2, <2>3, <2>4, NewTableAccounts
  <1>3. CASE AllocateImageTable
    <2>1. PICK p, t : p = job.pcb /\ t = job.page \div Entries
      OBVIOUS
    <2>2. job.step = "image" /\ NewTable(t) /\ live' = live /\ Inv /\ t \notin job.tables
      BY <1>3, <2>1 DEF AllocateImageTable, LoadInv
    <2>3. /\ p \in Spaces /\ t \in 0..(HeapFirst - 1) /\ t \in Table /\ job.table = Stack
          /\ \A u \in Table : space[p].directory[u] # NotMapped => u \in Requested
      BY <2>1, <2>2, JobOwner, ImagePageType, Constants DEF Inv, JobOK
    <2>4. t \notin Requested
      BY <2>2, <2>3, Constants DEF Requested
    <2> QED BY <2>1, <2>2, <2>3, <2>4, NewTableAccounts
  <1>4. CASE AllocatePageDir
    BY <1>4, AllocatePageDirAccounts DEF LoadInv
  <1>5. CASE AllocateTableFrame
    BY <1>5, AllocateTableFrameAccounts
  <1>6. CASE AllocateImagePage
    BY <1>6, AllocateImagePageAccounts
  <1>7. CASE CopyImagePage
    BY <1>7, CopyImagePageAccounts
  <1>8. CASE \E p \in Process : Kill(p)
    BY <1>8, KillAccounts DEF LoadInv
  <1> QED BY <1>1, <1>2, <1>3, <1>4, <1>5, <1>6, <1>7, <1>8
          DEF Next, Creation, Create, Fork, BeginCreate, FinishCreate, Write,
              WriteKernel, Panic, Stopped, vars

\* A frame that is taken can still be reached, whatever was created, forked and
\* killed: the loader's pages and those of the dead are not lost
\* (process.cpp:295, elf_loader.cpp:96).
THEOREM AllAccountedHolds == Spec => []AllAccounted
  <1>1. Init => AllAccounted
    BY DEF Init, AllAccounted
  <1>2. LoadInv /\ AllAccounted /\ [Next]_vars => AllAccounted'
    BY AccountsKept
  <1> QED BY <1>1, <1>2, LoadInvHolds, PTL DEF Spec
-----------------------------------------------------------------------------
(* The memories of the processes are isolated *)

\* The process that is being created has the name of its program.
Named == job.step \notin {"idle", "directory"} => space[job.pcb].name = job.program

LEMMA NamedKept ==
  ASSUME Inv, Named, [Next]_vars
  PROVE  Named'
  <1>1. Typed /\ DOMAIN space = Process /\ job \in JobRecord
    BY DEF Inv, Typed
  <1>2. ASSUME NEW p, NEW x, NEW parent, BeginCreate(p, x, parent)
        PROVE  Named'
    <2>1. job'.step = "directory"
      BY <1>2 DEF BeginCreate, NoJob
    <2> QED BY <2>1 DEF Named
  <1>3. CASE AllocatePageDir
    <2>1. job.pcb \in Process
      BY <1>3 DEF AllocatePageDir, Inv, JobOK
    <2>2. job'.pcb = job.pcb /\ job'.program = job.program
      BY <1>1, <1>3 DEF AllocatePageDir, JobRecord
    <2>3. PICK s, f : space' = [space EXCEPT ![job.pcb] =
                                  [NoSpace EXCEPT !.name = job.program, !.dir = s, !.cr3 = f,
                                                  !.shared = KernelFrames]]
      BY <1>3 DEF AllocatePageDir
    <2>4. space'[job.pcb].name = job.program
      BY <1>1, <2>1, <2>3 DEF NoSpace
    <2> QED BY <2>2, <2>4 DEF Named
  <1>4. CASE AllocateTable \/ AllocateImageTable
    <2>1. job.step \notin {"idle", "directory"}
      BY <1>4 DEF AllocateTable, AllocateImageTable
    <2>2. job'.pcb = job.pcb /\ job'.program = job.program
      BY <1>1, <1>4 DEF AllocateTable, AllocateImageTable, JobRecord
    <2>3. PICK p : p = job.pcb
      OBVIOUS
    <2>4. PICK t \in Table : NewTable(t)
      <3>1. CASE AllocateTable
        BY <1>1, <3>1 DEF AllocateTable, JobRecord
      <3>2. CASE AllocateImageTable
        BY <3>2, ImagePageType, Constants DEF AllocateImageTable
      <3> QED BY <1>4, <3>1, <3>2
    <2>5. space'[p].name = space[p].name
      BY <2>1, <2>3, <2>4, JobOwner, NewTableMakes DEF TableMade
    <2> QED BY <2>1, <2>2, <2>3, <2>5 DEF Named
  <1>5. CASE AllocateTableFrame \/ AllocateImagePage \/ CopyImagePage
    <2>1. job.step \notin {"idle", "directory"} /\ UNCHANGED space
      BY <1>5 DEF AllocateTableFrame, AllocateImagePage, CopyImagePage
    <2>2. job'.pcb = job.pcb /\ job'.program = job.program
      BY <1>1, <1>5 DEF AllocateTableFrame, AllocateImagePage, CopyImagePage, JobRecord
    <2> QED BY <2>1, <2>2 DEF Named
  <1>6. CASE \/ FinishCreate
             \/ \E p \in Process : Kill(p)
             \/ \E p \in Process, w \in Writable : Write(p, w[1], w[2])
             \/ \E p \in Process, f \in KernelFrames : WriteKernel(p, f)
    <2>1. job'.step = "idle"
      BY <1>6, NoJobType DEF FinishCreate, Kill, Write, WriteKernel
    <2> QED BY <2>1 DEF Named
  <1>7. CASE UNCHANGED <<space, job>>
    BY <1>7 DEF Named
  <1> QED BY <1>2, <1>3, <1>4, <1>5, <1>6, <1>7
          DEF Next, Creation, Create, Fork, Panic, Stopped, vars

\* No page that is mapped reads as one that is not.
NothingStored == \A f \in Bit : data[f] # <<"nothing">>

LEMMA NothingStoredKept ==
  ASSUME LoadInv, NothingStored, [Next]_vars
  PROVE  NothingStored'
  <1>1. Inv /\ DOMAIN data = Bit
    BY DEF LoadInv, Inv, Typed
  <1>2. ASSUME NEW v, NEW f, v # <<"nothing">>, data' = [data EXCEPT ![f] = v]
        PROVE  NothingStored'
    BY <1>1, <1>2 DEF NothingStored
  <1>3. \A x, n : <<"image", x, n>> # <<"nothing">>
    OBVIOUS
  <1>4. \A p : <<"written", p>> # <<"nothing">>
    OBVIOUS
  <1>5. CASE UNCHANGED data
    BY <1>5 DEF NothingStored
  <1>6. CASE CopyImagePage
    BY <1>2, <1>3, <1>5, <1>6 DEF CopyImagePage
  <1>7. CASE FinishCreate
    <2>1. PICK p, r, I :
            /\ p = job.pcb /\ r = job.parent
            /\ I = [data EXCEPT ![Translate(p, HeapFirst, 0)] = <<"heap">>]
      OBVIOUS
    <2> DEFINE S(f) == {y \in ForkedTables \X Entry : Translate(p, y[1], y[2]) = f}
    <2>2. /\ job.step = "heap_init"
          /\ r = Nobody => data' = I
          /\ r # Nobody =>
               data' = [f \in Bit |->
                          IF S(f) = {} THEN I[f]
                          ELSE I[Translate(r, (CHOOSE y \in S(f) : TRUE)[1],
                                              (CHOOSE y \in S(f) : TRUE)[2])]]
      BY <1>7, <2>1 DEF FinishCreate
    <2>3. \A f \in Bit : I[f] # <<"nothing">>
      <3>1. <<"heap">> # <<"nothing">>
        OBVIOUS
      <3> QED BY <1>1, <2>1, <3>1 DEF NothingStored
    <2>4. ASSUME r # Nobody, NEW f \in Bit, S(f) # {} PROVE data'[f] # <<"nothing">>
      <3>1. PICK y : y = CHOOSE z \in S(f) : TRUE
        OBVIOUS
      <3>2. y \in ForkedTables \X Entry
        <4>1. y \in S(f)
          BY <2>4, <3>1
        <4> QED BY <4>1
      <3>3. y[1] \in HeapFirst..Stack /\ y[2] \in Entry
        BY <3>2, Constants DEF ForkedTables
      <3>4. r \in live
        BY <1>1, <2>1, <2>2, <2>4 DEF Inv, JobOK
      <3>5. Translate(r, y[1], y[2]) \in Bit
        BY <3>3, <3>4 DEF LoadInv, LiveWhole, WholeTable
      <3> HIDE DEF S
      <3>6. data'[f] = I[Translate(r, y[1], y[2])]
        BY <2>2, <2>4, <3>1
      <3> QED BY <2>3, <3>5, <3>6
    <2> HIDE DEF S
    <2>5. ASSUME r # Nobody, NEW f \in Bit, S(f) = {} PROVE data'[f] # <<"nothing">>
      BY <2>2, <2>3, <2>5
    <2> QED BY <2>2, <2>3, <2>4, <2>5 DEF NothingStored
  <1>8. ASSUME NEW p \in Process, Kill(p) PROVE NothingStored'
    <2>1. Junk # <<"nothing">>
      BY DEF Junk
    <2> QED BY <1>8, <2>1 DEF Kill, NothingStored
  <1>9. ASSUME NEW p \in Process, NEW t, NEW j, Write(p, t, j) PROVE NothingStored'
    BY <1>2, <1>4, <1>9 DEF Write
  <1>10. ASSUME NEW p \in Process, NEW f, WriteKernel(p, f) PROVE NothingStored'
    <2>1. <<"overwritten">> # <<"nothing">>
      OBVIOUS
    <2> QED BY <1>2, <1>10, <2>1 DEF WriteKernel
  <1> QED BY <1>5, <1>6, <1>7, <1>8, <1>9, <1>10
          DEF Next, Creation, Create, Fork, BeginCreate, AllocatePageDir, AllocateTable,
              AllocateTableFrame, AllocateImageTable, AllocateImagePage, Panic, Stopped, vars

MemoryInv == LoadInv /\ Named /\ NothingStored

\* What is seen of the processes, of their pages and of a creation.
NameOf(p) == IF p \in live THEN space[p].name ELSE ""
Names == [p \in Process |-> NameOf(p)]
Contents == [p \in Process |-> MemoryOf(p)]
Commons == [f \in KernelFrames |-> data[f]]
Pending ==
  IF job.step = "idle" THEN {}
  ELSE {[pcb |-> job.pcb, program |-> job.program, parent |-> job.parent]}

Content(p, t, j) ==
  IF p \notin live \/ Translate(p, t, j) = NotMapped THEN <<"nothing">>
  ELSE data[Translate(p, t, j)]

LEMMA ContentOf ==
  ASSUME NEW p
  PROVE  /\ MemoryOf(p) = [a \in Table \X Entry |-> Content(p, a[1], a[2])]
         /\ \A t \in Table, j \in Entry : MemoryOf(p)[<<t, j>>] = Content(p, t, j)
         /\ p \notin live => MemoryOf(p) = AsMemories!NoMemory /\ NameOf(p) = ""
  <1>1. MemoryOf(p) = [a \in Table \X Entry |-> Content(p, a[1], a[2])]
    BY DEF MemoryOf, Content
  <1>2. p \notin live => MemoryOf(p) = AsMemories!NoMemory
    BY DEF MemoryOf, AsMemories!NoMemory
  <1> QED BY <1>1, <1>2 DEF NameOf

\* A process that runs on keeps its name and, unless it writes, its memory.
LEMMA MemoryStays ==
  ASSUME Inv, [Next]_vars, NEW p \in live \intersect live'
  PROVE  /\ NameOf(p)' = NameOf(p)
         /\ (\A w \in Writable : ~Write(p, w[1], w[2])) => MemoryOf(p)' = MemoryOf(p)
  <1>1. p \in Spaces /\ SameSpace(p)
    BY NextKeeps, LiveHasSpace DEF LiveStay
  <1>2. NameOf(p)' = NameOf(p)
    BY <1>1 DEF NameOf, SameSpace
  <1>3. ASSUME \A w \in Writable : ~Write(p, w[1], w[2]), NEW t \in Table, NEW j \in Entry
        PROVE  Content(p, t, j)' = Content(p, t, j)
    <2>1. Translate(p, t, j)' = Translate(p, t, j)
      BY <1>1, TranslateStays
    <2>2. CASE Translate(p, t, j) = NotMapped
      BY <2>1, <2>2 DEF Content
    <2>3. CASE Translate(p, t, j) # NotMapped
      <3>1. Translate(p, t, j) \in PageFrames(p)
        BY <1>1, <2>3, TranslatePage
      <3>2. data'[Translate(p, t, j)] = data[Translate(p, t, j)]
        BY <1>3, <3>1, PagesKeepUnwritten
      <3> QED BY <2>1, <2>3, <3>2 DEF Content
    <2> QED BY <2>2, <2>3
  <1>4. ASSUME \A w \in Writable : ~Write(p, w[1], w[2])
        PROVE  MemoryOf(p)' = MemoryOf(p)
    <2>1. \A a \in Table \X Entry : Content(p, a[1], a[2])' = Content(p, a[1], a[2])
      BY <1>3, <1>4
    <2> QED BY <2>1 DEF MemoryOf, Content
  <1> QED BY <1>2, <1>4

\* Nobody notices a step that starts, ends and writes nothing.
LEMMA OthersSee ==
  ASSUME Inv, [Next]_vars, NEW Q \in SUBSET Process,
         live' \intersect Q = live \intersect Q,
         \A p \in Q, w \in Writable : ~Write(p, w[1], w[2])
  PROVE  \A p \in Q : NameOf(p)' = NameOf(p) /\ MemoryOf(p)' = MemoryOf(p)
  <1> SUFFICES ASSUME NEW p \in Q
               PROVE  NameOf(p)' = NameOf(p) /\ MemoryOf(p)' = MemoryOf(p)
    OBVIOUS
  <1>1. CASE p \in live
    BY <1>1, MemoryStays
  <1>2. CASE p \notin live
    <2>1. p \notin live'
      BY <1>2
    <2>2. NameOf(p)' = NameOf(p)
      BY <1>2, <2>1 DEF NameOf
    <2>3. MemoryOf(p)' = MemoryOf(p)
      BY <1>2, <2>1 DEF MemoryOf
    <2> QED BY <2>2, <2>3
  <1> QED BY <1>1, <1>2

\* What the pages of the kernel hold that processes share: nothing but a write
\* to one of them changes it, for no process has them among its own.
LEMMA CommonsStay ==
  ASSUME Inv, [Next]_vars, \A p, f : ~WriteKernel(p, f)
  PROVE  Commons' = Commons
  <1> SUFFICES ASSUME NEW f \in KernelFrames PROVE data'[f] = data[f]
    BY DEF Commons
  <1>1. /\ f \in Boot /\ f \in Bit /\ DOMAIN data = Bit /\ f # NotMapped
        /\ \A q \in Spaces : f \notin PageFrames(q) /\ f \notin ControlFrames(q)
    BY KernelFramesTaken, Constants DEF Inv, Typed, FramesApart
  <1>2. \A q \in Spaces, t \in Table, j \in Entry : Translate(q, t, j) # f
    BY <1>1, TranslatePage
  <1>3. CASE UNCHANGED data
    BY <1>3
  <1>4. CASE CopyImagePage
    <2>1. job.step = "copy"
      BY <1>4 DEF CopyImagePage
    <2>2. job.pages # <<>> /\ job.pages \in Seq(Slot)
      <3>1. /\ job.page < PagesNeeded(CurrentSegment)
            /\ Len(job.pages) + job.page = CurrentSegment.full + 1
        BY <2>1 DEF Inv, JobOK
      <3>2. /\ CurrentSegment.full \in Nat
            /\ PagesNeeded(CurrentSegment) \in {CurrentSegment.full, CurrentSegment.full + 1}
        BY <2>1, SegmentType
      <3>3. job.pages \in Seq(Slot) /\ job.page \in Nat
        BY DEF Inv, Typed, JobRecord
      <3> QED BY <3>1, <3>2, <3>3
    <2>3. 1 \in DOMAIN job.pages /\ Head(job.pages) = job.pages[1]
      BY <2>2
    <2>4. ImageSlot(Head(job.pages))
      BY <2>3 DEF Inv, JobOK
    <2>5. f # kernel[Head(job.pages)]
      BY <1>1, <2>4 DEF ImageSlot
    <2> QED BY <1>1, <1>4, <2>5 DEF CopyImagePage
  <1>5. CASE FinishCreate
    <2>1. job.pcb \in Spaces
      BY <1>5, JobOwner DEF FinishCreate
    <2>2. HeapFirst \in Table /\ 0 \in Entry /\ ForkedTables \subseteq Table
      BY Constants DEF ForkedTables
    <2>3. \A x \in ForkedTables \X Entry : Translate(job.pcb, x[1], x[2]) # f
      BY <1>2, <2>1, <2>2
    <2>4. [data EXCEPT ![Translate(job.pcb, HeapFirst, 0)] = <<"heap">>][f] = data[f]
      BY <1>1, <1>2, <2>1, <2>2
    <2> QED BY <1>1, <1>5, <2>3, <2>4 DEF FinishCreate
  <1>6. ASSUME NEW q \in Process, Kill(q) PROVE data'[f] = data[f]
    <2>1. q \in Spaces
      BY <1>6, LiveHasSpace DEF Kill
    <2>2. Freed(q) = PageFrames(q) \union {space[q].cr3} /\ space[q].cr3 \in ControlFrames(q)
      BY <2>1 DEF Freed, Inv, Linked, ControlFrames
    <2>3. f \notin Freed(q)
      BY <1>1, <2>1, <2>2
    <2> QED BY <1>1, <1>6, <2>3 DEF Kill
  <1>7. ASSUME NEW q \in Process, NEW w \in Writable, Write(q, w[1], w[2])
        PROVE  data'[f] = data[f]
    <2>1. w[1] \in Table /\ w[2] \in Entry /\ q \in Spaces
      BY <1>7, LiveHasSpace, AddressSpacesAssumption DEF Write
    <2>2. Translate(q, w[1], w[2]) # f
      BY <1>2, <2>1
    <2> QED BY <1>1, <1>7, <2>2 DEF Write
  <1> QED BY <1>3, <1>4, <1>5, <1>6, <1>7
          DEF Next, Creation, Create, Fork, BeginCreate, AllocatePageDir, AllocateTable,
              AllocateTableFrame, AllocateImageTable, AllocateImagePage, Panic, Stopped, vars

\* The rounds of a creation, of which nobody takes notice.
LEMMA RoundUnseen ==
  ASSUME Inv, [Next]_vars, live' = live,
         \A p \in Process, w \in Writable : ~Write(p, w[1], w[2]),
         \A p, f : ~WriteKernel(p, f),
         job'.step = "idle" <=> job.step = "idle",
         job'.pcb = job.pcb, job'.program = job.program, job'.parent = job.parent
  PROVE  UNCHANGED AsMemories!vars
  <1>1. \A p \in Process : NameOf(p)' = NameOf(p) /\ MemoryOf(p)' = MemoryOf(p)
    BY OthersSee
  <1>2. Names' = Names
    BY <1>1 DEF Names
  <1>3. Contents' = Contents
    BY <1>1 DEF Contents
  <1>4. Pending' = Pending
    BY DEF Pending
  <1> QED BY <1>2, <1>3, <1>4, CommonsStay
          DEF AsMemories!vars, Names, NameOf, Contents, Commons, Pending

LEMMA BeginCreateRequests ==
  ASSUME Inv, [Next]_vars, NEW p, NEW x, NEW parent, BeginCreate(p, x, parent)
  PROVE  /\ Pending = {} /\ p \notin live
         /\ Pending' = {[pcb |-> p, program |-> x, parent |-> parent]}
         /\ live' = live /\ Names' = Names /\ Contents' = Contents /\ Commons' = Commons
  <1>1. /\ job = NoJob /\ p \notin live /\ live' = live
        /\ UNCHANGED <<entry, data, space>>
    BY DEF BeginCreate
  <1>2. /\ job'.step = "directory" /\ job'.pcb = p /\ job'.program = x
        /\ job'.parent = parent
    BY DEF BeginCreate, NoJob
  <1>3. Names' = Names
    BY <1>1 DEF Names, NameOf
  <1>4. Contents' = Contents
    BY <1>1 DEF Contents, MemoryOf, Translate
  <1>5. Pending = {}
    BY <1>1, NoJobType DEF Pending
  <1>6. Pending' = {[pcb |-> p, program |-> x, parent |-> parent]}
    BY <1>2 DEF Pending
  <1>7. Commons' = Commons
    BY <1>1 DEF Commons
  <1> QED BY <1>1, <1>3, <1>4, <1>5, <1>6, <1>7

LEMMA CreateSeen ==
  ASSUME Inv, [Next]_vars, NEW p \in Process, NEW x \in Program, Create(p, x)
  PROVE  AsMemories!Create(p, x)
  BY BeginCreateRequests
     DEF Create, AsMemories!Create, AsMemories!Request, Names, NameOf, Contents, Commons,
         Pending

LEMMA ForkSeen ==
  ASSUME Inv, [Next]_vars, NEW p \in Process, NEW parent \in Process, Fork(p, parent)
  PROVE  AsMemories!Fork(p, parent)
  <1>1. parent \in live /\ BeginCreate(p, space[parent].name, parent)
    BY DEF Fork
  <1>2. Names[parent] = space[parent].name
    BY <1>1 DEF Names, NameOf
  <1> QED BY <1>1, <1>2, BeginCreateRequests
          DEF AsMemories!Fork, AsMemories!Request, Names, NameOf, Contents, Commons, Pending

LEMMA WriteSeen ==
  ASSUME MemoryInv, [Next]_vars, NEW p \in Process, NEW w \in Writable, Write(p, w[1], w[2])
  PROVE  AsMemories!Write(p, w)
  <1>1. PICK t, j, f : t = w[1] /\ j = w[2] /\ f = Translate(p, t, j)
    OBVIOUS
  <1>2. w \in Table \X Entry /\ t \in Table /\ j \in Entry /\ w = <<t, j>>
    BY <1>1, AddressSpacesAssumption
  <1>3. /\ job = NoJob /\ p \in live /\ f # NotMapped
        /\ data' = [data EXCEPT ![f] = <<"written", p>>]
        /\ UNCHANGED <<entry, space, live, job>> /\ Inv /\ p \in Spaces
    BY <1>1, LiveHasSpace DEF Write, MemoryInv, LoadInv
  <1>4. f \in Bit /\ DOMAIN data = Bit
    BY <1>1, <1>2, <1>3, TranslatePage DEF Inv, Typed
  <1>5. \A q, u, i : Translate(q, u, i)' = Translate(q, u, i)
    BY <1>3 DEF Translate
  <1>6. Content(p, t, j) # <<"nothing">> /\ Content(p, t, j)' # <<"nothing">>
    <2>1. Content(p, t, j) = data[f] /\ Content(p, t, j)' = data'[f]
      BY <1>1, <1>3, <1>5 DEF Content
    <2>2. data'[f] = <<"written", p>>
      BY <1>3, <1>4
    <2>3. <<"written", p>> # <<"nothing">>
      OBVIOUS
    <2> QED BY <1>4, <2>1, <2>2, <2>3 DEF MemoryInv, NothingStored
  <1>7. ASSUME NEW a \in Table \X Entry, a # w
        PROVE  Content(p, a[1], a[2])' = Content(p, a[1], a[2])
    <2>1. PICK g : g = Translate(p, a[1], a[2])
      OBVIOUS
    <2>2. g # NotMapped => g # f
      <3>1. a[1] # t \/ a[2] # j
        BY <1>2, <1>7
      <3>2. a[1] \in Table /\ a[2] \in Entry
        OBVIOUS
      <3> QED BY <1>1, <1>2, <1>3, <2>1, <3>1, <3>2, TranslateOnce
    <2>3. g # NotMapped => g \in Bit
      BY <1>3, <2>1, TranslatePage
    <2> QED BY <1>3, <1>4, <1>5, <2>1, <2>2, <2>3 DEF Content
  <1>8. MemoryOf(p)' = [MemoryOf(p) EXCEPT ![w] = MemoryOf(p)'[w]]
    <2>1. PICK m, n : m = MemoryOf(p) /\ n = MemoryOf(p)'
      OBVIOUS
    <2>2. \A a \in Table \X Entry : m[a] = Content(p, a[1], a[2])
      BY <2>1 DEF MemoryOf, Content
    <2>3. \A a \in Table \X Entry : n[a] = Content(p, a[1], a[2])'
      BY <2>1 DEF MemoryOf, Content
    <2>4. m = [a \in Table \X Entry |-> m[a]] /\ n = [a \in Table \X Entry |-> n[a]]
      BY <2>1 DEF MemoryOf
    <2>5. \A a \in Table \X Entry : a # w => n[a] = m[a]
      BY <1>7, <2>2, <2>3
    <2>6. n = [m EXCEPT ![w] = n[w]]
      BY <1>2, <2>4, <2>5
    <2> QED BY <2>1, <2>6
  <1>9. /\ MemoryOf(p)[w] # <<"nothing">> /\ MemoryOf(p)'[w] # <<"nothing">>
    <2>1. MemoryOf(p)[w] = Content(p, t, j) /\ MemoryOf(p)'[w] = Content(p, t, j)'
      BY <1>1, <1>2 DEF MemoryOf, Content
    <2> QED BY <1>6, <2>1
  <1>10. ASSUME NEW q \in Process \ {p} PROVE MemoryOf(q)' = MemoryOf(q)
    <2>1. ASSUME NEW u \in Table, NEW i \in Entry PROVE Content(q, u, i)' = Content(q, u, i)
      <3>1. PICK g : g = Translate(q, u, i)
        OBVIOUS
      <3>2. ASSUME q \in live, g # NotMapped PROVE g # f /\ g \in Bit
        <4>1. q \in Spaces
          BY <1>3, <3>2, LiveHasSpace
        <4>2. g \in PageFrames(q) /\ g \in Bit
          BY <1>3, <3>1, <3>2, <4>1, TranslatePage
        <4>3. f \in PageFrames(p)
          BY <1>1, <1>2, <1>3, TranslatePage
        <4> QED BY <1>3, <4>1, <4>2, <4>3 DEF Inv, FramesApart
      <3> QED BY <1>3, <1>4, <1>5, <3>1, <3>2 DEF Content
    <2>2. \A a \in Table \X Entry : Content(q, a[1], a[2])' = Content(q, a[1], a[2])
      BY <2>1
    <2> QED BY <2>2 DEF MemoryOf, Content
  <1>11. /\ Contents[p] = MemoryOf(p) /\ Contents'[p] = MemoryOf(p)'
         /\ Contents' = [Contents EXCEPT ![p] = MemoryOf(p)']
    BY <1>10 DEF Contents
  <1>12. Contents' = [Contents EXCEPT ![p][w] = Contents'[p][w]]
    BY <1>8, <1>11
  <1>13. Names' = Names /\ Pending' = Pending /\ Pending = {}
    BY <1>3, NoJobType DEF Names, NameOf, Pending
  <1>14. Commons' = Commons
    <2>1. f \in PageFrames(p)
      BY <1>1, <1>2, <1>3, TranslatePage
    <2>2. f \notin KernelFrames
      BY <1>3, <2>1, KernelFramesTaken DEF Inv, FramesApart
    <2>3. \A g \in KernelFrames : data'[g] = data[g]
      BY <1>3, <1>4, <2>2, KernelFramesTaken
    <2> QED BY <2>3 DEF Commons
  <1> QED BY <1>3, <1>9, <1>11, <1>12, <1>13, <1>14
          DEF AsMemories!Write, Names, NameOf, Contents, Commons, Pending

LEMMA WriteKernelSeen ==
  ASSUME Inv, [Next]_vars, NEW p \in Process, NEW f \in KernelFrames, WriteKernel(p, f)
  PROVE  AsMemories!WriteCommon(p, f)
  <1>1. /\ job = NoJob /\ p \in live /\ UNCHANGED <<entry, space, live, job>>
        /\ data' = [data EXCEPT ![f] = <<"overwritten">>] /\ DOMAIN data = Bit
    BY DEF WriteKernel, Inv, Typed
  <1>3. Commons' = [Commons EXCEPT ![f] = Commons'[f]]
    <2>1. \A g \in KernelFrames : g # f => data'[g] = data[g]
      BY <1>1
    <2> QED BY <2>1 DEF Commons
  <1>4. ASSUME NEW q \in Process PROVE MemoryOf(q)' = MemoryOf(q)
    <2>1. ASSUME NEW t \in Table, NEW j \in Entry PROVE Content(q, t, j)' = Content(q, t, j)
      <3>1. PICK g : g = Translate(q, t, j)
        OBVIOUS
      <3>2. Translate(q, t, j)' = g
        BY <1>1, <3>1 DEF Translate
      <3>3. ASSUME q \in live, g # NotMapped PROVE data'[g] = data[g]
        <4>1. q \in Spaces
          BY <3>3, LiveHasSpace
        <4>2. g \in PageFrames(q) /\ g \in Bit
          BY <3>1, <3>3, <4>1, TranslatePage
        <4>3. g # f
          BY <4>1, <4>2, KernelFramesTaken DEF Inv, FramesApart
        <4> QED BY <1>1, <4>2, <4>3
      <3> QED BY <1>1, <3>1, <3>2, <3>3 DEF Content
    <2>2. \A a \in Table \X Entry : Content(q, a[1], a[2])' = Content(q, a[1], a[2])
      BY <2>1
    <2> QED BY <2>2 DEF MemoryOf, Content
  <1>5. Contents' = Contents /\ Names' = Names /\ Pending' = Pending /\ Pending = {}
    BY <1>1, <1>4, NoJobType DEF Contents, Names, NameOf, Pending
  <1> QED BY <1>1, <1>3, <1>5
          DEF AsMemories!WriteCommon, Names, NameOf, Contents, Commons, Pending

LEMMA FinishCreateSeen ==
  ASSUME MemoryInv, [Next]_vars, FinishCreate, NEW r,
         r = [pcb |-> job.pcb, program |-> job.program, parent |-> job.parent]
  PROVE  AsMemories!Start(r) /\ r \in Pending
  <1>1. PICK p, x, parent : p = job.pcb /\ x = job.program /\ parent = job.parent
    OBVIOUS
  <1>2. /\ job.step = "heap_init" /\ live' = live \union {p} /\ job' = NoJob
        /\ UNCHANGED <<entry, space>>
    BY <1>1 DEF FinishCreate
  <1>3. /\ LoadInv /\ Inv /\ LiveWhole /\ Progress(p) /\ p \in Process /\ p \notin live
        /\ x \in Program /\ space[p].name = x /\ parent \in live \union {Nobody}
    BY <1>1, <1>2, JobOwner DEF MemoryInv, LoadInv, Named, Inv, JobOK
  <1>4. Pending = {r} /\ Pending' = {}
    BY <1>2, NoJobType DEF Pending
  <1>5. \A q \in Process \ {p} : NameOf(q)' = NameOf(q) /\ MemoryOf(q)' = MemoryOf(q)
    <2>1. job # NoJob
      BY <1>2, NoJobType
    <2>2. \A q, w : ~Write(q, w[1], w[2])
      BY <2>1 DEF Write
    <2>3. live' \intersect (Process \ {p}) = live \intersect (Process \ {p})
      BY <1>2
    <2> QED BY <1>3, <2>2, <2>3, OthersSee
  <1>6. Names' = [Names EXCEPT ![p] = x]
    <2>1. NameOf(p)' = x
      BY <1>2, <1>3 DEF NameOf
    <2> QED BY <1>5, <2>1 DEF Names
  <1>7. Contents' = [Contents EXCEPT ![p] = Contents'[p]] /\ Contents'[p] = MemoryOf(p)'
    BY <1>3, <1>5 DEF Contents
  <1>8. \A t \in Table, j \in Entry :
          /\ MemoryOf(p)'[<<t, j>>] = Content(p, t, j)'
          /\ Translate(p, t, j)' = Translate(p, t, j)
    BY <1>2 DEF MemoryOf, Content, Translate
  <1>9. \A t \in HeapFirst..Stack : t \in Table /\ WholeTable(p, t)
    BY <1>1, <1>2, <1>3, ReadyToStart, Constants
  <1>10. ASSUME NEW a \in DOMAIN ImageOf(x)
         PROVE  MemoryOf(p)'[a] = ImageOf(x)[a]
    <2>1. PICK k \in DOMAIN Segments[x] :
            \E n \in FilledPages(Segments[x][k]) : a = <<n \div Entries, n % Entries>>
      BY DEF ImageOf
    <2>2. PICK n \in FilledPages(Segments[x][k]) : a = <<n \div Entries, n % Entries>>
      BY <2>1
    <2>3. n \in ImagePages
      BY <1>3, SegmentsBefore
    <2>4. PICK t, j : t = n \div Entries /\ j = n % Entries
      OBVIOUS
    <2>5. t \in Table /\ j \in Entry /\ n = t * Entries + j
      <3>1. n \in Nat /\ n < HeapFirst * Entries
        BY <2>3, Places
      <3> QED BY <2>3, <2>4, <3>1, Places, ImageTable
    <2>6. ImageOf(x)[a] = <<"image", x, n>>
      <3>1. ImageOf(x)[a] = <<"image", x, a[1] * Entries + a[2]>>
        BY DEF ImageOf
      <3> QED BY <2>2, <2>4, <2>5, <3>1
    <2>7. Loaded(p, x, n)
      BY <1>1, <1>2, <1>3, ReadyToStart DEF LoadedSegments
    <2>8. data'[PageOf(p, n)] = <<"image", x, n>>
      BY <1>1, <1>3, <2>3, <2>7, FinishedData
    <2>9. PageOf(p, n) = Translate(p, t, j) /\ PageOf(p, n) # NotMapped
      BY <2>4, <2>7, Constants DEF PageOf, Loaded
    <2>10. Content(p, t, j)' = data'[PageOf(p, n)]
      BY <1>2, <1>8, <2>5, <2>9 DEF Content
    <2> QED BY <1>8, <2>2, <2>4, <2>5, <2>6, <2>8, <2>10
  <1>11. ASSUME NEW t \in HeapFirst..Stack, NEW j \in Entry
         PROVE  MemoryOf(p)'[<<t, j>>] # <<"nothing">>
    <2>1. Translate(p, t, j) \in Bit /\ Translate(p, t, j) # NotMapped
      BY <1>9, Constants DEF WholeTable
    <2>2. Content(p, t, j)' = data'[Translate(p, t, j)]
      BY <1>2, <1>8, <1>9, <2>1 DEF Content
    <2>3. NothingStored'
      BY NothingStoredKept DEF MemoryInv
    <2> QED BY <1>8, <1>9, <2>1, <2>2, <2>3 DEF NothingStored
  <1>12. ASSUME parent # Nobody, NEW t \in HeapFirst..Stack, NEW j \in Entry
         PROVE  MemoryOf(p)'[<<t, j>>] = Contents[parent][<<t, j>>]
    <2>1. Translate(p, t, j) # NotMapped /\ Translate(parent, t, j) # NotMapped /\ t \in Table
      BY <1>3, <1>9, <1>12, Constants DEF LiveWhole, WholeTable
    <2>2. Content(p, t, j)' = data'[Translate(p, t, j)]
      BY <1>2, <1>8, <2>1 DEF Content
    <2>3. Content(parent, t, j) = data[Translate(parent, t, j)]
      BY <1>3, <1>12, <2>1 DEF Content
    <2>4. data'[Translate(p, t, j)] = data[Translate(parent, t, j)]
      BY <1>1, <1>3, <1>12, FinishedData
    <2>5. parent \in Process
      BY <1>3, <1>12 DEF Inv, Typed
    <2>6. Contents[parent][<<t, j>>] = Content(parent, t, j)
      BY <2>1, <2>5, ContentOf DEF Contents
    <2> QED BY <1>8, <2>1, <2>2, <2>3, <2>4, <2>6
  <1>13. /\ r.pcb = p /\ r.program = x /\ r.parent = parent
    BY <1>1
  <1>14. [y \in Program |-> ImageOf(y)][x] = ImageOf(x)
    BY <1>3
  <1>15. \A a \in (HeapFirst..Stack) \X Entry :
           /\ Contents'[p][a] # <<"nothing">>
           /\ parent # Nobody => Contents'[p][a] = Contents[parent][a]
    BY <1>7, <1>11, <1>12
  <1>16. \A a \in DOMAIN ImageOf(x) : Contents'[p][a] = ImageOf(x)[a]
    BY <1>7, <1>10
  <1>17. r \in Pending /\ live' = live \union {r.pcb}
    BY <1>2, <1>4, <1>13
  <1>18. Names' = [Names EXCEPT ![r.pcb] = r.program]
    BY <1>6, <1>13
  <1>19. Contents' = [Contents EXCEPT ![r.pcb] = Contents'[r.pcb]]
    BY <1>7, <1>13
  <1>20. \A a \in DOMAIN [y \in Program |-> ImageOf(y)][r.program] :
           Contents'[r.pcb][a] = [y \in Program |-> ImageOf(y)][r.program][a]
    BY <1>13, <1>14, <1>16
  <1>21. \A a \in (HeapFirst..Stack) \X Entry : Contents'[r.pcb][a] # <<"nothing">>
    BY <1>13, <1>15
  <1>22. r.parent # Nobody =>
           \A a \in (HeapFirst..Stack) \X Entry : Contents'[r.pcb][a] = Contents[r.parent][a]
    BY <1>13, <1>15
  <1>23. r \in Pending /\ Pending' = {}
    BY <1>4, <1>17
  <1>24. Commons' = Commons
    <2>1. \A q, f : ~WriteKernel(q, f)
      BY <1>2, NoJobType DEF WriteKernel
    <2> QED BY <1>3, <2>1, CommonsStay
  <1>25. AsMemories!Start(r)
    BY <1>17, <1>18, <1>19, <1>20, <1>21, <1>22, <1>23, <1>24
       DEF AsMemories!Start, Names, NameOf, Contents, Commons, Pending
  <1> QED BY <1>17, <1>25

LEMMA KillSeen ==
  ASSUME Inv, [Next]_vars, NEW p \in Process, Kill(p)
  PROVE  AsMemories!End(p)
  <1>1. job = NoJob /\ job' = job /\ p \in live /\ live' = live \ {p}
    BY DEF Kill
  <1>2. \A q, w : ~Write(q, w[1], w[2])
    BY <1>1 DEF Write
  <1>3. \A q \in Process \ {p} : NameOf(q)' = NameOf(q) /\ MemoryOf(q)' = MemoryOf(q)
    <2>1. live' \intersect (Process \ {p}) = live \intersect (Process \ {p})
      BY <1>1
    <2> QED BY <1>2, <2>1, OthersSee
  <1>4. NameOf(p)' = "" /\ MemoryOf(p)' = AsMemories!NoMemory
    BY <1>1 DEF NameOf, MemoryOf, AsMemories!NoMemory
  <1>5. Names' = [Names EXCEPT ![p] = ""]
    BY <1>3, <1>4 DEF Names
  <1>6. Contents' = [Contents EXCEPT ![p] = AsMemories!NoMemory]
    BY <1>3, <1>4 DEF Contents
  <1>7. Pending = {} /\ Pending' = Pending
    BY <1>1, NoJobType DEF Pending
  <1>8. Commons' = Commons
    <2>1. \A q, f : ~WriteKernel(q, f)
      BY <1>1 DEF WriteKernel
    <2> QED BY <2>1, CommonsStay
  <1> QED BY <1>1, <1>5, <1>6, <1>7, <1>8
          DEF AsMemories!End, Names, NameOf, Contents, Commons, Pending

LEMMA StepSeen ==
  ASSUME MemoryInv, [Next]_vars
  PROVE  [AsMemories!Next]_(AsMemories!vars)
  <1>1. Inv /\ job \in JobRecord
    BY DEF MemoryInv, LoadInv, Inv, Typed
  <1>2. CASE UNCHANGED vars
    BY <1>2 DEF vars, AsMemories!vars, MemoryOf, Translate
  <1>3. CASE Panic
    <2>1. halted' # halted /\ UNCHANGED <<job, live>>
      BY <1>1, <1>3 DEF Panic, Inv, Typed
    <2>2. /\ \A p, w : ~Write(p, w[1], w[2])
          /\ \A p, f : ~WriteKernel(p, f)
      BY <2>1 DEF Write, WriteKernel
    <2> QED BY <1>1, <2>1, <2>2, RoundUnseen
  <1>4. CASE \/ AllocatePageDir \/ AllocateTable \/ AllocateTableFrame
             \/ AllocateImageTable \/ AllocateImagePage \/ CopyImagePage
    <2>1. job.step # "idle" /\ job # NoJob /\ live' = live
      BY <1>4, NoJobType DEF AllocatePageDir, AllocateTable, AllocateTableFrame,
         AllocateImageTable, AllocateImagePage, CopyImagePage
    <2>2. /\ \A p, w : ~Write(p, w[1], w[2])
          /\ \A p, f : ~WriteKernel(p, f)
      BY <2>1 DEF Write, WriteKernel
    <2>3. /\ job'.step # "idle" /\ job'.pcb = job.pcb /\ job'.program = job.program
          /\ job'.parent = job.parent
      BY <1>1, <1>4 DEF AllocatePageDir, AllocateTable, AllocateTableFrame,
         AllocateImageTable, AllocateImagePage, CopyImagePage, JobRecord
    <2> QED BY <1>1, <2>1, <2>2, <2>3, RoundUnseen
  <1>5. ASSUME NEW p \in Process, NEW x \in Program, Create(p, x)
        PROVE  AsMemories!Next
    BY <1>1, <1>5, CreateSeen DEF AsMemories!Next
  <1>6. ASSUME NEW p \in Process, NEW parent \in Process, Fork(p, parent)
        PROVE  AsMemories!Next
    BY <1>1, <1>6, ForkSeen DEF AsMemories!Next
  <1>7. CASE FinishCreate
    <2>1. PICK r : r = [pcb |-> job.pcb, program |-> job.program, parent |-> job.parent]
      OBVIOUS
    <2>2. AsMemories!Start(r) /\ r \in Pending
      BY <1>7, <2>1, FinishCreateSeen
    <2> QED BY <2>2 DEF AsMemories!Next, Pending
  <1>8. ASSUME NEW p \in Process, Kill(p) PROVE AsMemories!Next
    BY <1>1, <1>8, KillSeen DEF AsMemories!Next
  <1>9. ASSUME NEW p \in Process, NEW w \in Writable, Write(p, w[1], w[2])
        PROVE  AsMemories!Next
    <2>1. w \in Table \X Entry
      BY AddressSpacesAssumption
    <2> QED BY <1>9, <2>1, WriteSeen DEF AsMemories!Next
  <1>10. ASSUME NEW p \in Process, NEW f \in KernelFrames, WriteKernel(p, f)
         PROVE  AsMemories!Next
    BY <1>1, <1>10, WriteKernelSeen DEF AsMemories!Next
  <1> QED BY <1>2, <1>3, <1>4, <1>5, <1>6, <1>7, <1>8, <1>9, <1>10 DEF Next, Creation, Stopped

LEMMA InitSeen ==
  ASSUME Init
  PROVE  MemoryInv /\ AsMemories!Init
  <1>1. live = {} /\ job.step = "idle"
    BY NoJobType DEF Init
  <1>2. Named /\ NothingStored
    <2>1. Junk # <<"nothing">>
      BY DEF Junk
    <2> QED BY <1>1, <2>1 DEF Init, Named, NothingStored
  <1>3. AsMemories!Init
    BY <1>1 DEF AsMemories!Init, AsMemories!NoMemory, MemoryOf
  <1> QED BY <1>2, <1>3, InitLoadInv DEF MemoryInv

\* Every process has a private memory, that holds its program's image at the
\* start and, after a fork, its parent's stack and heap, and that only its own
\* writes change, and the kernel's heap and file system in common with all
\* others, that any of them may overwrite: all that paging.cpp, process.cpp,
\* elf_loader.cpp and sys_call_fork do with frames, tables and kernel slots
\* implements no more.
THEOREM IsolatedMemoriesHolds == Spec => IsolatedMemories
  <1>1. Init => MemoryInv /\ AsMemories!Init
    BY InitSeen
  <1>2. MemoryInv /\ [Next]_vars => MemoryInv'
    BY LoadInvKept, NamedKept, NothingStoredKept DEF MemoryInv, LoadInv
  <1>3. MemoryInv /\ [Next]_vars => [AsMemories!Next]_(AsMemories!vars)
    BY StepSeen
  <1> QED BY <1>1, <1>2, <1>3, PTL DEF Spec, IsolatedMemories, AsMemories!Spec
=============================================================================
