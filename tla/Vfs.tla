------------------------------- MODULE Vfs --------------------------------
(***************************************************************************)
(* The pseudo-FAT12 file system of kernel/src/fs/vfs.cpp and its callers   *)
(* in the system calls and in print_to_stream.                             *)
(*                                                                         *)
(* Every call runs to its end with interrupts off, so a call is one step.  *)
(* A cell of the disk stands for a byte of a file, for a part of a root    *)
(* directory entry, or for a part of the directory's file count; the       *)
(* geometry (cells of a cluster, of an entry, of the count) is scaled.     *)
(* The cells of a cluster are blank when it is free: no call reads what a  *)
(* free cluster held.                                                      *)
(***************************************************************************)
EXTENDS Integers, Sequences, FiniteSets, SequencesExt, FiniteSetsExt

CONSTANTS
  File,              \* file names, already cut to FILE_NAME_LEN
  Stream,            \* those of them that are a terminal's stdout file
  Buffer,            \* what a process may append, insert or print
  Offset,            \* where it may write
  Newline,           \* what addNewline prints
  DefaultFiles,      \* <<name, contents>> of the files fs_init creates
  CLUSTER_COUNT, CLUSTER_SIZE,
  ENTRY_SIZE,        \* sizeof(file_t), in cells
  COUNT_SIZE,        \* sizeof(uint32_t) of root->file_count, in cells
  EOF_CLUSTER, FREE_CLUSTER, TAKEN_CLUSTER,
  MAX_SHELL_FILE_SIZE,
  WORD,              \* number of values of a uint32_t, scaled
  MaxCalls           \* bound on the length of a behaviour

ASSUME Geometry ==
  /\ {CLUSTER_COUNT, ENTRY_SIZE, COUNT_SIZE, WORD} \subseteq Nat \ {0}
  /\ {EOF_CLUSTER, FREE_CLUSTER, TAKEN_CLUSTER} \subseteq Nat \ {0}
  /\ EOF_CLUSTER # FREE_CLUSTER /\ EOF_CLUSTER # TAKEN_CLUSTER /\ FREE_CLUSTER # TAKEN_CLUSTER
  /\ {CLUSTER_SIZE, MAX_SHELL_FILE_SIZE, MaxCalls} \union Offset \subseteq Nat
  /\ COUNT_SIZE + ENTRY_SIZE <= CLUSTER_SIZE
  /\ CLUSTER_COUNT * CLUSTER_SIZE < WORD \div 2

ASSUME Names ==
  /\ IsFiniteSet(File) /\ Stream \subseteq File
  /\ \A text \in Buffer \union {Newline} : Len(text) \in Nat
  /\ Len(DefaultFiles) \in Nat
  /\ \A i \in 1 .. Len(DefaultFiles) :
       DefaultFiles[i][1] \in File /\ Len(DefaultFiles[i][2]) \in Nat

VARIABLES
  fs,      \* the cluster table, the clusters, and whether the kernel is up
  eax,     \* what the last call returned
  done,    \* the last call and its arguments: history, no call reads it
  calls    \* number of calls so far

vars == <<fs, eax, done, calls>>

(* The marks of the cluster table, and the clusters that can be told from  *)
(* them. A table of 0xFFF entries has two more, with the numbers 0xFFD and *)
(* 0xFFE (vfs.h:8): they count as free, and what happens when one of them  *)
(* is given out, once all others are, is not modelled.                     *)
Mark == {EOF_CLUSTER, FREE_CLUSTER, TAKEN_CLUSTER}
Cluster == {c \in 0 .. CLUSTER_COUNT - 1 : \A m \in Mark : c < m}
Beyond == (0 .. CLUSTER_COUNT - 1) \ Cluster

Nowhere == -1
Root == 0
MAX_FILES_IN_FIRST_CLUSTER == (CLUSTER_SIZE - COUNT_SIZE) \div ENTRY_SIZE
MAX_FILES_IN_ONE_CLUSTER == CLUSTER_SIZE \div ENTRY_SIZE

Blank == <<"blank">>
Garbage == <<"garbage">>
Up(s) == s.state = "up"

---------------------------------------------------------------------------
(* Clusters and chains *)

get_cluster_count_needed(size) == (size + CLUSTER_SIZE - 1) \div CLUSTER_SIZE

FreeClusters(s) == {c \in Cluster : s.fat[c] = FREE_CLUSTER}

exists_n_free_clusters(s, n) == Cardinality(FreeClusters(s)) + Cardinality(Beyond) >= n

Follows(fat, c) == c \in Cluster /\ fat[c] \in Cluster \ {EOF_CLUSTER, FREE_CLUSTER}

(* The clusters from c on, as far as the links lead; in a circle, some of  *)
(* them more than once.                                                    *)
Path(fat, c) ==
  LET path[k \in 0 .. CLUSTER_COUNT] ==
        [b \in Cluster \union {c} |->
           IF k > 0 /\ Follows(fat, b) THEN <<b>> \o path[k - 1][fat[b]] ELSE <<b>>]
  IN  path[CLUSTER_COUNT][c]

(* The clusters with data from c up to the one marked EOF, if there is one. *)
UpToEOF(s, p) ==
  IF Last(p) \in Cluster /\ s.fat[Last(p)] = EOF_CLUSTER THEN Front(p) ELSE <<Nowhere>>

Chain(s, c) == UpToEOF(s, Path(s.fat, c))

(* The n lowest free clusters, or all when there are fewer *)
LowestFree(s, n) ==
  LET free == FreeClusters(s)
      taken[k \in 0 .. n] ==
        IF k = 0 THEN <<>>
        ELSE LET t == taken[k - 1]
                 left == free \ Range(t)
             IN  IF left = {} THEN t ELSE Append(t, Min(left))
  IN  taken[n]

(* Link n clusters after the cluster last, the lowest free one each time;  *)
(* the final one ends the chain.                                           *)
Grow(s, last, n) ==
  LET p == <<last>> \o LowestFree(s, n)
      linked == Range(p)
      i(c) == CHOOSE i \in DOMAIN p : p[i] = c
  IN  IF Len(p) <= n
        THEN [s EXCEPT !.state = IF exists_n_free_clusters(s, n) THEN "undefined" ELSE "panic"]
      ELSE [s EXCEPT !.fat = [c \in DOMAIN s.fat |->
              IF c \notin linked THEN s.fat[c]
              ELSE IF c = Last(p) THEN EOF_CLUSTER ELSE p[i(c) + 1]]]

Cells(a, n) == a .. a + n - 1
At(c) == c * CLUSTER_SIZE

(* The end of a directory entry that began in the cluster before: such a   *)
(* cell stays, it may be the only copy.                                    *)
Spilt(s, a) ==
  /\ s.disk[a][1] = "entry"
  /\ (a - s.disk[a][3] + 1) \div CLUSTER_SIZE # a \div CLUSTER_SIZE

Free(s, clusters) ==
  [s EXCEPT !.fat = [c \in DOMAIN s.fat |->
                       IF c \in clusters THEN FREE_CLUSTER ELSE s.fat[c]],
            !.disk = [a \in DOMAIN s.disk |->
                        IF (\E c \in clusters : a \in Cells(At(c), CLUSTER_SIZE)) /\ ~Spilt(s, a)
                          THEN Blank ELSE s.disk[a]]]

(* The start cluster stays taken. *)
free_all_occupied_clusters(s, start) ==
  LET p == Path(s.fat, start)
  IN  IF Len(p) = 1 \/ s.fat[Last(p)] = TAKEN_CLUSTER THEN [s EXCEPT !.state = "undefined"]
      ELSE Free(s, Range(Tail(p)))

(* memcpy to the disk *)
Poke(s, a, data) ==
  [s EXCEPT !.disk = [x \in DOMAIN s.disk |->
     IF x \in Cells(a, Len(data)) THEN data[x - a + 1] ELSE s.disk[x]]]

(* The place of the j-th cell of a sequence of clusters *)
Place(clusters, j) ==
  At(clusters[(j - 1) \div CLUSTER_SIZE + 1]) + ((j - 1) % CLUSTER_SIZE)

PeekAll(s, clusters) ==
  [j \in 1 .. Len(clusters) * CLUSTER_SIZE |-> s.disk[Place(clusters, j)]]

(* memcpy to one cluster after the other *)
PokeAll(s, clusters, data) ==
  [s EXCEPT !.disk = [x \in DOMAIN s.disk |->
     LET here == {i \in DOMAIN clusters : x \in Cells(At(clusters[i]), CLUSTER_SIZE)}
         i == CHOOSE i \in here : TRUE
         j == (i - 1) * CLUSTER_SIZE + x - At(clusters[i]) + 1
     IN  IF here # {} /\ j \in DOMAIN data THEN data[j] ELSE s.disk[x]]]

---------------------------------------------------------------------------
(* The root directory: a sequence of entries, kept in its own chain *)

(* Where the i-th entry is: the last cluster takes all that remain. *)
Slot(clusters, i) ==
  IF i <= MAX_FILES_IN_FIRST_CLUSTER
    THEN At(Root) + COUNT_SIZE + (i - 1) * ENTRY_SIZE
    ELSE LET k == i - MAX_FILES_IN_FIRST_CLUSTER - 1
             q == Min({k \div MAX_FILES_IN_ONE_CLUSTER, Len(clusters) - 2})
         IN  At(clusters[q + 2]) + (k - q * MAX_FILES_IN_ONE_CLUSTER) * ENTRY_SIZE

(* How many of n entries are in the last cluster, whether they fit, and    *)
(* whether with any number up to n the last of them begins there: with the *)
(* sizes of vfs.h seven and nine entries do not fit, and the tenth begins  *)
(* behind. RoomForEntry is the bound before it.                             *)
InLast(n) ==
  n - MAX_FILES_IN_FIRST_CLUSTER
    - (get_cluster_count_needed(COUNT_SIZE + n * ENTRY_SIZE) - 2) * MAX_FILES_IN_ONE_CLUSTER
Spills(n) == n > MAX_FILES_IN_FIRST_CLUSTER /\ InLast(n) * ENTRY_SIZE > CLUSTER_SIZE
RoomFor(n) ==
  \A m \in 1 .. n :
    m > MAX_FILES_IN_FIRST_CLUSTER => (InLast(m) - 1) * ENTRY_SIZE < CLUSTER_SIZE

ASSUME BootFits == RoomFor(Len(DefaultFiles) + Cardinality(Stream))

(* What load_root_folder finds; only an intact directory can be used. *)
Count(s) == s.disk[At(Root)][2]
IntactIn(s, clusters) ==
  /\ Up(s)
  /\ s.disk[At(Root)][1] = "count"
  /\ clusters # <<>> /\ Last(clusters) # Nowhere
  /\ (Count(s) <= MAX_FILES_IN_FIRST_CLUSTER) => Len(clusters) = 1
  /\ (Count(s) > MAX_FILES_IN_FIRST_CLUSTER) => Len(clusters) > 1
  /\ \A i \in 1 .. Count(s) :
       LET a == Slot(clusters, i)
       IN  /\ s.disk[a][1] = "entry"
           /\ \A k \in 1 .. ENTRY_SIZE :
                s.disk[a + k - 1] = <<"entry", s.disk[a][2], k>>

Intact(s) == IntactIn(s, Chain(s, Root))

(* A kernel whose directory is broken does something the code does not say. *)
Checked(s) == IF Up(s) /\ ~Intact(s) THEN [s EXCEPT !.state = "undefined"] ELSE s

load_root_folder(s) ==
  LET clusters == Chain(s, Root)
  IN  [i \in 1 .. Count(s) |-> s.disk[Slot(clusters, i)][2]]

(* What is written where: an entry may overwrite the end of one before it. *)
Directory(slots, files, x, old) ==
  LET written == {i \in DOMAIN files : x \in Cells(slots[i], ENTRY_SIZE)}
      i == CHOOSE i \in written : \A j \in written : j <= i
  IN  IF written # {} THEN <<"entry", files[i], x - slots[i] + 1>>
      ELSE IF x \in Cells(At(Root), COUNT_SIZE) THEN <<"count", Len(files)>> ELSE old

(* The directory's entries, written to the clusters of its chain *)
WriteEntries(s, clusters, files) ==
  LET slots == [i \in DOMAIN files |-> Slot(clusters, i)]
  IN  IF ~Up(s) THEN s
      ELSE Checked([s EXCEPT !.disk =
                      [x \in DOMAIN s.disk |-> Directory(slots, files, x, s.disk[x])]])

WriteRoot(s, files) == WriteEntries(s, Chain(s, Root), files)

save_root_folder(s, files) ==
  LET needed == get_cluster_count_needed(COUNT_SIZE + Len(files) * ENTRY_SIZE)
  IN  IF ~Up(s) THEN s
      ELSE IF ~exists_n_free_clusters(s, needed) THEN [s EXCEPT !.state = "panic"]
      ELSE WriteRoot(Grow(s, Root, needed), files)

exists_file(s, f) == \E e \in Range(load_root_folder(s)) : e.name = f
Index(files, f) == CHOOSE i \in DOMAIN files : files[i].name = f
get_file(s, f) == LET files == load_root_folder(s) IN files[Index(files, f)]

(* free_all_occupied_clusters(ROOT_FIRST_START_CLUSTER); save_root_folder() *)
Restore(s, files) == save_root_folder(free_all_occupied_clusters(s, Root), files)

(* The entry e takes the place of the one of the same name. *)
Update(s, e) ==
  LET files == load_root_folder(s)
  IN  Restore(s, [files EXCEPT ![Index(files, e.name)] = e])

---------------------------------------------------------------------------
(* The operations of the file system *)

(* With fewer than two free clusters create_file does nothing. *)
create_file(s, f) ==
  LET c == Min(FreeClusters(s))
      t == Grow([s EXCEPT !.fat[c] = TAKEN_CLUSTER], c, 1)
      e == [name |-> f, start |-> c, size |-> 0, open |-> FALSE, system |-> FALSE]
  IN  IF ~exists_n_free_clusters(s, 2) THEN Restore(s, load_root_folder(s))
      ELSE IF FreeClusters(s) = {} THEN [s EXCEPT !.state = "undefined"]
      ELSE Restore(t, Append(load_root_folder(s), e))

\* Mutant: does not look for the name.
touch_again(s, f) == create_file(s, f)

touch(s, f) == IF exists_file(s, f) THEN s ELSE create_file(s, f)

\* Mutant: the start cluster of the file stays taken.
delete_file_but_start(s, f) ==
  LET files == load_root_folder(s)
  IN  Restore(free_all_occupied_clusters(s, get_file(s, f).start),
              RemoveAt(files, Index(files, f)))

\* Mutant: the start cluster of the file is marked with -1, like an unset link.
delete_file_unlinked(s, f) ==
  LET files == load_root_folder(s)
      e == get_file(s, f)
      t == free_all_occupied_clusters(s, e.start)
  IN  Restore([t EXCEPT !.fat[e.start] = Nowhere], RemoveAt(files, Index(files, f)))

\* Mutant: takes the last entry of the directory, whatever its name.
delete_last_file(s, f) ==
  LET files == load_root_folder(s)
      e == Last(files)
      t == Free(free_all_occupied_clusters(s, e.start), {e.start})
  IN  Restore(t, Front(files))

delete_file(s, f) ==
  LET files == load_root_folder(s)
      e == get_file(s, f)
      t == Free(free_all_occupied_clusters(s, e.start), {e.start})
  IN  Restore(t, RemoveAt(files, Index(files, f)))

CanRemove(s, f) == exists_file(s, f) /\ ~get_file(s, f).system
rm(s, f) == IF CanRemove(s, f) THEN delete_file(s, f) ELSE s

\* Mutant: does not look whether there are clusters enough.
append_unchecked(s, e, data, bytes) ==
  LET last == Last(Chain(s, e.start))
      offset == e.size % CLUSTER_SIZE
      here == Min({bytes, CLUSTER_SIZE - offset})
      t == Poke(s, At(last) + offset, SubSeq(data, 1, Min({here, Len(data)})))
      u == Grow([t EXCEPT !.fat[t.fat[last]] = FREE_CLUSTER], last,
                get_cluster_count_needed(bytes - here) + 1)
  IN  IF bytes <= here THEN Update(t, [e EXCEPT !.size = e.size + here])
      ELSE IF ~Up(u) THEN u
      ELSE Update(PokeAll(u, Tail(Chain(u, last)), SubSeq(data, here + 1, bytes)),
                  [e EXCEPT !.size = e.size + bytes])

\* Mutant: starts at the beginning of the last cluster.
append_over(s, e, data, bytes) ==
  LET here == Min({bytes, CLUSTER_SIZE})
      t == Poke(s, At(Last(Chain(s, e.start))), SubSeq(data, 1, Min({here, Len(data)})))
  IN  Update(t, [e EXCEPT !.size = e.size + here])

(* What does not fit into a file's last cluster, written to new ones.      *)
Spill(s, last, data, count) ==
  LET u == Grow([s EXCEPT !.fat[s.fat[last]] = FREE_CLUSTER], last, count + 1)
  IN  PokeAll(u, Tail(Chain(u, last)), data)

(* The first bytes cells of data behind the file's: what fits into the     *)
(* last cluster, then new clusters.  Without enough clusters the first     *)
(* part is on the disk and the directory is not saved.                     *)
AppendTo(s, e, data, bytes) ==
  LET last == Last(Chain(s, e.start))
      offset == e.size % CLUSTER_SIZE
      here == Min({bytes, CLUSTER_SIZE - offset})
      t == Poke(s, At(last) + offset,
                [j \in 1 .. here |-> IF j \in DOMAIN data THEN data[j] ELSE Garbage])
      needed == get_cluster_count_needed(bytes - here)
      w == Spill(t, last, SubSeq(data, here + 1, bytes), needed)
  IN  IF bytes <= here THEN Update(t, [e EXCEPT !.size = e.size + here])
      ELSE IF ~exists_n_free_clusters(t, needed) THEN t
      ELSE Update(w, [e EXCEPT !.size = e.size + bytes])

append_data(s, f, data, bytes) ==
  LET e == get_file(s, f)
  IN  IF ~Up(s) THEN s
      ELSE IF ~Intact(s) \/ ~exists_file(s, f) \/ Nowhere \in Range(Chain(s, e.start))
        THEN [s EXCEPT !.state = "undefined"]
      ELSE AppendTo(s, e, data, bytes)

\* Mutant: the clusters behind the cut stay in the chain.
insert_uncut(s, f, data, offset) ==
  LET e == get_file(s, f)
      t == Update(s, [e EXCEPT !.size = offset])
      kept == PeekAll(t, Chain(t, e.start))
      length == e.size - offset
  IN  append_data(append_data(t, f, data, Len(data)),
                  f, SubSeq(kept, offset + 1, offset + length), length)

(* Cut the file at the offset, keep the tail, append the data, then append *)
(* the tail.  The cluster after the cut becomes the end of the chain.      *)
CutIn(t, f, e, data, offset) ==
  LET clusters == Chain(t, e.start)
      start == offset \div CLUSTER_SIZE
      behind == SubSeq(clusters, start + 2, Len(clusters))
      kept == PeekAll(t, SubSeq(clusters, start + 1, Len(clusters)))
      tmp_buff == SubSeq(kept, (offset % CLUSTER_SIZE) + 1, Len(kept))
      cut == IF behind = <<>> THEN t
             ELSE Free([t EXCEPT !.fat[behind[1]] = EOF_CLUSTER], Range(Tail(behind)))
      length == (Len(tmp_buff) - (CLUSTER_SIZE - (e.size % CLUSTER_SIZE))) % WORD
  IN  IF start >= Len(clusters) \/ Nowhere \in Range(clusters)
        THEN [t EXCEPT !.state = "undefined"]
        ELSE append_data(append_data(cut, f, data, Len(data)), f, tmp_buff, length)

insert(s, f, data, offset) ==
  LET e == get_file(s, f)
  IN  CutIn(Update(s, [e EXCEPT !.size = offset]), f, e, data, offset)

write(s, f, data, offset) ==
  LET size == get_file(s, f).size
  IN  IF offset > size THEN s
      ELSE IF offset = size THEN append_data(s, f, data, Len(data))
      ELSE IF ~exists_n_free_clusters(s, get_cluster_count_needed(size + Len(data))) THEN s
      ELSE insert(s, f, data, offset)

(* The sizes cp may find through src_file, which points into a directory   *)
(* it has freed: the source's own, or, when the destination was deleted    *)
(* and the directory is loaded to the same place, the entry's that has the *)
(* source's index now.                                                     *)
StaleSizes(before, after, src) ==
  LET i == Index(load_root_folder(before), src)
      now == load_root_folder(after)
  IN  {get_file(before, src).size} \union {now[j].size : j \in {i} \intersect DOMAIN now}

\* Mutant: the new file keeps its size, 0.
cp_without_size(s, src, des, checked, stored) ==
  LET e == get_file(s, des)
      source == Chain(s, get_file(s, src).start)
      u == Grow([s EXCEPT !.fat[s.fat[e.start]] = FREE_CLUSTER], e.start, Len(source))
  IN  IF ~exists_n_free_clusters(s, get_cluster_count_needed(checked)) THEN s
      ELSE IF ~exists_file(s, des) \/ Nowhere \in Range(source)
        THEN [s EXCEPT !.state = "undefined"]
      ELSE IF ~Up(u) THEN u
      ELSE PokeAll(u, Chain(u, e.start), PeekAll(u, source))

(* Cluster by cluster, from one start to the other *)
CopyOver(t, from, to) ==
  LET source == Chain(t, from)
      u == Grow([t EXCEPT !.fat[t.fat[to]] = FREE_CLUSTER], to, Len(source))
  IN  IF Nowhere \in Range(source) THEN [t EXCEPT !.state = "undefined"]
      ELSE IF ~Up(u) THEN u
      ELSE PokeAll(u, Chain(u, to), PeekAll(u, source))

cp(s, src, des, checked, stored) ==
  LET e == get_file(s, des)
  IN  IF ~exists_n_free_clusters(s, get_cluster_count_needed(checked)) THEN s
      ELSE IF ~exists_file(s, des) THEN [s EXCEPT !.state = "undefined"]
      ELSE CopyOver(Update(s, [e EXCEPT !.size = stored]), get_file(s, src).start, e.start)

(* The bytes read and cat return for a file *)
Contents(s, f) ==
  LET e == get_file(s, f)
      clusters == Chain(s, e.start)
      cells == IF Nowhere \in Range(clusters) THEN <<>> ELSE PeekAll(s, clusters)
  IN  [j \in 1 .. e.size |-> IF j \in DOMAIN cells THEN cells[j] ELSE Garbage]

---------------------------------------------------------------------------
(* The calls *)

Ready == calls < MaxCalls /\ Intact(fs)

(* Bound: a call that makes a file finds room for its entry. *)
RoomForEntry(f) == exists_file(fs, f) \/ RoomFor(Count(fs) + 1)

Call(s, result, call) ==
  /\ fs' = Checked(s)
  /\ eax' = result
  /\ done' = call
  /\ calls' = calls + 1

Touch(f) ==
  /\ Ready /\ RoomForEntry(f)
  /\ Call(touch(fs, f), IF exists_file(fs, f) THEN 1 ELSE 0, [of |-> "touch", file |-> f])

Rm(f) ==
  /\ Ready
  /\ Call(rm(fs, f), IF CanRemove(fs, f) THEN 0 ELSE 1, [of |-> "rm", file |-> f])

(* sys_call_file_append writes at the size the file had before, which is   *)
(* its size also after touch: the write is an append, and its result 0.    *)
FileAppend(f, data) ==
  LET t == touch(fs, f)
      call == [of |-> "append", file |-> f, data |-> data]
  IN  /\ Ready /\ RoomForEntry(f)
      /\ IF Intact(t) /\ exists_file(t, f)
           THEN Call(append_data(t, f, data, Len(data)), 0, call)
           ELSE Call(t, 1, call)

(* sys_call_write for a process that has the file in its list of open ones *)
Write(f, data, offset) ==
  /\ Ready /\ exists_file(fs, f)
  /\ LET size == get_file(fs, f).size
         room == exists_n_free_clusters(fs, get_cluster_count_needed(size + Len(data)))
     IN  Call(write(fs, f, data, offset),
              IF offset > size \/ (offset < size /\ ~room) THEN 1 ELSE 0,
              [of |-> "write", file |-> f, data |-> data, offset |-> offset])

CpRefused(src, des) ==
  /\ Ready /\ (src = des \/ ~exists_file(fs, src))
  /\ Call(fs, 1, [of |-> "cp", file |-> des, src |-> src])

Cp(src, des) ==
  LET t == touch(rm(fs, des), des)
      call == [of |-> "cp", file |-> des, src |-> src]
  IN  /\ Ready /\ RoomForEntry(des) /\ src # des /\ exists_file(fs, src)
      /\ IF ~Intact(t) THEN Call(t, 1, call)
         ELSE \E checked, stored \in StaleSizes(fs, t, src) :
                Call(cp(t, src, des, checked, stored),
                     IF exists_n_free_clusters(t, get_cluster_count_needed(checked))
                       THEN 0 ELSE 1, call)

(* open_file and close_file, for a process or at its death *)
SetOpen(f, open) ==
  LET call == [of |-> IF open THEN "open" ELSE "close", file |-> f]
  IN  /\ Ready
      /\ IF exists_file(fs, f) /\ get_file(fs, f).open # open
           THEN Call(Update(fs, [get_file(fs, f) EXCEPT !.open = open]), 0, call)
           ELSE Call(fs, 1, call)

(* set_as_system_file of a closed file *)
AsSystem(s, f) ==
  IF ~Up(s) \/ ~exists_file(s, f) THEN [s EXCEPT !.state = IF Up(s) THEN "undefined" ELSE @]
  ELSE Update(s, [get_file(s, f) EXCEPT !.system = TRUE])

\* Mutant: the shortened file is no longer a system file.
shorten_as_user_file(s, f) ==
  LET text == Contents(s, f)
      kept == SubSeq(text, Len(text) - MAX_SHELL_FILE_SIZE + 1, Len(text))
  IN  IF ~Intact(s) \/ Len(text) < MAX_SHELL_FILE_SIZE THEN s
      ELSE append_data(touch(delete_file(s, f), f), f, kept, Len(kept))

(* print_to_stream: append, then keep only the end of a long file *)
Shorten(s, f) ==
  LET text == Contents(s, f)
      kept == SubSeq(text, Len(text) - MAX_SHELL_FILE_SIZE + 1, Len(text))
  IN  IF ~Intact(s) \/ Len(text) < MAX_SHELL_FILE_SIZE THEN s
      ELSE append_data(AsSystem(touch(delete_file(s, f), f), f), f, kept, Len(kept))

WithNewline(s, f, newline, offset) ==
  IF newline /\ Intact(s) THEN write(s, f, Newline, offset) ELSE s

PrintToStream(f, data, newline) ==
  LET size == get_file(fs, f).size
      t == WithNewline(write(fs, f, data, size), f, newline, size + Len(data))
  IN  /\ Ready /\ exists_file(fs, f)
      /\ Call(Shorten(t, f), 0,
              [of |-> "print", file |-> f, data |-> data \o (IF newline THEN Newline ELSE <<>>),
               newline |-> newline])

(* fs_init and the stdout files of init_process_scheduler *)
Empty == [fat |-> [c \in Cluster |-> IF c = Root THEN TAKEN_CLUSTER ELSE FREE_CLUSTER],
          disk |-> [a \in 0 .. At(CLUSTER_COUNT + 1) - 1 |-> Blank],
          state |-> "up"]

DefaultFile(s, f, text) == append_data(touch(s, f), f, text, Len(text))

create_default_files(s) ==
  LET made[i \in 0 .. Len(DefaultFiles)] ==
        IF i = 0 THEN s
        ELSE DefaultFile(made[i - 1], DefaultFiles[i][1], DefaultFiles[i][2])
  IN  made[Len(DefaultFiles)]

StreamFile(s, f) == AsSystem(touch(s, f), f)

MakeStreams(s) ==
  LET streams == SetToSeq(Stream)
      made[i \in 0 .. Len(streams)] ==
        IF i = 0 THEN s ELSE StreamFile(made[i - 1], streams[i])
  IN  made[Len(streams)]

fs_init == MakeStreams(create_default_files(save_root_folder(Empty, <<>>)))

Init ==
  /\ fs = fs_init
  /\ eax = 0
  /\ done = [of |-> "fs_init"]
  /\ calls = 0

Next ==
  \/ \E f \in File : Touch(f) \/ Rm(f)
  \/ \E f \in File, open \in BOOLEAN : SetOpen(f, open)
  \/ \E f \in File, data \in Buffer : FileAppend(f, data)
  \/ \E f \in File, data \in Buffer, offset \in Offset : Write(f, data, offset)
  \/ \E src, des \in File : Cp(src, des) \/ CpRefused(src, des)
  \/ \E f \in Stream, data \in Buffer, newline \in BOOLEAN : PrintToStream(f, data, newline)

Spec == Init /\ [][Next]_vars

---------------------------------------------------------------------------
(* Properties *)

(* The clusters of a chain, the one that marks its end included *)
Owned(s, start) ==
  LET clusters == Chain(s, start)
  IN  Range(clusters) \union {s.fat[IF clusters = <<>> THEN start ELSE Last(clusters)]}

Starts(s) == {Root} \union {e.start : e \in Range(load_root_folder(s))}

Lost(s) == Cluster \ (FreeClusters(s) \union UNION {Owned(s, c) : c \in Starts(s)})

FlagsOf(s, f) ==
  IF exists_file(s, f) THEN LET e == get_file(s, f) IN <<e.open, e.system>> ELSE <<>>

SizeOf(s, f) == IF exists_file(s, f) THEN get_file(s, f).size ELSE 0
BytesOf(s, f) == IF exists_file(s, f) THEN Contents(s, f) ELSE <<>>

(* The bytes are the text, but where the end of a directory entry lies on  *)
(* them. That happens while some number of files the call goes through is  *)
(* one whose entries do not fit into the directory's clusters.             *)
Spilling == \E n \in Count(fs) - 1 .. Count(fs) + 1 : Spills(n)
EndOfEntry(cell) == cell[1] = "entry" /\ cell[3] > 1
Reads(bytes, text) ==
  /\ Len(bytes) = Len(text)
  /\ \A j \in DOMAIN text :
       bytes[j] # text[j] => Spilling /\ EndOfEntry(bytes[j])

EndsFull(n) == n > 0 /\ n % CLUSTER_SIZE = 0

(* The file has the clusters its size needs. *)
Fits(s, f) ==
  exists_file(s, f) =>
    LET e == get_file(s, f)
    IN  Len(Chain(s, e.start)) = Max({1, get_cluster_count_needed(e.size)})

Regular(s, f) == Fits(s, f) /\ ~EndsFull(SizeOf(s, f))

(* This step is the call named, it returned 0 and the kernel is still up. *)
Did(call) == calls' # calls /\ done'.of = call /\ eax' = 0 /\ Up(fs')

TypeOK ==
  /\ fs.fat \in [Cluster -> Cluster \union Mark]
  /\ DOMAIN fs.disk = 0 .. At(CLUSTER_COUNT + 1) - 1
  /\ fs.state \in {"up", "panic", "undefined"}
  /\ eax \in {0, 1}
  /\ calls \in 0 .. MaxCalls

(* Between two calls every name of the directory is unique, and the chains *)
(* of the directory and of the files end, hold no free cluster and share   *)
(* no cluster: vfs.cpp:96, 138 and every caller of get_free_cluster.       *)
ChainsAreSeparate ==
  Intact(fs) =>
    LET files == load_root_folder(fs)
    IN  /\ \A c \in Starts(fs) : Owned(fs, c) \subseteq Cluster \ FreeClusters(fs)
        /\ \A c, d \in Starts(fs) : c # d => Owned(fs, c) \intersect Owned(fs, d) = {}
        /\ \A i, j \in DOMAIN files : i # j =>
             files[i].name # files[j].name /\ files[i].start # files[j].start
        /\ Root \notin {e.start : e \in Range(files)}

(* A call changes the bytes and the flags of no file but the one it names, *)
(* although every call that changes a file frees the directory's clusters  *)
(* and writes it anew among the files': save_root_folder, vfs.cpp:181. The *)
(* one thing it may do to another file is to lay the end of the last entry *)
(* on it, with as many files as do not fit (vfs.cpp:238), seven or nine.   *)
Isolation ==
  [][Up(fs) /\ Up(fs') =>
       \A f \in File \ {done'.file} :
         FlagsOf(fs', f) = FlagsOf(fs, f) /\ Reads(BytesOf(fs', f), BytesOf(fs, f))]_vars

(* save_root_folder is to have "the total number of clusters needed to     *)
(* store the root dir" (vfs.cpp:182), and so to write into no file's.      *)
DirectoryKeepsToItself ==
  [][Up(fs) /\ Up(fs') =>
       \A f \in File \ {done'.file} : BytesOf(fs', f) = BytesOf(fs, f)]_vars

(* A cluster in use that no chain reaches is lost until the next boot. No  *)
(* call loses one but an insertion, which loses the old end of the chain   *)
(* (vfs.cpp:968), and a copy onto a system file, which loses that file's   *)
(* clusters (vfs.cpp:712).                                                 *)
ClustersAreReturned ==
  [][Up(fs') /\ ~(Lost(fs') \subseteq Lost(fs)) =>
       \/ Did("write") /\ Cardinality(Lost(fs') \ Lost(fs)) = 1
       \/ Did("cp") /\ exists_file(fs, done'.file) /\ ~CanRemove(fs, done'.file)]_vars

(* An append leaves the old bytes and adds the new ones, or, without the   *)
(* clusters for them, leaves the file as it was (append_data, vfs.cpp:573).*)
(* A file whose last cluster is full is excepted, see AppendAlwaysAppends, *)
(* and, as everywhere below, bytes that the directory writes over.         *)
Appended == BytesOf(fs, done'.file) \o done'.data
AppendAppends ==
  [][Did("append") /\ Regular(fs, done'.file) =>
       \E text \in {BytesOf(fs, done'.file), Appended} : Reads(BytesOf(fs', done'.file), text)]_vars

(* append_data is to continue a file in new clusters once the last is full *)
(* (its comments at vfs.cpp:595 and 612); it writes over that cluster.     *)
AppendAlwaysAppends ==
  [][Did("append") => BytesOf(fs', done'.file) \in {BytesOf(fs, done'.file), Appended}]_vars

(* A write that returns 0 inside a file puts the data between the bytes    *)
(* before and after the offset, and the free clusters it asked for are     *)
(* enough for both appends (write, vfs.cpp:889). Excepted: a file, or a    *)
(* front part with the data, that ends with a full cluster, of whose tail  *)
(* vfs.cpp:991 loses a cluster.                                            *)
Inserted ==
  LET old == BytesOf(fs, done'.file)
  IN  SubSeq(old, 1, done'.offset) \o done'.data \o SubSeq(old, done'.offset + 1, Len(old))

InsertInserts ==
  [][/\ Did("write") /\ done'.offset < SizeOf(fs, done'.file)
     /\ Regular(fs, done'.file) /\ ~EndsFull(done'.offset + Len(done'.data))
     => Reads(BytesOf(fs', done'.file), Inserted)]_vars

(* A copy to a new name that returns 0 has the bytes of the source, also   *)
(* when a name of the directory was removed and its clusters used again    *)
(* (cp, vfs.cpp:661). A destination that exists is excepted: it is deleted *)
(* first, and the size read through the pointer of line 705 may be another *)
(* entry's.                                                                *)
CopyCopies ==
  [][Did("cp") /\ ~exists_file(fs, done'.file) =>
       Reads(BytesOf(fs', done'.file), BytesOf(fs, done'.src))]_vars

(* Printing adds to the end of a terminal's file, drops bytes only from    *)
(* its front, once the file is as long as its limit, and leaves it a       *)
(* system file (print_to_stream, common.cpp:22).                           *)
StreamKeepsItsEnd ==
  [][/\ Did("print") /\ Regular(fs, done'.file)
     /\ (done'.newline => ~EndsFull(Len(Appended) - Len(Newline)))
     /\ exists_n_free_clusters(fs, get_cluster_count_needed(Len(Appended)))
     => LET n == Len(Appended) - MAX_SHELL_FILE_SIZE
        IN  /\ Reads(BytesOf(fs', done'.file),
                      IF n < 0 THEN Appended ELSE SubSeq(Appended, n + 1, Len(Appended)))
            /\ get_file(fs', done'.file).system]_vars

(* The kernel panics for want of clusters only when fewer than three are   *)
(* free: no call takes more clusters than it has checked, but for the one  *)
(* by which a new entry lengthens the directory (vfs.cpp:149, 185, 379).   *)
(* A copy over a file, with its stale size, is excepted, and a copy of one *)
(* that has got such a size.                                               *)
PanicsOnlyWhenFull ==
  [][fs'.state = "panic" =>
       \/ ~exists_n_free_clusters(fs, 3)
       \/ done'.of = "cp" /\ (exists_file(fs, done'.file) \/ ~Fits(fs, done'.src))]_vars

=============================================================================
