------------------------------- MODULE Files --------------------------------
(***************************************************************************)
(* File descriptors (kernel/fd.c).  fd_open reads the whole file into a    *)
(* buffer of the kernel heap, reads and writes move there, and fd_close    *)
(* saves a file that was written: it deletes the directory entry, then     *)
(* creates it anew.                                                        *)
(*                                                                         *)
(* A system call runs with interrupts off: no other process acts before it *)
(* is over.  So does process_exit, until it closes the end of a pipe: that *)
(* turns interrupts on, and the process, a ZOMBIE already, may be switched *)
(* out for ever and collected with the rest of its descriptors open.  The  *)
(* power may go at any time; the disk stays.                               *)
(***************************************************************************)
EXTENDS Heap, Sequences

CONSTANTS
  Tasks,       \* slots for processes
  MaxOpen,     \* descriptors of a process that can be files
  MaxFile,     \* MAX_FD_FILE, in letters
  Grain,       \* the bytes that a letter of a file stands for
  Names,       \* names of files
  OpenFlags,   \* the combinations of flags that fd_open is called with
  MaxCount,    \* bound: letters written in one call
  Requests     \* bound: sizes that other parts of the kernel ask the heap for

\* fd_open refuses the empty name, which a free descriptor has.
NoName == ""

Flags == {"write", "creat", "excl", "trunc", "append"}

ASSUME FilesAssumption ==
  /\ MaxOpen \in Nat /\ MaxFile \in Nat \ {0} /\ Grain \in Nat \ {0}
  /\ MaxCount \in Nat \ {0} /\ MaxFile * Grain < Word
  /\ NoName \notin Names /\ OpenFlags \subseteq SUBSET Flags
  /\ Requests \subseteq 0 .. Word - 1

VARIABLES
  tab,         \* descriptor table of each process
  phase,       \* what each process is doing
  job,         \* the descriptor it is at, and the child of a fork
  others,      \* pointers that other parts of the kernel have from the heap
  forgotten,   \* buffers that only the table of a collected process named
  disk,        \* contents of the files; one of size 0 counts as absent
  starved,     \* a fork found no memory for a buffer
  cut          \* this step ended a save without its file
               \* (history, as starved and forgotten are)

fvars == <<km, tab, phase, job, others, forgotten, disk, starved, cut>>

FileFds == 1 .. MaxOpen

\* Letters: written by a program, zeroed by fd_grow, or whatever the memory
\* held before.
Letters == {"new", "zero", "old"}

Fill(n, c) == [i \in 1 .. n |-> c]

FreeEntry == [name |-> NoName, writable |-> FALSE, append |-> FALSE, dirty |-> FALSE,
              size |-> 0, offset |-> 0, data |-> NullPtr, bytes |-> <<>>]

NoJob == [fd |-> 0, child |-> 0]

NoFds == [f \in FileFds |-> FreeEntry]

FilesInit ==
  /\ km = kmalloc_init
  /\ tab = [q \in Tasks |-> NoFds]
  /\ phase = [q \in Tasks |-> "none"]
  /\ job = [q \in Tasks |-> NoJob]
  /\ others = {} /\ forgotten = {}
  /\ disk \in [Names -> {Fill(n, "new") : n \in 0 .. MaxFile + 1}]
  /\ starved = FALSE /\ cut = FALSE

IsOpen(e) == e.name # NoName

OpenFiles(q) == {f \in FileFds : IsOpen(tab[q][f])}

FirstOf(S) == CHOOSE f \in S : \A g \in S : f <= g

\* q is not in the middle of a system call or of an exit with interrupts off.
Quiet(q) ==
  /\ phase[q] \notin {"save", "fork", "exitsave"}
  /\ phase[q] = "exiting" => OpenFiles(q) = {}

Idle == \A q \in Tasks : Quiet(q)

InUser(q) == Idle /\ phase[q] = "user"

\* What a reader of e's buffer finds: after a fork without memory e has a size
\* and no buffer, and what is read is what lies at address 0.
Found(e) == IF e.data = NullPtr THEN Fill(e.size, "old") ELSE e.bytes

BytesOf(n) == n * Grain

-----------------------------------------------------------------------------
(* Processes *)

\* fd_table_init: what the slot's last process left in the table is forgotten.
fd_table_init(q) ==
  /\ tab' = [tab EXCEPT ![q] = NoFds]
  /\ forgotten' = (forgotten \cup {tab[q][f].data : f \in FileFds}) \ {NullPtr}

StartTask(q) ==
  /\ Idle /\ phase[q] = "none"
  /\ phase' = [phase EXCEPT ![q] = "user"]
  /\ fd_table_init(q)
  /\ UNCHANGED <<km, job, others, disk, starved>>

\* task_fork gets to fd_table_dup, which takes descriptor after descriptor.
task_fork(q, c) ==
  /\ InUser(q) /\ phase[c] = "none"
  /\ phase' = [phase EXCEPT ![q] = "fork"]
  /\ job' = [job EXCEPT ![q] = [fd |-> 1, child |-> c]]
  /\ fd_table_init(c)
  /\ UNCHANGED <<km, others, disk, starved>>

\* Faulty variant: the copy has the buffer of the original.
CopyOfShared(e) == e

\* An entry copied into a buffer of its own; without memory it stays without.
CopyOf(e) ==
  LET p == kmalloc_ptr(km, BytesOf(e.size))
  IN IF e.data = NullPtr THEN e
     ELSE IF p = NullPtr THEN [e EXCEPT !.data = NullPtr, !.bytes = <<>>]
     ELSE [e EXCEPT !.data = p]

\* One round of the loop in fd_table_dup.
fd_table_dup(q) ==
  LET f == job[q].fd
      e == tab[q][f]
  IN /\ phase[q] = "fork" /\ f \in FileFds
     /\ tab' = [tab EXCEPT ![job[q].child][f] = CopyOf(e)]
     /\ km' = IF e.data = NullPtr THEN km ELSE kmalloc(km, BytesOf(e.size))
     /\ starved' = (starved \/ (e.data # NullPtr
                                  /\ ~kmalloc_serves(km, BytesOf(e.size))))
     /\ job' = [job EXCEPT ![q].fd = f + 1]
     /\ UNCHANGED <<phase, others, forgotten, disk>>

\* The loop is over: the child is ready to run.
ForkDone(q) ==
  /\ phase[q] = "fork" /\ job[q].fd \notin FileFds
  /\ phase' = [phase EXCEPT ![q] = "user", ![job[q].child] = "user"]
  /\ job' = [job EXCEPT ![q] = NoJob]
  /\ UNCHANGED <<km, tab, others, forgotten, disk, starved>>

process_exit(q) ==
  /\ InUser(q)
  /\ phase' = [phase EXCEPT ![q] = "exiting"]
  /\ UNCHANGED <<km, tab, job, others, forgotten, disk, starved>>

\* process_exit comes to the end of a pipe, whose close turns interrupts on.
ClosePipe(q) ==
  /\ phase[q] = "exiting"
  /\ phase' = [phase EXCEPT ![q] = "exposed"]
  /\ UNCHANGED <<km, tab, job, others, forgotten, disk, starved>>

\* The parent collects the process and looks at its state only.  With
\* interrupts off the descriptors are closed before anybody else runs; with
\* interrupts on it may happen anywhere, between the halves of a save too.
Collect(q) ==
  /\ Idle /\ phase[q] \in {"exiting", "exposed", "exposedsave"}
  /\ phase' = [phase EXCEPT ![q] = "none"]
  /\ job' = [job EXCEPT ![q] = NoJob]
  /\ cut' = (phase[q] = "exposedsave")
  /\ UNCHANGED <<km, tab, others, forgotten, disk, starved>>

-----------------------------------------------------------------------------
(* Opening and closing *)

\* fd_open of file n gets past its checks.
MayOpen(n, flags) ==
  LET exists == disk[n] # <<>>
  IN /\ exists \/ {"creat", "write"} \subseteq flags
     /\ ~(exists /\ {"creat", "excl"} \subseteq flags)
     /\ Len(disk[n]) <= MaxFile


\* The letters that fd_open reads into a buffer.
OpenedSize(n, flags) == IF {"trunc", "write"} \subseteq flags THEN 0 ELSE Len(disk[n])

\* fd_open takes the first free descriptor.  When the disk cannot be read, the
\* buffer goes back to the heap.
fd_open(q, n, flags) ==
  LET f == FirstOf(FileFds \ OpenFiles(q))
      size == OpenedSize(n, flags)
      p == kmalloc_ptr(km, BytesOf(size))
      h == kmalloc(km, BytesOf(size))
  IN /\ InUser(q) /\ FileFds \ OpenFiles(q) # {} /\ MayOpen(n, flags)
     /\ size > 0 => p # NullPtr
     /\ \/ /\ km' = h
           /\ tab' = [tab EXCEPT ![q][f] =
                        [name |-> n, writable |-> "write" \in flags,
                         append |-> "append" \in flags, dirty |-> FALSE, size |-> size,
                         offset |-> 0, data |-> p, bytes |-> SubSeq(disk[n], 1, size)]]
        \/ /\ size > 0
           /\ km' = kfree(h, p)
           /\ UNCHANGED tab
     /\ UNCHANGED <<phase, job, others, forgotten, disk, starved>>

\* The buffer of an entry goes back to the heap.
Dropped(e) == IF e.data # NullPtr THEN kfree(km, e.data) ELSE km

\* fd_close of a file that was not written.
CloseClean(q, f) ==
  /\ ~tab[q][f].dirty
  /\ km' = Dropped(tab[q][f])
  /\ tab' = [tab EXCEPT ![q][f] = FreeEntry]
  /\ UNCHANGED <<phase, job, others, forgotten, disk, starved>>

\* Between the halves of fd_close a process is in the middle of a save.
SavePhase(ph) ==
  CASE ph = "user" -> "save" [] ph = "exiting" -> "exitsave" [] OTHER -> "exposedsave"

SavedPhase(ph) ==
  CASE ph = "save" -> "user" [] ph = "exitsave" -> "exiting" [] OTHER -> "exposed"

\* fd_close of a file that was written, first half: the old entry is deleted.
\* When that fails, fs_create_file replaces it.
DeleteOld(q, f) ==
  /\ tab[q][f].dirty
  /\ \E gone \in BOOLEAN :
       disk' = IF gone THEN [disk EXCEPT ![tab[q][f].name] = <<>>] ELSE disk
  /\ phase' = [phase EXCEPT ![q] = SavePhase(@)]
  /\ job' = [job EXCEPT ![q].fd = f]
  /\ UNCHANGED <<km, tab, others, forgotten, starved>>

\* fd_close, called by the process or for each descriptor by process_exit.
fd_close(q) ==
  \E f \in OpenFiles(q) :
    /\ \/ phase[q] = "user" /\ Idle
       \/ phase[q] = "exiting" /\ f = FirstOf(OpenFiles(q))
       \/ phase[q] = "exposed" /\ f = FirstOf(OpenFiles(q)) /\ Idle
    /\ CloseClean(q, f) \/ DeleteOld(q, f)

\* Faulty variant: nothing is written behind the deletion.
SavedAsNothing(e) == disk

\* fs_create_file writes the size of the entry from its buffer.
SavedAs(e) == [disk EXCEPT ![e.name] = Found(e)]

\* fd_close, second half: what it does whether the file was created or not.
EndSave(q) ==
  LET f == job[q].fd
  IN /\ phase[q] \in {"save", "exitsave"} \/ (phase[q] = "exposedsave" /\ Idle)
     /\ km' = Dropped(tab[q][f])
     /\ tab' = [tab EXCEPT ![q][f] = FreeEntry]
     /\ phase' = [phase EXCEPT ![q] = SavedPhase(@)]
     /\ job' = [job EXCEPT ![q] = NoJob]
     /\ UNCHANGED <<others, forgotten, starved>>

Saved(q) == tab[q][job[q].fd]

fd_close_save(q) ==
  /\ EndSave(q)
  /\ disk' = SavedAs(Saved(q))

\* The file cannot be created; what was there before may be gone.
SaveFails(q) ==
  /\ EndSave(q)
  /\ disk' \in {disk, [disk EXCEPT ![Saved(q).name] = <<>>]}
  /\ cut' = TRUE

InSave(q) == phase[q] \in {"save", "exitsave", "exposedsave"}

\* The power goes: the processes and the heap are lost, the disk is not.
PowerLoss ==
  /\ km' = kmalloc_init
  /\ tab' = [q \in Tasks |-> NoFds]
  /\ phase' = [q \in Tasks |-> "none"]
  /\ job' = [q \in Tasks |-> NoJob]
  /\ others' = {} /\ forgotten' = {}
  /\ cut' = (\E q \in Tasks : InSave(q))
  /\ UNCHANGED <<disk, starved>>

-----------------------------------------------------------------------------
(* Reading and writing *)

\* fd_read of a file: at most what is left.
fd_read(q, f, n) ==
  LET e == tab[q][f]
  IN /\ InUser(q) /\ IsOpen(e) /\ e.offset < e.size
     /\ tab' = [tab EXCEPT ![q][f].offset =
                  IF n < e.size - e.offset THEN e.offset + n ELSE e.size]
     /\ UNCHANGED <<km, phase, job, others, forgotten, disk, starved>>

\* fd_lseek: also behind the end, where a later write leaves a hole.
fd_lseek(q, f, off) ==
  /\ InUser(q) /\ IsOpen(tab[q][f])
  /\ tab' = [tab EXCEPT ![q][f].offset = off]
  /\ UNCHANGED <<km, phase, job, others, forgotten, disk, starved>>

\* Faulty variant: the new buffer is not cleared behind the old contents.
GrownUncleared(e, n) ==
  [i \in 1 .. n |-> IF i <= Len(e.bytes) THEN e.bytes[i] ELSE "old"]

\* The contents of the buffer after fd_grow: what was there is copied, which it
\* is not when the entry has no buffer, and the rest is zeroed.
Grown(e, n) ==
  [i \in 1 .. n |-> IF i <= Len(e.bytes) THEN e.bytes[i]
                    ELSE IF i <= e.size THEN "old" ELSE "zero"]

\* n letters written at the offset.  Without a buffer they go to low memory.
Written(e, n) ==
  [e EXCEPT !.bytes = [i \in 1 .. Len(@) |->
                         IF e.offset < i /\ i <= e.offset + n THEN "new" ELSE @[i]],
            !.offset = @ + n,
            !.dirty = TRUE]

\* fd_grow succeeds: the new buffer is taken before the old one is returned.
Regrown(e, n) ==
  [e EXCEPT !.size = n, !.data = kmalloc_ptr(km, BytesOf(n)), !.bytes = Grown(e, n)]

HeapRegrown(e, n) ==
  LET h == kmalloc(km, BytesOf(n))
  IN IF e.data = NullPtr THEN h ELSE kfree(h, e.data)

MayGrow(n) == n <= MaxFile /\ kmalloc_serves(km, BytesOf(n))

\* fd_write of a file.  With O_APPEND the offset moves to the end first, and
\* stays there when the file cannot grow.
fd_write(q, f, n) ==
  LET e0 == tab[q][f]
      e == IF e0.append THEN [e0 EXCEPT !.offset = e0.size] ELSE e0
      end == e.offset + n
  IN /\ InUser(q) /\ IsOpen(e0) /\ e0.writable
     /\ \/ /\ end <= e.size
           /\ tab' = [tab EXCEPT ![q][f] = Written(e, n)]
           /\ UNCHANGED km
        \/ /\ end > e.size /\ MayGrow(end)
           /\ tab' = [tab EXCEPT ![q][f] = Written(Regrown(e, end), n)]
           /\ km' = HeapRegrown(e, end)
        \/ /\ end > e.size /\ ~MayGrow(end)
           /\ tab' = [tab EXCEPT ![q][f] = e]
           /\ UNCHANGED km
     /\ UNCHANGED <<phase, job, others, forgotten, disk, starved>>

-----------------------------------------------------------------------------
(* The other callers of the heap: pipes, sockets, drivers, in interrupts too *)

OtherMalloc ==
  \E n \in Requests :
    /\ km' = kmalloc(km, n)
    /\ others' = (others \cup {kmalloc_ptr(km, n)}) \ {NullPtr}
    /\ UNCHANGED <<tab, phase, job, forgotten, disk, starved>>

OtherFree ==
  \E p \in others :
    /\ km' = kfree(km, p)
    /\ others' = others \ {p}
    /\ UNCHANGED <<tab, phase, job, forgotten, disk, starved>>

ProcessNext(q) ==
  \/ StartTask(q) \/ fd_table_dup(q) \/ ForkDone(q) \/ process_exit(q) \/ ClosePipe(q)
  \/ fd_close(q) \/ fd_close_save(q)
  \/ \E c \in Tasks : task_fork(q, c)
  \/ \E n \in Names, flags \in OpenFlags : fd_open(q, n, flags)
  \/ \E f \in FileFds :
       \/ \E n \in 1 .. MaxCount : fd_read(q, f, n) \/ fd_write(q, f, n)
       \/ \E off \in 0 .. MaxFile : fd_lseek(q, f, off)

FilesNext ==
  \/ /\ cut' = FALSE
     /\ OtherMalloc \/ OtherFree \/ \E q \in Tasks : ProcessNext(q)
  \/ PowerLoss
  \/ \E q \in Tasks : SaveFails(q) \/ Collect(q)

FilesSpec == FilesInit /\ [][FilesNext]_fvars

-----------------------------------------------------------------------------
(* Properties *)

\* The entries that have a buffer.
Buffered == {e \in Tasks \X FileFds : tab[e[1]][e[2]].data # NullPtr}

BufferOf(e) == tab[e[1]][e[2]].data

\* Every allocated block is the buffer of one descriptor, belongs to another
\* part of the kernel, or was the buffer of a process that was collected before
\* it closed the descriptor; every buffer is an allocated block that holds the
\* file.  Across fork, growth, failed opens, saves and exit no buffer is shared
\* or freed twice, also when the slot of such a process is used again, and
\* none is forgotten in any other way.
BuffersOwned ==
  /\ {b.at : b \in LiveBlocks(km)} =
       others \cup forgotten \cup {BufferOf(e) : e \in Buffered}
  /\ others \cap forgotten = {}
  /\ \A e \in Buffered : BufferOf(e) \notin others \cup forgotten
  /\ \A d, e \in Buffered : BufferOf(d) = BufferOf(e) => d = e
  /\ \A e \in Buffered :
       LET x == tab[e[1]][e[2]]
       IN /\ kfree_accepts(km, x.data)
          /\ Len(x.bytes) = x.size /\ BlockAt(km, x.data).req = BytesOf(x.size)

StaleFree(s) == \A i \in DOMAIN s : s[i] # "old"

\* What the memory held before never shows in a file nor in a descriptor, unless
\* a fork had no memory for a buffer: fd_grow clears what it adds, holes left
\* by fd_lseek included.
NothingStale ==
  starved \/ /\ \A q \in Tasks, f \in FileFds : StaleFree(Found(tab[q][f]))
             /\ \A n \in Names : StaleFree(disk[n])

BeingSaved(n) ==
  \E q \in Tasks : InSave(q) /\ Saved(q).name = n

\* A file does not vanish: it is on the disk or a process is between the two
\* halves of saving it, and it is lost only when that save ends there: it
\* fails, the power goes, or the process exits, has closed the end of a pipe
\* before, and is collected by its parent between the halves.
FilesKept ==
  [][\A n \in Names :
       disk[n] # <<>> \/ BeingSaved(n)
         => \/ disk'[n] # <<>> \/ BeingSaved(n)'
            \/ BeingSaved(n) /\ cut']_fvars
=============================================================================
