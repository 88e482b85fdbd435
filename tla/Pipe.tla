-------------------------------- MODULE Pipe --------------------------------
(***************************************************************************)
(* Anonymous pipes (kernel/fd.c): the pool of pipe objects, each with a    *)
(* ring buffer, a reference count for either end and one wait queue; the   *)
(* descriptor tables of processes; and the calls that change them.         *)
(*                                                                         *)
(* Every call enters with interrupts off.  A process that must wait sleeps *)
(* on the pipe's queue with the condition just evaluated, and evaluates it *)
(* again when it is woken, by which time others may have run.              *)
(*                                                                         *)
(* process_exit closes descriptors one by one when the process is ZOMBIE   *)
(* already, and the close of a pipe end turns interrupts on.  From there   *)
(* on a tick may take the process off the processor, for ever, and the     *)
(* parent may collect it with ends still open: the slot is free, and the   *)
(* counts of those ends stay.                                              *)
(***************************************************************************)
EXTENDS Integers, Sequences, FiniteSets

CONSTANTS
  MaxPipes,    \* PIPE_MAX
  BufSize,     \* PIPE_BUF
  RefMax,      \* the counts are 16 bits wide: 0xFFFF
  MaxFds,      \* descriptors of a process that can be pipe ends
  Procs,       \* slots for processes
  Bytes,       \* values of a byte
  MaxLen,      \* bound: bytes asked for in one call
  MaxForgotten \* bound: ends of one kind of a pipe that collected slots left

ASSUME PipeAssumption ==
  /\ MaxPipes \in Nat \ {0} /\ BufSize \in Nat \ {0} /\ RefMax \in Nat \ {0}
  /\ MaxFds \in Nat /\ MaxLen \in Nat \ {0} /\ MaxForgotten \in Nat
  /\ IsFiniteSet(Procs) /\ Bytes # {}

\* Sixteen tasks with sixteen descriptors each are far from 16 bits, and what
\* collected slots left may fill the rest.
ASSUME RefAssumption == Cardinality(Procs) * MaxFds + MaxForgotten <= RefMax

Pipes == 0 .. MaxPipes - 1
Fds == 1 .. MaxFds
NoPipe == -1
Free == [pipe |-> NoPipe, writable |-> FALSE]     \* FD_TYPE_FREE
File == [pipe |-> NoPipe, writable |-> TRUE]      \* FD_TYPE_FILE

VARIABLES
  g_pipes,     \* the pool of pipe objects
  fds,         \* descriptor table of each process
  st,          \* what each process is doing
  call,        \* its pipe call under way: [op, fd, n, data]
  ret,         \* the result of its last read or write
  gone         \* how many ends of each pipe were open in a collected slot

vars == <<g_pipes, fds, st, call, ret, gone>>

\* Results of read and write.
None == [kind |-> "none", data |-> <<>>]
Data(s) == [kind |-> "data", data |-> s]
Done == [kind |-> "done", data |-> <<>>]
Eof == [kind |-> "eof", data |-> <<>>]
Refused == [kind |-> "refused", data |-> <<>>]

NoCall == [op |-> "none", fd |-> 0, n |-> 0, data |-> <<>>]

\* An object of the pool when it is free, and after fd_pipe set it up.
FreePipe == [used |-> FALSE, ref_r |-> 0, ref_w |-> 0, head |-> 0, tail |-> 0,
             count |-> 0, buf |-> <<>>]

Init ==
  /\ g_pipes = [p \in Pipes |-> FreePipe]
  /\ fds = [q \in Procs |-> [f \in Fds |-> Free]]
  /\ st = [q \in Procs |-> "none"]
  /\ call = [q \in Procs |-> NoCall]
  /\ ret = [q \in Procs |-> None]
  /\ gone = [p \in Pipes |-> [w \in BOOLEAN |-> 0]]

Minimum(a, b) == IF a < b THEN a ELSE b

Lowest(S) == CHOOSE x \in S : \A y \in S : x <= y

FreePipes == {p \in Pipes : ~g_pipes[p].used}

FreeFds(q) == {f \in Fds : fds[q][f] = Free}

OpenFds(q) == Fds \ FreeFds(q)

PipeFds(q) == {f \in Fds : fds[q][f].pipe # NoPipe}

\* Faulty variant: the processes that wait are not woken.
WakeNone(p) == st

\* task_wake_all(&p->wq): whoever sleeps on p evaluates its condition again.
WakeAll(p) ==
  [q \in Procs |-> IF st[q] = "asleep" /\ fds[q][call[q].fd].pipe = p
                   THEN "call" ELSE st[q]]

-----------------------------------------------------------------------------
(* Processes *)

\* exec starts a process with no pipe ends: whatever the slot's last process
\* left in the table is overwritten (fd_table_init).
Exec(q) ==
  /\ st[q] = "none"
  /\ st' = [st EXCEPT ![q] = "user"]
  /\ fds' = [fds EXCEPT ![q] = [f \in Fds |-> Free]]
  /\ UNCHANGED <<g_pipes, call, ret, gone>>

\* The number of descriptors of q at one end of p.
Ends(q, p, w) == Cardinality({f \in Fds : fds[q][f] = [pipe |-> p, writable |-> w]})

\* A reference count that does not go beyond 16 bits.
Plus(n, k) == Minimum(n + k, RefMax)

\* Faulty variant: the table is copied and the pipes are not told.
DupShallow(q) == g_pipes

\* fd_table_dup: the counts of every pipe that q has an end of go up.
Dup(q) ==
  [p \in Pipes |-> [g_pipes[p] EXCEPT !.ref_r = Plus(@, Ends(q, p, FALSE)),
                                      !.ref_w = Plus(@, Ends(q, p, TRUE))]]

\* task_fork: the child c gets a copy of the table of q.
Fork(q, c) ==
  /\ st[q] = "user" /\ st[c] = "none"
  /\ fds' = [fds EXCEPT ![c] = fds[q]]
  /\ g_pipes' = Dup(q)
  /\ st' = [st EXCEPT ![c] = "user"]
  /\ UNCHANGED <<call, ret, gone>>

\* process_exit: from here on the descriptors are closed one by one, with
\* interrupts off until a pipe end is among them.
Exit(q) ==
  /\ st[q] = "user"
  /\ st' = [st EXCEPT ![q] = "exiting"]
  /\ ret' = [ret EXCEPT ![q] = None]
  /\ UNCHANGED <<g_pipes, fds, call, gone>>

\* The parent collects the process, and the slot is free.  It looks at the
\* state of the process only.  With interrupts off all descriptors are closed
\* before anybody else runs; once a pipe end was closed they are on, and the
\* process may have been switched out, for ever, with any of them open.
Reap(q) ==
  /\ st[q] = "exposed" \/ (st[q] = "exiting" /\ OpenFds(q) = {})
  /\ gone' = [p \in Pipes |-> [w \in BOOLEAN |-> gone[p][w] + Ends(q, p, w)]]
  /\ \A p \in Pipes, w \in BOOLEAN : gone'[p][w] <= MaxForgotten
  /\ st' = [st EXCEPT ![q] = "none"]
  /\ UNCHANGED <<g_pipes, fds, call, ret>>

-----------------------------------------------------------------------------
(* Creating and closing *)

\* fd_open: a file takes a descriptor that a pipe may want.
OpenFile(q) ==
  /\ st[q] = "user" /\ FreeFds(q) # {}
  /\ fds' = [fds EXCEPT ![q][Lowest(FreeFds(q))] = File]
  /\ UNCHANGED <<g_pipes, st, call, ret, gone>>

\* pipe_alloc: the first free object, with a cleared buffer.
Cleared == [i \in 0 .. BufSize - 1 |-> CHOOSE b \in Bytes : TRUE]
Allocated == [used |-> TRUE, ref_r |-> 0, ref_w |-> 0, head |-> 0, tail |-> 0,
              count |-> 0, buf |-> Cleared]

\* fd_pipe finds an object and two free descriptors.
MakePipe(q) ==
  LET p == Lowest(FreePipes)
      r == Lowest(FreeFds(q))
      w == Lowest(FreeFds(q) \ {r})
  IN /\ st[q] = "user" /\ FreePipes # {} /\ Cardinality(FreeFds(q)) >= 2
     /\ g_pipes' = [g_pipes EXCEPT ![p] = [Allocated EXCEPT !.ref_r = 1, !.ref_w = 1]]
     /\ fds' = [fds EXCEPT ![q][r] = [pipe |-> p, writable |-> FALSE],
                           ![q][w] = [pipe |-> p, writable |-> TRUE]]
     /\ UNCHANGED <<st, call, ret, gone>>

\* fd_pipe has an object but no two descriptors: the object goes back.
MakePipeFails(q) ==
  /\ st[q] = "user" /\ FreePipes # {} /\ Cardinality(FreeFds(q)) < 2
  /\ g_pipes' = [g_pipes EXCEPT ![Lowest(FreePipes)] = FreePipe]
  /\ UNCHANGED <<fds, st, call, ret, gone>>

Minus(n) == IF n > 0 THEN n - 1 ELSE 0

\* fd_close of a pipe end: one reference less, the object goes back to the
\* pool with the last one, everybody asleep on it looks again, and interrupts
\* are on.
CloseEnd(q, f) ==
  LET e == fds[q][f]
      o == IF e.writable THEN [g_pipes[e.pipe] EXCEPT !.ref_w = Minus(@)]
                         ELSE [g_pipes[e.pipe] EXCEPT !.ref_r = Minus(@)]
  IN /\ g_pipes' = [g_pipes EXCEPT ![e.pipe] =
                      IF o.ref_r = 0 /\ o.ref_w = 0 THEN FreePipe ELSE o]
     /\ st' = [WakeAll(e.pipe) EXCEPT ![q] = IF @ = "exiting" THEN "exposed" ELSE @]
     /\ fds' = [fds EXCEPT ![q][f] = Free]
     /\ UNCHANGED <<call, ret, gone>>

\* fd_close of a file, which no other process sees.
CloseFile(q, f) ==
  /\ fds' = [fds EXCEPT ![q][f] = Free]
  /\ UNCHANGED <<g_pipes, st, call, ret, gone>>

\* fd_close, called by the process or for each descriptor by process_exit.
Close(q) ==
  \E f \in OpenFds(q) :
    /\ \/ st[q] = "user"
       \/ st[q] \in {"exiting", "exposed"} /\ f = Lowest(OpenFds(q))
    /\ IF f \in PipeFds(q) THEN CloseEnd(q, f) ELSE CloseFile(q, f)

-----------------------------------------------------------------------------
(* Reading and writing *)

\* A process calls read or write on the end that allows it.
Begin(q) ==
  /\ st[q] = "user"
  /\ \E f \in PipeFds(q), n \in 1 .. MaxLen :
       IF fds[q][f].writable
       THEN \E s \in [1 .. n -> Bytes] :
              call' = [call EXCEPT ![q] = [op |-> "write", fd |-> f, n |-> n, data |-> s]]
       ELSE call' = [call EXCEPT ![q] = [op |-> "read", fd |-> f, n |-> n, data |-> <<>>]]
  /\ st' = [st EXCEPT ![q] = "call"]
  /\ ret' = [ret EXCEPT ![q] = None]
  /\ UNCHANGED <<g_pipes, fds, gone>>

PipeOf(q) == fds[q][call[q].fd].pipe

\* The first k bytes of the ring.
RingGet(o, k) == [i \in 1 .. k |-> o.buf[(o.tail + i - 1) % BufSize]]

\* Faulty variant: the write position does not move.
RingPutStuck(o, s) ==
  [o EXCEPT !.buf = [i \in 0 .. BufSize - 1 |->
                       LET j == (i - o.head) % BufSize
                       IN IF j < Len(s) THEN s[j + 1] ELSE o.buf[i]],
            !.count = o.count + Len(s)]

\* The bytes of s behind the write position, which moves on.
RingPut(o, s) ==
  [o EXCEPT !.buf = [i \in 0 .. BufSize - 1 |->
                       LET j == (i - o.head) % BufSize
                       IN IF j < Len(s) THEN s[j + 1] ELSE o.buf[i]],
            !.head = (o.head + Len(s)) % BufSize,
            !.count = o.count + Len(s)]

\* The call returns r, and everybody asleep on the pipe looks again.
Finish(q, r, states) ==
  /\ st' = [states EXCEPT ![q] = "user"]
  /\ ret' = [ret EXCEPT ![q] = r]
  /\ call' = [call EXCEPT ![q] = NoCall]

\* The caller goes to sleep on the pipe's queue.
FallAsleep(q) ==
  /\ st' = [st EXCEPT ![q] = "asleep"]
  /\ UNCHANGED <<g_pipes, call, ret>>

\* One round of the loop in fd_read.
Read(q) ==
  LET o == g_pipes[PipeOf(q)]
      k == Minimum(call[q].n, o.count)
  IN /\ st[q] = "call" /\ call[q].op = "read"
     /\ \/ /\ o.count > 0
           /\ g_pipes' = [g_pipes EXCEPT ![PipeOf(q)] =
                            [o EXCEPT !.tail = (o.tail + k) % BufSize,
                                      !.count = o.count - k]]
           /\ Finish(q, Data(RingGet(o, k)), WakeAll(PipeOf(q)))
        \/ /\ o.count = 0 /\ o.ref_w = 0
           /\ Finish(q, Eof, st)
           /\ UNCHANGED g_pipes
        \/ /\ o.count = 0 /\ o.ref_w > 0
           /\ FallAsleep(q)
     /\ UNCHANGED <<fds, gone>>

\* One round of the loop in fd_write.
Write(q) ==
  LET o == g_pipes[PipeOf(q)]
      k == Minimum(call[q].n, BufSize - o.count)
  IN /\ st[q] = "call" /\ call[q].op = "write"
     /\ \/ /\ o.ref_r = 0
           /\ Finish(q, Refused, st)
           /\ UNCHANGED g_pipes
        \/ /\ o.ref_r > 0 /\ o.count < BufSize
           /\ g_pipes' = [g_pipes EXCEPT ![PipeOf(q)] =
                            RingPut(o, SubSeq(call[q].data, 1, k))]
           /\ Finish(q, Done, WakeAll(PipeOf(q)))
        \/ /\ o.ref_r > 0 /\ o.count = BufSize
           /\ FallAsleep(q)
     /\ UNCHANGED <<fds, gone>>

\* Nobody else runs while a process closes its descriptors with interrupts off.
Runs(q) == \A r \in Procs \ {q} : st[r] = "exiting" => OpenFds(r) = {}

Next ==
  \E q \in Procs : Runs(q) /\
    \/ Exec(q) \/ Exit(q) \/ Reap(q) \/ MakePipe(q) \/ MakePipeFails(q)
    \/ OpenFile(q) \/ Close(q) \/ Begin(q) \/ Read(q) \/ Write(q)
    \/ \E c \in Procs : Fork(q, c)

Spec == Init /\ [][Next]_vars

-----------------------------------------------------------------------------
(* Properties *)

Positions == 0 .. BufSize - 1

\* The fields of pipe_t, the descriptor tables and the calls under way: the
\* positions stay inside the ring, the counts in 16 bits, and a process that
\* reads, writes or sleeps does so on a pipe end that it has open.
TypeOK ==
  /\ \A p \in Pipes :
       \/ g_pipes[p] = FreePipe
       \/ g_pipes[p] \in [used : {TRUE}, ref_r : 0 .. RefMax, ref_w : 0 .. RefMax,
                          head : Positions, tail : Positions, count : 0 .. BufSize,
                          buf : [Positions -> Bytes]]
  /\ fds \in [Procs -> [Fds -> {Free, File} \cup [pipe : Pipes, writable : BOOLEAN]]]
  /\ st \in [Procs -> {"none", "user", "call", "asleep", "exiting", "exposed"}]
  /\ gone \in [Pipes -> [BOOLEAN -> 0 .. MaxForgotten]]
  /\ \A q \in Procs :
       IF st[q] \in {"call", "asleep"}
       THEN /\ call[q].fd \in PipeFds(q) /\ call[q].n \in 1 .. MaxLen
            /\ call[q].op = IF fds[q][call[q].fd].writable THEN "write" ELSE "read"
       ELSE call[q] = NoCall

\* The descriptors of live processes at one end of p.
HeldEnds(p, w) ==
  {e \in Procs \X Fds :
     st[e[1]] # "none" /\ fds[e[1]][e[2]] = [pipe |-> p, writable |-> w]}

\* What a count should be: the ends that somebody has, and the ones that were
\* open in a slot when it was collected.
Refs(p, w) == Cardinality(HeldEnds(p, w)) + gone[p][w]
Counted(p, w) == HeldEnds(p, w) # {} \/ gone[p][w] > 0

\* The counts of fd_close, fd_pipe and fd_table_dup are the descriptors of
\* processes that refer to either end and the ones that were open in a slot
\* when it was collected, nothing else, whoever forked, closed, exited and was
\* collected in which order: fork, close and the failures of fd_pipe neither
\* lose nor invent a reference, nobody reads a freed buffer, and an object is
\* lost to the pool only by a collection that forgot one of its ends.
RefsMatch ==
  \A p \in Pipes :
    /\ g_pipes[p].ref_r = Refs(p, FALSE) /\ g_pipes[p].ref_w = Refs(p, TRUE)
    /\ g_pipes[p].used <=> Counted(p, FALSE) \/ Counted(p, TRUE)

\* No wake-up is lost: nobody is asleep whose condition holds.  A sleeping
\* reader has a drained pipe with a write end that was never closed, a sleeping
\* writer a full one with such a read end.  If a collected slot forgot that
\* end, the code has nobody left to wake the sleeper, and it sleeps for ever.
NobodySleepsInVain ==
  \A q \in Procs : st[q] = "asleep" =>
    LET o == g_pipes[PipeOf(q)]
    IN IF call[q].op = "read"
       THEN o.count = 0 /\ Counted(PipeOf(q), TRUE)
       ELSE o.count = BufSize /\ Counted(PipeOf(q), FALSE)

\* The holder that never closes: it stands for the ends that were forgotten.
Nobody == <<"nobody", 0>>

Holders(p, w) == HeldEnds(p, w) \cup (IF gone[p][w] > 0 THEN {Nobody} ELSE {})

\* The bytes in each pipe, and who holds its ends.
Contents == [p \in Pipes |-> RingGet(g_pipes[p], g_pipes[p].count)]
Readers == [p \in Pipes |-> Holders(p, FALSE)]
Writers == [p \in Pipes |-> Holders(p, TRUE)]

Stream == INSTANCE PipeStream
            WITH Capacity <- BufSize, stream <- Contents,
                 readers <- Readers, writers <- Writers

\* The ring buffers, the counts and the wait queue implement bounded streams:
\* bytes come out once and in order, end of file and refused writes happen
\* exactly when every descriptor of the other end was closed.  An end that was
\* open when its slot was collected is not closed, and keeps both away.
ImplementsStream == Stream!Spec
=============================================================================
