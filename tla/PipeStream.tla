----------------------------- MODULE PipeStream -----------------------------
(***************************************************************************)
(* What an anonymous pipe promises, without reference counts, ring buffers *)
(* or wait queues: a bounded stream of bytes with a set of holders at each *)
(* end.  Bytes come out once, in the order they went in; end of file means *)
(* that the stream is drained and nobody holds the write end; a write is   *)
(* refused when, and only when, nobody holds the read end.  A holder may   *)
(* die without giving up its ends; they are Nobody's from then on, who     *)
(* neither reads nor writes and never closes.                              *)
(***************************************************************************)
EXTENDS Integers, Sequences

CONSTANTS Pipes, Procs, Bytes, Capacity, Nobody

VARIABLES
  stream,      \* the bytes in each pipe
  readers,     \* who holds a read end: [Pipes -> set of holders]
  writers,     \* who holds a write end
  ret          \* the result of each process's last call

vars == <<stream, readers, writers, ret>>

\* Results of calls: none yet, bytes read, bytes written, end of file, refused.
None == [kind |-> "none", data |-> <<>>]
Data(s) == [kind |-> "data", data |-> s]
Done == [kind |-> "done", data |-> <<>>]
Eof == [kind |-> "eof", data |-> <<>>]
Refused == [kind |-> "refused", data |-> <<>>]

Init ==
  /\ stream = [p \in Pipes |-> <<>>]
  /\ readers = [p \in Pipes |-> {}]
  /\ writers = [p \in Pipes |-> {}]
  /\ ret = [q \in Procs |-> None]

\* A new call, or the end of the process: the last result is history.
Forget(q) ==
  /\ ret' = [ret EXCEPT ![q] = None]
  /\ UNCHANGED <<stream, readers, writers>>

\* A process puts bytes into a pipe that somebody can read from.
Put(q, p) ==
  /\ readers[p] # {} /\ writers[p] # {}
  /\ \E n \in 1 .. Capacity - Len(stream[p]) : \E s \in [1 .. n -> Bytes] :
       stream' = [stream EXCEPT ![p] = @ \o s]
  /\ ret' = [ret EXCEPT ![q] = Done]
  /\ UNCHANGED <<readers, writers>>

\* A process takes bytes from the front.
Take(q, p) ==
  /\ readers[p] # {}
  /\ \E n \in 1 .. Len(stream[p]) :
       /\ ret' = [ret EXCEPT ![q] = Data(SubSeq(stream[p], 1, n))]
       /\ stream' = [stream EXCEPT ![p] = SubSeq(@, n + 1, Len(@))]
  /\ UNCHANGED <<readers, writers>>

EndOfFile(q, p) ==
  /\ readers[p] # {} /\ writers[p] = {} /\ stream[p] = <<>>
  /\ ret' = [ret EXCEPT ![q] = Eof]
  /\ UNCHANGED <<stream, readers, writers>>

Refuse(q, p) ==
  /\ writers[p] # {} /\ readers[p] = {}
  /\ ret' = [ret EXCEPT ![q] = Refused]
  /\ UNCHANGED <<stream, readers, writers>>

\* A new pipe: nobody held the old one any more.
Create(p) ==
  /\ readers[p] = {} /\ writers[p] = {}
  /\ readers'[p] # {} /\ writers'[p] # {} /\ stream[p] = <<>>
  /\ Nobody \notin readers'[p] \cup writers'[p]
  /\ \A o \in Pipes \ {p} : readers'[o] = readers[o] /\ writers'[o] = writers[o]
  /\ UNCHANGED <<stream, ret>>

\* A fork: whoever gets an end gets it from a holder.
Share ==
  /\ \A p \in Pipes : /\ readers[p] \subseteq readers'[p]
                      /\ writers[p] \subseteq writers'[p]
                      /\ readers[p] = {} => readers'[p] = {}
                      /\ writers[p] = {} => writers'[p] = {}
  /\ UNCHANGED <<stream, ret>>

\* A holder dies with ends open: none of them counts as closed.
Left(before, after) ==
  /\ after \subseteq before \cup {Nobody}
  /\ before = {} <=> after = {}
  /\ Nobody \in before => Nobody \in after

Abandon ==
  /\ \A p \in Pipes : Left(readers[p], readers'[p]) /\ Left(writers[p], writers'[p])
  /\ UNCHANGED <<stream, ret>>

\* One end is closed, by somebody who has it; the bytes go with the last
\* holder, not before.
Drop(p) ==
  /\ Nobody \in readers[p] => Nobody \in readers'[p]
  /\ Nobody \in writers[p] => Nobody \in writers'[p]
  /\ readers'[p] \subseteq readers[p] /\ writers'[p] \subseteq writers[p]
  /\ \A o \in Pipes \ {p} : readers'[o] = readers[o] /\ writers'[o] = writers[o]
  /\ stream' = [stream EXCEPT ![p] =
                  IF readers'[p] = {} /\ writers'[p] = {} THEN <<>> ELSE @]
  /\ UNCHANGED ret

Next ==
  \/ \E p \in Pipes, q \in Procs : Put(q, p) \/ Take(q, p) \/ EndOfFile(q, p)
                                   \/ Refuse(q, p)
  \/ \E p \in Pipes : Create(p) \/ Drop(p)
  \/ \E q \in Procs : Forget(q)
  \/ Share \/ Abandon

Spec == Init /\ [][Next]_vars
=============================================================================
