------------------------------- MODULE MCPipe -------------------------------
(* For TLC: pipes and files side by side, which share no state here.  A     *)
(* behaviour is one of the two.                                             *)
EXTENDS Pipe, Files, TLC
CONSTANTS procA, procB
VARIABLE half

Two == {procA, procB}
Perms == Permutations(Two)
MCFlags ==
  {{}, {"write", "append"}, {"write", "trunc"}, {"write", "creat", "excl"}}

MCInit ==
  /\ half \in {"pipes", "files"} /\ Init /\ FilesInit
  /\ half = "pipes" => \A n \in Names : disk[n] = <<>>

MCNext ==
  /\ \/ half = "pipes" /\ Next /\ UNCHANGED fvars
     \/ half = "files" /\ FilesNext /\ UNCHANGED vars
  /\ UNCHANGED half

(* What TLC tells states apart by.  Of a ring the bytes in it count; of the   *)
(* table of a slot that nobody uses, which nobody reads, the buffers; of the  *)
(* table of a process that exits what fd_close looks at; no step reads cut.   *)
Closing(e) ==
  [name |-> e.name, data |-> e.data, size |-> e.size, dirty |-> e.dirty,
   bytes |-> IF e.dirty THEN e.bytes ELSE <<>>]

MCTable(q) ==
  CASE Idle /\ phase[q] = "none" -> [f \in FileFds |-> tab[q][f].data]
    [] phase[q] \in {"exiting", "exitsave", "exposed", "exposedsave"} ->
         [f \in FileFds |-> Closing(tab[q][f])]
    [] OTHER -> tab[q]

MCView ==
  <<half, [p \in Pipes |-> [g_pipes[p] EXCEPT !.buf = Contents[p]]], st, call, ret, gone,
    [q \in Procs |-> IF st[q] = "none" THEN <<>> ELSE fds[q]],
    km, phase, job, others, forgotten, disk, starved, [q \in Tasks |-> MCTable(q)]>>

MCSpec == MCInit /\ [][MCNext]_<<vars, fvars, half>>
=============================================================================
