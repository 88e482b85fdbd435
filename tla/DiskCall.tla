------------------------------ MODULE DiskCall ------------------------------
(***************************************************************************)
(* A file system call of this kernel is a sequence of sector writes with   *)
(* the driver's own computation in between.  What can happen inside it is  *)
(* that one write fails, or that power is lost before one of them.  A call *)
(* is an operator of the fault f it meets,                                 *)
(*     <<"none", 0>>,  <<"fail", i>>  or  <<"crash", i>>   (at write i),   *)
(* and threads a state s: `disk' and `mem' are the platter and the         *)
(* driver's variables, `r' the locals, `err' whether the last write        *)
(* failed, `n' the writes made so far, `ret' 0, or -1 once it gave up.     *)
(***************************************************************************)
EXTENDS Integers, Sequences, SequencesExt

NoFault == <<"none", 0>>

Begin(d, m, locals, f) ==
    [disk |-> d, mem |-> m, r |-> locals, f |-> f, n |-> 0, err |-> FALSE, ret |-> 0]

\* One sector or cluster write.  After the power is gone nothing reaches the
\* disk, whatever the code would have done next.
Write(s, at, val) ==
    CASE s.f = <<"fail", s.n + 1>>               -> [s EXCEPT !.n = @ + 1, !.err = TRUE]
      [] s.f[1] = "crash" /\ s.n + 1 >= s.f[2]   -> [s EXCEPT !.n = @ + 1, !.err = FALSE]
      [] OTHER                                   -> [s EXCEPT !.n = @ + 1, !.err = FALSE, !.disk[at] = val]

\* The result of the last write is ignored.
Ok(s) == [s EXCEPT !.err = FALSE]

\* `return -1'
Fail(s) == [s EXCEPT !.ret = -1, !.err = FALSE]

\* `if (... != 0) { clean up; return -1; }'
Or(s, CleanUp(_)) == IF s.ret = 0 /\ s.err THEN Fail(CleanUp(Ok(s))) ELSE s
OrFail(s) == Or(s, Ok)

\* What follows is reached only when the call has not returned.
Then(s, F(_)) == IF s.ret = 0 THEN F(s) ELSE s

\* A loop over 1 .. n, left at the first return.
Loop(s, n, Body(_, _)) ==
    FoldLeft(LAMBDA t, i : IF t.ret = 0 THEN Body(t, i) ELSE t, s, [i \in 1..n |-> i])

\* Every state a call can end in, given how it ends when nothing goes wrong.
OutcomesBeside(plain, Call(_)) ==
    {plain} \cup {Call(f) : f \in {"fail", "crash"} \X (1..plain.n)}
Outcomes(Call(_)) == OutcomesBeside(Call(NoFault), Call)
=============================================================================
