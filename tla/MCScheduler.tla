---------------------------- MODULE MCScheduler ----------------------------
(* Constant values for the TLC runs of Scheduler. *)
EXTENDS SchedulerInv

NoFds == <<>>
FilePipeFile == <<"file", "pipe", "file">>

\* All variables but the clock, which nothing reads while no sleep is timed.
NoClock == <<g_current, g_next_pid, state, ticks, pid, is_user, wake_tick,
             wait_q, fds, esp, cpu, intr, pc, want, nxt, data>>
=============================================================================
