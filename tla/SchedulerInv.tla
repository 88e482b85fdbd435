---------------------------- MODULE SchedulerInv ----------------------------
(***************************************************************************)
(* The usage of the scheduler under which it keeps its promises, and the   *)
(* inductive invariant that shows it.  SchedulerProofs proves it for every *)
(* number of tasks; MCScheduler lets TLC check it on small instances.      *)
(***************************************************************************)
EXTENDS Scheduler

(***************************************************************************)
(* Disciplined use.  Kernel code with IF = 1 starts processes and collects *)
(* finished background jobs (shell_reap_bg), nothing else; when it does    *)
(* collect, user processes do not call waitpid.  Everything else happens   *)
(* inside system calls, with IF = 0 until a pipe end is closed.            *)
(***************************************************************************)
Disciplined ==
  /\ KernelOps \subseteq {"exec", "poll"}
  /\ "poll" \in KernelOps => UserOps \cap {"wait", "poll"} = {}

\* Processes hold regular files only, no pipe ends.
FilesOnly == \A i \in 1 .. Len(FdKinds) : FdKinds[i] = "file"

\* Labels of process_exit from its first interruptible point on.
ExitPath == {"closing", "sched", "s_state", "s_current", "s_running", "s_switch"}

\* Labels of code that runs as the current task.
TaskPath == {"run", "check", "reap", "sleep"}

\* Labels a stack can be left at by a switch or before its first one; an exit
\* that has closed a pipe end may be cut off anywhere before g_current = next.
OffCpu == {"none", "fresh", "run", "reap", "slept", "yielded",
           "closing", "sched", "s_state", "s_current"}

\* What the executing stack can be doing.
ExecInv ==
  /\ cpu \in Slots
  /\ pc[cpu] \in TaskPath \cup ExitPath
  /\ pc[cpu] \in TaskPath => cpu = g_current /\ state[cpu] = "RUNNING"
  /\ pc[cpu] \in {"check", "sleep"} => ~intr[cpu]
  /\ pc[cpu] = "reap" /\ cpu # 0 => ~intr[cpu]
  /\ pc[cpu] \in ExitPath => state[cpu] = "ZOMBIE" /\ cpu # 0
  /\ pc[cpu] \in ExitPath /\ intr[cpu] => PipeClosed(cpu)
  /\ pc[cpu] \in {"closing", "sched", "s_state", "s_current"} => cpu = g_current
  /\ pc[cpu] \in {"s_state", "s_current", "s_running"} => state[nxt[cpu]] = "READY"
  /\ pc[cpu] = "s_switch" => state[nxt[cpu]] = "RUNNING"
  /\ pc[cpu] \in {"s_running", "s_switch"} => g_current = nxt[cpu]

\* What every other stack looks like.
FrameInv ==
  \A t \in Slots :
    t # cpu =>
      /\ pc[t] \in OffCpu
      /\ pc[t] = "reap" => t = 0
      /\ state[t] \in {"READY", "RUNNING", "BLOCKED"} =>
           /\ esp[t] = t
           /\ pc[t] \in {"fresh", "run", "reap", "slept"}
      /\ pc[t] = "slept" => ~intr[t]

\* The shell is always runnable, so there is always somebody to switch to.
ShellInv ==
  /\ state[0] \in {"READY", "RUNNING"}
  /\ ~is_user[0]
  /\ pc[0] \in {"run", "reap"}

\* Every other task is a user process.
UserInv == \A t \in Slots \ {0} : state[t] # "UNUSED" => is_user[t]

RunningInv == \A t \in Slots : state[t] = "RUNNING" => t = g_current

\* BLOCKED tasks are exactly the queued ones, asleep in task_sleep on the
\* queue they wait for.
SleepInv ==
  \A t \in Slots :
    /\ wait_q[t] # NoQueue => state[t] = "BLOCKED"
    /\ state[t] = "BLOCKED" => t # cpu /\ pc[t] = "slept" /\ wait_q[t] = want[t].q
    /\ pc[t] \in {"check", "sleep", "slept"} =>
         /\ want[t].q \in Queues
         /\ want[t].q = "reap" => "wait" \in UserOps /\ want[t].pid # 0

\* pids are handed out once.
PidInv ==
  /\ \A t \in Slots : state[t] = "UNUSED" => pid[t] = 0
  /\ \A t \in Slots : pid[t] < g_next_pid
  /\ \A t, u \in Slots : pid[t] = pid[u] /\ pid[t] # 0 => t = u

\* A caller of task_wait_pid that goes to sleep, or sleeps, waits for a task
\* that has not exited.
WaitInv ==
  \A t, c \in Slots :
    /\ pc[t] = "sleep" \/ state[t] = "BLOCKED"
    /\ want[t].q = "reap"
    /\ state[c] = "ZOMBIE"
    => pid[c] # want[t].pid

\* The slot a task is about to free belongs to a process that has exited and
\* left the CPU for good; only one side, shell or processes, collects.
ReapInv ==
  \A t \in Slots :
    pc[t] = "reap" =>
      /\ state[nxt[t]] = "ZOMBIE"
      /\ nxt[t] # cpu
      /\ t = 0 => "poll" \in KernelOps
      /\ t # 0 => UserOps \cap {"wait", "poll"} # {}

\* A process that is through with its descriptors, or was cut off while it
\* closed them.
FdInv ==
  \A t \in Slots :
    state[t] = "ZOMBIE" /\ ~(t = cpu /\ pc[t] = "closing")
      => fds[t] = 0 \/ PipeClosed(t)

\* The inductive invariant of disciplined use: what each of schedule(),
\* task_sleep, task_wait_pid and process_exit relies on, tied together.
IInv ==
  /\ ExecInv
  /\ FrameInv
  /\ ShellInv
  /\ UserInv
  /\ RunningInv
  /\ SleepInv
  /\ PidInv
  /\ WaitInv
  /\ ReapInv
  /\ FdInv
=============================================================================
