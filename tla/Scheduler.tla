----------------------------- MODULE Scheduler -----------------------------
(***************************************************************************)
(* The task table, the wait queues and the preemptive round-robin          *)
(* scheduler of kernel/task.c, the IRQ0 handler of kernel/isr.c and the    *)
(* stack switch of boot/task_switch.asm.                                   *)
(*                                                                         *)
(* There is one CPU.  Code runs on the kernel stack of one task (cpu) with *)
(* the interrupt flag of that stack (intr[cpu]); g_current is what the     *)
(* scheduler believes.  A sequence of statements executed with IF = 0 is   *)
(* one step; with IF = 1 an interrupt can arrive at every statement that   *)
(* touches shared state, so those statements are steps of their own and pc *)
(* names the statement a stack is at.                                      *)
(***************************************************************************)
EXTENDS Integers, Sequences, FiniteSets

CONSTANTS
  MaxTasks,    \* MAX_TASKS: slots of g_tasks; slot 0 is the shell
  Timeslice,   \* TASK_TIMESLICE, in PIT ticks
  Wrap,        \* g_pit_ticks counts modulo Wrap (2^32 in the code)
  MaxPid,      \* bound: at most this many tasks are ever created
  Timeouts,    \* timeouts passed to task_sleep on the device queue; 0 = none
  FdKinds,     \* the descriptors a process opens: "pipe" or "file"
  KernelOps,   \* what the shell does; "exit": kernel threads end
  UserOps      \* which system calls user processes issue

ShellOps == {"wait", "poll", "sleep", "yield", "create", "exec"}
SyscallOps == {"wait", "poll", "sleep", "fork", "open", "exit"}

ASSUME SchedulerAssumption ==
  /\ MaxTasks \in Nat \ {0}
  /\ Timeslice \in Nat \ {0}
  /\ Wrap \in Nat /\ Wrap >= 4
  /\ MaxPid \in Nat
  /\ Timeouts \in SUBSET {n \in Nat : 2 * n < Wrap}
  /\ FdKinds \in Seq({"pipe", "file"})
  /\ KernelOps \in SUBSET (ShellOps \cup {"exit"})
  /\ UserOps \in SUBSET SyscallOps

Slots == 0 .. MaxTasks - 1
Stale == -1              \* an esp no frame was laid out for
Queues == {"reap", "dev"}
NoQueue == "none"
States == {"UNUSED", "READY", "RUNNING", "BLOCKED", "ZOMBIE"}

\* Where the code of a stack is.
Labels ==
  { "none",                              \* the slot was never used
    "fresh",                             \* first frame laid out, not yet run
    "run",                               \* ordinary code of the task
    "check",                             \* top of a wait loop
    "reap",                              \* task_wait_pid found the ZOMBIE
    "sleep",                             \* about to call task_sleep
    "slept",                             \* switched out inside task_sleep
    "hlt", "h_remove", "h_tick", "h_state",     \* tail of task_sleep
    "sched", "s_state", "s_current", "s_running", "s_switch",  \* schedule()
    "yielded",                           \* switched out by its own schedule()
    "create", "create_stack",            \* inside task_create
    "closing",                           \* process_exit closes descriptors
    "park" }                             \* for (;;) sti; hlt of an exited task

VARIABLES
  g_current,   \* index of the current task
  g_next_pid,
  state, ticks, pid, is_user, wake_tick, wait_q,   \* fields of task_t
  fds,         \* number of descriptors still open in the task's table
  esp,         \* the stack whose frame esp points to
  cpu,         \* the stack the CPU executes on
  intr,        \* IF of each stack
  pc,          \* the statement each stack is at
  want,        \* arguments of the wait loop a stack is in
  nxt,         \* local slot variable of schedule() and task_create
  now,         \* g_pit_ticks
  data         \* the device condition a sleeper waits for

vars == <<g_current, g_next_pid, state, ticks, pid, is_user, wake_tick,
          wait_q, fds, esp, cpu, intr, pc, want, nxt, now, data>>

Idle == [q |-> NoQueue, pid |-> 0, ms |-> 0, iflag |-> TRUE]

Init ==
  /\ g_current = 0
  /\ g_next_pid = 1
  /\ state = [t \in Slots |-> IF t = 0 THEN "RUNNING" ELSE "UNUSED"]
  /\ ticks = [t \in Slots |-> IF t = 0 THEN Timeslice ELSE 0]
  /\ pid = [t \in Slots |-> 0]
  /\ is_user = [t \in Slots |-> FALSE]
  /\ wake_tick = [t \in Slots |-> 0]
  /\ wait_q = [t \in Slots |-> NoQueue]
  /\ fds = [t \in Slots |-> 0]
  /\ esp = [t \in Slots |-> Stale]
  /\ cpu = 0
  /\ intr = [t \in Slots |-> TRUE]
  /\ pc = [t \in Slots |-> IF t = 0 THEN "run" ELSE "none"]
  /\ want = [t \in Slots |-> Idle]
  /\ nxt = [t \in Slots |-> 0]
  /\ now = 0
  /\ data = FALSE

-----------------------------------------------------------------------------
(* schedule() and switch_to *)

Runnable(st) == {t \in Slots : st[t] \in {"READY", "RUNNING"}}

\* Faulty variant of Dist: every search starts at slot 0.
DistFromZero(cur, t) == t

\* Position of t in the rotation that starts after cur; cur itself is last.
Dist(cur, t) == IF t > cur THEN t - cur ELSE t - cur + MaxTasks

\* The slot the round-robin loop stops at, cur when nobody is runnable.
NextOf(st, cur) ==
  IF Runnable(st) = {} THEN cur
  ELSE CHOOSE t \in Runnable(st) :
         \A u \in Runnable(st) : Dist(cur, t) <= Dist(cur, u)

\* One tick of a slice; the counter is unsigned and must not go below 0.
LessTick(n) == IF n > 0 THEN n - 1 ELSE 0

\* The state the old task is left in when another one is dispatched.
Preempted(s) == IF s = "RUNNING" THEN "READY" ELSE s

\* Kernel-thread zombies, which task_reap_zombies frees.  User zombies wait
\* for task_wait_pid.
Reapable(st) == {t \in Slots : st[t] = "ZOMBIE" /\ ~is_user[t]}

\* Where a stack continues after switch_to restored its frame.
Landing(label) ==
  CASE label = "fresh" -> "run"
    [] label = "slept" -> "check"
    [] label = "yielded" -> "run"
    [] OTHER -> label

(***************************************************************************)
(* switch_to(&g_tasks[old].esp, g_tasks[new].esp): the executing stack is  *)
(* saved in old's esp and the stack found in new's esp goes on, reaping    *)
(* kernel zombies first unless it is a task's first frame (trampoline).    *)
(* st, pcs, wt, ifs are state, pc, wake_tick and intr at the time of the   *)
(* switch.                                                                 *)
(***************************************************************************)
SwitchTo(st, pcs, wt, ifs, old, new) ==
  LET s == esp[new]
      Z == IF s = Stale \/ pcs[s] = "fresh" THEN {} ELSE Reapable(st)
  IN /\ cpu' = s
     /\ esp' = [t \in Slots |-> IF t \in Z THEN Stale
                                ELSE IF t = old THEN cpu ELSE esp[t]]
     /\ state' = [t \in Slots |-> IF t \in Z THEN "UNUSED" ELSE st[t]]
     /\ pid' = [t \in Slots |-> IF t \in Z THEN 0 ELSE pid[t]]
     /\ fds' = [t \in Slots |-> IF t \in Z THEN 0 ELSE fds[t]]
     /\ pc' = [t \in Slots |-> IF t = s THEN Landing(pcs[t]) ELSE pcs[t]]
     /\ intr' = [t \in Slots |->
                   IF t = s /\ pcs[t] = "fresh" THEN TRUE ELSE ifs[t]]
     /\ wake_tick' = [t \in Slots |->
                        IF t = s /\ pcs[t] = "slept" THEN 0 ELSE wt[t]]

\* schedule() entered with IF = 0: one indivisible step.
Schedule(st, pcs, wt, ifs) ==
  LET cur == g_current
      tk == [ticks EXCEPT ![cur] = LessTick(@)]
      next == NextOf(st, cur)
      keep == /\ state' = st /\ pc' = pcs /\ wake_tick' = wt /\ intr' = ifs
              /\ UNCHANGED <<g_current, cpu, esp, pid, fds>>
  IN \/ /\ st[cur] = "RUNNING" /\ tk[cur] > 0         \* slice not used up
        /\ ticks' = tk
        /\ keep
     \/ /\ ~(st[cur] = "RUNNING" /\ tk[cur] > 0)
        /\ next = cur                                 \* nobody to switch to
        /\ ticks' = [tk EXCEPT ![cur] = Timeslice]
        /\ keep
     \/ /\ ~(st[cur] = "RUNNING" /\ tk[cur] > 0)
        /\ next # cur
        /\ g_current' = next
        /\ ticks' = [tk EXCEPT ![next] = Timeslice]
        /\ SwitchTo([st EXCEPT ![cur] = Preempted(@), ![next] = "RUNNING"],
                    pcs, wt, ifs, cur, next)

-----------------------------------------------------------------------------
(* Interrupts: enabled when the executing stack has IF = 1. *)

\* An interrupt ends the hlt of task_sleep.
AfterIrq(pcs) == [t \in Slots |-> IF t = cpu /\ pcs[t] = "hlt"
                                  THEN "h_remove" ELSE pcs[t]]

\* Faulty variant: a comparison that ignores the wrap of the tick counter.
ExpiredNaive(t, tick) ==
  state[t] = "BLOCKED" /\ wake_tick[t] # 0 /\ tick > wake_tick[t]

\* task_timer_tick wakes task t at this tick.
Expired(t, tick) ==
  /\ state[t] = "BLOCKED"
  /\ wake_tick[t] # 0
  /\ 2 * ((tick - wake_tick[t]) % Wrap) < Wrap     \* (int32)(now - wake) >= 0

\* irq0_handler: count, wake expired sleepers, schedule.
Irq0 ==
  LET tick == (now + 1) % Wrap
      W == {t \in Slots : Expired(t, tick)}
  IN /\ cpu # Stale /\ intr[cpu]
     /\ now' = tick
     /\ wait_q' = [t \in Slots |-> IF t \in W THEN NoQueue ELSE wait_q[t]]
     /\ Schedule([t \in Slots |-> IF t \in W THEN "READY" ELSE state[t]],
                 AfterIrq(pc),
                 [t \in Slots |-> IF t \in W THEN 0 ELSE wake_tick[t]],
                 intr)
     /\ UNCHANGED <<g_next_pid, is_user, want, nxt, data>>

\* Faulty variant: the queue is emptied but nobody becomes READY.
WakeAllUnready(st, Q) ==
  /\ state' = st
  /\ wait_q' = [t \in Slots |-> IF wait_q[t] \in Q THEN NoQueue ELSE wait_q[t]]
  /\ wake_tick' = [t \in Slots |-> IF wait_q[t] \in Q THEN 0 ELSE wake_tick[t]]

\* task_wake_all on the queues in Q; st is the state at the time of the call.
WakeAll(st, Q) ==
  /\ state' = [t \in Slots |-> IF wait_q[t] \in Q /\ st[t] = "BLOCKED"
                               THEN "READY" ELSE st[t]]
  /\ wait_q' = [t \in Slots |-> IF wait_q[t] \in Q THEN NoQueue ELSE wait_q[t]]
  /\ wake_tick' = [t \in Slots |-> IF wait_q[t] \in Q THEN 0 ELSE wake_tick[t]]

\* A device interrupt (IRQ1 keyboard, IRQ11 network card) delivers data.
IrqDevice ==
  /\ cpu # Stale /\ intr[cpu]
  /\ "sleep" \in KernelOps \cup UserOps
  /\ data' = TRUE
  /\ pc' = AfterIrq(pc)
  /\ WakeAll(state, {"dev"})
  /\ UNCHANGED <<g_current, g_next_pid, ticks, pid, is_user, fds, esp, cpu,
                 intr, want, nxt, now>>

-----------------------------------------------------------------------------
(* Steps of the executing stack. *)

At(label) == cpu # Stale /\ pc[cpu] = label

Goto(label) == pc' = [pc EXCEPT ![cpu] = label]

\* The code of the current task is free to perform operation op.  Kernel
\* threads only run and end; every other kernel operation is the shell's.
MayDo(op) ==
  /\ At("run")
  /\ IF is_user[g_current] THEN op \in UserOps
     ELSE op \in KernelOps /\ (cpu = 0 <=> op # "exit")

\* Faulty variant: system calls keep interrupts enabled (a trap gate).
EnterIFOpen == intr[cpu]

\* A system call enters through an interrupt gate (IF = 0) and leaves by iret
\* (IF = 1); kernel code keeps the flag it has.
EnterIF == IF is_user[g_current] THEN FALSE ELSE intr[cpu]
LeaveIF == IF is_user[g_current] THEN TRUE ELSE intr[cpu]

\* The slot of a task, {} or a singleton: task_find.
Find(p) == {t \in Slots : state[t] # "UNUSED" /\ pid[t] = p}

\* The prompt loop of the shell switches interrupts on again.
ShellSti ==
  /\ At("run") /\ cpu = 0 /\ ~intr[cpu]
  /\ intr' = [intr EXCEPT ![cpu] = TRUE]
  /\ UNCHANGED <<g_current, g_next_pid, state, ticks, pid, is_user, wake_tick,
                 wait_q, fds, esp, cpu, pc, want, nxt, now, data>>

\* Entry of a wait loop: task_wait_pid, or a read from a device.
BeginWait ==
  /\ \/ /\ MayDo("wait")
        /\ \E p \in 1 .. MaxPid :
             /\ Find(p) # {}
             /\ want' = [want EXCEPT ![cpu] =
                  [q |-> "reap", pid |-> p, ms |-> 0, iflag |-> EnterIF]]
     \/ /\ MayDo("sleep")
        /\ \E m \in Timeouts :
             want' = [want EXCEPT ![cpu] =
                  [q |-> "dev", pid |-> 0, ms |-> m, iflag |-> EnterIF]]
  /\ intr' = [intr EXCEPT ![cpu] = EnterIF]
  /\ Goto("check")
  /\ UNCHANGED <<g_current, g_next_pid, state, ticks, pid, is_user, wake_tick,
                 wait_q, fds, esp, cpu, nxt, now, data>>

\* The wait loop returns to its caller.
Return ==
  /\ Goto("run")
  /\ intr' = [intr EXCEPT ![cpu] = LeaveIF]
  /\ want' = [want EXCEPT ![cpu] = Idle]

\* One evaluation of the waited-for condition.
CheckPid ==
  /\ At("check") /\ want[cpu].q = "reap"
  /\ \/ /\ Find(want[cpu].pid) = {}                  \* already collected
        /\ Return
        /\ UNCHANGED nxt
     \/ \E t \in Find(want[cpu].pid) :
          /\ IF state[t] = "ZOMBIE"
             THEN Goto("reap") /\ nxt' = [nxt EXCEPT ![cpu] = t]
             ELSE Goto("sleep") /\ UNCHANGED nxt
          /\ UNCHANGED <<intr, want>>
  /\ UNCHANGED <<g_current, g_next_pid, state, ticks, pid, is_user, wake_tick,
                 wait_q, fds, esp, cpu, now, data>>

\* task_wait_pid takes the exit code and frees the slot.
ReapPid ==
  LET t == nxt[cpu]
  IN /\ At("reap")
     /\ state' = [state EXCEPT ![t] = "UNUSED"]
     /\ pid' = [pid EXCEPT ![t] = 0]
     /\ is_user' = [is_user EXCEPT ![t] = FALSE]
     /\ Return
     /\ nxt' = [nxt EXCEPT ![cpu] = 0]
     /\ UNCHANGED <<g_current, g_next_pid, ticks, wake_tick, wait_q, fds, esp,
                    cpu, now, data>>

\* task_wait_pid_opt(WNOHANG): the shell collects a finished background job.
PollPid ==
  /\ MayDo("poll")
  /\ \E t \in Slots \ {0} :
       /\ state[t] = "ZOMBIE"
       /\ want' = [want EXCEPT ![cpu] = [Idle EXCEPT !.iflag = EnterIF]]
       /\ nxt' = [nxt EXCEPT ![cpu] = t]
  /\ intr' = [intr EXCEPT ![cpu] = EnterIF]
  /\ Goto("reap")
  /\ UNCHANGED <<g_current, g_next_pid, state, ticks, pid, is_user, wake_tick,
                 wait_q, fds, esp, cpu, now, data>>

\* A timed caller may also find that its own deadline has passed.
CheckDevice ==
  /\ At("check") /\ want[cpu].q = "dev"
  /\ \/ data /\ data' = FALSE /\ Return
     \/ ~data /\ want[cpu].ms # 0 /\ Return /\ UNCHANGED data
     \/ ~data /\ Goto("sleep") /\ UNCHANGED <<intr, want, data>>
  /\ UNCHANGED <<g_current, g_next_pid, state, ticks, pid, is_user, wake_tick,
                 wait_q, fds, esp, cpu, nxt, now>>

(***************************************************************************)
(* task_sleep: cli, deadline, BLOCKED, enqueue, schedule().  When there is *)
(* nobody to switch to, the caller keeps the CPU, re-enables interrupts    *)
(* and halts.                                                              *)
(***************************************************************************)
Sleep ==
  LET me == g_current
      st == [state EXCEPT ![me] = "BLOCKED"]
      wt == [wake_tick EXCEPT ![me] =
               IF want[cpu].ms = 0 THEN 0 ELSE (now + want[cpu].ms) % Wrap]
      alone == NextOf(st, me) = me
  IN /\ At("sleep")
     /\ wait_q' = [wait_q EXCEPT ![me] = want[cpu].q]
     /\ Schedule(st, [pc EXCEPT ![cpu] = IF alone THEN "hlt" ELSE "slept"],
                 wt, [intr EXCEPT ![cpu] = alone])
     /\ UNCHANGED <<g_next_pid, is_user, want, nxt, now, data>>

\* After hlt, with IF = 1: leave the queue, ...
HltRemove ==
  /\ At("h_remove")
  /\ wait_q' = [wait_q EXCEPT ![cpu] = NoQueue]
  /\ Goto("h_tick")
  /\ UNCHANGED <<g_current, g_next_pid, state, ticks, pid, is_user, wake_tick,
                 fds, esp, cpu, intr, want, nxt, now, data>>

\* ... drop the deadline, ...
HltTick ==
  /\ At("h_tick")
  /\ wake_tick' = [wake_tick EXCEPT ![cpu] = 0]
  /\ Goto("h_state")
  /\ UNCHANGED <<g_current, g_next_pid, state, ticks, pid, is_user, wait_q,
                 fds, esp, cpu, intr, want, nxt, now, data>>

\* ... and declare the task RUNNING.
HltState ==
  /\ At("h_state")
  /\ state' = [state EXCEPT ![cpu] = "RUNNING"]
  /\ Goto("check")
  /\ UNCHANGED <<g_current, g_next_pid, ticks, pid, is_user, wake_tick, wait_q,
                 fds, esp, cpu, intr, want, nxt, now, data>>

-----------------------------------------------------------------------------
(* schedule() called by task_yield, task_exit and process_exit.  The flag  *)
(* is whatever the caller had, so every shared write is a step.            *)

\* task_yield gives up the slice.
Yield ==
  /\ MayDo("yield")
  /\ ticks' = [ticks EXCEPT ![g_current] = 0]
  /\ Goto("sched")
  /\ UNCHANGED <<g_current, g_next_pid, state, pid, is_user, wake_tick, wait_q,
                 fds, esp, cpu, intr, want, nxt, now, data>>

\* Where schedule() returns to when it does not switch: an exited task parks
\* with interrupts on.
AfterSchedule == IF state[g_current] = "ZOMBIE" THEN "park" ELSE "run"

\* Head of schedule(): nothing to do in the middle of a slice, else choose.
SchedPick ==
  LET left == LessTick(ticks[g_current])
      inSlice == state[g_current] = "RUNNING" /\ left > 0
      next == NextOf(state, g_current)
  IN /\ At("sched")
     /\ IF inSlice \/ next = g_current
        THEN /\ ticks' = [ticks EXCEPT ![g_current] =
                            IF inSlice THEN left ELSE Timeslice]
             /\ Goto(AfterSchedule)
             /\ intr' = [intr EXCEPT ![cpu] = @ \/ AfterSchedule = "park"]
             /\ UNCHANGED nxt
        ELSE /\ ticks' = [ticks EXCEPT ![g_current] = left]
             /\ nxt' = [nxt EXCEPT ![cpu] = next]
             /\ Goto("s_state")
             /\ UNCHANGED intr
     /\ UNCHANGED <<g_current, g_next_pid, state, pid, is_user, wake_tick,
                    wait_q, fds, esp, cpu, want, now, data>>

\* if (cur->state == TASK_RUNNING) cur->state = TASK_READY
SchedState ==
  /\ At("s_state")
  /\ state' = [state EXCEPT ![g_current] = Preempted(@)]
  /\ Goto("s_current")
  /\ UNCHANGED <<g_current, g_next_pid, ticks, pid, is_user, wake_tick, wait_q,
                 fds, esp, cpu, intr, want, nxt, now, data>>

\* old_idx = g_current; g_current = next
SchedCurrent ==
  /\ At("s_current")
  /\ g_current' = nxt[cpu]
  /\ Goto("s_running")
  /\ UNCHANGED <<g_next_pid, state, ticks, pid, is_user, wake_tick, wait_q,
                 fds, esp, cpu, intr, want, nxt, now, data>>

\* n->state = TASK_RUNNING; n->ticks = TASK_TIMESLICE
SchedRunning ==
  LET n == nxt[cpu]
  IN /\ At("s_running")
     /\ state' = [state EXCEPT ![n] = "RUNNING"]
     /\ ticks' = [ticks EXCEPT ![n] = Timeslice]
     /\ Goto("s_switch")
     /\ UNCHANGED <<g_current, g_next_pid, pid, is_user, wake_tick, wait_q, fds,
                    esp, cpu, intr, want, nxt, now, data>>

\* switch_to: old_idx is the slot whose stack executes this code.
SchedSwitch ==
  /\ At("s_switch")
  /\ SwitchTo(state, [pc EXCEPT ![cpu] = "yielded"], wake_tick, intr, cpu,
              nxt[cpu])
  /\ nxt' = [nxt EXCEPT ![cpu] = 0]
  /\ UNCHANGED <<g_current, g_next_pid, ticks, is_user, wait_q, want, now, data>>

-----------------------------------------------------------------------------
(* Task creation *)

\* Slots a creation may take: the first UNUSED one.
FreeSlot(t) ==
  /\ t \in Slots /\ state[t] = "UNUSED"
  /\ \A u \in Slots : state[u] = "UNUSED" => t <= u

\* Registration of a new task in slot t: pid, READY, cleared wait fields.
Register(t, user, nfds) ==
  /\ g_next_pid <= MaxPid
  /\ pid' = [pid EXCEPT ![t] = g_next_pid]
  /\ g_next_pid' = g_next_pid + 1
  /\ state' = [state EXCEPT ![t] = "READY"]
  /\ ticks' = [ticks EXCEPT ![t] = Timeslice]
  /\ is_user' = [is_user EXCEPT ![t] = user]
  /\ wake_tick' = [wake_tick EXCEPT ![t] = 0]
  /\ wait_q' = [wait_q EXCEPT ![t] = NoQueue]
  /\ fds' = [fds EXCEPT ![t] = nfds]

\* stack_init returns an esp at the first frame of slot t's own stack.
StackInit(t) == t

\* task_create, called without task_lock: find the slot, ...
CreateFind ==
  /\ MayDo("create")
  /\ \E t \in Slots : FreeSlot(t) /\ nxt' = [nxt EXCEPT ![cpu] = t]
  /\ Goto("create")
  /\ UNCHANGED <<g_current, g_next_pid, state, ticks, pid, is_user, wake_tick,
                 wait_q, fds, esp, cpu, intr, want, now, data>>

\* ... fill the entry (it is READY from here on), ...
CreateEntry ==
  /\ At("create")
  /\ Register(nxt[cpu], FALSE, 0)
  /\ Goto("create_stack")
  /\ UNCHANGED <<g_current, esp, cpu, intr, want, nxt, now, data>>

\* ... and lay out the first frame (stack_init).
CreateStack ==
  LET t == nxt[cpu]
  IN /\ At("create_stack")
     /\ esp' = [esp EXCEPT ![t] = StackInit(t)]
     /\ pc' = [pc EXCEPT ![cpu] = "run", ![t] = "fresh"]
     /\ intr' = [intr EXCEPT ![t] = FALSE]
     /\ nxt' = [nxt EXCEPT ![cpu] = 0]
     /\ UNCHANGED <<g_current, g_next_pid, state, ticks, pid, is_user,
                    wake_tick, wait_q, fds, cpu, want, now, data>>

(***************************************************************************)
(* exec_spawn and task_fork register a user process under task_lock: entry *)
(* and first frame appear in one step.  task_unlock executes sti; a fork   *)
(* copies the parent's descriptor table.                                   *)
(***************************************************************************)
Spawn ==
  /\ MayDo("exec") \/ MayDo("fork")
  /\ \E t \in Slots :
       /\ FreeSlot(t)
       /\ Register(t, TRUE, IF is_user[g_current] THEN fds[g_current] ELSE 0)
       /\ esp' = [esp EXCEPT ![t] = StackInit(t)]
       /\ pc' = [pc EXCEPT ![t] = "fresh"]
       /\ intr' = [intr EXCEPT ![t] = FALSE, ![cpu] = TRUE]
  /\ UNCHANGED <<g_current, cpu, want, nxt, now, data>>

-----------------------------------------------------------------------------
(* Task exit *)

\* task_exit of a kernel thread: ZOMBIE, then task_yield.
TaskExit ==
  /\ MayDo("exit") /\ ~is_user[g_current]
  /\ state' = [state EXCEPT ![g_current] = "ZOMBIE"]
  /\ ticks' = [ticks EXCEPT ![g_current] = 0]
  /\ Goto("sched")
  /\ UNCHANGED <<g_current, g_next_pid, pid, is_user, wake_tick, wait_q, fds,
                 esp, cpu, intr, want, nxt, now, data>>

\* A process opens its descriptors.
OpenFds ==
  /\ MayDo("open") /\ fds[g_current] = 0
  /\ fds' = [fds EXCEPT ![g_current] = Len(FdKinds)]
  /\ UNCHANGED <<g_current, g_next_pid, state, ticks, pid, is_user, wake_tick,
                 wait_q, esp, cpu, intr, pc, want, nxt, now, data>>

\* process_exit up to the release of the address space: ZOMBIE, wake every
\* task_wait_pid (and whoever sleeps where this task did).
ProcessExit ==
  /\ MayDo("exit") /\ is_user[g_current]
  /\ WakeAll([state EXCEPT ![g_current] = "ZOMBIE"],
             {"reap", wait_q[g_current]} \ {NoQueue})
  /\ intr' = [intr EXCEPT ![cpu] = EnterIF]
  /\ Goto("closing")
  /\ UNCHANGED <<g_current, g_next_pid, ticks, pid, is_user, fds, esp, cpu,
                 want, nxt, now, data>>

\* Faulty variant: closing any descriptor enables interrupts.
CloseEnablesIFAlways(kind) == TRUE

\* fd_close of a pipe end leaves its cli section with an unconditional sti.
CloseEnablesIF(kind) == kind = "pipe"

\* fd_close of the next descriptor; the pipe branch ends in sti.  When the
\* table is empty, process_exit calls schedule().
CloseFd ==
  /\ At("closing")
  /\ IF fds[cpu] = 0
     THEN Goto("sched") /\ UNCHANGED <<fds, intr>>
     ELSE /\ fds' = [fds EXCEPT ![cpu] = @ - 1]
          /\ intr' = [intr EXCEPT ![cpu] =
                        @ \/ CloseEnablesIF(FdKinds[Len(FdKinds) - fds[cpu] + 1])]
          /\ UNCHANGED pc
  /\ UNCHANGED <<g_current, g_next_pid, state, ticks, pid, is_user, wake_tick,
                 wait_q, esp, cpu, want, nxt, now, data>>

-----------------------------------------------------------------------------
Interrupts == Irq0 \/ IrqDevice

SleepTail == HltRemove \/ HltTick \/ HltState

Switching == SchedPick \/ SchedState \/ SchedCurrent \/ SchedRunning
             \/ SchedSwitch

\* Steps the CPU takes by itself once an operation is under way.
CpuStep == ShellSti \/ CheckPid \/ ReapPid \/ CheckDevice \/ Sleep \/ SleepTail
           \/ Switching \/ CreateEntry \/ CreateStack \/ CloseFd

\* Operations the code of a task may or may not start.
Operation == BeginWait \/ PollPid \/ Yield \/ CreateFind \/ Spawn \/ TaskExit
             \/ OpenFds \/ ProcessExit

Next == Interrupts \/ CpuStep \/ Operation

Spec == Init /\ [][Next]_vars

\* The executing code is past "g_current = next" but before switch_to.
MidSwitch == cpu # Stale /\ pc[cpu] \in {"s_running", "s_switch"}

\* The machine without the tick that finds schedule() half done: every other
\* interrupt arrives wherever IF = 1.
CalmNext == (~MidSwitch /\ Irq0) \/ IrqDevice \/ CpuStep \/ Operation

CalmSpec == Init /\ [][CalmNext]_vars

(***************************************************************************)
(* The CPU executes what it is at, and the PIT line stays asserted until   *)
(* the interrupt is taken, so IRQ0 is taken if IF is 1 again and again.    *)
(***************************************************************************)
FairSpec == Spec /\ WF_vars(CpuStep) /\ SF_vars(Irq0)

-----------------------------------------------------------------------------
(* Properties *)

Waits == [q : Queues \cup {NoQueue}, pid : 0 .. MaxPid, ms : Timeouts \cup {0},
          iflag : BOOLEAN]

\* The types of the task table (task.h), of the CPU and of each stack.
TypeOK ==
  /\ g_current \in Slots
  /\ g_next_pid \in 1 .. MaxPid + 1
  /\ state \in [Slots -> States]
  /\ ticks \in [Slots -> 0 .. Timeslice]
  /\ pid \in [Slots -> 0 .. MaxPid]
  /\ is_user \in [Slots -> BOOLEAN]
  /\ wake_tick \in [Slots -> 0 .. Wrap - 1]
  /\ wait_q \in [Slots -> Queues \cup {NoQueue}]
  /\ fds \in [Slots -> 0 .. Len(FdKinds)]
  /\ esp \in [Slots -> Slots \cup {Stale}]
  /\ cpu \in Slots \cup {Stale}
  /\ intr \in [Slots -> BOOLEAN]
  /\ pc \in [Slots -> Labels]
  /\ want \in [Slots -> Waits]
  /\ nxt \in [Slots -> Slots]
  /\ now \in 0 .. Wrap - 1
  /\ data \in BOOLEAN

(***************************************************************************)
(* Every task goes on with its own frame: the stack that executes is that  *)
(* of g_current (outside the few statements of schedule() between the      *)
(* assignment of g_current and switch_to), and the esp of every other live *)
(* task points into its own stack.  task.c:806 saves into and loads from   *)
(* slots chosen earlier in schedule().                                     *)
(***************************************************************************)
OwnContext ==
  /\ MidSwitch \/ cpu = g_current
  /\ \A t \in Slots :
       state[t] \in {"READY", "BLOCKED"} /\ t # cpu => esp[t] = t

\* A task on a wait queue is BLOCKED, so it is never dispatched while a waker
\* still finds it on the queue, and no queue keeps a finished or reused slot
\* (wq_push, wq_remove, task_wake_all, task_timer_tick).
QueuedAreBlocked == \A t \in Slots : wait_q[t] # NoQueue => state[t] = "BLOCKED"

\* At most one task is RUNNING, and outside schedule() it is g_current.
OneRunning ==
  /\ \A t, u \in Slots : state[t] = "RUNNING" /\ state[u] = "RUNNING" => t = u
  /\ ~MidSwitch => \A t \in Slots : state[t] = "RUNNING" => t = g_current

\* A BLOCKED task can be woken: it is on a queue, or has a deadline, or it
\* still has the CPU (the tail of task_sleep).
NoLostSleeper ==
  \A t \in Slots :
    state[t] = "BLOCKED" => wait_q[t] # NoQueue \/ wake_tick[t] # 0 \/ t = cpu

\* A task that task_wait_pid put to sleep and that gave up the CPU does not
\* wait for a process that is a ZOMBIE already: the process_exit of that
\* process has run task_wake_all and no other wakeup will come.
NoMissedExit ==
  \A t, c \in Slots :
    ~(/\ state[t] = "BLOCKED" /\ wait_q[t] = "reap" /\ t # cpu
      /\ state[c] = "ZOMBIE" /\ pid[c] = want[t].pid)

\* Task t has closed a pipe end on its way out: a table is closed in order.
PipeClosed(t) == \E i \in 1 .. Len(FdKinds) - fds[t] : FdKinds[i] = "pipe"

(***************************************************************************)
(* A process that is off the CPU as a ZOMBIE, so that anybody may collect  *)
(* its slot, has closed every descriptor, unless it has closed a pipe end. *)
(* process_exit sets ZOMBIE first and closes afterwards; what keeps a      *)
(* collector away is IF = 0 alone, and the sti of a pipe end (fd.c:218)    *)
(* ends that: such a process may be cut off for ever, the rest of its      *)
(* table open, which task.h:98 rules out.                                  *)
(***************************************************************************)
NoFdLeak ==
  \A t \in Slots : state[t] = "ZOMBIE" /\ t # cpu => fds[t] = 0 \/ PipeClosed(t)

(***************************************************************************)
(* No step frees the slot of a task that has not exited, whoever collects: *)
(* task_reap_zombies in a switch, task_wait_pid inside a system call.  The *)
(* exception is the shell, whose check and release (task.c:377-379) run    *)
(* with IF = 1: a tick between them lets a process collect the ZOMBIE and  *)
(* another fork into the slot, which the shell then frees.                 *)
(***************************************************************************)
OnlyZombiesFreed ==
  [][\A t \in Slots :
       state'[t] = "UNUSED" =>
         state[t] \in {"UNUSED", "ZOMBIE"} \/ (At("reap") /\ cpu = 0)]_vars

\* A READY task is eventually dispatched: round robin starves nobody.
ReadyRuns == \A t \in Slots : state[t] = "READY" ~> state[t] # "READY"

\* A process somebody waits for in task_wait_pid is collected after its exit.
ExitCollected ==
  \A c \in Slots :
    (/\ state[c] = "ZOMBIE"
     /\ \E t \in Slots : want[t].q = "reap" /\ want[t].pid = pid[c])
      ~> state[c] # "ZOMBIE"

\* A sleeper with a deadline is woken no matter what the device does.
DeadlineWakes ==
  \A t \in Slots :
    state[t] = "BLOCKED" /\ wake_tick[t] # 0 ~> state[t] # "BLOCKED"
=============================================================================
