-------------------------- MODULE SchedulerProofs --------------------------
(***************************************************************************)
(* Theorems about the scheduler, for every number of tasks, every slice    *)
(* length, every width of the tick counter and every set of timeouts.      *)
(***************************************************************************)
EXTENDS SchedulerInv, WellFoundedInduction, TLAPS

-----------------------------------------------------------------------------
(* Arithmetic and the round-robin choice *)

\* A remainder is in the range of the divisor (the uint32 tick counter).
LEMMA ModRange == \A a \in Int, b \in Nat \ {0} : a % b \in 0 .. b - 1
  OBVIOUS

\* Some candidate is nearest in the rotation of schedule().
LEMMA NearestExists ==
  ASSUME NEW R, R \subseteq Slots, R # {}, NEW cur \in Slots
  PROVE  \E t \in R : \A u \in R : Dist(cur, t) <= Dist(cur, u)
<1>1. MaxTasks \in Nat BY SchedulerAssumption
<1>2. \A t \in Slots : Dist(cur, t) \in Nat BY <1>1 DEF Slots, Dist
<1> DEFINE D == {Dist(cur, t) : t \in R}
<1>3. D \subseteq Nat /\ D # {} BY <1>2
<1>4. PICK d \in D : \A e \in D : ~(<<e, d>> \in OpToRel(<, Nat))
  BY <1>3, NatLessThanWellFounded, WFMin
<1>5. ASSUME NEW e \in D PROVE d <= e
  <2>1. e \in Nat /\ d \in Nat BY <1>3
  <2>2. e < d => <<e, d>> \in OpToRel(<, Nat)
    <3> HIDE DEF D
    <3> QED BY <2>1 DEF OpToRel
  <2>3. ~(e < d) BY <1>4, <2>2, Zenon
  <2> QED BY <2>1, <2>3
<1>6. PICK t \in R : d = Dist(cur, t) BY <1>4
<1>7. \A u \in R : Dist(cur, u) \in D OBVIOUS
<1> QED BY <1>5, <1>6, <1>7

\* schedule() picks a slot, and a runnable one whenever there is one.
LEMMA NextOfRange ==
  ASSUME NEW st, NEW cur \in Slots
  PROVE  /\ NextOf(st, cur) \in Slots
         /\ Runnable(st) # {} => NextOf(st, cur) \in Runnable(st)
<1>1. CASE Runnable(st) = {} BY <1>1 DEF NextOf
<1>2. CASE Runnable(st) # {}
  <2>1. Runnable(st) \subseteq Slots BY DEF Runnable
  <2>2. \E t \in Runnable(st) :
          \A u \in Runnable(st) : Dist(cur, t) <= Dist(cur, u)
    BY <1>2, <2>1, NearestExists
  <2> QED BY <1>2, <2>1, <2>2 DEF NextOf
<1> QED BY <1>1, <1>2

-----------------------------------------------------------------------------
(* Type correctness *)

\* switch_to leaves every field it writes in its type.
LEMMA SwitchToType ==
  ASSUME TypeOK,
         NEW st \in [Slots -> States], NEW pcs \in [Slots -> Labels],
         NEW wt \in [Slots -> 0 .. Wrap - 1], NEW ifs \in [Slots -> BOOLEAN],
         NEW old \in Slots, NEW new \in Slots,
         SwitchTo(st, pcs, wt, ifs, old, new)
  PROVE  /\ cpu' \in Slots \cup {Stale}
         /\ esp' \in [Slots -> Slots \cup {Stale}]
         /\ state' \in [Slots -> States]
         /\ pid' \in [Slots -> 0 .. MaxPid]
         /\ fds' \in [Slots -> 0 .. Len(FdKinds)]
         /\ pc' \in [Slots -> Labels]
         /\ intr' \in [Slots -> BOOLEAN]
         /\ wake_tick' \in [Slots -> 0 .. Wrap - 1]
<1>1. Wrap \in Nat /\ Wrap >= 4 /\ MaxPid \in Nat /\ Len(FdKinds) \in Nat
  BY SchedulerAssumption
<1>2. \A l \in Labels : Landing(l) \in Labels BY DEF Landing, Labels
<1>3. "UNUSED" \in States BY DEF States
<1>4. cpu' \in Slots \cup {Stale} BY DEF SwitchTo, TypeOK
<1>5. esp' \in [Slots -> Slots \cup {Stale}] BY DEF SwitchTo, TypeOK
<1>6. state' \in [Slots -> States] BY <1>3 DEF SwitchTo
<1>7. pid' \in [Slots -> 0 .. MaxPid] BY <1>1 DEF SwitchTo, TypeOK
<1>8. fds' \in [Slots -> 0 .. Len(FdKinds)] BY <1>1 DEF SwitchTo, TypeOK
<1>9. pc' \in [Slots -> Labels] BY <1>2 DEF SwitchTo
<1>10. intr' \in [Slots -> BOOLEAN] BY DEF SwitchTo
<1>11. wake_tick' \in [Slots -> 0 .. Wrap - 1] BY <1>1 DEF SwitchTo
<1> QED BY <1>4, <1>5, <1>6, <1>7, <1>8, <1>9, <1>10, <1>11

\* So does schedule().
LEMMA ScheduleType ==
  ASSUME TypeOK,
         NEW st \in [Slots -> States], NEW pcs \in [Slots -> Labels],
         NEW wt \in [Slots -> 0 .. Wrap - 1], NEW ifs \in [Slots -> BOOLEAN],
         Schedule(st, pcs, wt, ifs)
  PROVE  /\ g_current' \in Slots
         /\ ticks' \in [Slots -> 0 .. Timeslice]
         /\ cpu' \in Slots \cup {Stale}
         /\ esp' \in [Slots -> Slots \cup {Stale}]
         /\ state' \in [Slots -> States]
         /\ pid' \in [Slots -> 0 .. MaxPid]
         /\ fds' \in [Slots -> 0 .. Len(FdKinds)]
         /\ pc' \in [Slots -> Labels]
         /\ intr' \in [Slots -> BOOLEAN]
         /\ wake_tick' \in [Slots -> 0 .. Wrap - 1]
<1> DEFINE cur == g_current
           tk == [ticks EXCEPT ![cur] = LessTick(@)]
           next == NextOf(st, cur)
           st2 == [st EXCEPT ![cur] = Preempted(@), ![next] = "RUNNING"]
<1>1. Timeslice \in Nat BY SchedulerAssumption
<1>2. cur \in Slots /\ next \in Slots BY NextOfRange DEF TypeOK
<1>3. tk \in [Slots -> 0 .. Timeslice]
  <2>1. ticks \in [Slots -> 0 .. Timeslice] BY DEF TypeOK
  <2> QED BY <1>1, <1>2, <2>1 DEF LessTick
<1>4. /\ [tk EXCEPT ![cur] = Timeslice] \in [Slots -> 0 .. Timeslice]
      /\ [tk EXCEPT ![next] = Timeslice] \in [Slots -> 0 .. Timeslice]
  <2> HIDE DEF tk, cur, next
  <2> QED BY <1>1, <1>2, <1>3
<1>5. st2 \in [Slots -> States]
  <2>1. "READY" \in States /\ "RUNNING" \in States BY DEF States
  <2> QED BY <1>2, <2>1 DEF Preempted
<1>6. \/ /\ g_current' = g_current /\ cpu' = cpu /\ esp' = esp /\ pid' = pid
         /\ fds' = fds /\ state' = st /\ pc' = pcs /\ wake_tick' = wt
         /\ intr' = ifs
         /\ ticks' \in {tk, [tk EXCEPT ![cur] = Timeslice]}
      \/ /\ g_current' = next
         /\ ticks' = [tk EXCEPT ![next] = Timeslice]
         /\ SwitchTo(st2, pcs, wt, ifs, cur, next)
  BY Zenon DEF Schedule
<1> HIDE DEF cur, tk, next, st2
<1>7. CASE /\ g_current' = g_current /\ cpu' = cpu /\ esp' = esp /\ pid' = pid
           /\ fds' = fds /\ state' = st /\ pc' = pcs /\ wake_tick' = wt
           /\ intr' = ifs
           /\ ticks' \in {tk, [tk EXCEPT ![cur] = Timeslice]}
  BY <1>3, <1>4, <1>7 DEF TypeOK
<1>8. CASE /\ g_current' = next
           /\ ticks' = [tk EXCEPT ![next] = Timeslice]
           /\ SwitchTo(st2, pcs, wt, ifs, cur, next)
  BY <1>2, <1>4, <1>5, <1>8, SwitchToType
<1> QED BY <1>6, <1>7, <1>8

\* Facts every type proof below needs, with the sets left unexpanded.
LEMMA TypeFacts ==
  /\ 0 \in Slots /\ Stale \notin Slots
  /\ 0 \in 0 .. Wrap - 1 /\ 0 \in 0 .. MaxPid /\ 0 \in 0 .. Len(FdKinds)
  /\ 0 \in 0 .. Timeslice /\ Timeslice \in 0 .. Timeslice
  /\ Len(FdKinds) \in 0 .. Len(FdKinds)
  /\ {"fresh", "run", "check", "reap", "sleep", "slept", "hlt", "h_remove",
      "h_tick", "h_state", "sched", "s_state", "s_current", "s_running",
      "s_switch", "yielded", "create", "create_stack", "closing", "park"}
       \subseteq Labels
  /\ {"UNUSED", "READY", "RUNNING", "BLOCKED", "ZOMBIE"} \subseteq States
  /\ NoQueue \in Queues \cup {NoQueue} /\ "dev" \in Queues /\ "reap" \in Queues
<1>1. /\ MaxTasks \in Nat \ {0} /\ Timeslice \in Nat \ {0}
      /\ Wrap \in Nat /\ Wrap >= 4 /\ MaxPid \in Nat /\ Len(FdKinds) \in Nat
  BY SchedulerAssumption
<1>2. 0 \in Slots /\ Stale \notin Slots BY <1>1 DEF Slots, Stale
<1> QED BY <1>1, <1>2 DEF Labels, States, Queues

\* The arguments of a wait loop that the actions build are well typed.
LEMMA WaitFacts ==
  /\ Idle \in Waits
  /\ \A f \in BOOLEAN : [Idle EXCEPT !.iflag = f] \in Waits
  /\ \A f \in BOOLEAN, p \in 1 .. MaxPid :
       [q |-> "reap", pid |-> p, ms |-> 0, iflag |-> f] \in Waits
  /\ \A f \in BOOLEAN, m \in Timeouts :
       [q |-> "dev", pid |-> 0, ms |-> m, iflag |-> f] \in Waits
  /\ \A w \in Waits : w.q \in Queues \cup {NoQueue} /\ w.ms \in Nat
  BY SchedulerAssumption DEF Waits, Idle, Queues

\* The interrupt flag on entry to and exit from a system call is a flag.
LEMMA FlagType ==
  ASSUME TypeOK, cpu \in Slots
  PROVE  EnterIF \in BOOLEAN /\ LeaveIF \in BOOLEAN
<1>1. intr[cpu] \in BOOLEAN BY DEF TypeOK
<1> QED BY <1>1, Zenon DEF EnterIF, LeaveIF

\* Leaving a wait loop keeps the types of the stack's variables.
LEMMA ReturnType ==
  ASSUME TypeOK, cpu \in Slots, Return
  PROVE  /\ pc' \in [Slots -> Labels] /\ intr' \in [Slots -> BOOLEAN]
         /\ want' \in [Slots -> Waits]
<1>1. LeaveIF \in BOOLEAN BY FlagType
<1>2. "run" \in Labels BY TypeFacts
<1> QED BY <1>1, <1>2, WaitFacts DEF TypeOK, Return, Goto

\* Registering a task keeps the types of the table.
LEMMA RegisterType ==
  ASSUME TypeOK, NEW t \in Slots, NEW user \in BOOLEAN,
         NEW n \in 0 .. Len(FdKinds), Register(t, user, n)
  PROVE  /\ g_next_pid' \in 1 .. MaxPid + 1
         /\ state' \in [Slots -> States] /\ ticks' \in [Slots -> 0 .. Timeslice]
         /\ pid' \in [Slots -> 0 .. MaxPid] /\ is_user' \in [Slots -> BOOLEAN]
         /\ wake_tick' \in [Slots -> 0 .. Wrap - 1]
         /\ wait_q' \in [Slots -> Queues \cup {NoQueue}]
         /\ fds' \in [Slots -> 0 .. Len(FdKinds)]
<1>1. g_next_pid \in 0 .. MaxPid /\ g_next_pid' \in 1 .. MaxPid + 1
  <2>1. MaxPid \in Nat BY SchedulerAssumption
  <2>2. g_next_pid \in 1 .. MaxPid + 1 /\ g_next_pid <= MaxPid
        /\ g_next_pid' = g_next_pid + 1
    BY DEF TypeOK, Register
  <2> QED BY <2>1, <2>2
<1> QED BY <1>1, TypeFacts DEF TypeOK, Register

\* Every step of the kernel leaves every variable in its type.
LEMMA TypeStep == TypeOK /\ [Next]_vars => TypeOK'
<1> SUFFICES ASSUME TypeOK, [Next]_vars PROVE TypeOK' OBVIOUS
<1>1. CASE UNCHANGED vars BY <1>1 DEF TypeOK, vars
<1>2. CASE BeginWait
  <2>1. cpu \in Slots BY <1>2 DEF BeginWait, MayDo, At, TypeOK
  <2>2. EnterIF \in BOOLEAN BY <2>1, FlagType
  <2>3. want' \in [Slots -> Waits]
    <3>1. want \in [Slots -> Waits] BY DEF TypeOK
    <3> QED BY <1>2, <2>1, <2>2, <3>1, WaitFacts DEF BeginWait
  <2>4. intr' \in [Slots -> BOOLEAN] BY <1>2, <2>1, <2>2 DEF BeginWait, TypeOK
  <2> QED BY <1>2, <2>1, <2>3, <2>4, TypeFacts DEF TypeOK, BeginWait, Goto
<1>3. CASE CheckPid
  <2>1. cpu \in Slots BY <1>3 DEF CheckPid, At, TypeOK
  <2>2. CASE Return /\ UNCHANGED nxt
    BY <1>3, <2>1, <2>2, ReturnType DEF TypeOK, CheckPid
  <2>3. CASE \E t \in Find(want[cpu].pid) :
               /\ IF state[t] = "ZOMBIE"
                  THEN Goto("reap") /\ nxt' = [nxt EXCEPT ![cpu] = t]
                  ELSE Goto("sleep") /\ UNCHANGED nxt
               /\ UNCHANGED <<intr, want>>
    <3>1. PICK t \in Slots :
               /\ IF state[t] = "ZOMBIE"
                  THEN Goto("reap") /\ nxt' = [nxt EXCEPT ![cpu] = t]
                  ELSE Goto("sleep") /\ UNCHANGED nxt
               /\ UNCHANGED <<intr, want>>
      BY <2>3 DEF Find
    <3>2. nxt' \in [Slots -> Slots] BY <2>1, <3>1 DEF TypeOK
    <3>3. pc' \in [Slots -> Labels] BY <2>1, <3>1, TypeFacts DEF TypeOK, Goto
    <3> QED BY <1>3, <3>1, <3>2, <3>3 DEF TypeOK, CheckPid
  <2> QED BY <1>3, <2>2, <2>3 DEF CheckPid
<1>4. CASE ReapPid
  <2>1. cpu \in Slots BY <1>4 DEF ReapPid, At, TypeOK
  <2> QED BY <1>4, <2>1, ReturnType, TypeFacts DEF TypeOK, ReapPid
<1>5. CASE PollPid
  <2>1. cpu \in Slots BY <1>5 DEF PollPid, MayDo, At, TypeOK
  <2>2. EnterIF \in BOOLEAN BY <2>1, FlagType
  <2>3. want' \in [Slots -> Waits] /\ nxt' \in [Slots -> Slots]
    <3>1. want \in [Slots -> Waits] /\ nxt \in [Slots -> Slots] BY DEF TypeOK
    <3> QED BY <1>5, <2>1, <2>2, <3>1, WaitFacts DEF PollPid
  <2>4. intr' \in [Slots -> BOOLEAN] BY <1>5, <2>1, <2>2 DEF PollPid, TypeOK
  <2> QED BY <1>5, <2>1, <2>3, <2>4, TypeFacts DEF TypeOK, PollPid, Goto
<1>6. CASE CheckDevice
  <2>1. cpu \in Slots BY <1>6 DEF CheckDevice, At, TypeOK
  <2>2. CASE Return /\ data' \in BOOLEAN
    BY <1>6, <2>1, <2>2, ReturnType DEF TypeOK, CheckDevice
  <2>3. CASE Goto("sleep") /\ UNCHANGED <<intr, want, data>>
    BY <1>6, <2>1, <2>3, TypeFacts DEF TypeOK, CheckDevice, Goto
  <2>4. data \in BOOLEAN BY DEF TypeOK
  <2> QED BY <1>6, <2>2, <2>3, <2>4, Zenon DEF CheckDevice
<1>7. CASE SchedPick
  <2>1. cpu \in Slots /\ g_current \in Slots BY <1>7 DEF SchedPick, At, TypeOK
  <2>2. NextOf(state, g_current) \in Slots BY <2>1, NextOfRange
  <2>3. ticks' \in [Slots -> 0 .. Timeslice]
    <3>1. Timeslice \in Nat BY SchedulerAssumption
    <3>2. ticks \in [Slots -> 0 .. Timeslice] BY DEF TypeOK
    <3> DEFINE left == LessTick(ticks[g_current])
    <3>3. left \in 0 .. Timeslice BY <2>1, <3>1, <3>2 DEF LessTick
    <3>4. \/ ticks' = [ticks EXCEPT ![g_current] = left]
          \/ ticks' = [ticks EXCEPT ![g_current] = Timeslice]
      BY <1>7 DEF SchedPick
    <3> HIDE DEF left
    <3> QED BY <2>1, <3>2, <3>3, <3>4, TypeFacts
  <2>4. nxt' \in [Slots -> Slots] BY <1>7, <2>1, <2>2 DEF SchedPick, TypeOK
  <2>5. pc' \in [Slots -> Labels]
    BY ZenonT(60), <1>7, <2>1, TypeFacts DEF SchedPick, TypeOK, Goto, AfterSchedule
  <2>6. intr' \in [Slots -> BOOLEAN] BY <1>7, <2>1 DEF SchedPick, TypeOK
  <2> QED BY <1>7, <2>3, <2>4, <2>5, <2>6 DEF TypeOK, SchedPick
<1>8. CASE CreateEntry
  <2>1. cpu \in Slots /\ nxt[cpu] \in Slots BY <1>8 DEF CreateEntry, At, TypeOK
  <2>2. Register(nxt[cpu], FALSE, 0) BY <1>8 DEF CreateEntry
  <2> QED BY <1>8, <2>1, <2>2, RegisterType, TypeFacts DEF TypeOK, CreateEntry, Goto
<1>9. CASE Spawn
  <2>1. cpu \in Slots BY <1>9 DEF Spawn, MayDo, At, TypeOK
  <2>2. PICK t \in Slots :
          /\ Register(t, TRUE, IF is_user[g_current] THEN fds[g_current] ELSE 0)
          /\ esp' = [esp EXCEPT ![t] = StackInit(t)]
          /\ pc' = [pc EXCEPT ![t] = "fresh"]
          /\ intr' = [intr EXCEPT ![t] = FALSE, ![cpu] = TRUE]
    BY <1>9 DEF Spawn
  <2>3. (IF is_user[g_current] THEN fds[g_current] ELSE 0) \in 0 .. Len(FdKinds)
    BY TypeFacts DEF TypeOK
  <2>4. /\ esp' \in [Slots -> Slots \cup {Stale}] /\ pc' \in [Slots -> Labels]
        /\ intr' \in [Slots -> BOOLEAN]
    BY <2>1, <2>2, TypeFacts DEF TypeOK, StackInit
  <2>5. /\ g_next_pid' \in 1 .. MaxPid + 1
        /\ state' \in [Slots -> States] /\ ticks' \in [Slots -> 0 .. Timeslice]
        /\ pid' \in [Slots -> 0 .. MaxPid] /\ is_user' \in [Slots -> BOOLEAN]
        /\ wake_tick' \in [Slots -> 0 .. Wrap - 1]
        /\ wait_q' \in [Slots -> Queues \cup {NoQueue}]
        /\ fds' \in [Slots -> 0 .. Len(FdKinds)]
    BY <2>2, <2>3, RegisterType
  <2> QED BY <1>9, <2>4, <2>5 DEF TypeOK, Spawn
<1>10. CASE CloseFd
  <2>1. cpu \in Slots BY <1>10 DEF CloseFd, At, TypeOK
  <2>2. fds' \in [Slots -> 0 .. Len(FdKinds)]
    <3>1. Len(FdKinds) \in Nat /\ fds \in [Slots -> 0 .. Len(FdKinds)]
      BY SchedulerAssumption DEF TypeOK
    <3> QED BY <1>10, <2>1, <3>1 DEF CloseFd
  <2>3. intr' \in [Slots -> BOOLEAN] BY <1>10, <2>1 DEF CloseFd, TypeOK
  <2>4. pc' \in [Slots -> Labels]
    BY <1>10, <2>1, TypeFacts DEF CloseFd, TypeOK, Goto
  <2> QED BY <1>10, <2>2, <2>3, <2>4 DEF TypeOK, CloseFd
<1>11. CASE Irq0
  <2> DEFINE tick == (now + 1) % Wrap
             W == {t \in Slots : Expired(t, tick)}
             st == [t \in Slots |-> IF t \in W THEN "READY" ELSE state[t]]
             wt == [t \in Slots |-> IF t \in W THEN 0 ELSE wake_tick[t]]
  <2>1. tick \in 0 .. Wrap - 1
    <3>1. now + 1 \in Int /\ Wrap \in Nat \ {0} BY SchedulerAssumption DEF TypeOK
    <3> QED BY <3>1, ModRange
  <2>2. st \in [Slots -> States] BY TypeFacts DEF TypeOK
  <2>3. wt \in [Slots -> 0 .. Wrap - 1] BY TypeFacts DEF TypeOK
  <2>4. AfterIrq(pc) \in [Slots -> Labels] BY TypeFacts DEF TypeOK, AfterIrq
  <2>5. wait_q' \in [Slots -> Queues \cup {NoQueue}]
    BY <1>11 DEF TypeOK, Irq0
  <2>6. Schedule(st, AfterIrq(pc), wt, intr) /\ now' = tick BY <1>11 DEF Irq0
  <2>7. intr \in [Slots -> BOOLEAN] BY DEF TypeOK
  <2> HIDE DEF tick, W, st, wt
  <2> QED BY <1>11, <2>1, <2>2, <2>3, <2>4, <2>5, <2>6, <2>7, ScheduleType
          DEF TypeOK, Irq0
<1>12. CASE IrqDevice
  BY <1>12, TypeFacts DEF TypeOK, IrqDevice, WakeAll, AfterIrq
<1>13. CASE Sleep
  <2> DEFINE st == [state EXCEPT ![g_current] = "BLOCKED"]
             wt == [wake_tick EXCEPT ![g_current] =
                      IF want[cpu].ms = 0 THEN 0 ELSE (now + want[cpu].ms) % Wrap]
             alone == NextOf(st, g_current) = g_current
             pcs == [pc EXCEPT ![cpu] = IF alone THEN "hlt" ELSE "slept"]
             ifs == [intr EXCEPT ![cpu] = alone]
  <2>1. cpu \in Slots /\ g_current \in Slots BY <1>13 DEF Sleep, At, TypeOK
  <2>2. want[cpu].q \in Queues \cup {NoQueue} /\ want[cpu].ms \in Nat
    BY <2>1, WaitFacts DEF TypeOK
  <2>3. (now + want[cpu].ms) % Wrap \in 0 .. Wrap - 1
    <3>1. now + want[cpu].ms \in Int /\ Wrap \in Nat \ {0}
      BY SMTT(30), <2>2, SchedulerAssumption DEF TypeOK
    <3> QED BY <3>1, ModRange
  <2>4. st \in [Slots -> States] BY <2>1, TypeFacts DEF TypeOK
  <2>5. wt \in [Slots -> 0 .. Wrap - 1] BY <2>1, <2>3, TypeFacts DEF TypeOK
  <2>6. pcs \in [Slots -> Labels] BY <2>1, TypeFacts DEF TypeOK
  <2>7. ifs \in [Slots -> BOOLEAN]
    <3>1. alone \in BOOLEAN OBVIOUS
    <3> HIDE DEF alone
    <3> QED BY <2>1, <3>1 DEF TypeOK
  <2>8. wait_q' \in [Slots -> Queues \cup {NoQueue}]
    BY <1>13, <2>1, <2>2 DEF TypeOK, Sleep
  <2>9. Schedule(st, pcs, wt, ifs) BY <1>13 DEF Sleep
  <2> HIDE DEF st, wt, alone, pcs, ifs
  <2> QED BY <1>13, <2>4, <2>5, <2>6, <2>7, <2>8, <2>9, ScheduleType
          DEF TypeOK, Sleep
<1>14. CASE SchedSwitch
  <2>1. cpu \in Slots /\ nxt[cpu] \in Slots BY <1>14 DEF SchedSwitch, At, TypeOK
  <2>2. [pc EXCEPT ![cpu] = "yielded"] \in [Slots -> Labels]
    BY <2>1, TypeFacts DEF TypeOK
  <2>3. SwitchTo(state, [pc EXCEPT ![cpu] = "yielded"], wake_tick, intr, cpu,
                 nxt[cpu])
    BY <1>14 DEF SchedSwitch
  <2>4. nxt' \in [Slots -> Slots] BY <1>14, <2>1, TypeFacts DEF SchedSwitch, TypeOK
  <2>5. /\ state \in [Slots -> States] /\ wake_tick \in [Slots -> 0 .. Wrap - 1]
        /\ intr \in [Slots -> BOOLEAN]
    BY DEF TypeOK
  <2>6. /\ cpu' \in Slots \cup {Stale}
        /\ esp' \in [Slots -> Slots \cup {Stale}]
        /\ state' \in [Slots -> States]
        /\ pid' \in [Slots -> 0 .. MaxPid]
        /\ fds' \in [Slots -> 0 .. Len(FdKinds)]
        /\ pc' \in [Slots -> Labels]
        /\ intr' \in [Slots -> BOOLEAN]
        /\ wake_tick' \in [Slots -> 0 .. Wrap - 1]
    BY <2>1, <2>2, <2>3, <2>5, SwitchToType
  <2> QED BY <1>14, <2>4, <2>6 DEF TypeOK, SchedSwitch
<1>15. CASE ShellSti
  BY <1>15, TypeFacts DEF TypeOK, ShellSti, At
<1>16. CASE HltRemove
  BY <1>16, TypeFacts DEF TypeOK, HltRemove, At, Goto
<1>17. CASE HltTick
  BY <1>17, TypeFacts DEF TypeOK, HltTick, At, Goto
<1>18. CASE HltState
  BY <1>18, TypeFacts DEF TypeOK, HltState, At, Goto
<1>19. CASE Yield
  BY <1>19, TypeFacts DEF TypeOK, Yield, MayDo, At, Goto
<1>20. CASE SchedState
  BY <1>20, TypeFacts DEF TypeOK, SchedState, At, Goto, Preempted
<1>21. CASE SchedCurrent
  BY <1>21, TypeFacts DEF TypeOK, SchedCurrent, At, Goto
<1>22. CASE SchedRunning
  BY <1>22, TypeFacts DEF TypeOK, SchedRunning, At, Goto
<1>23. CASE CreateFind
  <2>1. cpu \in Slots BY <1>23 DEF CreateFind, MayDo, At, TypeOK
  <2>2. PICK t \in Slots : nxt' = [nxt EXCEPT ![cpu] = t] BY <1>23 DEF CreateFind
  <2>3. nxt' \in [Slots -> Slots] BY <2>1, <2>2 DEF TypeOK
  <2> QED BY <1>23, <2>1, <2>3, TypeFacts DEF TypeOK, CreateFind, Goto
<1>24. CASE CreateStack
  BY <1>24, TypeFacts DEF TypeOK, CreateStack, At, StackInit
<1>25. CASE TaskExit
  BY <1>25, TypeFacts DEF TypeOK, TaskExit, MayDo, At, Goto
<1>26. CASE OpenFds
  BY <1>26, TypeFacts DEF TypeOK, OpenFds, MayDo, At
<1>27. CASE ProcessExit
  <2>1. cpu \in Slots BY <1>27 DEF ProcessExit, MayDo, At, TypeOK
  <2>2. EnterIF \in BOOLEAN BY <2>1, FlagType
  <2> QED BY <1>27, <2>1, <2>2, TypeFacts DEF TypeOK, ProcessExit, Goto, WakeAll
<1> QED
  BY <1>1, <1>2, <1>3, <1>4, <1>5, <1>6, <1>7, <1>8, <1>9, <1>10, <1>11,
     <1>12, <1>13, <1>14, <1>15, <1>16, <1>17, <1>18, <1>19, <1>20, <1>21,
     <1>22, <1>23, <1>24, <1>25, <1>26, <1>27
  DEF Next, Interrupts, CpuStep, SleepTail, Switching, Operation

\* So does task_init.
LEMMA InitType == Init => TypeOK
<1> SUFFICES ASSUME Init PROVE TypeOK OBVIOUS
<1>1. "none" \in Labels /\ Stale \in Slots \cup {Stale} BY DEF Labels
<1>2. 1 \in 1 .. MaxPid + 1 BY SchedulerAssumption
<1>3. want \in [Slots -> Waits] BY WaitFacts DEF Init
<1>4. /\ state \in [Slots -> States] /\ pc \in [Slots -> Labels]
      /\ esp \in [Slots -> Slots \cup {Stale}]
  BY <1>1, TypeFacts DEF Init
<1>5. /\ ticks \in [Slots -> 0 .. Timeslice] /\ nxt \in [Slots -> Slots]
      /\ wake_tick \in [Slots -> 0 .. Wrap - 1]
  BY TypeFacts DEF Init
<1> QED BY <1>2, <1>3, <1>4, <1>5, TypeFacts DEF Init, TypeOK

\* Type correctness of the task table, the CPU and every stack: whatever
\* interrupts and system calls interleave, every field of task.h stays in range.
THEOREM TypeCorrect == Spec => []TypeOK
  BY InitType, TypeStep, PTL DEF Spec

-----------------------------------------------------------------------------
(* Disciplined use keeps the promises of Scheduler: IInv is inductive, and *)
(* the safety properties follow from it, whatever the interleaving of      *)
(* interrupts and system calls.                                            *)

\* The parts of TypeOK the invariant proofs use.
LEMMA Shape ==
  ASSUME TypeOK
  PROVE  /\ g_current \in Slots /\ cpu \in Slots \cup {Stale}
         /\ state \in [Slots -> States] /\ pc \in [Slots -> Labels]
         /\ want \in [Slots -> Waits] /\ nxt \in [Slots -> Slots]
         /\ intr \in [Slots -> BOOLEAN] /\ is_user \in [Slots -> BOOLEAN]
         /\ wait_q \in [Slots -> Queues \cup {NoQueue}]
         /\ esp \in [Slots -> Slots \cup {Stale}]
         /\ 0 \in Slots
  BY TypeFacts DEF TypeOK

\* Code that runs as the current task and only moves on locally: its label,
\* its flag, the arguments of its wait loop and its local variable.
LEMMA LocalStepKeeps ==
  ASSUME TypeOK, IInv,
         NEW l \in TaskPath, NEW f \in BOOLEAN, NEW w \in Waits, NEW n \in Slots,
         pc[cpu] \in TaskPath,
         pc' = [pc EXCEPT ![cpu] = l],
         intr' = [intr EXCEPT ![cpu] = f],
         want' = [want EXCEPT ![cpu] = w],
         nxt' = [nxt EXCEPT ![cpu] = n],
         UNCHANGED <<g_current, g_next_pid, state, pid, is_user, wait_q, fds,
                     esp, cpu>>,
         l \in {"check", "sleep"} => /\ ~f /\ cpu # 0 /\ w.q \in Queues
                                     /\ w.q = "reap" =>
                                          "wait" \in UserOps /\ w.pid # 0,
         l = "sleep" /\ w.q = "reap" =>
           \A c \in Slots : state[c] = "ZOMBIE" => pid[c] # w.pid,
         l = "reap" => /\ state[n] = "ZOMBIE"
                       /\ cpu = 0 => "poll" \in KernelOps
                       /\ cpu # 0 => ~f /\ UserOps \cap {"wait", "poll"} # {}
  PROVE  IInv'
<1>1. /\ cpu \in Slots /\ cpu = g_current /\ state[cpu] = "RUNNING"
      /\ pc \in [Slots -> Labels] /\ want \in [Slots -> Waits]
      /\ nxt \in [Slots -> Slots] /\ intr \in [Slots -> BOOLEAN]
  BY Shape DEF IInv, ExecInv
<1>2. ExecInv'
  BY <1>1 DEF IInv, ExecInv, TaskPath, ExitPath
<1>3. FrameInv' BY <1>1 DEF IInv, FrameInv
<1>4. ShellInv'
  <2>1. cpu = 0 => l \in {"run", "reap"} BY DEF TaskPath
  <2> QED BY <1>1, <2>1, Shape DEF IInv, ShellInv
<1>5. UserInv' /\ RunningInv' BY DEF IInv, UserInv, RunningInv
<1>6. SleepInv'
  <2>1. l # "slept" BY DEF TaskPath
  <2> QED BY <1>1, <2>1 DEF IInv, SleepInv
<1>7. PidInv' BY DEF IInv, PidInv
<1>8. WaitInv' BY <1>1 DEF IInv, WaitInv
<1>9. ReapInv' BY <1>1 DEF IInv, ReapInv
<1>10. FdInv' BY <1>1 DEF IInv, FdInv, TaskPath, PipeClosed
<1> QED BY <1>2, <1>3, <1>4, <1>5, <1>6, <1>7, <1>8, <1>9, <1>10 DEF IInv

\* What an operation of the current task knows about that task.
LEMMA MayDoFacts ==
  ASSUME TypeOK, IInv, NEW op, MayDo(op)
  PROVE  /\ cpu \in Slots /\ cpu = g_current /\ pc[cpu] = "run"
         /\ state[cpu] = "RUNNING"
         /\ cpu = 0 => op \in KernelOps /\ op # "exit" /\ ~is_user[cpu]
         /\ cpu # 0 => op \in UserOps /\ is_user[cpu]
<1>1. cpu \in Slots /\ pc[cpu] = "run" /\ cpu = g_current /\ state[cpu] = "RUNNING"
  BY DEF MayDo, At, IInv, ExecInv, TaskPath
<1>2. cpu = 0 => ~is_user[cpu] BY DEF IInv, ShellInv
<1>3. cpu # 0 => is_user[cpu] BY <1>1 DEF IInv, UserInv
<1> QED BY <1>1, <1>2, <1>3 DEF MayDo

\* Entering a wait loop: only a system call does, with IF = 0.
LEMMA BeginWaitKeeps ==
  ASSUME Disciplined, TypeOK, IInv, BeginWait PROVE IInv'
<1>1. PICK op \in {"wait", "sleep"} :
        /\ MayDo(op)
        /\ \E w \in Waits : /\ want' = [want EXCEPT ![cpu] = w]
                            /\ w.q = IF op = "wait" THEN "reap" ELSE "dev"
                            /\ w.q = "reap" => w.pid # 0
  <2>1. CASE MayDo("wait")
             /\ \E p \in 1 .. MaxPid :
                  want' = [want EXCEPT ![cpu] =
                    [q |-> "reap", pid |-> p, ms |-> 0, iflag |-> EnterIF]]
    <3>1. EnterIF \in BOOLEAN BY <2>1, FlagType, MayDoFacts
    <3>2. PICK p \in 1 .. MaxPid :
            want' = [want EXCEPT ![cpu] =
              [q |-> "reap", pid |-> p, ms |-> 0, iflag |-> EnterIF]]
      BY <2>1
    <3> DEFINE w == [q |-> "reap", pid |-> p, ms |-> 0, iflag |-> EnterIF]
    <3>3. w \in Waits /\ w.q = "reap" /\ w.pid # 0 BY <3>1, WaitFacts
    <3> QED BY <2>1, <3>2, <3>3
  <2>2. CASE MayDo("sleep")
             /\ \E m \in Timeouts :
                  want' = [want EXCEPT ![cpu] =
                    [q |-> "dev", pid |-> 0, ms |-> m, iflag |-> EnterIF]]
    <3>1. EnterIF \in BOOLEAN BY <2>2, FlagType, MayDoFacts
    <3> QED BY <2>2, <3>1, WaitFacts
  <2> QED BY <2>1, <2>2, Zenon DEF BeginWait
<1>2. PICK w \in Waits : /\ want' = [want EXCEPT ![cpu] = w]
                         /\ w.q = IF op = "wait" THEN "reap" ELSE "dev"
                         /\ w.q = "reap" => w.pid # 0
  BY <1>1
<1>3. /\ cpu \in Slots /\ cpu = g_current /\ pc[cpu] = "run"
      /\ cpu # 0 /\ is_user[cpu] /\ op \in UserOps
  <2>1. op \notin KernelOps BY DEF Disciplined
  <2> QED BY <1>1, <2>1, MayDoFacts
<1>4. intr' = [intr EXCEPT ![cpu] = FALSE]
  BY <1>3 DEF BeginWait, EnterIF
<1>5. nxt' = [nxt EXCEPT ![cpu] = nxt[cpu]] /\ nxt[cpu] \in Slots
  BY <1>3, Shape DEF BeginWait
<1>6. w.q \in Queues /\ (w.q = "reap" => "wait" \in UserOps /\ w.pid # 0)
  BY <1>1, <1>2, <1>3 DEF Queues
<1>7. "check" \in TaskPath /\ "run" \in TaskPath BY DEF TaskPath
<1>8. /\ pc' = [pc EXCEPT ![cpu] = "check"]
      /\ UNCHANGED <<g_current, g_next_pid, state, pid, is_user, wait_q, fds,
                     esp, cpu>>
  BY DEF BeginWait, Goto
<1> QED
  BY <1>2, <1>3, <1>4, <1>5, <1>6, <1>7, <1>8, LocalStepKeeps

\* Leaving a wait loop, as far as the executing stack goes.
LEMMA ReturnFacts ==
  ASSUME TypeOK, IInv, Return
  PROVE  /\ pc' = [pc EXCEPT ![cpu] = "run"]
         /\ want' = [want EXCEPT ![cpu] = Idle] /\ Idle \in Waits
         /\ \E f \in BOOLEAN : intr' = [intr EXCEPT ![cpu] = f]
<1>1. LeaveIF \in BOOLEAN BY FlagType DEF IInv, ExecInv
<1> QED BY <1>1, WaitFacts DEF Return, Goto

\* The top of the loop of task_wait_pid.
LEMMA CheckPidKeeps ==
  ASSUME Disciplined, TypeOK, IInv, CheckPid PROVE IInv'
<1>1. /\ cpu \in Slots /\ pc[cpu] = "check" /\ want[cpu].q = "reap" /\ cpu # 0
      /\ ~intr[cpu] /\ "wait" \in UserOps /\ want[cpu].pid # 0
  BY DEF CheckPid, At, IInv, ExecInv, ShellInv, SleepInv
<1>2. {"check", "run", "reap", "sleep"} \subseteq TaskPath BY DEF TaskPath
<1>3. UNCHANGED <<g_current, g_next_pid, state, pid, is_user, wait_q, fds,
                     esp, cpu>>
  BY DEF CheckPid
<1>4. /\ nxt[cpu] \in Slots /\ nxt = [nxt EXCEPT ![cpu] = nxt[cpu]]
      /\ want[cpu] \in Waits /\ want = [want EXCEPT ![cpu] = want[cpu]]
      /\ FALSE = intr[cpu] /\ intr = [intr EXCEPT ![cpu] = intr[cpu]]
  BY <1>1, Shape
<1>5. CASE Return /\ UNCHANGED nxt
  <2>1. PICK f \in BOOLEAN : intr' = [intr EXCEPT ![cpu] = f]
    BY <1>5, ReturnFacts
  <2>2. nxt' = [nxt EXCEPT ![cpu] = nxt[cpu]] BY <1>4, <1>5
  <2>3. /\ pc' = [pc EXCEPT ![cpu] = "run"]
        /\ want' = [want EXCEPT ![cpu] = Idle] /\ Idle \in Waits
    BY <1>5, ReturnFacts
  <2> QED BY <1>1, <1>2, <1>3, <1>4, <2>1, <2>2, <2>3, LocalStepKeeps
<1>6. CASE \E t \in Find(want[cpu].pid) :
             /\ IF state[t] = "ZOMBIE"
                THEN Goto("reap") /\ nxt' = [nxt EXCEPT ![cpu] = t]
                ELSE Goto("sleep") /\ UNCHANGED nxt
             /\ UNCHANGED <<intr, want>>
  <2>1. PICK t \in Find(want[cpu].pid) :
             /\ IF state[t] = "ZOMBIE"
                THEN Goto("reap") /\ nxt' = [nxt EXCEPT ![cpu] = t]
                ELSE Goto("sleep") /\ UNCHANGED nxt
             /\ UNCHANGED <<intr, want>>
    BY <1>6
  <2>2. t \in Slots /\ state[t] # "UNUSED" /\ pid[t] = want[cpu].pid
    BY DEF Find
  <2>3. /\ want' = [want EXCEPT ![cpu] = want[cpu]]
        /\ intr' = [intr EXCEPT ![cpu] = FALSE]
    BY <1>4, <2>1
  <2>4. CASE state[t] = "ZOMBIE"
    <3>1. pc' = [pc EXCEPT ![cpu] = "reap"] /\ nxt' = [nxt EXCEPT ![cpu] = t]
      BY <2>1, <2>4 DEF Goto
    <3>2. UserOps \cap {"wait", "poll"} # {} BY <1>1
    <3> QED BY <1>1, <1>2, <1>3, <1>4, <2>2, <2>3, <2>4, <3>1, <3>2, LocalStepKeeps
  <2>5. CASE state[t] # "ZOMBIE"
    <3>1. /\ pc' = [pc EXCEPT ![cpu] = "sleep"]
          /\ nxt' = [nxt EXCEPT ![cpu] = nxt[cpu]]
      BY <1>4, <2>1, <2>5 DEF Goto
    <3>2. \A c \in Slots : state[c] = "ZOMBIE" => pid[c] # want[cpu].pid
      BY <1>1, <2>2, <2>5 DEF IInv, PidInv
    <3>3. want[cpu].q \in Queues BY <1>1 DEF Queues
    <3> QED BY <1>1, <1>2, <1>3, <1>4, <2>3, <3>1, <3>2, <3>3, LocalStepKeeps
  <2> QED BY <2>4, <2>5
<1> QED BY <1>5, <1>6 DEF CheckPid

\* Collecting a finished process without waiting: shell or system call.
LEMMA PollPidKeeps ==
  ASSUME Disciplined, TypeOK, IInv, PollPid PROVE IInv'
<1>1. /\ cpu \in Slots /\ cpu = g_current /\ pc[cpu] = "run"
      /\ cpu = 0 => "poll" \in KernelOps
      /\ cpu # 0 => "poll" \in UserOps /\ is_user[cpu]
  <2>1. MayDo("poll") BY DEF PollPid
  <2> QED BY <2>1, MayDoFacts
<1>2. EnterIF \in BOOLEAN /\ [Idle EXCEPT !.iflag = EnterIF] \in Waits
  BY <1>1, FlagType, WaitFacts
<1>3. PICK t \in Slots : state[t] = "ZOMBIE" /\ nxt' = [nxt EXCEPT ![cpu] = t]
  BY DEF PollPid
<1>4. /\ pc' = [pc EXCEPT ![cpu] = "reap"]
      /\ intr' = [intr EXCEPT ![cpu] = EnterIF]
      /\ want' = [want EXCEPT ![cpu] = [Idle EXCEPT !.iflag = EnterIF]]
      /\ UNCHANGED <<g_current, g_next_pid, state, pid, is_user, wait_q, fds,
                     esp, cpu>>
  BY DEF PollPid, Goto
<1>5. "reap" \in TaskPath /\ "run" \in TaskPath BY DEF TaskPath
<1>6. cpu # 0 => ~EnterIF /\ UserOps \cap {"wait", "poll"} # {}
  BY <1>1 DEF EnterIF
<1> QED BY <1>1, <1>2, <1>3, <1>4, <1>5, <1>6, LocalStepKeeps

\* The top of a device wait loop.
LEMMA CheckDeviceKeeps ==
  ASSUME Disciplined, TypeOK, IInv, CheckDevice PROVE IInv'
<1>1. /\ cpu \in Slots /\ pc[cpu] = "check" /\ want[cpu].q = "dev" /\ cpu # 0
      /\ ~intr[cpu]
  BY DEF CheckDevice, At, IInv, ExecInv, ShellInv
<1>2. {"check", "run", "sleep"} \subseteq TaskPath BY DEF TaskPath
<1>3. UNCHANGED <<g_current, g_next_pid, state, pid, is_user, wait_q, fds,
                     esp, cpu>>
  BY DEF CheckDevice
<1>4. /\ nxt[cpu] \in Slots /\ nxt' = [nxt EXCEPT ![cpu] = nxt[cpu]]
      /\ want[cpu] \in Waits /\ want = [want EXCEPT ![cpu] = want[cpu]]
      /\ FALSE = intr[cpu] /\ intr = [intr EXCEPT ![cpu] = intr[cpu]]
  BY <1>1, Shape DEF CheckDevice
<1>5. CASE Return
  <2>1. PICK f \in BOOLEAN : intr' = [intr EXCEPT ![cpu] = f]
    BY <1>5, ReturnFacts
  <2> QED BY ZenonT(60), <1>1, <1>2, <1>3, <1>4, <1>5, <2>1, ReturnFacts, LocalStepKeeps
<1>6. CASE Goto("sleep") /\ UNCHANGED <<intr, want>>
  <2>1. /\ pc' = [pc EXCEPT ![cpu] = "sleep"]
        /\ want' = [want EXCEPT ![cpu] = want[cpu]]
        /\ intr' = [intr EXCEPT ![cpu] = FALSE]
    BY <1>4, <1>6 DEF Goto
  <2>2. want[cpu].q \in Queues /\ want[cpu].q # "reap" BY <1>1 DEF Queues
  <2> QED BY <1>1, <1>2, <1>3, <1>4, <2>1, <2>2, LocalStepKeeps
<1> QED BY <1>5, <1>6 DEF CheckDevice

\* task_wait_pid frees the slot of a process that is done with its stack.
LEMMA ReapPidKeeps ==
  ASSUME Disciplined, TypeOK, IInv, ReapPid PROVE IInv'
<1> DEFINE z == nxt[cpu]
<1>1. /\ cpu \in Slots /\ pc[cpu] = "reap" /\ cpu = g_current
      /\ state[cpu] = "RUNNING"
  BY DEF ReapPid, At, IInv, ExecInv, TaskPath
<1>2. z \in Slots /\ state[z] = "ZOMBIE" /\ z # cpu /\ z # 0
  BY <1>1, Shape DEF IInv, ReapInv, ShellInv
<1>3. PICK f \in BOOLEAN : intr' = [intr EXCEPT ![cpu] = f] BY ReturnFacts DEF ReapPid
<1>4. /\ pc' = [pc EXCEPT ![cpu] = "run"]
      /\ want' = [want EXCEPT ![cpu] = Idle]
      /\ nxt' = [nxt EXCEPT ![cpu] = 0]
      /\ state' = [state EXCEPT ![z] = "UNUSED"]
      /\ pid' = [pid EXCEPT ![z] = 0]
      /\ is_user' = [is_user EXCEPT ![z] = FALSE]
      /\ UNCHANGED <<g_current, g_next_pid, wait_q, fds, esp, cpu>>
  BY ReturnFacts DEF ReapPid
<1>5. /\ pc \in [Slots -> Labels] /\ state \in [Slots -> States]
      /\ pid \in [Slots -> 0 .. MaxPid] /\ is_user \in [Slots -> BOOLEAN]
      /\ want \in [Slots -> Waits] /\ nxt \in [Slots -> Slots]
      /\ intr \in [Slots -> BOOLEAN]
  BY DEF TypeOK
<1> HIDE DEF z
<1>6. ExecInv' BY <1>1, <1>2, <1>4, <1>5 DEF ExecInv, TaskPath, ExitPath
<1>7. FrameInv' BY <1>1, <1>2, <1>3, <1>4, <1>5 DEF IInv, FrameInv
<1>8. ShellInv' BY <1>1, <1>2, <1>4, <1>5, Shape DEF IInv, ShellInv
<1>9. UserInv' /\ RunningInv' BY <1>2, <1>4, <1>5 DEF IInv, UserInv, RunningInv
<1>10. SleepInv' BY <1>1, <1>2, <1>4, <1>5 DEF IInv, SleepInv
<1>11. PidInv'
  <2>1. g_next_pid \in Nat /\ 0 < g_next_pid BY SchedulerAssumption DEF TypeOK
  <2> QED BY <1>2, <1>4, <1>5, <2>1 DEF IInv, PidInv
<1>12. WaitInv' BY <1>1, <1>2, <1>4, <1>5 DEF IInv, WaitInv
<1>13. ReapInv'
  <2>1. \A t \in Slots : pc[t] = "reap" => t = cpu
    <3> SUFFICES ASSUME NEW t \in Slots, pc[t] = "reap", t # cpu PROVE FALSE
      OBVIOUS
    <3>1. t = 0 /\ cpu # 0 BY <1>1 DEF IInv, FrameInv
    <3>2. "poll" \in KernelOps /\ UserOps \cap {"wait", "poll"} # {}
      BY <1>1, <3>1, Shape DEF IInv, ReapInv
    <3> QED BY <3>2 DEF Disciplined
  <2> QED BY <1>1, <1>4, <1>5, <2>1 DEF ReapInv
<1>14. FdInv' BY <1>1, <1>2, <1>4, <1>5 DEF IInv, FdInv, PipeClosed
<1> QED
  BY <1>6, <1>7, <1>8, <1>9, <1>10, <1>11, <1>12, <1>13, <1>14 DEF IInv

\* exec_spawn and task_fork: the new slot was free, so nobody waits for it,
\* frees it or runs on it.
LEMMA SpawnKeeps ==
  ASSUME Disciplined, TypeOK, IInv, Spawn PROVE IInv'
<1>1. /\ cpu \in Slots /\ cpu = g_current /\ pc[cpu] = "run"
      /\ state[cpu] = "RUNNING"
  <2>1. MayDo("exec") \/ MayDo("fork") BY DEF Spawn
  <2> QED BY <2>1, MayDoFacts
<1>2. PICK t \in Slots :
        /\ FreeSlot(t)
        /\ Register(t, TRUE, IF is_user[g_current] THEN fds[g_current] ELSE 0)
        /\ esp' = [esp EXCEPT ![t] = StackInit(t)]
        /\ pc' = [pc EXCEPT ![t] = "fresh"]
        /\ intr' = [intr EXCEPT ![t] = FALSE, ![cpu] = TRUE]
  BY DEF Spawn
<1>3. state[t] = "UNUSED" /\ t # cpu /\ t # 0
  BY <1>1, <1>2 DEF FreeSlot, IInv, ShellInv
<1>4. /\ pid' = [pid EXCEPT ![t] = g_next_pid]
      /\ g_next_pid' = g_next_pid + 1
      /\ state' = [state EXCEPT ![t] = "READY"]
      /\ is_user' = [is_user EXCEPT ![t] = TRUE]
      /\ wait_q' = [wait_q EXCEPT ![t] = NoQueue]
      /\ \E k : fds' = [fds EXCEPT ![t] = k]
      /\ UNCHANGED <<g_current, cpu, want, nxt>>
  BY <1>2 DEF Register, Spawn
<1>5. /\ pc \in [Slots -> Labels] /\ state \in [Slots -> States]
      /\ is_user \in [Slots -> BOOLEAN] /\ nxt \in [Slots -> Slots]
      /\ wait_q \in [Slots -> Queues \cup {NoQueue}]
      /\ esp \in [Slots -> Slots \cup {Stale}] /\ intr \in [Slots -> BOOLEAN]
      /\ fds \in [Slots -> 0 .. Len(FdKinds)]
  BY DEF TypeOK
<1>6. ExecInv' BY <1>1, <1>2, <1>3, <1>4, <1>5 DEF ExecInv, TaskPath, ExitPath
<1>7. FrameInv'
  BY <1>1, <1>2, <1>3, <1>4, <1>5 DEF IInv, FrameInv, OffCpu, StackInit
<1>8. ShellInv' BY <1>2, <1>3, <1>4, <1>5, Shape DEF IInv, ShellInv
<1>9. UserInv' /\ RunningInv' BY <1>3, <1>4, <1>5 DEF IInv, UserInv, RunningInv
<1>10. SleepInv' BY <1>2, <1>3, <1>4, <1>5 DEF IInv, SleepInv
<1>11. PidInv'
  <2>1. /\ g_next_pid \in Nat /\ 0 < g_next_pid
        /\ pid \in [Slots -> Nat] /\ MaxPid \in Nat
    BY SchedulerAssumption DEF TypeOK
  <2> QED BY <1>3, <1>4, <1>5, <2>1 DEF IInv, PidInv
<1>12. WaitInv'
  <2>1. \A c \in Slots : state'[c] = "ZOMBIE" => state[c] = "ZOMBIE" /\ pid'[c] = pid[c]
    BY <1>3, <1>4, <1>5 DEF TypeOK
  <2>2. \A u \in Slots :
          /\ pc'[u] = "sleep" => pc[u] = "sleep"
          /\ state'[u] = "BLOCKED" => state[u] = "BLOCKED"
    BY <1>2, <1>3, <1>4, <1>5
  <2>3. want' = want BY <1>4
  <2> SUFFICES ASSUME NEW u \in Slots, NEW c \in Slots,
                      pc'[u] = "sleep" \/ state'[u] = "BLOCKED",
                      want[u].q = "reap", state'[c] = "ZOMBIE"
               PROVE  pid'[c] # want[u].pid
    BY <2>3 DEF WaitInv
  <2>4. pc[u] = "sleep" \/ state[u] = "BLOCKED" BY <2>2
  <2>5. state[c] = "ZOMBIE" /\ pid'[c] = pid[c] BY <2>1
  <2> QED BY <2>4, <2>5 DEF IInv, WaitInv
<1>13. ReapInv'
  <2>1. \A u \in Slots : pc'[u] = "reap" => pc[u] = "reap" BY <1>2, <1>5
  <2>2. \A u \in Slots : state[nxt[u]] = "ZOMBIE" => state'[nxt[u]] = "ZOMBIE"
    BY <1>3, <1>4, <1>5
  <2> QED BY <1>4, <2>1, <2>2 DEF IInv, ReapInv
<1>14. FdInv' BY <1>2, <1>3, <1>4, <1>5 DEF IInv, FdInv, PipeClosed
<1> QED
  BY <1>6, <1>7, <1>8, <1>9, <1>10, <1>11, <1>12, <1>13, <1>14 DEF IInv

\* Opening descriptors: the task is RUNNING.
LEMMA OpenFdsKeeps ==
  ASSUME Disciplined, TypeOK, IInv, OpenFds PROVE IInv'
<1>1. cpu \in Slots /\ cpu = g_current /\ state[cpu] = "RUNNING"
  BY MayDoFacts DEF OpenFds
<1>2. /\ FrameInv' /\ ShellInv' /\ UserInv' /\ RunningInv'
      /\ SleepInv' /\ PidInv' /\ WaitInv' /\ ReapInv'
  BY DEF OpenFds, IInv, FrameInv, ShellInv, UserInv, RunningInv,
         SleepInv, PidInv, WaitInv, ReapInv
<1>3. ExecInv' /\ FdInv'
  <2>1. ExecInv' BY <1>1 DEF OpenFds, IInv, ExecInv, ExitPath
  <2>2. FdInv' BY <1>1 DEF OpenFds, IInv, FdInv, TypeOK, PipeClosed
  <2> QED BY <2>1, <2>2
<1> QED BY <1>2, <1>3 DEF IInv

\* process_exit: every waiter on the reap queue is woken in the same step.
LEMMA ProcessExitKeeps ==
  ASSUME Disciplined, TypeOK, IInv, ProcessExit PROVE IInv'
<1>1. /\ cpu \in Slots /\ cpu = g_current /\ pc[cpu] = "run"
      /\ state[cpu] = "RUNNING" /\ cpu # 0 /\ is_user[cpu]
  <2>1. MayDo("exit") BY DEF ProcessExit
  <2> QED BY <2>1, MayDoFacts
<1> DEFINE Q == {"reap", wait_q[g_current]} \ {NoQueue}
           st == [state EXCEPT ![g_current] = "ZOMBIE"]
<1>2. wait_q[cpu] = NoQueue BY <1>1 DEF IInv, SleepInv
<1>3. Q = {"reap"} BY <1>1, <1>2 DEF NoQueue
<1>4. /\ pc \in [Slots -> Labels] /\ state \in [Slots -> States]
      /\ intr \in [Slots -> BOOLEAN] /\ nxt \in [Slots -> Slots]
  BY DEF TypeOK
<1>5. /\ state'[cpu] = "ZOMBIE"
      /\ \A t \in Slots \ {cpu} :
           state'[t] = IF wait_q[t] = "reap" /\ state[t] = "BLOCKED"
                       THEN "READY" ELSE state[t]
      /\ \A t \in Slots : wait_q'[t] = IF wait_q[t] = "reap" THEN NoQueue
                                       ELSE wait_q[t]
  <2>1. WakeAll(st, Q) BY DEF ProcessExit
  <2> HIDE DEF Q
  <2> QED BY <1>1, <1>2, <1>3, <1>4, <2>1 DEF WakeAll, NoQueue
<1>6. /\ pc' = [pc EXCEPT ![cpu] = "closing"]
      /\ intr' = [intr EXCEPT ![cpu] = FALSE]
      /\ UNCHANGED <<g_current, g_next_pid, pid, is_user, fds, esp, cpu, want, nxt>>
  BY <1>1 DEF ProcessExit, Goto, EnterIF
<1>7. ExecInv' BY <1>1, <1>4, <1>5, <1>6 DEF ExecInv, TaskPath, ExitPath
<1>8. FrameInv' BY <1>1, <1>4, <1>5, <1>6 DEF IInv, FrameInv
<1>9. ShellInv' BY <1>1, <1>4, <1>5, <1>6, Shape DEF IInv, ShellInv
<1>10. UserInv' BY <1>1, <1>5, <1>6 DEF IInv, UserInv
<1>11. RunningInv' BY <1>1, <1>5, <1>6 DEF IInv, RunningInv
<1>12. SleepInv' BY <1>1, <1>2, <1>4, <1>5, <1>6 DEF IInv, SleepInv
<1>13. PidInv' BY <1>1, <1>5, <1>6 DEF IInv, PidInv
<1>14. WaitInv'
  <2>1. \A t \in Slots : pc'[t] # "sleep"
    BY <1>1, <1>4, <1>6 DEF IInv, FrameInv, OffCpu
  <2>2. \A t \in Slots : state'[t] = "BLOCKED" => want[t].q # "reap"
    BY <1>1, <1>5 DEF IInv, SleepInv
  <2> QED BY <1>6, <2>1, <2>2 DEF WaitInv
<1>15. ReapInv'
  <2>1. \A t \in Slots : pc'[t] = "reap" => pc[t] = "reap" BY <1>1, <1>4, <1>6
  <2>2. \A t \in Slots : state[t] = "ZOMBIE" => state'[t] = "ZOMBIE"
    BY <1>1, <1>5
  <2>3. nxt' = nxt /\ cpu' = cpu BY <1>6
  <2> QED BY <1>4, <2>1, <2>2, <2>3 DEF IInv, ReapInv
<1>16. FdInv' BY <1>1, <1>4, <1>5, <1>6 DEF IInv, FdInv, PipeClosed
<1> QED
  BY <1>7, <1>8, <1>9, <1>10, <1>11, <1>12, <1>13, <1>14, <1>15, <1>16 DEF IInv

\* A step of an exiting process that moves its own label along ExitPath.
LEMMA ExitStepKeeps ==
  ASSUME TypeOK, IInv, NEW l \in ExitPath,
         pc[cpu] \in {"closing", "sched", "s_state", "s_current"},
         pc' = [pc EXCEPT ![cpu] = l],
         UNCHANGED <<intr, g_next_pid, state, pid, is_user, wait_q, fds, esp,
                     cpu, want>>,
         NEW n \in Slots, nxt' = [nxt EXCEPT ![cpu] = n],
         l = "closing" <=> pc[cpu] = "closing" /\ fds[cpu] # 0,
         l \in {"closing", "sched", "s_state", "s_current"} => g_current' = cpu,
         l \in {"s_state", "s_current", "s_running"} => state[n] = "READY",
         l # "s_switch",
         l = "s_running" => g_current' = n
  PROVE  IInv'
<1>1. /\ cpu \in Slots /\ state[cpu] = "ZOMBIE" /\ cpu # 0
      /\ cpu = g_current /\ pc[cpu] \in ExitPath
      /\ pc \in [Slots -> Labels] /\ nxt \in [Slots -> Slots]
  BY Shape DEF IInv, ExecInv, ExitPath
<1>2. ExecInv'
  <2>1. PipeClosed(cpu)' = PipeClosed(cpu) BY DEF PipeClosed
  <2>2. intr[cpu] => PipeClosed(cpu) BY <1>1 DEF IInv, ExecInv
  <2> QED BY <1>1, <2>1, <2>2 DEF ExecInv, TaskPath, ExitPath
<1>3. FrameInv' BY <1>1 DEF IInv, FrameInv
<1>4. ShellInv' BY <1>1, Shape DEF IInv, ShellInv
<1>5. UserInv' /\ PidInv' BY DEF IInv, UserInv, PidInv
<1>6. RunningInv'
  <2>1. \A t \in Slots : state[t] # "RUNNING" BY <1>1 DEF IInv, RunningInv
  <2> QED BY <2>1 DEF RunningInv
<1>7. SleepInv' BY <1>1 DEF IInv, SleepInv, ExitPath
<1>8. WaitInv' BY <1>1 DEF IInv, WaitInv, ExitPath
<1>9. ReapInv' BY <1>1 DEF IInv, ReapInv, ExitPath
<1>10. FdInv' BY <1>1 DEF IInv, FdInv, PipeClosed
<1> QED BY <1>2, <1>3, <1>4, <1>5, <1>6, <1>7, <1>8, <1>9, <1>10 DEF IInv

\* Closing the descriptors: IF becomes 1 only in the close of a pipe end, which
\* is then among the closed ones.
LEMMA CloseFdKeeps ==
  ASSUME Disciplined, TypeOK, IInv, CloseFd PROVE IInv'
<1>1. /\ cpu \in Slots /\ state[cpu] = "ZOMBIE" /\ cpu # 0
      /\ cpu = g_current /\ pc[cpu] = "closing"
      /\ intr[cpu] => PipeClosed(cpu)
  BY DEF CloseFd, At, IInv, ExecInv, ExitPath
<1>2. /\ nxt[cpu] \in Slots /\ nxt' = [nxt EXCEPT ![cpu] = nxt[cpu]]
      /\ pc = [pc EXCEPT ![cpu] = pc[cpu]]
      /\ fds \in [Slots -> 0 .. Len(FdKinds)] /\ intr \in [Slots -> BOOLEAN]
  BY <1>1 DEF TypeOK, CloseFd
<1>3. "closing" \in ExitPath /\ "sched" \in ExitPath BY DEF ExitPath
<1>4. CASE fds[cpu] = 0
  <2>1. /\ pc' = [pc EXCEPT ![cpu] = "sched"] /\ g_current' = cpu
        /\ UNCHANGED <<intr, g_next_pid, state, pid, is_user, wait_q, fds, esp,
                       cpu, want>>
    BY <1>1, <1>4 DEF CloseFd, Goto
  <2> QED BY <1>1, <1>2, <1>3, <1>4, <2>1, ExitStepKeeps
<1>5. CASE fds[cpu] # 0
  <2> DEFINE i == Len(FdKinds) - fds[cpu] + 1
  <2>1. /\ \A t \in Slots \ {cpu} : intr'[t] = intr[t]
        /\ intr'[cpu] => intr[cpu] \/ FdKinds[i] = "pipe"
    <3>1. intr' = [intr EXCEPT ![cpu] = @ \/ CloseEnablesIF(FdKinds[i])]
      BY <1>5 DEF CloseFd
    <3> HIDE DEF i
    <3> QED BY <1>1, <1>2, <3>1 DEF CloseEnablesIF
  <2>2. /\ UNCHANGED <<g_current, g_next_pid, state, pid, is_user, wait_q, esp,
                       cpu, pc, want, nxt>>
        /\ \A t \in Slots \ {cpu} : fds'[t] = fds[t]
        /\ fds'[cpu] = fds[cpu] - 1
    BY <1>1, <1>2, <1>5 DEF CloseFd
  <2>3. intr'[cpu] => PipeClosed(cpu)'
    <3>1. /\ Len(FdKinds) \in Nat /\ fds[cpu] \in Nat
          /\ fds[cpu] <= Len(FdKinds) /\ fds[cpu] # 0
      BY <1>1, <1>2, <1>5, SchedulerAssumption
    <3>2. /\ i \in 1 .. Len(FdKinds) - fds'[cpu]
          /\ 1 .. Len(FdKinds) - fds[cpu] \subseteq 1 .. Len(FdKinds) - fds'[cpu]
      BY <2>2, <3>1
    <3> HIDE DEF i
    <3>3. CASE intr[cpu] BY <1>1, <2>2, <3>2, <3>3 DEF PipeClosed
    <3>4. CASE FdKinds[i] = "pipe" BY <2>2, <3>2, <3>4 DEF PipeClosed
    <3> QED BY <2>1, <3>3, <3>4
  <2> HIDE DEF i
  <2>4. ExecInv'
    <3>1. intr'[cpu] => PipeClosed(cpu)' BY <2>2, <2>3
    <3> QED BY <1>1, <2>2, <3>1 DEF IInv, ExecInv, TaskPath
  <2>5. /\ FrameInv' /\ ShellInv' /\ UserInv' /\ RunningInv'
        /\ SleepInv' /\ PidInv' /\ WaitInv' /\ ReapInv'
    BY <2>1, <2>2
    DEF IInv, FrameInv, ShellInv, UserInv, RunningInv, SleepInv, PidInv,
        WaitInv, ReapInv
  <2>6. FdInv' BY <1>1, <2>2 DEF IInv, FdInv, PipeClosed
  <2> QED BY <2>4, <2>5, <2>6 DEF IInv
<1> QED BY <1>4, <1>5

\* The head of schedule() in process_exit always finds somebody: the shell.
LEMMA SchedPickKeeps ==
  ASSUME Disciplined, TypeOK, IInv, SchedPick PROVE IInv'
<1>1. /\ cpu \in Slots /\ state[cpu] = "ZOMBIE" /\ cpu = g_current
      /\ pc[cpu] = "sched" /\ intr \in [Slots -> BOOLEAN]
  BY Shape DEF SchedPick, At, IInv, ExecInv, ExitPath
<1> DEFINE next == NextOf(state, g_current)
<1>2. next \in Slots /\ state[next] \in {"READY", "RUNNING"}
  <2>1. Runnable(state) # {} BY Shape DEF Runnable, IInv, ShellInv
  <2>2. next \in Runnable(state) BY <1>1, <2>1, NextOfRange
  <2> QED BY <2>2 DEF Runnable
<1>3. state[next] = "READY" /\ next # g_current
  BY <1>1, <1>2 DEF IInv, RunningInv
<1>4. /\ pc' = [pc EXCEPT ![cpu] = "s_state"] /\ g_current' = cpu
      /\ nxt' = [nxt EXCEPT ![cpu] = next]
      /\ UNCHANGED <<intr, g_next_pid, state, pid, is_user, wait_q, fds, esp,
                     cpu, want>>
  BY <1>1, <1>3 DEF SchedPick, Goto
<1>5. "s_state" \in ExitPath BY DEF ExitPath
<1> HIDE DEF next
<1> QED BY <1>1, <1>2, <1>3, <1>4, <1>5, ExitStepKeeps

\* The old task is a ZOMBIE, not RUNNING: its state stays.
LEMMA SchedStateKeeps ==
  ASSUME Disciplined, TypeOK, IInv, SchedState PROVE IInv'
<1>1. /\ cpu \in Slots /\ state[cpu] = "ZOMBIE" /\ cpu = g_current
      /\ pc[cpu] = "s_state" /\ state[nxt[cpu]] = "READY"
  BY DEF SchedState, At, IInv, ExecInv, ExitPath
<1>2. /\ pc' = [pc EXCEPT ![cpu] = "s_current"] /\ g_current' = cpu
      /\ nxt[cpu] \in Slots /\ nxt' = [nxt EXCEPT ![cpu] = nxt[cpu]]
      /\ state' = state
  BY <1>1, Shape DEF SchedState, Goto, Preempted
<1>3. UNCHANGED <<intr, g_next_pid, state, pid, is_user, wait_q, fds, esp, cpu, want>>
  BY <1>2 DEF SchedState
<1>4. "s_current" \in ExitPath BY DEF ExitPath
<1> QED BY <1>1, <1>2, <1>3, <1>4, ExitStepKeeps

\* g_current moves to the chosen task.
LEMMA SchedCurrentKeeps ==
  ASSUME Disciplined, TypeOK, IInv, SchedCurrent PROVE IInv'
<1>1. /\ cpu \in Slots /\ cpu = g_current
      /\ pc[cpu] = "s_current" /\ state[nxt[cpu]] = "READY"
  BY DEF SchedCurrent, At, IInv, ExecInv
<1>2. /\ pc' = [pc EXCEPT ![cpu] = "s_running"] /\ g_current' = nxt[cpu]
      /\ nxt[cpu] \in Slots /\ nxt' = [nxt EXCEPT ![cpu] = nxt[cpu]]
      /\ UNCHANGED <<intr, g_next_pid, state, pid, is_user, wait_q, fds, esp, cpu, want>>
  BY <1>1, Shape DEF SchedCurrent, Goto
<1>3. "s_running" \in ExitPath BY DEF ExitPath
<1> QED BY <1>1, <1>2, <1>3, ExitStepKeeps

\* The chosen task becomes the only RUNNING one.
LEMMA SchedRunningKeeps ==
  ASSUME Disciplined, TypeOK, IInv, SchedRunning PROVE IInv'
<1> DEFINE n == nxt[cpu]
<1>1. /\ cpu \in Slots /\ state[cpu] = "ZOMBIE" /\ cpu # 0
      /\ intr[cpu] => PipeClosed(cpu)
      /\ pc[cpu] = "s_running" /\ n \in Slots /\ state[n] = "READY" /\ n # cpu
      /\ g_current = n
  BY Shape DEF SchedRunning, At, IInv, ExecInv, ExitPath
<1>2. /\ pc \in [Slots -> Labels] /\ state \in [Slots -> States]
      /\ pc' = [pc EXCEPT ![cpu] = "s_switch"]
      /\ state' = [state EXCEPT ![n] = "RUNNING"]
      /\ UNCHANGED <<g_current, g_next_pid, pid, is_user, wait_q, fds, esp, cpu,
                     intr, want, nxt>>
  BY Shape DEF SchedRunning, Goto
<1>3. ExecInv' BY <1>1, <1>2 DEF ExecInv, TaskPath, ExitPath, PipeClosed
<1> HIDE DEF n
<1>4. FrameInv' BY <1>1, <1>2 DEF IInv, FrameInv
<1>5. ShellInv' BY <1>1, <1>2, Shape DEF IInv, ShellInv
<1>6. UserInv' BY <1>1, <1>2 DEF IInv, UserInv
<1>7. RunningInv' BY <1>1, <1>2 DEF IInv, RunningInv
<1>8. SleepInv' BY <1>1, <1>2 DEF IInv, SleepInv
<1>9. PidInv' BY <1>1, <1>2 DEF IInv, PidInv
<1>10. WaitInv' BY <1>1, <1>2 DEF IInv, WaitInv
<1>11. ReapInv' BY <1>1, <1>2, Shape DEF IInv, ReapInv
<1>12. FdInv' BY <1>1, <1>2 DEF IInv, FdInv, PipeClosed
<1> QED
  BY <1>3, <1>4, <1>5, <1>6, <1>7, <1>8, <1>9, <1>10, <1>11, <1>12 DEF IInv

\* Unrelated interrupts wake sleepers and nothing else.
LEMMA IrqDeviceKeeps ==
  ASSUME Disciplined, TypeOK, IInv, IrqDevice PROVE IInv'
<1>1. cpu \in Slots /\ pc[cpu] # "hlt"
  BY DEF IInv, ExecInv, TaskPath, ExitPath
<1>2. pc' = pc
  BY <1>1, Shape DEF IrqDevice, AfterIrq
<1>3. /\ UNCHANGED <<g_current, g_next_pid, pid, is_user, fds, esp, cpu, intr,
                     want, nxt>>
      /\ \A t \in Slots :
           /\ state'[t] = IF wait_q[t] = "dev" /\ state[t] = "BLOCKED"
                          THEN "READY" ELSE state[t]
           /\ wait_q'[t] = IF wait_q[t] = "dev" THEN NoQueue ELSE wait_q[t]
  BY DEF IrqDevice, WakeAll
<1>4. ExecInv'
  <2>1. nxt[cpu] \in Slots BY <1>1, Shape
  <2>2. PipeClosed(cpu)' = PipeClosed(cpu) BY <1>3 DEF PipeClosed
  <2> QED BY <1>1, <1>2, <1>3, <2>1, <2>2 DEF IInv, ExecInv, TaskPath, ExitPath
<1>5. FrameInv' BY <1>2, <1>3 DEF IInv, FrameInv
<1>6. ShellInv' BY <1>2, <1>3, Shape DEF IInv, ShellInv
<1>7. UserInv' BY <1>3 DEF IInv, UserInv
<1>8. RunningInv' BY <1>3 DEF IInv, RunningInv
<1>9. SleepInv' BY <1>2, <1>3 DEF IInv, SleepInv
<1>10. PidInv' BY <1>3 DEF IInv, PidInv
<1>11. WaitInv' BY <1>2, <1>3 DEF IInv, WaitInv
<1>12. ReapInv' BY <1>2, <1>3, Shape DEF IInv, ReapInv
<1>13. FdInv' BY <1>2, <1>3 DEF IInv, FdInv, PipeClosed
<1> QED
  BY <1>4, <1>5, <1>6, <1>7, <1>8, <1>9, <1>10, <1>11, <1>12, <1>13 DEF IInv

-----------------------------------------------------------------------------
(* Switching stacks *)

\* switch_to when the new task owns its frame and no kernel thread is dead.
LEMMA SwitchEffect ==
  ASSUME TypeOK, cpu \in Slots,
         NEW st \in [Slots -> States], NEW pcs \in [Slots -> Labels],
         NEW wt, NEW ifs \in [Slots -> BOOLEAN],
         NEW old \in Slots, NEW n \in Slots, esp[n] = n,
         \A t \in Slots : st[t] = "ZOMBIE" => is_user[t],
         SwitchTo(st, pcs, wt, ifs, old, n)
  PROVE  /\ cpu' = n
         /\ esp' = [esp EXCEPT ![old] = cpu]
         /\ state' = st /\ pid' = pid /\ fds' = fds
         /\ pc' = [pcs EXCEPT ![n] = Landing(pcs[n])]
         /\ \A t \in Slots : t # n \/ pcs[n] # "fresh" => intr'[t] = ifs[t]
<1>1. Reapable(st) = {} BY DEF Reapable
<1>2. n # Stale BY TypeFacts
<1>3. /\ esp \in [Slots -> Slots \cup {Stale}]
      /\ pid \in [Slots -> 0 .. MaxPid] /\ fds \in [Slots -> 0 .. Len(FdKinds)]
  BY DEF TypeOK
<1>4. cpu' = n BY DEF SwitchTo
<1>5. esp' = [esp EXCEPT ![old] = cpu] BY <1>1, <1>3 DEF SwitchTo
<1>6. state' = st BY <1>1 DEF SwitchTo
<1>7. pid' = pid /\ fds' = fds BY <1>1, <1>3 DEF SwitchTo
<1>8. pc' = [pcs EXCEPT ![n] = Landing(pcs[n])] BY DEF SwitchTo
<1>9. \A t \in Slots : t # n \/ pcs[n] # "fresh" => intr'[t] = ifs[t]
  BY DEF SwitchTo
<1> QED BY <1>4, <1>5, <1>6, <1>7, <1>8, <1>9

(***************************************************************************)
(* The step in which the CPU goes from its stack to that of task n.  The   *)
(* old stack is left preempted (run, reap), asleep (slept) or dead, at the *)
(* end of its exit (yielded) or cut off on the way there; timer_tick may   *)
(* have woken other sleepers.                                              *)
(***************************************************************************)
LEMMA DispatchKeeps ==
  ASSUME TypeOK, IInv,
         NEW n \in Slots, n # cpu,
         NEW l \in OffCpu,
         g_current \in {cpu, n},
         state[n] \in {"READY", "RUNNING", "BLOCKED"},
         cpu' = n, g_current' = n,
         pc' = [pc EXCEPT ![cpu] = l, ![n] = Landing(pc[n])],
         esp' = [esp EXCEPT ![cpu] = cpu],
         UNCHANGED <<g_next_pid, pid, is_user, fds, want>>,
         \A t \in Slots \ {cpu, n} : intr'[t] = intr[t],
         pc[n] = "slept" => ~intr'[n],
         state'[n] = "RUNNING", wait_q'[n] = NoQueue,
         \A t \in Slots \ {cpu, n} :
           \/ state'[t] = state[t] /\ wait_q'[t] = wait_q[t]
           \/ state[t] = "BLOCKED" /\ state'[t] = "READY" /\ wait_q'[t] = NoQueue,
         \A t \in Slots \ {cpu} : nxt'[t] = nxt[t],
         \/ /\ l = pc[cpu] /\ l \in {"run", "reap"}
            /\ state'[cpu] = "READY" /\ wait_q'[cpu] = NoQueue
            /\ nxt'[cpu] = nxt[cpu]
            /\ l = "reap" => cpu = 0
         \/ /\ l = "slept" /\ pc[cpu] = "sleep" /\ ~intr'[cpu]
            /\ state'[cpu] = "BLOCKED" /\ wait_q'[cpu] = want[cpu].q
         \/ /\ l \notin {"none", "fresh", "run", "reap", "slept"}
            /\ pc[cpu] \in ExitPath
            /\ pc[cpu] = "closing" => intr[cpu]
            /\ state'[cpu] = "ZOMBIE" /\ wait_q'[cpu] = NoQueue
  PROVE  IInv'
<1>1. /\ cpu \in Slots /\ pc \in [Slots -> Labels]
      /\ esp \in [Slots -> Slots \cup {Stale}] /\ 0 \in Slots
      /\ nxt \in [Slots -> Slots]
  BY Shape DEF IInv, ExecInv
<1>2. pc[n] \in {"fresh", "run", "reap", "slept"} /\ (pc[n] = "reap" => n = 0)
  BY DEF IInv, FrameInv
<1>3. /\ pc'[n] = IF pc[n] = "fresh" THEN "run"
                  ELSE IF pc[n] = "slept" THEN "check" ELSE pc[n]
      /\ pc'[cpu] = l
      /\ \A t \in Slots \ {cpu, n} : pc'[t] = pc[t]
  BY <1>1, <1>2 DEF Landing
<1>4. state'[cpu] = "ZOMBIE" =>
        /\ state[cpu] = "ZOMBIE"
        /\ pc[cpu] = "closing" => PipeClosed(cpu)
  BY DEF IInv, ExecInv, ExitPath
<1>5. state'[cpu] # "ZOMBIE" => state[cpu] = "RUNNING"
  BY DEF IInv, ExecInv, TaskPath
<1>6. ExecInv'
  BY <1>1, <1>2, <1>3 DEF ExecInv, TaskPath, ExitPath
<1>7. FrameInv'
  <2> SUFFICES ASSUME NEW t \in Slots, t # n
               PROVE  /\ pc'[t] \in OffCpu
                      /\ pc'[t] = "reap" => t = 0
                      /\ state'[t] \in {"READY", "RUNNING", "BLOCKED"} =>
                           /\ esp'[t] = t
                           /\ pc'[t] \in {"fresh", "run", "reap", "slept"}
                      /\ pc'[t] = "slept" => ~intr'[t]
    BY DEF FrameInv
  <2>1. CASE t = cpu BY <1>1, <1>3, <2>1 DEF OffCpu
  <2>2. CASE t # cpu BY <1>1, <1>3, <2>2 DEF IInv, FrameInv
  <2> QED BY <2>1, <2>2
<1>8. ShellInv'
  <2>1. /\ state[0] \in {"READY", "RUNNING"} /\ ~is_user[0]
        /\ pc[0] \in {"run", "reap"}
    BY DEF IInv, ShellInv
  <2>2. cpu = 0 => l \in {"run", "reap"} /\ state'[cpu] = "READY"
    BY <2>1 DEF ExitPath
  <2> QED BY <1>1, <1>3, <2>1, <2>2 DEF ShellInv
<1>9. UserInv' BY <1>4, <1>5 DEF IInv, UserInv
<1>10. RunningInv' BY DEF IInv, RunningInv
<1>11. SleepInv'
  <2> SUFFICES ASSUME NEW t \in Slots
               PROVE  /\ wait_q'[t] # NoQueue => state'[t] = "BLOCKED"
                      /\ state'[t] = "BLOCKED" =>
                           t # n /\ pc'[t] = "slept" /\ wait_q'[t] = want[t].q
                      /\ pc'[t] \in {"check", "sleep", "slept"} =>
                           /\ want[t].q \in Queues
                           /\ want[t].q = "reap" =>
                                "wait" \in UserOps /\ want[t].pid # 0
    BY DEF SleepInv
  <2>1. CASE t = cpu BY <1>1, <1>3, <2>1 DEF IInv, SleepInv, OffCpu
  <2>2. CASE t = n BY <1>2, <1>3, <2>2 DEF IInv, SleepInv
  <2>3. CASE t \notin {cpu, n}
    <3>1. pc'[t] = pc[t] BY <1>3, <2>3
    <3>2. \/ state'[t] = state[t] /\ wait_q'[t] = wait_q[t]
          \/ state'[t] = "READY" /\ wait_q'[t] = NoQueue
      BY <2>3
    <3> QED BY <2>3, <3>1, <3>2 DEF IInv, SleepInv
  <2> QED BY <2>1, <2>2, <2>3
<1>12. PidInv' BY <1>4, <1>5 DEF IInv, PidInv
<1>13. WaitInv'
  <2>1. \A t \in Slots : pc'[t] # "sleep"
    BY <1>1, <1>2, <1>3 DEF IInv, FrameInv, OffCpu
  <2>2. \A t \in Slots : state'[t] = "BLOCKED" =>
                           state[t] = "BLOCKED" \/ pc[t] = "sleep"
    BY <1>1
  <2>3. \A t \in Slots : state'[t] = "ZOMBIE" => state[t] = "ZOMBIE" BY <1>4
  <2> QED BY <2>1, <2>2, <2>3 DEF IInv, WaitInv
<1>14. ReapInv'
  <2>1. \A t \in Slots : state[t] = "ZOMBIE" => state'[t] = "ZOMBIE" /\ t # n
    BY <1>4, <1>5
  <2>2. \A t \in Slots : pc'[t] = "reap" => pc[t] = "reap" /\ nxt'[t] = nxt[t]
    BY <1>1, <1>2, <1>3
  <2> QED BY <1>1, <2>1, <2>2 DEF IInv, ReapInv
<1>15. FdInv'
  <2> SUFFICES ASSUME NEW t \in Slots, state'[t] = "ZOMBIE"
               PROVE  fds[t] = 0 \/ PipeClosed(t)
    BY DEF FdInv, PipeClosed
  <2>1. state[t] = "ZOMBIE" BY <1>4
  <2>2. CASE t = cpu /\ pc[t] = "closing" BY <1>4, <2>2
  <2>3. CASE ~(t = cpu /\ pc[t] = "closing") BY <2>1, <2>3 DEF IInv, FdInv
  <2> QED BY <2>2, <2>3
<1> QED
  BY <1>6, <1>7, <1>8, <1>9, <1>10, <1>11, <1>12, <1>13, <1>14, <1>15 DEF IInv

\* switch_to at the end of process_exit: the dead process leaves the CPU.
LEMMA SchedSwitchKeeps ==
  ASSUME Disciplined, TypeOK, IInv, SchedSwitch PROVE IInv'
<1> DEFINE n == nxt[cpu]
           pcs == [pc EXCEPT ![cpu] = "yielded"]
<1>1. /\ cpu \in Slots /\ pc[cpu] = "s_switch" /\ state[cpu] = "ZOMBIE"
      /\ n \in Slots /\ state[n] = "RUNNING" /\ n # cpu /\ g_current = n
  BY Shape DEF SchedSwitch, At, IInv, ExecInv, ExitPath
<1>2. esp[n] = n BY <1>1 DEF IInv, FrameInv
<1>3. \A t \in Slots : state[t] = "ZOMBIE" => is_user[t]
  BY DEF IInv, UserInv, ShellInv
<1>4. pcs \in [Slots -> Labels] BY <1>1, Shape, TypeFacts
<1>5. SwitchTo(state, pcs, wake_tick, intr, cpu, n) BY DEF SchedSwitch
<1>6. /\ state \in [Slots -> States] /\ intr \in [Slots -> BOOLEAN]
      /\ pc \in [Slots -> Labels] /\ nxt \in [Slots -> Slots]
  BY Shape
<1>7. wait_q[n] = NoQueue /\ wait_q[cpu] = NoQueue BY <1>1 DEF IInv, SleepInv
<1>8. /\ UNCHANGED <<g_current, g_next_pid, is_user, wait_q, want>>
      /\ nxt' = [nxt EXCEPT ![cpu] = 0]
  BY DEF SchedSwitch
<1> HIDE DEF n, pcs
<1>9. /\ cpu' = n
      /\ esp' = [esp EXCEPT ![cpu] = cpu]
      /\ state' = state /\ pid' = pid /\ fds' = fds
      /\ pc' = [pcs EXCEPT ![n] = Landing(pcs[n])]
      /\ \A t \in Slots : t # n \/ pcs[n] # "fresh" => intr'[t] = intr[t]
  <2> DEFINE st == state
             ifs == intr
             wt == wake_tick
  <2>1. /\ st \in [Slots -> States] /\ ifs \in [Slots -> BOOLEAN]
        /\ \A t \in Slots : st[t] = "ZOMBIE" => is_user[t]
        /\ SwitchTo(st, pcs, wt, ifs, cpu, n)
    BY <1>3, <1>5, <1>6
  <2>2. st = state /\ ifs = intr OBVIOUS
  <2> HIDE DEF st, ifs, wt
  <2>3. /\ cpu' = n
        /\ esp' = [esp EXCEPT ![cpu] = cpu]
        /\ state' = st /\ pid' = pid /\ fds' = fds
        /\ pc' = [pcs EXCEPT ![n] = Landing(pcs[n])]
        /\ \A t \in Slots : t # n \/ pcs[n] # "fresh" => intr'[t] = ifs[t]
    BY <1>1, <1>2, <1>4, <2>1, SwitchEffect
  <2> QED BY <2>2, <2>3
<1>10. pc' = [pc EXCEPT ![cpu] = "yielded", ![n] = Landing(pc[n])]
  BY <1>1, <1>6, <1>9 DEF pcs
<1>11. pc[n] = "slept" => ~intr'[n]
  BY <1>1, <1>6, <1>9 DEF IInv, FrameInv, pcs
<1>12. \A t \in Slots \ {cpu, n} : intr'[t] = intr[t] BY <1>9
<1>13. \A t \in Slots \ {cpu} : nxt'[t] = nxt[t] BY <1>6, <1>8
<1>14. UNCHANGED <<g_next_pid, pid, is_user, fds, want>> BY <1>8, <1>9
<1>15. \A t \in Slots : state'[t] = state[t] /\ wait_q'[t] = wait_q[t]
  BY <1>8, <1>9
<1>16. g_current' = n BY <1>1, <1>8
<1>17. PICK l \in OffCpu : l = "yielded" BY DEF OffCpu
<1>18. pc' = [pc EXCEPT ![cpu] = l, ![n] = Landing(pc[n])] BY <1>10, <1>17
<1>19. /\ l \notin {"none", "fresh", "run", "reap", "slept"}
       /\ pc[cpu] \in ExitPath /\ (pc[cpu] = "closing" => intr[cpu])
       /\ state'[cpu] = "ZOMBIE" /\ wait_q'[cpu] = NoQueue
  BY <1>1, <1>7, <1>15, <1>17 DEF ExitPath
<1>20. state'[n] = "RUNNING" /\ wait_q'[n] = NoQueue BY <1>1, <1>7, <1>15
<1> QED
  BY <1>1, <1>9, <1>11, <1>12, <1>13, <1>14, <1>15, <1>16, <1>18, <1>19, <1>20,
     DispatchKeeps

\* task_sleep in a system call: the shell is runnable, so the CPU always
\* goes to somebody else and the halting tail is never reached.
LEMMA SleepKeeps ==
  ASSUME Disciplined, TypeOK, IInv, Sleep PROVE IInv'
<1> DEFINE st == [state EXCEPT ![g_current] = "BLOCKED"]
           n == NextOf(st, g_current)
           wt == [wake_tick EXCEPT ![g_current] =
                    IF want[cpu].ms = 0 THEN 0 ELSE (now + want[cpu].ms) % Wrap]
           st2 == [st EXCEPT ![g_current] = Preempted(@), ![n] = "RUNNING"]
           pcs == [pc EXCEPT ![cpu] = "slept"]
           ifs == [intr EXCEPT ![cpu] = FALSE]
<1>1. /\ cpu \in Slots /\ pc[cpu] = "sleep" /\ cpu = g_current
      /\ state[cpu] = "RUNNING" /\ cpu # 0
  BY DEF Sleep, At, IInv, ExecInv, ShellInv, TaskPath
<1>2. /\ state \in [Slots -> States] /\ intr \in [Slots -> BOOLEAN]
      /\ pc \in [Slots -> Labels] /\ nxt \in [Slots -> Slots] /\ 0 \in Slots
      /\ wait_q \in [Slots -> Queues \cup {NoQueue}]
  BY Shape
<1>3. n \in Slots /\ st[n] \in {"READY", "RUNNING"}
  <2>1. st[0] \in {"READY", "RUNNING"} BY <1>1, <1>2 DEF IInv, ShellInv
  <2>2. Runnable(st) # {} BY <1>2, <2>1 DEF Runnable
  <2>3. n \in Runnable(st) BY <1>1, <2>2, NextOfRange
  <2> QED BY <2>3 DEF Runnable
<1>4. n # cpu /\ n # g_current /\ state[n] = st[n] BY <1>1, <1>2, <1>3
<1>5. /\ wait_q' = [wait_q EXCEPT ![g_current] = want[cpu].q]
      /\ Schedule(st, pcs, wt, ifs)
      /\ UNCHANGED <<g_next_pid, is_user, want, nxt>>
  <2>1. (n = g_current) = FALSE BY <1>4
  <2> QED BY <2>1 DEF Sleep
<1>6. g_current' = n /\ SwitchTo(st2, pcs, wt, ifs, g_current, n)
  <2>1. st[g_current] # "RUNNING" BY <1>1, <1>2
  <2> QED BY <1>4, <1>5, <2>1, Zenon DEF Schedule
<1>7. /\ st2 \in [Slots -> States] /\ st2[cpu] = "BLOCKED" /\ st2[n] = "RUNNING"
      /\ \A t \in Slots \ {cpu, n} : st2[t] = state[t]
  <2>1. "READY" \in States /\ "RUNNING" \in States /\ "BLOCKED" \in States
    BY DEF States
  <2> HIDE DEF n
  <2> QED BY <1>1, <1>2, <1>3, <1>4, <2>1
<1>8. esp[n] = n BY <1>3, <1>4 DEF IInv, FrameInv
<1>9. pcs \in [Slots -> Labels] /\ ifs \in [Slots -> BOOLEAN]
  BY <1>1, <1>2, TypeFacts
<1>10. wait_q[n] = NoQueue BY <1>3, <1>4 DEF IInv, SleepInv
<1> HIDE DEF st, n, wt, st2, pcs, ifs
<1>11. \A t \in Slots : st2[t] = "ZOMBIE" => is_user[t]
  BY <1>7 DEF IInv, UserInv, ShellInv
<1>12. /\ cpu' = n
       /\ esp' = [esp EXCEPT ![cpu] = cpu]
       /\ state' = st2 /\ pid' = pid /\ fds' = fds
       /\ pc' = [pcs EXCEPT ![n] = Landing(pcs[n])]
       /\ \A t \in Slots : t # n \/ pcs[n] # "fresh" => intr'[t] = ifs[t]
  BY <1>1, <1>3, <1>6, <1>7, <1>8, <1>9, <1>11, SwitchEffect
<1>13. pc' = [pc EXCEPT ![cpu] = "slept", ![n] = Landing(pc[n])]
  BY <1>1, <1>2, <1>3, <1>4, <1>12 DEF pcs
<1>14. /\ pc[n] = "slept" => ~intr'[n]
       /\ ~intr'[cpu]
       /\ \A t \in Slots \ {cpu, n} : intr'[t] = intr[t]
  BY <1>1, <1>2, <1>3, <1>4, <1>12 DEF IInv, FrameInv, pcs, ifs
<1>15. /\ wait_q'[n] = NoQueue /\ wait_q'[cpu] = want[cpu].q
       /\ \A t \in Slots \ {cpu, n} : state'[t] = state[t] /\ wait_q'[t] = wait_q[t]
  BY <1>1, <1>2, <1>3, <1>4, <1>5, <1>7, <1>10, <1>12
<1>16. UNCHANGED <<g_next_pid, pid, is_user, fds, want>> /\ nxt' = nxt
  BY <1>5, <1>12
<1>17. state'[n] = "RUNNING" /\ state'[cpu] = "BLOCKED" BY <1>7, <1>12
<1>18. state[n] \in {"READY", "RUNNING", "BLOCKED"} /\ "slept" \in OffCpu
  BY <1>3, <1>4 DEF OffCpu
<1> QED
  BY <1>1, <1>3, <1>4, <1>6, <1>12, <1>13, <1>14, <1>15, <1>16, <1>17, <1>18,
     DispatchKeeps

\* IRQ0: expired sleepers become READY and the slice may end.  It may find a
\* process that has closed a pipe end on its way out, and cuts it off.
LEMMA Irq0Keeps ==
  ASSUME Disciplined, TypeOK, IInv, Irq0, ~MidSwitch PROVE IInv'
<1> DEFINE tick == (now + 1) % Wrap
           W == {t \in Slots : Expired(t, tick)}
           st == [t \in Slots |-> IF t \in W THEN "READY" ELSE state[t]]
           wt == [t \in Slots |-> IF t \in W THEN 0 ELSE wake_tick[t]]
           n == NextOf(st, g_current)
           st2 == [st EXCEPT ![g_current] = Preempted(@), ![n] = "RUNNING"]
<1>1. /\ cpu \in Slots /\ cpu = g_current /\ intr[cpu]
      /\ \/ state[cpu] = "RUNNING" /\ pc[cpu] \in {"run", "reap"}
         \/ /\ state[cpu] = "ZOMBIE"
            /\ pc[cpu] \in {"closing", "sched", "s_state", "s_current"}
  BY TypeFacts DEF Irq0, IInv, ExecInv, TaskPath, ExitPath, MidSwitch
<1>2. /\ state \in [Slots -> States] /\ intr \in [Slots -> BOOLEAN]
      /\ pc \in [Slots -> Labels] /\ nxt \in [Slots -> Slots] /\ 0 \in Slots
  BY Shape
<1>3. AfterIrq(pc) = pc BY <1>1, <1>2 DEF AfterIrq
<1>4. W \subseteq {t \in Slots : state[t] = "BLOCKED"} BY DEF Expired
<1>5. /\ wait_q' = [t \in Slots |-> IF t \in W THEN NoQueue ELSE wait_q[t]]
      /\ Schedule(st, pc, wt, intr)
      /\ UNCHANGED <<g_next_pid, is_user, want, nxt>>
  BY <1>3 DEF Irq0
<1>6. /\ st \in [Slots -> States] /\ st[cpu] = state[cpu]
      /\ \A t \in Slots : st[t] = IF t \in W THEN "READY" ELSE state[t]
  <2>1. "READY" \in States BY DEF States
  <2> HIDE DEF W
  <2> QED BY <1>1, <1>2, <1>4, <2>1
<1>7. \A t \in Slots : wait_q'[t] = IF t \in W THEN NoQueue ELSE wait_q[t]
  BY <1>5
<1>8. n \in Slots /\ st[n] \in {"READY", "RUNNING"}
  <2>1. st[0] \in {"READY", "RUNNING"}
    <3> HIDE DEF W, st
    <3> QED BY <1>2, <1>6 DEF IInv, ShellInv
  <2>2. Runnable(st) # {} BY <1>2, <2>1 DEF Runnable
  <2>3. n \in Runnable(st) BY <1>1, <2>2, NextOfRange
  <2> QED BY <2>3 DEF Runnable
<1>9. \/ /\ st[g_current] = "RUNNING" \/ n = g_current
         /\ state' = st /\ pc' = pc /\ intr' = intr
         /\ UNCHANGED <<g_current, cpu, esp, pid, fds>>
      \/ /\ n # g_current /\ g_current' = n
         /\ SwitchTo(st2, pc, wt, intr, g_current, n)
  BY <1>5, Zenon DEF Schedule
<1> HIDE DEF W, tick, wt
<1>10. /\ st2 \in [Slots -> States]
       /\ n # cpu => /\ st2[cpu] = Preempted(state[cpu]) /\ st2[n] = "RUNNING"
                     /\ \A t \in Slots \ {cpu, n} : st2[t] = st[t]
  <2>1. "READY" \in States /\ "RUNNING" \in States BY DEF States
  <2> HIDE DEF n, st
  <2> QED BY <1>1, <1>6, <1>8, <2>1 DEF Preempted
<1> HIDE DEF st, n, st2
<1>11. CASE /\ st[g_current] = "RUNNING" \/ n = g_current
            /\ state' = st /\ pc' = pc /\ intr' = intr
            /\ UNCHANGED <<g_current, cpu, esp, pid, fds>>
  <2>a. state[cpu] = "RUNNING" /\ pc[cpu] \in {"run", "reap"}
    BY <1>1, <1>6, <1>8, <1>11
  <2>1. \A t \in Slots :
          \/ state'[t] = state[t] /\ wait_q'[t] = wait_q[t]
          \/ /\ state[t] = "BLOCKED" /\ state'[t] = "READY"
             /\ wait_q'[t] = NoQueue
    BY <1>4, <1>6, <1>7, <1>11
  <2>2. /\ pc' = pc /\ intr' = intr
        /\ UNCHANGED <<g_current, cpu, esp, pid, fds, g_next_pid, is_user, want, nxt>>
    BY <1>5, <1>11
  <2>3. ExecInv' BY <1>1, <2>a, <2>1, <2>2 DEF IInv, ExecInv, TaskPath, ExitPath
  <2>4. FrameInv' BY <2>1, <2>2 DEF IInv, FrameInv
  <2>5. ShellInv' BY <1>2, <2>1, <2>2 DEF IInv, ShellInv
  <2>6. UserInv' BY <2>1, <2>2 DEF IInv, UserInv
  <2>7. RunningInv' BY <2>1, <2>2 DEF IInv, RunningInv
  <2>8. SleepInv' BY <2>1, <2>2 DEF IInv, SleepInv
  <2>9. PidInv' BY <2>1, <2>2 DEF IInv, PidInv
  <2>10. WaitInv' BY <2>1, <2>2 DEF IInv, WaitInv
  <2>11. ReapInv' BY <1>2, <2>1, <2>2 DEF IInv, ReapInv
  <2>12. FdInv' BY <2>1, <2>2 DEF IInv, FdInv, PipeClosed
  <2> QED
    BY <2>3, <2>4, <2>5, <2>6, <2>7, <2>8, <2>9, <2>10, <2>11, <2>12 DEF IInv
<1>12. CASE /\ n # g_current /\ g_current' = n
            /\ SwitchTo(st2, pc, wt, intr, g_current, n)
  <2>1. n # cpu /\ SwitchTo(st2, pc, wt, intr, cpu, n) BY <1>1, <1>12
  <2>2. state[n] \in {"READY", "RUNNING", "BLOCKED"} BY <1>4, <1>6, <1>8
  <2>3. esp[n] = n BY <1>8, <2>1, <2>2 DEF IInv, FrameInv
  <2>4. \A t \in Slots : st2[t] = "ZOMBIE" => is_user[t]
    <3>1. \A t \in Slots : st2[t] = "ZOMBIE" => state[t] = "ZOMBIE"
      BY <1>1, <1>6, <1>10, <2>1 DEF Preempted
    <3> QED BY <3>1 DEF IInv, UserInv, ShellInv
  <2> DEFINE pcs == pc
             ifs == intr
  <2>5. /\ pcs \in [Slots -> Labels] /\ ifs \in [Slots -> BOOLEAN]
        /\ SwitchTo(st2, pcs, wt, ifs, cpu, n)
        /\ pcs = pc /\ ifs = intr
    BY <1>2, <2>1
  <2> HIDE DEF pcs, ifs
  <2>6. /\ cpu' = n
        /\ esp' = [esp EXCEPT ![cpu] = cpu]
        /\ state' = st2 /\ pid' = pid /\ fds' = fds
        /\ pc' = [pcs EXCEPT ![n] = Landing(pcs[n])]
        /\ \A t \in Slots : t # n \/ pcs[n] # "fresh" => intr'[t] = ifs[t]
    <3>1. cpu \in Slots /\ n \in Slots /\ st2 \in [Slots -> States]
      BY <1>1, <1>8, <1>10
    <3>2. /\ pcs \in [Slots -> Labels] /\ ifs \in [Slots -> BOOLEAN]
          /\ SwitchTo(st2, pcs, wt, ifs, cpu, n)
      BY <2>5
    <3> QED BY <3>1, <2>3, <2>4, <3>2, SwitchEffect
  <2>7. pc' = [pc EXCEPT ![cpu] = pc[cpu], ![n] = Landing(pc[n])]
    BY <1>1, <1>2, <1>8, <2>1, <2>5, <2>6
  <2>8. /\ pc[n] = "slept" => ~intr'[n]
        /\ \A t \in Slots \ {cpu, n} : intr'[t] = intr[t]
    BY <1>8, <2>1, <2>5, <2>6 DEF IInv, FrameInv
  <2>9. state'[n] = "RUNNING" /\ state'[cpu] = Preempted(state[cpu])
    BY <1>10, <2>1, <2>6
  <2>10. wait_q'[n] = NoQueue /\ wait_q'[cpu] = NoQueue
    <3>1. cpu \notin W BY <1>1, <1>4
    <3>2. n \in W \/ state[n] # "BLOCKED" BY <1>6, <1>8
    <3> QED BY <1>1, <1>7, <1>8, <3>1, <3>2 DEF IInv, SleepInv
  <2>11. \A t \in Slots \ {cpu, n} :
           \/ state'[t] = state[t] /\ wait_q'[t] = wait_q[t]
           \/ state[t] = "BLOCKED" /\ state'[t] = "READY" /\ wait_q'[t] = NoQueue
    BY <1>4, <1>6, <1>7, <1>10, <2>1, <2>6
  <2>12. UNCHANGED <<g_next_pid, pid, is_user, fds, want>> /\ nxt' = nxt
    BY <1>5, <2>6
  <2>13. pc[cpu] = "reap" => cpu = 0 BY DEF Irq0, IInv, ExecInv
  <2>14. PICK l \in OffCpu : l = pc[cpu] BY <1>1 DEF OffCpu
  <2>15. /\ pc' = [pc EXCEPT ![cpu] = l, ![n] = Landing(pc[n])]
         /\ \/ /\ l \in {"run", "reap"} /\ state'[cpu] = "READY"
               /\ l = "reap" => cpu = 0
            \/ /\ l \notin {"none", "fresh", "run", "reap", "slept"}
               /\ pc[cpu] \in ExitPath /\ state'[cpu] = "ZOMBIE"
    BY <1>1, <2>7, <2>9, <2>13, <2>14 DEF Preempted, ExitPath
  <2>16. g_current \in {cpu, n} /\ g_current' = n /\ nxt'[cpu] = nxt[cpu]
    BY <1>1, <1>12, <2>12
  <2>17. \A t \in Slots \ {cpu} : nxt'[t] = nxt[t] BY <2>12
  <2> QED
    <3>1. state'[n] = "RUNNING" BY <2>9
    <3>2. CASE l \in {"run", "reap"} /\ state'[cpu] = "READY"
      BY <1>8, <2>1, <2>2, <2>6, <2>8, <2>10, <2>11, <2>12, <2>14, <2>15, <2>16,
         <2>17, <3>1, <3>2, DispatchKeeps
    <3>3. CASE /\ l \notin {"none", "fresh", "run", "reap", "slept"}
               /\ pc[cpu] \in ExitPath /\ state'[cpu] = "ZOMBIE"
      <4>1. pc[cpu] = "closing" => intr[cpu] BY <1>1
      <4> QED BY <1>8, <2>1, <2>2, <2>6, <2>8, <2>10, <2>11, <2>12, <2>15, <2>16,
                 <2>17, <3>1, <3>3, <4>1, DispatchKeeps
    <3> QED BY <2>15, <3>2, <3>3
<1> QED BY <1>9, <1>11, <1>12

-----------------------------------------------------------------------------
(* The invariant and what follows from it *)

\* ShellSti changes a flag of a stack that is about to enable it anyway.
LEMMA ShellStiKeeps ==
  ASSUME Disciplined, TypeOK, IInv, ShellSti PROVE IInv'
<1>1. cpu = 0 /\ cpu \in Slots /\ pc[cpu] = "run" /\ intr' = [intr EXCEPT ![cpu] = TRUE]
  BY DEF ShellSti, At, IInv, ExecInv
<1>2. UNCHANGED <<g_current, g_next_pid, state, pid, is_user, wait_q, fds, esp, cpu,
                  pc, want, nxt>>
  BY DEF ShellSti
<1>3. intr \in [Slots -> BOOLEAN] BY Shape
<1>4. ExecInv' BY <1>1, <1>2, <1>3 DEF IInv, ExecInv, ExitPath
<1>5. FrameInv' BY <1>1, <1>2, <1>3 DEF IInv, FrameInv
<1>6. /\ ShellInv' /\ UserInv' /\ RunningInv' /\ SleepInv' /\ PidInv' /\ WaitInv'
      /\ ReapInv' /\ FdInv'
  BY <1>2 DEF IInv, ShellInv, UserInv, RunningInv, SleepInv, PidInv, WaitInv,
              ReapInv, FdInv, PipeClosed
<1> QED BY <1>4, <1>5, <1>6 DEF IInv

\* Disciplined use never reaches the code that runs unprotected.
LEMMA NeverUnprotected ==
  ASSUME Disciplined, TypeOK, IInv
  PROVE  ~(SleepTail \/ Yield \/ CreateFind \/ CreateEntry \/ CreateStack \/ TaskExit)
<1>1. pc[cpu] \in TaskPath \cup ExitPath BY DEF IInv, ExecInv
<1>2. ~(SleepTail \/ CreateEntry \/ CreateStack)
  BY <1>1 DEF SleepTail, HltRemove, HltTick, HltState, CreateEntry, CreateStack,
              At, TaskPath, ExitPath
<1>3. ~MayDo("yield") /\ ~MayDo("create")
  <2>1. {"yield", "create"} \cap KernelOps = {} BY DEF Disciplined
  <2>2. {"yield", "create"} \cap UserOps = {}
    BY SchedulerAssumption DEF SyscallOps
  <2> QED BY <2>1, <2>2, MayDoFacts
<1>4. ~TaskExit BY MayDoFacts DEF TaskExit, IInv, ShellInv
<1> QED BY <1>2, <1>3, <1>4 DEF Yield, CreateFind

\* The invariant is inductive.
LEMMA IInvStep ==
  ASSUME Disciplined PROVE TypeOK /\ IInv /\ [CalmNext]_vars => IInv'
<1> SUFFICES ASSUME TypeOK, IInv, [CalmNext]_vars PROVE IInv' OBVIOUS
<1>1. CASE UNCHANGED vars
  BY <1>1 DEF vars, IInv, ExecInv, FrameInv, ShellInv, UserInv, RunningInv,
              SleepInv, PidInv, WaitInv, ReapInv, FdInv, PipeClosed
<1>2. CASE (~MidSwitch /\ Irq0) \/ IrqDevice BY <1>2, Irq0Keeps, IrqDeviceKeeps
<1>3. CASE Switching
  BY <1>3, SchedPickKeeps, SchedStateKeeps, SchedCurrentKeeps, SchedRunningKeeps,
     SchedSwitchKeeps
  DEF Switching
<1>4. CASE CpuStep
  BY <1>3, <1>4, ShellStiKeeps, CheckPidKeeps, ReapPidKeeps, CheckDeviceKeeps,
     SleepKeeps, CloseFdKeeps, NeverUnprotected
  DEF CpuStep
<1>5. CASE Operation
  BY <1>5, BeginWaitKeeps, PollPidKeeps, SpawnKeeps, OpenFdsKeeps,
     ProcessExitKeeps, NeverUnprotected
  DEF Operation
<1> QED BY <1>1, <1>2, <1>4, <1>5 DEF CalmNext

\* Every step is calm when processes hold files only: an exit keeps IF = 0.
LEMMA FilesAreCalm ==
  ASSUME FilesOnly PROVE TypeOK /\ IInv /\ [Next]_vars => [CalmNext]_vars
<1> SUFFICES ASSUME TypeOK, IInv, Irq0 PROVE ~MidSwitch
  BY DEF Next, Interrupts, CalmNext
<1>1. cpu \in Slots /\ intr[cpu] BY DEF Irq0, IInv, ExecInv
<1>2. ~PipeClosed(cpu)
  <2>1. Len(FdKinds) \in Nat /\ fds[cpu] \in Nat
    BY <1>1, SchedulerAssumption DEF TypeOK
  <2> QED BY <2>1 DEF PipeClosed, FilesOnly
<1> QED BY <1>1, <1>2 DEF IInv, ExecInv, MidSwitch, ExitPath

\* It holds at boot.
LEMMA IInvInit == Init => IInv
<1> SUFFICES ASSUME Init PROVE IInv OBVIOUS
<1>1. 0 \in Slots BY TypeFacts
<1>2. ExecInv /\ FrameInv /\ ShellInv /\ UserInv /\ RunningInv
  BY <1>1 DEF Init, ExecInv, FrameInv, ShellInv, UserInv, RunningInv, TaskPath,
              ExitPath, OffCpu
<1>3. SleepInv /\ PidInv /\ WaitInv /\ ReapInv /\ FdInv
  BY <1>1 DEF Init, SleepInv, PidInv, WaitInv, ReapInv, FdInv, NoQueue, Idle
<1> QED BY <1>2, <1>3 DEF IInv

\* Under disciplined use the state of the kernel is always described by IInv:
\* task.c's tables, the CPU and the saved stacks agree with each other.
THEOREM InvariantHolds == ASSUME Disciplined PROVE CalmSpec => [](TypeOK /\ IInv)
<1>1. TypeOK /\ IInv /\ [CalmNext]_vars => IInv' BY IInvStep
<1>2. [CalmNext]_vars => [Next]_vars BY DEF CalmNext, Next, Interrupts
<1>3. TypeOK /\ [Next]_vars => TypeOK' BY TypeStep
<1>4. Init => TypeOK BY InitType
<1> QED BY <1>1, <1>2, <1>3, <1>4, IInvInit, PTL DEF CalmSpec

\* With files only, no tick can find an exit half way through schedule(), so the
\* whole machine is calm and keeps the invariant.
THEOREM FilesInvariantHolds ==
  ASSUME Disciplined, FilesOnly PROVE Spec => CalmSpec /\ []IInv
<1>1. TypeOK /\ IInv /\ [Next]_vars => [CalmNext]_vars BY FilesAreCalm
<1>2. TypeOK /\ IInv /\ [CalmNext]_vars => IInv' BY IInvStep
<1>3. TypeOK /\ [Next]_vars => TypeOK' BY TypeStep
<1>4. Init => TypeOK BY InitType
<1> QED BY <1>1, <1>2, <1>3, <1>4, IInvInit, PTL DEF Spec, CalmSpec

\* switch_to always continues a task with its own frame (task.c:806).
THEOREM ContextsAreOwn == ASSUME Disciplined, FilesOnly PROVE Spec => []OwnContext
<1>1. IInv => OwnContext
  BY TypeFacts DEF IInv, ExecInv, FrameInv, OwnContext, MidSwitch, TaskPath, ExitPath
<1> QED BY <1>1, FilesInvariantHolds, PTL

\* At most one task is RUNNING, and it is the one schedule() chose.
THEOREM SingleRunning == ASSUME Disciplined, FilesOnly PROVE Spec => []OneRunning
<1>1. IInv => OneRunning BY DEF IInv, RunningInv, OneRunning
<1> QED BY <1>1, FilesInvariantHolds, PTL

\* A BLOCKED task can be woken, by its queue, by its deadline or because it still
\* has the CPU, whatever ticks and device interrupts came between its steps into
\* and out of task_sleep.
THEOREM SleepersReachable ==
  ASSUME Disciplined, FilesOnly PROVE Spec => []NoLostSleeper
<1>1. IInv => NoLostSleeper BY DEF IInv, SleepInv, NoLostSleeper, Queues, NoQueue
<1> QED BY <1>1, FilesInvariantHolds, PTL

\* Tasks on a wait queue are BLOCKED, and nobody sleeps in task_wait_pid for a
\* process that has already exited: the wake-up of process_exit is not missed
\* between the check and the sleep.
THEOREM NoLostWakeup ==
  ASSUME Disciplined, FilesOnly
  PROVE  Spec => [](QueuedAreBlocked /\ NoMissedExit)
<1>1. IInv => QueuedAreBlocked BY DEF IInv, SleepInv, QueuedAreBlocked
<1>2. IInv => NoMissedExit
  BY DEF IInv, SleepInv, WaitInv, NoMissedExit, Queues
<1> QED BY <1>1, <1>2, FilesInvariantHolds, PTL

\* A process that process_exit has made a ZOMBIE and that has left the CPU, so
\* that task_wait_pid may hand its slot out, has closed every descriptor, unless
\* it has closed a pipe end: the sti of fd.c:218 is the only way out of the IF = 0
\* that process_exit relies on.
THEOREM DescriptorsClosed == ASSUME Disciplined PROVE CalmSpec => []NoFdLeak
<1>1. IInv => NoFdLeak BY DEF IInv, FdInv, NoFdLeak
<1> QED BY <1>1, InvariantHolds, PTL

\* schedule() frees slots of dead kernel threads only.
LEMMA ScheduleFrees ==
  ASSUME TypeOK, NEW st \in [Slots -> States], NEW pcs, NEW wt, NEW ifs,
         Schedule(st, pcs, wt, ifs), NEW t \in Slots, state'[t] = "UNUSED"
  PROVE  st[t] \in {"UNUSED", "ZOMBIE"}
<1> DEFINE n == NextOf(st, g_current)
           st2 == [st EXCEPT ![g_current] = Preempted(@), ![n] = "RUNNING"]
<1>1. g_current \in Slots /\ n \in Slots BY NextOfRange DEF TypeOK
<1>2. state' = st \/ SwitchTo(st2, pcs, wt, ifs, g_current, n)
  BY Zenon DEF Schedule
<1>3. st2[t] \in {"UNUSED", "ZOMBIE"} => st[t] \in {"UNUSED", "ZOMBIE"}
  <2> HIDE DEF n
  <2> QED BY <1>1 DEF Preempted
<1> HIDE DEF st2, n
<1>4. CASE state' = st BY <1>4
<1>5. CASE SwitchTo(st2, pcs, wt, ifs, g_current, n)
  BY <1>3, <1>5 DEF SwitchTo, Reapable
<1> QED BY <1>2, <1>4, <1>5

\* No step frees the slot of a task that has not exited: not task_wait_pid
\* with the slot it looked up earlier, not the zombie sweep of schedule().  With
\* one collecting side this holds of the shell as well: no exception is needed.
THEOREM OnlyZombies ==
  ASSUME Disciplined
  PROVE  CalmSpec =>
           /\ OnlyZombiesFreed
           /\ [][\A t \in Slots :
                   state'[t] = "UNUSED" => state[t] \in {"UNUSED", "ZOMBIE"}]_vars
<1>1. TypeOK /\ IInv /\ [CalmNext]_vars =>
        [\A t \in Slots : state'[t] = "UNUSED" => state[t] \in {"UNUSED", "ZOMBIE"}]_vars
  <2>a. [CalmNext]_vars => [Next]_vars BY DEF CalmNext, Next, Interrupts
  <2> SUFFICES ASSUME TypeOK, IInv, Next, NEW t \in Slots, state'[t] = "UNUSED"
               PROVE  state[t] \in {"UNUSED", "ZOMBIE"}
    BY <2>a
  <2>1. /\ state \in [Slots -> States] /\ g_current \in Slots /\ cpu \in Slots
        /\ nxt \in [Slots -> Slots]
    BY Shape DEF IInv, ExecInv
  <2>2. CASE state' = state BY <2>2
  <2>3. CASE Irq0
    <3> DEFINE W == {u \in Slots : Expired(u, (now + 1) % Wrap)}
               st == [u \in Slots |-> IF u \in W THEN "READY" ELSE state[u]]
               wt == [u \in Slots |-> IF u \in W THEN 0 ELSE wake_tick[u]]
    <3>1. Schedule(st, AfterIrq(pc), wt, intr) BY <2>3 DEF Irq0
    <3>2. st \in [Slots -> States] BY <2>1, TypeFacts
    <3>3. st[t] = "READY" \/ st[t] = state[t] OBVIOUS
    <3> HIDE DEF W, st, wt
    <3> QED BY <3>1, <3>2, <3>3, ScheduleFrees
  <2>4. CASE Sleep
    <3> DEFINE st == [state EXCEPT ![g_current] = "BLOCKED"]
    <3>1. PICK pcs, wt, ifs : Schedule(st, pcs, wt, ifs) BY <2>4 DEF Sleep
    <3>2. st \in [Slots -> States] BY <2>1, TypeFacts
    <3>3. st[t] = "BLOCKED" \/ st[t] = state[t] BY <2>1
    <3> HIDE DEF st
    <3> QED BY <3>1, <3>2, <3>3, ScheduleFrees
  <2>5. CASE SchedSwitch BY <2>5 DEF SchedSwitch, SwitchTo, Reapable
  <2>6. CASE ReapPid
    <3>1. state[nxt[cpu]] = "ZOMBIE" /\ nxt[cpu] \in Slots
      BY <2>1, <2>6 DEF ReapPid, At, IInv, ReapInv
    <3> QED BY <2>1, <2>6, <3>1 DEF ReapPid
  <2>7. CASE IrqDevice BY <2>1, <2>7 DEF IrqDevice, WakeAll
  <2>8. CASE ProcessExit
    <3>1. WakeAll([state EXCEPT ![g_current] = "ZOMBIE"],
                  {"reap", wait_q[g_current]} \ {NoQueue})
          /\ state[g_current] # "UNUSED"
      BY <2>8, MayDoFacts DEF ProcessExit
    <3> QED BY <2>1, <3>1 DEF WakeAll
  <2>9. CASE Spawn
    <3>1. PICK u \in Slots : state' = [state EXCEPT ![u] = "READY"]
      BY <2>9 DEF Spawn, Register
    <3> QED BY <2>1, <3>1
  <2>10. CASE SchedState BY <2>1, <2>10 DEF SchedState, Preempted
  <2>11. CASE SchedRunning BY <2>1, <2>11 DEF SchedRunning
  <2>12. CASE SleepTail \/ Yield \/ CreateFind \/ CreateEntry \/ CreateStack \/ TaskExit
    BY <2>12, NeverUnprotected
  <2>13. CASE \/ ShellSti \/ CheckPid \/ CheckDevice \/ SchedPick \/ SchedCurrent
              \/ CloseFd \/ BeginWait \/ PollPid \/ OpenFds
    <3>1. state' = state
      BY <2>13 DEF ShellSti, CheckPid, CheckDevice, SchedPick, SchedCurrent,
                   CloseFd, BeginWait, PollPid, OpenFds
    <3> QED BY <2>2, <3>1
  <2> QED
    BY <2>3, <2>4, <2>5, <2>6, <2>7, <2>8, <2>9, <2>10, <2>11, <2>12, <2>13
    DEF Next, Interrupts, CpuStep, Switching, Operation
<1>2. [\A t \in Slots : state'[t] = "UNUSED" => state[t] \in {"UNUSED", "ZOMBIE"}]_vars
        => [\A t \in Slots :
              state'[t] = "UNUSED" =>
                state[t] \in {"UNUSED", "ZOMBIE"} \/ (At("reap") /\ cpu = 0)]_vars
  OBVIOUS
<1> QED BY <1>1, <1>2, InvariantHolds, PTL DEF CalmSpec, OnlyZombiesFreed
=============================================================================
