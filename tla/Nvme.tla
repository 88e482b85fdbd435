------------------------------- MODULE Nvme --------------------------------
(* nvme.c: a submission and a completion ring per queue, the phase bit that *)
(* tells a new completion from an old one, one page g_data through which    *)
(* all data passes, and polling with a time limit.  The controller fetches  *)
(* and completes the commands of a queue in order.                          *)
EXTENDS BlockCall

CONSTANTS Depth, CidMod       \* entries of a ring, number of command ids

(* A command id comes back long after the entries of a ring were replaced.  *)
ASSUME NvmeAssumption == Depth \in Nat \ {0} /\ CidMod \in Nat /\ CidMod >= 2 * Depth

Ring == 0 .. (Depth - 1)
NoCmd == [op |-> "none", lba |-> 0, cid |-> 0]
NoCqe == [cid |-> 0, p |-> 0, ok |-> TRUE]

NvQueue == [tail |-> 0, head |-> 0, phase |-> 1]
NvRings == [sq |-> [i \in Ring |-> NoCmd], cq |-> [i \in Ring |-> NoCqe],
            db |-> 0, fetch |-> 0, post |-> 0, p |-> 1, hdb |-> 0]

NvKernel == [on |-> FALSE, step |-> 0, cid |-> 0, data |-> Blank, q |-> [admin |-> NvQueue, io |-> NvQueue], want |-> 0]
NvDevice == [dead |-> FALSE, admin |-> NvRings, io |-> NvRings]

(* The queue of the step: commands of start-up go to the admin queue.       *)
Qn == IF call.op = "boot" THEN "admin" ELSE "io"

(* n_submit: the next cid, the entry at the tail, the doorbell.             *)
n_submit(cmd, data) ==
  LET cid == (k.cid + 1) % CidMod
      t == k.q[Qn].tail
      t2 == (t + 1) % Depth
  IN /\ k' = [k EXCEPT !.cid = cid, !.want = cid, !.q[Qn].tail = t2, !.data = data]
     /\ hw' = [hw EXCEPT ![Qn].sq[t] = [cmd EXCEPT !.cid = cid], ![Qn].db = t2]

(* n_complete: an entry with the expected phase is taken, the head moves    *)
(* (and the phase flips when it wraps) and the doorbell tells the           *)
(* controller, whatever the entry says.                                     *)
Cqe == hw[Qn].cq[k.q[Qn].head]
Ready == Cqe.p = k.q[Qn].phase
Advanced(q) ==
  LET h == q.head + 1
  IN IF h >= Depth THEN [q EXCEPT !.head = 0, !.phase = 1 - q.phase] ELSE [q EXCEPT !.head = h]
Consume ==
  LET q2 == Advanced(k.q[Qn])
  IN /\ k' = [k EXCEPT !.q[Qn] = q2]
     /\ hw' = [hw EXCEPT ![Qn].hdb = q2.head]

(* The command succeeded: its own completion, without an error.             *)
MineAny(want) == Cqe.ok
Mine(want) == Cqe.cid = want /\ Cqe.ok

-----------------------------------------------------------------------------
(* n_io_sector *)
n_io_sector ==
  /\ At("nvme", "nv_io")
  /\ IF ~k.on \/ call.lba >= Cap
       THEN Return(-1) /\ UNCHANGED <<k, hw>>
       ELSE /\ n_submit([op |-> call.op, lba |-> call.lba, cid |-> 0], IF call.op = "write" THEN call.val ELSE k.data)
            /\ Goto("nv_wait")
            /\ UNCHANGED last
  /\ UNCHANGED <<part, media, ncalls, faults>>

nv_done ==
  /\ At("nvme", "nv_wait") /\ Ready
  /\ Consume
  /\ IF Mine(k.want) THEN ReturnWith(0, k.data) ELSE Return(-1)
  /\ UNCHANGED <<part, media, ncalls, faults>>

nv_limit ==
  /\ At("nvme", "nv_wait") /\ ~Ready /\ Ticks
  /\ Return(-1)
  /\ hw' = GivenUp(hw)
  /\ UNCHANGED <<part, media, k, ncalls, faults>>

(* nvme_init: the controller is disabled, set up and enabled (each wait has *)
(* its limit), then come Identify Controller, Create CQ, Create SQ and      *)
(* Identify Namespace.  Any failure leaves the drive absent.                *)
NvBoot == <<"idc", "cq", "sq", "idn">>

nv_ready ==
  /\ At("nvme", "boot")
  /\ \/ Goto("nv_admin") /\ k' = [k EXCEPT !.step = 1] /\ UNCHANGED faults
     \/ Fault /\ call' = Idle /\ UNCHANGED k
  /\ UNCHANGED <<part, media, last, hw, ncalls>>

nv_admin ==
  /\ At("nvme", "nv_admin")
  /\ n_submit([op |-> NvBoot[k.step], lba |-> 0, cid |-> 0], k.data)
  /\ Goto("nv_admwait")
  /\ UNCHANGED <<part, media, last, ncalls, faults>>

nv_admin_done ==
  /\ At("nvme", "nv_admwait") /\ Ready
  /\ LET q2 == Advanced(k.q[Qn])
         more == Mine(k.want) /\ k.step < Len(NvBoot)
     IN /\ hw' = [hw EXCEPT ![Qn].hdb = q2.head]
        /\ k' = [k EXCEPT !.q[Qn] = q2, !.on = Mine(k.want) /\ ~more, !.step = @ + 1]
        /\ call' = IF more THEN [call EXCEPT !.pc = "nv_admin"] ELSE Idle
  /\ UNCHANGED <<part, media, last, ncalls, faults>>

nv_admin_limit ==
  /\ At("nvme", "nv_admwait") /\ ~Ready
  /\ call' = Idle
  /\ hw' = GivenUp(hw)
  /\ UNCHANGED <<part, media, last, k, ncalls, faults>>

-----------------------------------------------------------------------------
(* The controller: it fetches the next entry up to the doorbell, moves the  *)
(* data and posts a completion when the completion ring has room.           *)
NvExecute(n) ==
  LET r == hw[n]
      cmd == r.sq[r.fetch]
      post2 == (r.post + 1) % Depth
      posted(ok) == [hw EXCEPT ![n].fetch = (r.fetch + 1) % Depth, ![n].post = post2,
                               ![n].p = IF post2 = 0 THEN 1 - r.p ELSE r.p,
                               ![n].cq[r.post] = [cid |-> cmd.cid, p |-> r.p, ok |-> ok]]
  IN /\ part = "nvme" /\ ~hw.dead
     /\ r.fetch # r.db /\ post2 # r.hdb
     /\ \/ /\ hw' = posted(TRUE) /\ UNCHANGED faults
           /\ media' = IF cmd.op = "write" THEN [media EXCEPT ![cmd.lba] = k.data] ELSE media
           /\ k' = IF cmd.op = "read" THEN [k EXCEPT !.data = media[cmd.lba]] ELSE k
        \/ Fault /\ hw' = posted(FALSE) /\ UNCHANGED <<media, k>>
     /\ UNCHANGED <<part, call, last, ncalls>>

NvCpu ==
  \/ Enter("nvme", "nv_io") \/ n_io_sector \/ nv_done \/ nv_limit
  \/ nv_ready \/ nv_admin \/ nv_admin_done \/ nv_admin_limit
NvHw == \E n \in {"admin", "io"} : NvExecute(n)
=============================================================================
