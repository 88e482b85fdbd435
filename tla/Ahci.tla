------------------------------- MODULE Ahci --------------------------------
(* ahci.c: one port, one command slot.  A call writes the command header    *)
(* and table of slot 0, waits for the slot to be free, sets the slot's bit  *)
(* in PxCI and polls until the HBA clears it; the data moves by DMA between *)
(* the medium and the buffer of the caller.                                 *)
EXTENDS BlockCall

NoTable == [op |-> "none", lba |-> 0, val |-> Blank, n |-> 0]

AhKernel == [on |-> FALSE, lba48 |-> FALSE, tbl |-> NoTable]
AhDevice == [dead |-> FALSE, ci |-> FALSE, err |-> FALSE, run |-> NoTable, lba48 |-> Cap > Lba28Max + 1]

(* Where LBA 24-31 go: with LBA48 into the FIS, else only four bits fit and *)
(* the number is cut, which nothing compares with the capacity.             *)
AhLba == IF k.lba48 THEN call.lba ELSE call.lba % (Lba28Max + 1)

-----------------------------------------------------------------------------
(* ahci_read_sector and ahci_write_sector, and ahci_submit up to the wait   *)
(* for slot 0: the table is rewritten whether or not the slot is free, so   *)
(* that a command given up before and not yet fetched becomes this one.     *)
ahci_submit ==
  /\ At("ahci", "ah_submit")
  /\ IF ~k.on
       THEN Return(-1) /\ UNCHANGED k
       ELSE /\ k' = [k EXCEPT !.tbl = [op |-> call.op, lba |-> AhLba, val |-> call.val, n |-> ncalls]]
            /\ call' = [call EXCEPT !.pc = "ah_idle", !.astray = AhLba # call.lba]
            /\ UNCHANGED last
  /\ UNCHANGED <<part, media, hw, ncalls, faults>>

(* The slot is free, or the wait for it reached its limit.  The command is  *)
(* issued either way, the result of the wait being ignored: over a command  *)
(* that still holds the slot the bit that is set means nothing new, and the *)
(* end of that command will be taken for the end of this one.               *)
ahci_issue ==
  /\ part = "ahci" /\ call.pc \in {"ah_idle", "ah_ididle"}
  /\ hw.ci => Ticks
  /\ hw' = IF hw.ci THEN GivenUp(hw) ELSE [hw EXCEPT !.ci = TRUE]
  /\ call' = [call EXCEPT !.pc = IF @ = "ah_idle" THEN "ah_wait" ELSE "ah_idwait",
                          !.astray = @ \/ hw.ci]
  /\ UNCHANGED <<part, media, last, k, ncalls, faults>>

(* PxCI is clear: success unless PxTFD shows an error.                      *)
TfdOk == ~hw.err
ahci_done ==
  /\ At("ahci", "ah_wait") /\ ~hw.ci
  /\ Return(IF TfdOk THEN 0 ELSE -1)
  /\ UNCHANGED <<part, media, k, hw, ncalls, faults>>

ahci_limit ==
  /\ At("ahci", "ah_wait") /\ hw.ci /\ Ticks
  /\ Return(-1)
  /\ hw' = GivenUp(hw)
  /\ UNCHANGED <<part, media, k, ncalls, faults>>

-----------------------------------------------------------------------------
(* ahci_init: the controller is found, mapped and enabled (asking the BIOS  *)
(* for it has a limit and no consequence), or left alone.                   *)
ahci_init ==
  /\ At("ahci", "boot")
  /\ \/ Goto("ah_probe") /\ UNCHANGED faults
     \/ Fault /\ call' = Idle
  /\ UNCHANGED <<part, media, last, k, hw, ncalls>>

(* ahci_probe_port: the port is stopped, reset and started, the link and    *)
(* the signature are waited for; every wait has its limit.                  *)
ahci_probe_port ==
  /\ At("ahci", "ah_probe")
  /\ \/ /\ k' = [k EXCEPT !.tbl = [op |-> "identify", lba |-> 0, val |-> Blank, n |-> 0]]
        /\ Goto("ah_ididle") /\ UNCHANGED faults
     \/ Fault /\ call' = Idle /\ UNCHANGED k
  /\ UNCHANGED <<part, media, last, hw, ncalls>>

(* The end of the probe: IDENTIFY tells whether the drive has LBA48.        *)
ahci_online ==
  /\ At("ahci", "ah_idwait")
  /\ hw.ci => Ticks
  /\ k' = IF hw.ci \/ ~TfdOk THEN k ELSE [k EXCEPT !.on = TRUE, !.lba48 = hw.lba48]
  /\ hw' = IF hw.ci THEN GivenUp(hw) ELSE hw
  /\ call' = Idle
  /\ UNCHANGED <<part, media, last, ncalls, faults>>

-----------------------------------------------------------------------------
(* The HBA fetches the table of an issued command, then executes it: a      *)
(* sector outside the drive and a fault end in an error.  DMA of a command  *)
(* whose call has returned goes to a buffer that is no longer the call's.   *)
AhFetch ==
  /\ part = "ahci" /\ ~hw.dead /\ hw.ci /\ hw.run = NoTable
  /\ hw' = [hw EXCEPT !.run = k.tbl]
  /\ UNCHANGED <<part, media, call, last, k, ncalls, faults>>

AhExecute ==
  LET c == hw.run
      ended(err) == [hw EXCEPT !.ci = FALSE, !.err = err, !.run = NoTable]
  IN /\ part = "ahci" /\ ~hw.dead /\ c # NoTable
     /\ \/ /\ c.op = "identify" \/ c.lba \in Sectors
           /\ hw' = ended(FALSE) /\ UNCHANGED faults
           /\ media' = IF c.op = "write" THEN [media EXCEPT ![c.lba] = c.val] ELSE media
           /\ call' = IF c.op = "read" /\ c.n = ncalls /\ call.pc # "idle"
                        THEN [call EXCEPT !.buf = media[c.lba]] ELSE call
        \/ /\ c.op # "identify" /\ c.lba \notin Sectors
           /\ hw' = ended(TRUE) /\ UNCHANGED <<media, call, faults>>
        \/ Fault /\ hw' = ended(TRUE) /\ UNCHANGED <<media, call>>
     /\ UNCHANGED <<part, last, k, ncalls>>

AhCpu ==
  \/ Enter("ahci", "ah_submit") \/ ahci_submit \/ ahci_issue \/ ahci_done \/ ahci_limit
  \/ ahci_init \/ ahci_probe_port \/ ahci_online
AhHw == AhFetch \/ AhExecute
=============================================================================
