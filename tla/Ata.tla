-------------------------------- MODULE Ata --------------------------------
(* ata.c: a drive on the PIO ports.  The driver polls the status register;  *)
(* its limits count polls, so they pass with interrupts off as well.  As on *)
(* the controllers the code names, a command written while DRQ is set is    *)
(* ignored, and words move only in the direction the command awaits.        *)
EXTENDS BlockCall

AtaKernel == [on |-> FALSE]
AtaDevice == [dead |-> FALSE, bsy |-> FALSE, drq |-> FALSE, err |-> FALSE,
              cmd |-> [op |-> "none", lba |-> 0], fifo |-> None]

(* The command registers: up to ATA_LBA28_MAX a command with 28 address     *)
(* bits, above it the EXT form (ata_cmd_lba48).                             *)
AtaCmd(op, lba) == [op |-> op, lba |-> IF lba <= Lba28Max THEN lba % (Lba28Max + 1) ELSE lba]

(* The device takes a command unless it still moves the data of an earlier  *)
(* one, which the driver had given up before the device was ready: ata_select*)
(* looks at BSY only.                                                       *)
Commanded(cmd, next) ==
  /\ hw' = IF hw.drq THEN hw ELSE [hw EXCEPT !.bsy = TRUE, !.err = FALSE, !.fifo = None, !.cmd = cmd]
  /\ call' = [call EXCEPT !.pc = next, !.astray = hw.drq]

(* The polls are used up.                                                   *)
PollsOut == hw' = GivenUp(hw)

(* The words go the way the command in the device has it.                   *)
Moves == (hw.cmd.op = "write") = (call.op = "write")

-----------------------------------------------------------------------------
(* ata_select and the command of ata_read_sector or ata_write_sector.       *)
ata_command ==
  /\ At("ata", "at_select")
  /\ \/ ~hw.bsy /\ Commanded(AtaCmd(call.op, call.lba), "at_idle") /\ UNCHANGED last
     \/ hw.bsy /\ Return(-1) /\ PollsOut
  /\ UNCHANGED <<part, media, k, ncalls, faults>>

(* ata_wait_idle and ata_wait_drq *)
ata_wait ==
  /\ At("ata", "at_idle")
  /\ \/ ~hw.bsy /\ hw.err /\ Return(-1) /\ UNCHANGED hw
     \/ ~hw.bsy /\ ~hw.err /\ hw.drq /\ Goto("at_xfer") /\ UNCHANGED <<last, hw>>
     \/ (hw.bsy \/ (~hw.err /\ ~hw.drq)) /\ Return(-1) /\ PollsOut
  /\ UNCHANGED <<part, media, k, ncalls, faults>>

(* 256 words in or out; the drive drops DRQ after the last one.             *)
ata_transfer ==
  /\ At("ata", "at_xfer")
  /\ IF call.op = "read"
       THEN /\ ReturnWith(0, IF Moves THEN hw.fifo ELSE "mixed")
            /\ hw' = [hw EXCEPT !.drq = ~Moves]
       ELSE /\ hw' = IF Moves THEN [hw EXCEPT !.drq = FALSE, !.bsy = TRUE, !.fifo = call.val] ELSE hw
            /\ Goto("at_flush") /\ UNCHANGED last
  /\ UNCHANGED <<part, media, k, ncalls, faults>>

(* ata_wait_idle after a write: the data is on the medium.                  *)
ata_flush ==
  /\ At("ata", "at_flush")
  /\ \/ ~hw.bsy /\ Return(IF hw.err THEN -1 ELSE 0) /\ UNCHANGED hw
     \/ hw.bsy /\ Return(-1) /\ PollsOut
  /\ UNCHANGED <<part, media, k, ncalls, faults>>

-----------------------------------------------------------------------------
(* ata_drive_present: IDENTIFY, of which the data is read and thrown away.  *)
ata_identify ==
  /\ At("ata", "boot")
  /\ Commanded([op |-> "identify", lba |-> 0], "at_ident")
  /\ UNCHANGED <<part, media, last, k, ncalls, faults>>

Drained == [hw EXCEPT !.drq = FALSE]
ata_drive_present ==
  /\ At("ata", "at_ident")
  /\ \/ hw.drq /\ hw' = Drained /\ k' = [k EXCEPT !.on = TRUE]
     \/ ~hw.bsy /\ hw.err /\ k' = [k EXCEPT !.on = TRUE] /\ UNCHANGED hw
     \/ hw.bsy /\ PollsOut /\ UNCHANGED k
  /\ call' = Idle
  /\ UNCHANGED <<part, media, last, ncalls, faults>>

-----------------------------------------------------------------------------
(* The drive works on a command: data is offered or asked for, the data of  *)
(* a write goes to the medium, or the command fails.                        *)
AtExecute ==
  LET c == hw.cmd
      idle == [hw EXCEPT !.bsy = FALSE]
      taken == c.op = "write" /\ hw.fifo # None
  IN /\ part = "ata" /\ ~hw.dead /\ hw.bsy
     /\ \/ /\ c.op = "identify" \/ c.lba \in Sectors
           /\ hw' = CASE c.op = "identify" -> [idle EXCEPT !.drq = TRUE, !.fifo = "id"]
                      [] c.op = "read" -> [idle EXCEPT !.drq = TRUE, !.fifo = media[c.lba]]
                      [] c.op = "write" -> [idle EXCEPT !.drq = ~taken, !.fifo = None]
           /\ media' = IF taken THEN [media EXCEPT ![c.lba] = hw.fifo] ELSE media
           /\ UNCHANGED faults
        \/ /\ c.op # "identify" /\ c.lba \notin Sectors
           /\ hw' = [idle EXCEPT !.err = TRUE, !.fifo = None] /\ UNCHANGED <<media, faults>>
        \/ Fault /\ hw' = [idle EXCEPT !.err = TRUE, !.fifo = None] /\ UNCHANGED media
     /\ UNCHANGED <<part, call, last, k, ncalls>>

AtCpu ==
  \/ Enter("ata", "at_select") \/ ata_command \/ ata_wait \/ ata_transfer \/ ata_flush
  \/ ata_identify \/ ata_drive_present
=============================================================================
