----------------------------- MODULE BlockCall -----------------------------
(* The sector calls of the block layer (ata.c): one caller at a time reads  *)
(* or writes one sector of one drive, and the driver of that drive talks to *)
(* its device.  This module holds what the drivers share: the medium, the   *)
(* call in progress, its return and the time limit of a wait for hardware.  *)
(*                                                                          *)
(* k is what the driver keeps in memory, hw what the device keeps; their    *)
(* fields depend on the driver.  A device may report an error in place of   *)
(* an answer (MaxFaults bounds how often), or not answer within the limit   *)
(* of a wait: the devices of Late answer later, the others never again.     *)
EXTENDS Integers, Sequences, FiniteSets, TLC

CONSTANTS
  Drivers,     \* the drivers looked at: "nvme", "ahci", "ata", "usb"
  Late,        \* those whose device may answer after the limit
  Callers,     \* "shell" runs with IF = 1, "syscall" with IF = 0
  Lbas, Cap,   \* sector numbers asked for, and the capacity of the drive
  Vals,        \* contents of a sector
  Lba28Max,    \* ATA_LBA28_MAX
  MaxCalls, MaxFaults   \* bounds of a behaviour

VARIABLES
  part,        \* the driver of the drive
  media,       \* contents of the sectors
  call,        \* the call in progress
  last,        \* the call before it and its result
  k, hw,       \* driver and device
  ncalls, faults

base == <<part, media, call, last, k, hw, ncalls, faults>>

None == "none"

ASSUME BlockAssumption ==
  /\ Late \subseteq Drivers /\ Callers \subseteq {"shell", "syscall"}
  /\ Cap \in Nat /\ Lba28Max \in Nat /\ MaxCalls \in Nat /\ MaxFaults \in Nat
  /\ Lbas \subseteq Nat /\ Vals # {} /\ None \notin Vals

-----------------------------------------------------------------------------
Blank == CHOOSE v \in Vals : TRUE
Sectors == 0 .. (Cap - 1)

(* pc is where the driver stands; buf is what the buffer of the caller      *)
(* holds.  astray: the driver has given its command in a way that may leave *)
(* the device with another one (which ahci.c and ata.c do not notice).      *)
Idle == [pc |-> "idle", by |-> "shell", op |-> "boot", lba |-> 0, val |-> Blank, buf |-> None,
         astray |-> FALSE]

At(p, where) == part = p /\ call.pc = where
Goto(where) == call' = [call EXCEPT !.pc = where]

(* A call returns rc; good says whether the caller got what it asked for,   *)
(* and astray whether its command may not have been the one carried out.    *)
ReturnWith(rc, buf) ==
  /\ call' = Idle
  /\ last' = [rc |-> rc,
              good |-> /\ call.lba \in Sectors
                       /\ \/ call.op = "read" /\ buf = media[call.lba]
                          \/ call.op = "write" /\ media[call.lba] = call.val,
              astray |-> call.astray]
Return(rc) == ReturnWith(rc, call.buf)

Fault == faults < MaxFaults /\ faults' = faults + 1

(* Waits are limited by g_pit_ticks, which IRQ0 advances: with IF = 0 it    *)
(* stands still.  A device outside Late that let a limit pass is dead; one  *)
(* of Late goes on with the command it was given.                           *)
TicksNever == FALSE
Ticks == call.by = "shell"
GivenUp(h) == IF part \in Late THEN h ELSE [h EXCEPT !.dead = TRUE]

(* ata_read_sector and ata_write_sector: the number of the drive selects    *)
(* the driver (part, fixed by Init), whose first step is `first'.           *)
Enter(p, first) ==
  /\ At(p, "idle") /\ ncalls < MaxCalls
  /\ \E by \in Callers, op \in {"read", "write"}, l \in Lbas, v \in Vals :
        /\ op = "read" => v = Blank
        /\ call' = [pc |-> first, by |-> by, op |-> op, lba |-> l, val |-> v, buf |-> None,
                  astray |-> FALSE]
  /\ ncalls' = ncalls + 1
  /\ UNCHANGED <<part, media, last, k, hw, faults>>
=============================================================================
