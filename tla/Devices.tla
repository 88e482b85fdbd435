------------------------------ MODULE Devices ------------------------------
(* The drivers: start-up of one block driver, with the USB stack below it,  *)
(* then calls that read or write one sector; or keyboard and mouse input.   *)
EXTENDS Nvme, Ahci, Ata, UsbMsc, Hid

Start(p, kk, h) == part = p /\ k = kk /\ hw = h

Init ==
  /\ part \in Drivers
  /\ media = [s \in Sectors |-> Blank]
  /\ call = [Idle EXCEPT !.pc = IF part = "hid" THEN "idle" ELSE "boot"]
  /\ last = [rc |-> -1, good |-> FALSE, astray |-> FALSE]
  /\ ncalls = 0 /\ faults = 0
  /\ \/ Start("nvme", NvKernel, NvDevice)
     \/ Start("ahci", AhKernel, AhDevice)
     \/ Start("ata", AtaKernel, AtaDevice)
     \/ \E b \in Buses : Start("usb", UsbKernel, UsbHw(b))
     \/ Start("hid", HidKernel, HidHw)

Cpu == NvCpu \/ AhCpu \/ AtCpu \/ UsbCpu \/ HidCpu
Device == NvHw \/ AhHw \/ AtExecute \/ MscFails \/ HidHwSteps

(* With the calls used up and nothing in progress the system may stop.      *)
Next == Cpu \/ Device

(* The caller goes on polling, and a time limit passes when the clock runs; *)
(* nothing is assumed of the devices.                                       *)
InCall == call.pc # "idle" /\ Cpu
Spec == Init /\ [][Next]_base /\ WF_base(InCall)

-----------------------------------------------------------------------------
(* A sector call that returned 0 did what it was asked: the buffer holds    *)
(* the sector, or the sector holds the buffer.  Late answers, errors and    *)
(* retries of the drivers must not turn into a false success.  nvme.c and   *)
(* usbmsc.c keep this without a condition.  ahci.c keeps it unless it issued *)
(* the command over an unfinished one (ahci.c 244) or cut the sector number, *)
(* ata.c unless the drive still moved the data of a command given up before. *)
SuccessMeansDone == last.rc = 0 => last.good \/ (last.astray /\ part \in {"ahci", "ata"})

(* Every sector call returns, and start-up ends, whatever the device does   *)
(* (the time limits of the polling loops).                                  *)
CallReturns == []<>(call.pc = "idle")

Agree(d) == d.tog = k.tog /\ d.st = "cbw" /\ d.halt = {}

(* The toggles of the host and of the disk agree, and the disk awaits a     *)
(* command, after a command that succeeded and before the second try when   *)
(* the whole of bot_reset_recovery took effect.                             *)
InStep ==
  part = "usb" /\ k.disk # 0
    => /\ call.pc = "idle" /\ last.rc = 0 => Agree(hw.dev[Target])
       /\ call.pc = "us_cbw" /\ k.try = 2 /\ k.clean => Agree(hw.dev[Target])

(* An entry of the device table stands for a device: the one that answers   *)
(* at its address is configured and is of the model the entry records, and  *)
(* no two entries share an address of a bus.                                *)
EntriesAnswer ==
  part = "usb"
    => \A i \in DOMAIN k.dev :
         LET e == k.dev[i]
         IN /\ Answering(e.hc, e.addr) # {}
            /\ hw.dev[Min(Answering(e.hc, e.addr))].conf
            /\ hw.dev[Min(Answering(e.hc, e.addr))].kind = e.vid
            /\ \A j \in DOMAIN k.dev : <<k.dev[j].hc, k.dev[j].addr>> = <<e.hc, e.addr>> => j = i
=============================================================================
