------------------------------ MODULE UsbMsc -------------------------------
(* usbmsc.c over the bulk transfers of uhci.c and ehci.c.  A command is a   *)
(* CBW packet out, the packets of the data, and a CSW packet in; after a    *)
(* failure the device is reset, its endpoints are cleared and the command   *)
(* is sent once more.                                                       *)
(*                                                                          *)
(* Packets carry a toggle.  A device acknowledges and drops an OUT packet   *)
(* with the wrong toggle; a controller acknowledges and drops an IN packet  *)
(* with the wrong one and stays with the same descriptor.  UHCI moves its   *)
(* toggle with every packet, EHCI once at the end of a transfer that        *)
(* succeeded, by the parity of its packets.                                 *)
EXTENDS UsbBus

Disk == k.dev[k.disk]
Target == Min(Answering(Disk.hc, Disk.addr))
HasTarget == Answering(Disk.hc, Disk.addr) # {} /\ Disk.msc_ep = hw.dev[Target].kind

(* Commands: "read" and "write", and at start-up "ready" (TEST UNIT READY)  *)
(* and "cap" (READ CAPACITY).  Each stage is one bulk transfer.             *)
DataPackets(op) ==
  CASE op \in {"read", "write"} -> Packets[Disk.hc]
    [] op = "cap" -> 1
    [] op = "ready" -> 0
Ep == IF call.pc = "us_cbw" \/ (call.pc = "us_data" /\ k.cmd = "write") THEN "out" ELSE "in"
Count == IF call.pc = "us_data" THEN DataPackets(k.cmd) ELSE 1
HostTog == (k.t0 + k.i) % 2
Bulk(e) == part = "usb" /\ call.pc \in {"us_cbw", "us_data", "us_csw"} /\ Ep = e

(* bot_command starts with a new tag and the CBW.                           *)
BotStart(kk, op) == [kk EXCEPT !.cmd = op, !.tag = @ + 1, !.i = 0, !.t0 = kk.tog.out, !.got = <<>>]

-----------------------------------------------------------------------------
(* The toggle of an endpoint after n packets of a transfer.                 *)
TogAfterOnce(hc, n, ok) == IF hc = "uhci" \/ ok THEN (k.t0 + 1) % 2 ELSE k.t0
TogAfter(hc, n, ok) == IF hc = "uhci" \/ ok THEN (k.t0 + n) % 2 ELSE k.t0

(* A transfer before the CSW ended well: on to the next stage.              *)
StageDone(got, buf) ==
  LET togs == [k.tog EXCEPT ![Ep] = TogAfter(Disk.hc, k.i + 1, TRUE)]
      next == IF call.pc = "us_cbw" /\ DataPackets(k.cmd) > 0 THEN "us_data" ELSE "us_csw"
  IN /\ k' = [k EXCEPT !.tog = togs, !.i = 0, !.got = <<>>,
                       !.t0 = IF next = "us_data" /\ k.cmd = "write" THEN togs.out ELSE togs.in]
     /\ call' = [call EXCEPT !.pc = next, !.buf = buf]
     /\ UNCHANGED last

(* bot_command_retry: the first failure leads to reset recovery, the second *)
(* to the failure of the call, or of the claim (usbmsc_init skips the       *)
(* device).  n packets of the transfer were taken, and ok says whether the  *)
(* transfer itself was: a CSW may arrive and be bad.                        *)
BotFailed(n, ok) ==
  LET kk == [k EXCEPT !.tog[Ep] = TogAfter(Disk.hc, n, ok), !.i = 0, !.got = <<>>]
  IN IF k.try = 1
       THEN k' = [kk EXCEPT !.clean = TRUE] /\ Goto("us_reset") /\ UNCHANGED last
       ELSE IF call.op = "boot"
         THEN k' = [kk EXCEPT !.step = k.disk + 1, !.disk = 0] /\ Goto("us_msc") /\ UNCHANGED last
         ELSE k' = kk /\ Return(-1)

(* The CSW reports success.                                                 *)
BotDone ==
  LET kk == [k EXCEPT !.tog[Ep] = TogAfter(Disk.hc, 1, TRUE), !.i = 0, !.clean = FALSE, !.try = 1]
  IN CASE k.cmd = "ready" -> k' = BotStart(kk, "cap") /\ Goto("us_cbw") /\ UNCHANGED last
       [] k.cmd = "cap" -> k' = [kk EXCEPT !.on = TRUE] /\ Goto("us_mouse") /\ UNCHANGED last
       [] OTHER -> k' = kk /\ Return(0)

-----------------------------------------------------------------------------
(* The device's side.  An OUT packet is dropped for its toggle, is a CBW    *)
(* where one is awaited or data where data is awaited, ends the data as an  *)
(* error when it is too short, or stalls the endpoint.                      *)
Flip(t) == 1 - t
AfterOut(d) ==
  CASE HostTog # d.tog.out -> d
    [] HostTog = d.tog.out /\ d.st = "cbw" /\ call.pc = "us_cbw" ->
         [d EXCEPT !.tog.out = Flip(@), !.op = k.cmd, !.lba = call.lba, !.tag = k.tag, !.bad = FALSE,
                   !.fifo = None, !.left = DataPackets(k.cmd),
                   !.st = CASE k.cmd = "ready" -> "csw" [] k.cmd = "write" -> "out" [] OTHER -> "in"]
    [] HostTog = d.tog.out /\ d.st = "out" /\ call.pc = "us_data" ->
         [d EXCEPT !.tog.out = Flip(@), !.left = @ - 1, !.fifo = call.val,
                   !.st = IF d.left = 1 THEN "csw" ELSE "out"]
    [] HostTog = d.tog.out /\ d.st = "out" /\ call.pc = "us_cbw" ->
         [d EXCEPT !.tog.out = Flip(@), !.bad = TRUE, !.st = "csw"]
    [] OTHER -> [d EXCEPT !.halt = @ \cup {"out"}]

Stored(d, d2) == IF d.st = "out" /\ d2.st = "csw" /\ ~d2.bad THEN [media EXCEPT ![d2.lba] = d2.fifo] ELSE media

(* An IN packet is data or the CSW; val and left tell the data packets      *)
(* apart.                                                                   *)
InPacket(d) == [csw |-> d.st = "csw", val |-> IF d.op = "read" THEN media[d.lba] ELSE None, left |-> d.left]
AfterIn(d) ==
  IF d.st = "in"
    THEN [d EXCEPT !.tog.in = Flip(@), !.left = @ - 1, !.st = IF d.left = 1 THEN "csw" ELSE "in"]
    ELSE [d EXCEPT !.tog.in = Flip(@), !.st = "cbw"]

-----------------------------------------------------------------------------
(* uhci_bulk_xfer and ehci_bulk_xfer, one packet at a time.                 *)
bulk_out ==
  /\ Bulk("out") /\ HasTarget
  /\ LET d == hw.dev[Target]
         d2 == AfterOut(d)
     IN /\ "out" \notin d.halt
        /\ hw' = [hw EXCEPT !.dev[Target] = d2]
        /\ media' = Stored(d, d2)
        /\ \/ "out" \in d2.halt /\ BotFailed(k.i, FALSE)
           \/ "out" \notin d2.halt /\ k.i + 1 < Count /\ k' = [k EXCEPT !.i = @ + 1] /\ UNCHANGED <<call, last>>
           \/ "out" \notin d2.halt /\ k.i + 1 = Count /\ StageDone(<<>>, call.buf)
  /\ UNCHANGED <<part, ncalls, faults>>

(* The caller's buffer after the data stage; too little data is no error.   *)
Buffer(got) ==
  IF Len(got) = Count /\ \A j \in DOMAIN got : ~got[j].csw /\ got[j].val = got[1].val /\ got[j].left = Count + 1 - j
    THEN got[1].val ELSE "mixed"

(* bot_command's check of the CSW: signature, tag and status.               *)
CswOk(d) == d.tag = k.tag /\ ~d.bad

bulk_in ==
  /\ Bulk("in") /\ HasTarget
  /\ LET d == hw.dev[Target]
         got == Append(k.got, InPacket(d))
         more == call.pc = "us_data" /\ d.st = "in" /\ k.i + 1 < Count
     IN /\ "in" \notin d.halt /\ d.st \in {"in", "csw"}
        /\ \/ /\ call.pc = "us_csw" /\ d.st = "in"              \* longer than a CSW: babble
              /\ BotFailed(k.i, FALSE) /\ UNCHANGED hw
           \/ /\ ~(call.pc = "us_csw" /\ d.st = "in")
              /\ hw' = [hw EXCEPT !.dev[Target] = AfterIn(d)]
              /\ \/ HostTog # d.tog.in /\ UNCHANGED <<k, call, last>>
                 \/ /\ HostTog = d.tog.in
                    /\ \/ more /\ k' = [k EXCEPT !.i = @ + 1, !.got = got] /\ UNCHANGED <<call, last>>
                       \/ call.pc = "us_data" /\ ~more /\ StageDone(got, Buffer(got))
                       \/ call.pc = "us_csw" /\ CswOk(d) /\ BotDone
                       \/ call.pc = "us_csw" /\ ~CswOk(d) /\ BotFailed(1, TRUE)
  /\ UNCHANGED <<part, media, ncalls, faults>>

(* No packet: nothing answers, the endpoint is stalled, or the device has   *)
(* nothing to send until the limit.  Or an error ends the transfer; an OUT  *)
(* packet may have arrived all the same.                                    *)
bulk_fails ==
  /\ \E e \in {"in", "out"} :
       /\ Bulk(e)
       /\ \/ ~HasTarget
          \/ HasTarget /\ e \in hw.dev[Target].halt
          \/ HasTarget /\ e = "in" /\ hw.dev[Target].st \in {"cbw", "out"} /\ Ticks
  /\ BotFailed(k.i, FALSE)
  /\ UNCHANGED <<part, media, hw, ncalls, faults>>

bulk_error ==
  /\ \E e \in {"in", "out"} : Bulk(e) /\ HasTarget /\ e \notin hw.dev[Target].halt
  /\ Fault /\ BotFailed(k.i, FALSE)
  /\ \/ UNCHANGED <<hw, media>>
     \/ /\ Ep = "out"
        /\ hw' = [hw EXCEPT !.dev[Target] = AfterOut(@)]
        /\ media' = Stored(hw.dev[Target], AfterOut(hw.dev[Target]))
  /\ UNCHANGED <<part, ncalls>>

(* The device fails the command it works on.                                *)
MscFails ==
  /\ \E e \in {"in", "out"} : Bulk(e) /\ HasTarget
  /\ hw.dev[Target].st # "cbw" /\ ~hw.dev[Target].bad
  /\ Fault
  /\ hw' = [hw EXCEPT !.dev[Target].bad = TRUE, !.dev[Target].st = "csw",
                      !.dev[Target].halt = @ \cup ({hw.dev[Target].st} \ {"csw"})]
  /\ UNCHANGED <<part, media, call, last, k, ncalls>>

-----------------------------------------------------------------------------
(* bot_reset_recovery: three requests, of which no result is looked at,     *)
(* then the host's toggles, then the second try.                            *)
BotReset(d) == [d EXCEPT !.st = "cbw", !.left = 0]
ClearIn(d) == [d EXCEPT !.halt = @ \ {"in"}, !.tog.in = 0]
ClearOut(d) == [d EXCEPT !.halt = @ \ {"out"}, !.tog.out = 0]

Recover(where, Effect(_), next) ==
  /\ At("usb", where)
  /\ \E o \in ControlXfer(Disk.hc, Disk.addr, Effect) :
        /\ hw' = o.hw /\ faults' = o.faults
        /\ k' = [k EXCEPT !.clean = @ /\ o.rc = 0]
  /\ Goto(next)
  /\ UNCHANGED <<part, media, last, ncalls>>

recover_reset == Recover("us_reset", BotReset, "us_clin")
recover_in == Recover("us_clin", ClearIn, "us_clout")
recover_out == Recover("us_clout", ClearOut, "us_again")

TogsReset == [in |-> 0, out |-> 0]
bot_again ==
  /\ At("usb", "us_again")
  /\ k' = BotStart([k EXCEPT !.tog = TogsReset, !.try = 2], k.cmd)
  /\ Goto("us_cbw")
  /\ UNCHANGED <<part, media, last, hw, ncalls, faults>>

-----------------------------------------------------------------------------
(* usbmsc_init: the first disk that is ready and tells its capacity becomes *)
(* the drive.                                                               *)
Candidates ==
  {i \in DOMAIN k.dev : i >= k.step /\ k.dev[i].configured /\ k.dev[i].msc_if /\ k.dev[i].msc_ep # None}
usbmsc_init ==
  /\ At("usb", "us_msc")
  /\ IF Candidates = {}
       THEN Goto("us_mouse") /\ UNCHANGED k
       ELSE k' = BotStart([k EXCEPT !.disk = Min(Candidates), !.try = 1], "ready") /\ Goto("us_cbw")
  /\ UNCHANGED <<part, media, last, hw, ncalls, faults>>

(* usbmsc_read_sector and usbmsc_write_sector *)
usbmsc_sector ==
  /\ At("usb", "us_sector")
  /\ IF ~k.on \/ call.lba >= Cap
       THEN Return(-1) /\ UNCHANGED k
       ELSE k' = BotStart([k EXCEPT !.try = 1, !.clean = FALSE], call.op) /\ Goto("us_cbw") /\ UNCHANGED last
  /\ UNCHANGED <<part, media, hw, ncalls, faults>>

UsbCpu ==
  \/ EnCpu \/ Enter("usb", "us_sector") \/ usbmsc_init \/ usbmsc_sector
  \/ bulk_out \/ bulk_in \/ bulk_fails \/ bulk_error
  \/ recover_reset \/ recover_in \/ recover_out \/ bot_again
=============================================================================
