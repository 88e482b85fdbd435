------------------------------ MODULE UsbBus -------------------------------
(* USB from the root ports to the claimed devices: usbhc.c, uhci.c, ehci.c  *)
(* (ports and control transfers), usbenum.c, and the claims of usbkbd.c,    *)
(* usbmouse.c and usbmsc.c.                                                 *)
(*                                                                          *)
(* A device is what answers at an address of its controller's bus.  As on   *)
(* the controller the code was written against, a packet goes to the first  *)
(* enabled port whose device has the address.  A kind stands for a model of *)
(* device: its vid and pid, its descriptors and its endpoint numbers.       *)
EXTENDS BlockCall, FiniteSetsExt

CONSTANTS
  Buses,       \* the buses looked at: sequences of [hc, kind], UHCI ports first
  MaxPorts,    \* USBHC_MAX_PORTS
  MaxDev       \* USBENUM_MAX_DEV

ASSUME UsbAssumption ==
  /\ MaxPorts \in Nat /\ MaxDev \in Nat
  /\ \A bus \in Buses : bus \in Seq([hc : {"uhci", "ehci"}, kind : {"disk", "kbd", "mouse"}])

Packets == [uhci |-> 2, ehci |-> 1]      \* packets of a sector: 512 bytes in 64 or 512

UsbDevice(p) ==
  [hc |-> p.hc, kind |-> p.kind, en |-> FALSE, addr |-> 0, conf |-> FALSE, boot |-> FALSE,
   tog |-> [in |-> 0, out |-> 0], halt |-> {},
   st |-> "cbw", left |-> 0, op |-> None, lba |-> 0, tag |-> 0, bad |-> FALSE, fifo |-> None]

(* usb_dev_t: an entry of g_dev.  None in an endpoint is endpoint 0.        *)
NoEntry ==
  [port |-> 0, hc |-> "uhci", addr |-> 0, vid |-> None, hid_if |-> FALSE, hid_proto |-> None, hid_ep |-> None,
   rep |-> FALSE, msc_if |-> FALSE, msc_ep |-> None, configured |-> FALSE]

UsbKernel ==
  [on |-> FALSE, ports |-> <<>>, port |-> 1, step |-> 1, slot |-> NoEntry, dev |-> <<>>,
   kbd |-> 0, mou |-> 0, disk |-> 0,
   tog |-> [in |-> 0, out |-> 0], tag |-> 0, cmd |-> None, try |-> 1, clean |-> FALSE,
   i |-> 0, t0 |-> 0, got |-> <<>>]

UsbHw(bus) == [dead |-> FALSE, dev |-> [i \in DOMAIN bus |-> UsbDevice(bus[i])]]

-----------------------------------------------------------------------------
(* uhci_control_xfer and ehci_control_xfer: the request takes effect and    *)
(* the transfer succeeds, or an error ends it before or after the request   *)
(* took effect; without a device at the address it fails.  Every end of a   *)
(* transfer takes its descriptors off the schedule.                         *)
AnsweringIn(h, hc, a) == {i \in DOMAIN h.dev : h.dev[i].en /\ h.dev[i].hc = hc /\ h.dev[i].addr = a}
Answering(hc, a) == AnsweringIn(hw, hc, a)

Errors(h, i, done) ==
  {[rc |-> -1, from |-> i, hw |-> g, faults |-> faults + 1] :
     g \in IF faults < MaxFaults THEN {h, done} ELSE {}}
Ends(h, i, done) == {[rc |-> 0, from |-> i, hw |-> done, faults |-> faults]} \cup Errors(h, i, done)

XferFrom(h, hc, a, Effect(_)) ==
  LET at == AnsweringIn(h, hc, a)
  IN IF at = {}
       THEN {[rc |-> -1, from |-> 0, hw |-> h, faults |-> faults]}
       ELSE Ends(h, Min(at), [h EXCEPT !.dev[Min(at)] = Effect(@)])
ControlXfer(hc, a, Effect(_)) == XferFrom(hw, hc, a, Effect)

Asked(d) == d
Addressed(d, a) == [d EXCEPT !.addr = a]
Configured(d) == [d EXCEPT !.conf = TRUE, !.tog = [in |-> 0, out |-> 0]]

(* A port reset puts the device back at address 0 and enables the port, or  *)
(* finds nothing to enable: UHCI sees no device, EHCI one that is not high  *)
(* speed, which it releases to its companion.                               *)
PortUp(d) == [UsbDevice(d) EXCEPT !.en = TRUE]
PortDown(d) == [UsbDevice(d) EXCEPT !.en = FALSE]

-----------------------------------------------------------------------------
(* uhci_setup_one and ehci_setup_one: the controller is reset and its       *)
(* schedule started, then the ports are reset and those with a device       *)
(* recorded (none when the controller cannot be used).                      *)
PortsOf(hc) == {p \in DOMAIN hw.dev : hw.dev[p].hc = hc}
Ascending(s) == \A i, j \in DOMAIN s : i < j => s[i] < s[j]
SetUp(hc) ==
  \E up \in SUBSET PortsOf(hc) : \E found \in [1 .. Cardinality(up) -> up] :
     /\ Ascending(found)
     /\ hw' = [hw EXCEPT !.dev = [p \in DOMAIN @ |-> IF p \in up THEN PortUp(@[p])
                                                    ELSE IF p \in PortsOf(hc) THEN PortDown(@[p]) ELSE @[p]]]
     /\ k' = [k EXCEPT !.ports = @ \o found]
     /\ IF up = PortsOf(hc) THEN UNCHANGED faults ELSE Fault

uhci_setup_one ==
  /\ At("usb", "boot")
  /\ SetUp("uhci")
  /\ Goto("us_uprobe")
  /\ UNCHANGED <<part, media, last, ncalls>>

ehci_setup_one ==
  /\ At("usb", "us_ehci")
  /\ SetUp("ehci")
  /\ Goto("us_eprobe")
  /\ UNCHANGED <<part, media, last, ncalls>>

(* uhci_control_probe resets the first port again and goes on whatever the  *)
(* answers are; ehci_control_probe stops when the first one is missing.     *)
(* Both move the device to address 1.                                       *)
First(hc) == {p \in {k.ports[j] : j \in DOMAIN k.ports} : hw.dev[p].hc = hc}
ToOne(d) == Addressed(d, 1)

uhci_control_probe ==
  /\ At("usb", "us_uprobe")
  /\ IF First("uhci") = {}
       THEN UNCHANGED <<hw, faults>>
       ELSE \E o \in XferFrom([hw EXCEPT !.dev[Min(First("uhci"))] = PortUp(@)], "uhci", 0, ToOne) :
              hw' = o.hw /\ faults' = o.faults
  /\ Goto("us_ehci")
  /\ UNCHANGED <<part, media, last, k, ncalls>>

ehci_control_probe ==
  /\ At("usb", "us_eprobe")
  /\ IF First("ehci") = {}
       THEN UNCHANGED <<hw, faults>>
       ELSE \E o \in ControlXfer("ehci", 0, ToOne) : hw' = o.hw /\ faults' = o.faults
  /\ Goto("us_scan")
  /\ UNCHANGED <<part, media, last, k, ncalls>>

(* usbhc_scan: one table of ports, UHCI first, as far as it has room.       *)
usbhc_scan ==
  /\ At("usb", "us_scan")
  /\ k' = [k EXCEPT !.ports = IF Len(@) > MaxPorts THEN SubSeq(@, 1, MaxPorts) ELSE @]
  /\ Goto("us_enum")
  /\ UNCHANGED <<part, media, last, hw, ncalls, faults>>

(* parse_config records the first HID and the first mass storage interface, *)
(* and an endpoint only where the entry has none yet.                       *)
parse_config(e, kind) ==
  LET hid == kind \in {"kbd", "mouse"}
      msc == kind = "disk"
  IN [e EXCEPT !.hid_if = hid, !.hid_proto = IF hid THEN kind ELSE @, !.rep = @ \/ hid,
               !.hid_ep = IF hid /\ @ = None THEN kind ELSE @,
               !.msc_if = msc, !.msc_ep = IF msc /\ @ = None THEN kind ELSE @]

(* enum_one: port reset, device descriptor (8 then 18 bytes), SET_ADDRESS,  *)
(* the descriptor again at the new address, configuration descriptor (9     *)
(* bytes, then all), SET_CONFIGURATION, and for HID the report descriptor,  *)
(* whose result does not matter.  Address 0 is asked up to SET_ADDRESS.     *)
EnumSteps == <<"reset", "dev8", "dev18", "set_address", "verify", "cfg9", "cfg", "set_config", "report">>
NewAddr == Len(k.dev) + 1
StepAddr == IF k.step <= 4 THEN 0 ELSE NewAddr

(* What the answer of step s from a device of a kind makes of the entry.    *)
Answered(e, s, kind) ==
  CASE s = "dev18" -> [e EXCEPT !.vid = kind]
    [] s = "cfg" -> parse_config(e, kind)
    [] s = "set_config" -> [e EXCEPT !.configured = TRUE]
    [] OTHER -> e

(* Step 4: the device at the new address is the one that was asked before.  *)
SameDeviceAny(e, kind) == TRUE
SameDevice(e, kind) == e.vid = kind

StepEffect(d) ==
  CASE EnumSteps[k.step] = "set_address" -> Addressed(d, NewAddr)
    [] EnumSteps[k.step] = "set_config" -> Configured(d)
    [] OTHER -> d

(* usbenum_init: the next port, with the entry as a failed port left it.    *)
EnumFailed == k' = [k EXCEPT !.port = @ + 1, !.step = 1]
EnumDone == k' = [k EXCEPT !.port = @ + 1, !.step = 1, !.dev = Append(@, k.slot), !.slot = NoEntry]

Port == k.ports[k.port]
MorePorts == At("usb", "us_enum") /\ k.port <= Len(k.ports) /\ Len(k.dev) < MaxDev

(* The reset of the port, and for UHCI the restart of the schedule.         *)
enum_reset ==
  /\ MorePorts /\ k.step = 1
  /\ LET reset == [hw EXCEPT !.dev[Port] = PortUp(@)]
         hc == hw.dev[Port].hc
         entry == [k.slot EXCEPT !.port = Port, !.hc = hc, !.addr = NewAddr, !.hid_if = FALSE, !.msc_if = FALSE]
     IN \/ hw' = reset /\ k' = [k EXCEPT !.step = 2, !.slot = entry] /\ UNCHANGED faults
        \/ /\ Fault /\ k' = [k EXCEPT !.port = @ + 1, !.slot = entry]
           /\ hw' \in {[hw EXCEPT !.dev[Port] = PortDown(@)]} \cup (IF hc = "uhci" THEN {reset} ELSE {})
  /\ UNCHANGED <<part, media, call, last, ncalls>>

enum_one ==
  /\ MorePorts /\ k.step \in 2 .. 8
  /\ \E o \in ControlXfer(k.slot.hc, StepAddr, StepEffect) :
        /\ hw' = o.hw /\ faults' = o.faults
        /\ LET s == EnumSteps[k.step]
               kind == hw.dev[o.from].kind
           IN IF o.rc # 0 \/ (s = "verify" /\ ~SameDevice(k.slot, kind))
                THEN EnumFailed
                ELSE k' = [k EXCEPT !.step = @ + 1, !.slot = Answered(@, s, kind)]
  /\ UNCHANGED <<part, media, call, last, ncalls>>

enum_report ==
  /\ MorePorts /\ k.step = 9
  /\ IF k.slot.hid_if /\ k.slot.rep
       THEN \E o \in ControlXfer(k.slot.hc, NewAddr, Asked) : hw' = o.hw /\ faults' = o.faults
       ELSE UNCHANGED <<hw, faults>>
  /\ EnumDone
  /\ UNCHANGED <<part, media, call, last, ncalls>>

-----------------------------------------------------------------------------
(* usbkbd_init and usbmouse_init claim the first boot device of their kind  *)
(* that has an interrupt endpoint, on UHCI only, and ask for the boot       *)
(* protocol; a refusal does not undo the claim.                             *)
BootHid(kind) ==
  {i \in DOMAIN k.dev : /\ k.dev[i].hid_if /\ k.dev[i].hid_proto = kind
                        /\ k.dev[i].hid_ep # None /\ k.dev[i].configured
                        /\ k.dev[i].hc = "uhci"}
SetProtocol(d) == [d EXCEPT !.boot = TRUE]

Claimed(kind) == IF BootHid(kind) = {} THEN 0 ELSE Min(BootHid(kind))
BootProtocol(c) ==
  IF c = 0
    THEN UNCHANGED <<hw, faults>>
    ELSE \E o \in ControlXfer("uhci", k.dev[c].addr, SetProtocol) : hw' = o.hw /\ faults' = o.faults

usbkbd_init ==
  /\ At("usb", "us_enum") /\ ~MorePorts
  /\ k' = [k EXCEPT !.kbd = Claimed("kbd"), !.step = 1]
  /\ BootProtocol(Claimed("kbd"))
  /\ Goto("us_msc")
  /\ UNCHANGED <<part, media, last, ncalls>>

usbmouse_init ==
  /\ At("usb", "us_mouse")
  /\ k' = [k EXCEPT !.mou = Claimed("mouse")]
  /\ BootProtocol(Claimed("mouse"))
  /\ call' = Idle
  /\ UNCHANGED <<part, media, last, ncalls>>

EnCpu ==
  \/ uhci_setup_one \/ uhci_control_probe \/ ehci_setup_one \/ ehci_control_probe \/ usbhc_scan
  \/ enum_reset \/ enum_one \/ enum_report \/ usbkbd_init \/ usbmouse_init
=============================================================================
