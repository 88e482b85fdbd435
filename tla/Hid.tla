-------------------------------- MODULE Hid --------------------------------
(* Keyboard and mouse input: the key ring of keyboard.c, filled by IRQ1     *)
(* (PS/2) and by usbkbd_poll, the button state that usbmouse_poll hands to  *)
(* mouse.c, and uhci_interrupt_in below both.  keyboard_getchar polls the   *)
(* USB devices and takes one key.  One task reads keys.                     *)
(*                                                                          *)
(* A key press has a number, which only the properties read; the driver     *)
(* sees its code.  Keys without a character and pointer motion are left out.*)
EXTENDS BlockCall, FiniteSetsExt, Functions

CONSTANTS
  RingSize,    \* KEYBOARD_BUFFER_SIZE
  Codes,       \* key codes of the USB keyboard
  MaxKeys, MaxButtons, MaxResends   \* bounds: presses of each keyboard, button
                                    \* changes, reports sent again

ASSUME HidAssumption == RingSize \in Nat \ {0} /\ IsFiniteSet(Codes)

HidDevs == {"kbd", "mou"}
NoTd == [on |-> FALSE, dev |-> "kbd", tog |-> 0, done |-> FALSE, rep |-> <<>>]

(* The drivers' statics; read, lost and full are for the properties: the    *)
(* last press read of each keyboard, whether the controller or the ring     *)
(* ever dropped something.                                                  *)
HidKernel ==
  [ring |-> [i \in 0 .. RingSize - 1 |-> None], s |-> 0, e |-> 0, prev |-> {}, todo |-> <<>>,
   tog |-> [d \in HidDevs |-> 0], btn |-> 0, last_btn |-> 0,
   read |-> [ps2 |-> 0, usb |-> 0], lost |-> FALSE, full |-> FALSE]

(* The devices: keys held down (with the number of the press), reports not  *)
(* yet taken, toggles; and the transfer descriptor of the controller.       *)
HidHw ==
  [down |-> [c \in {} |-> 0], btn |-> 0, pend |-> [d \in HidDevs |-> <<>>],
   tog |-> [d \in HidDevs |-> 0], n |-> [ps2 |-> 0, usb |-> 0, mou |-> 0], td |-> NoTd]

Rest == <<part, media, last, ncalls>>

-----------------------------------------------------------------------------
(* The ring keeps one entry free; a full ring drops the new key.            *)
HasRoomAlways(kk) == TRUE
HasRoom(kk) == (kk.e + 1) % RingSize # kk.s

Push(kk, key) ==
  IF HasRoom(kk)
    THEN [kk EXCEPT !.ring[kk.e] = key, !.e = (@ + 1) % RingSize]
    ELSE [kk EXCEPT !.full = TRUE]

keyboard_inject(kk, key) == Push(kk, key)

(* IRQ1: a PS/2 key, whenever interrupts are on.                            *)
keyboard_handler ==
  /\ part = "hid" /\ call.by = "shell" /\ hw.n.ps2 < MaxKeys
  /\ hw' = [hw EXCEPT !.n.ps2 = @ + 1]
  /\ k' = Push(k, [src |-> "ps2", n |-> hw.n.ps2 + 1])
  /\ UNCHANGED <<Rest, call, faults>>

-----------------------------------------------------------------------------
(* The user and the devices.  A change makes a report.                      *)
UsbKeys(down, n) ==
  /\ hw' = [hw EXCEPT !.down = down, !.pend["kbd"] = Append(@, down), !.n.usb = n]
  /\ UNCHANGED <<Rest, k, call, faults>>

UsbPress ==
  /\ part = "hid" /\ hw.n.usb < MaxKeys
  /\ LET n == hw.n.usb + 1
     IN \E c \in Codes \ DOMAIN hw.down :
          UsbKeys([x \in DOMAIN hw.down \cup {c} |-> IF x = c THEN n ELSE hw.down[x]], n)

UsbRelease ==
  /\ part = "hid"
  /\ \E c \in DOMAIN hw.down : UsbKeys([x \in DOMAIN hw.down \ {c} |-> hw.down[x]], hw.n.usb)

UsbButton ==
  /\ part = "hid" /\ hw.n.mou < MaxButtons
  /\ hw' = [hw EXCEPT !.n.mou = @ + 1, !.btn = 1 - @, !.pend["mou"] = Append(@, 1 - hw.btn)]
  /\ UNCHANGED <<Rest, k, call, faults>>

(* The controller asks the device of the descriptor: a report with the      *)
(* awaited toggle ends the transfer, one with the other is acknowledged and *)
(* dropped.  The device sends the report again when the acknowledgement is  *)
(* lost.  With no report the device answers NAK and the transfer goes on.   *)
HidAnswer ==
  /\ part = "hid" /\ hw.td.on /\ ~hw.td.done /\ hw.pend[hw.td.dev] # <<>>
  /\ LET x == hw.td.dev
         taken == IF hw.td.tog = hw.tog[x]
                  THEN [hw EXCEPT !.td.done = TRUE, !.td.rep = <<Head(hw.pend[x])>>] ELSE hw
     IN \/ /\ hw' = [taken EXCEPT !.tog[x] = 1 - @, !.pend[x] = Tail(@)]
           /\ k' = [k EXCEPT !.lost = @ \/ hw.td.tog # hw.tog[x]]
           /\ UNCHANGED faults
        \/ hw' = taken /\ faults < MaxResends /\ Fault /\ UNCHANGED k
  /\ UNCHANGED <<Rest, call>>

-----------------------------------------------------------------------------
(* uhci_interrupt_in: one descriptor is linked until it is done or 3 ms     *)
(* have passed, then unlinked.  A report that arrives between the last look *)
(* and the unlinking is lost.  The toggle moves with data only.             *)
Submit(x) == hw' = [hw EXCEPT !.td = [NoTd EXCEPT !.on = TRUE, !.dev = x, !.tog = k.tog[x]]]
Unlinked == hw' = [hw EXCEPT !.td = NoTd]

NextPoll(x) == IF x = "kbd" THEN "hid_mou" ELSE "hid_read"

(* The start of a poll, unless the last was too recent.                     *)
Poll(x, where) ==
  /\ At("hid", where)
  /\ \/ Submit(x) /\ Goto("hid_wait")
     \/ Goto(NextPoll(x)) /\ UNCHANGED hw
  /\ UNCHANGED <<Rest, k, faults>>

usbkbd_poll == Poll("kbd", "hid_kbd")
usbmouse_poll == Poll("mou", "hid_mou")

(* A report of the keyboard: the codes that the one before did not have, in *)
(* its order.                                                               *)
NewKeys(rep) == {[src |-> "usb", n |-> rep[c]] : c \in DOMAIN rep \ k.prev}
Sorted(keys) ==
  {s \in [1 .. Cardinality(keys) -> keys] :
     Range(s) = keys /\ \A i, j \in DOMAIN s : i < j => s[i].n < s[j].n}

kbd_report ==
  /\ At("hid", "hid_wait") /\ hw.td.done /\ hw.td.dev = "kbd"
  /\ LET rep == hw.td.rep[1]
     IN \E keys \in Sorted(NewKeys(rep)) :
          k' = [k EXCEPT !.tog["kbd"] = 1 - @, !.todo = keys, !.prev = DOMAIN rep]
  /\ Unlinked /\ Goto("hid_inject")
  /\ UNCHANGED <<Rest, faults>>

inject_next ==
  /\ At("hid", "hid_inject")
  /\ IF k.todo = <<>>
       THEN Goto("hid_mou") /\ UNCHANGED k
       ELSE k' = keyboard_inject([k EXCEPT !.todo = Tail(@)], Head(k.todo)) /\ UNCHANGED call
  /\ UNCHANGED <<Rest, hw, faults>>

(* poll_once and mouse_inject_report: the state of the buttons.             *)
mou_report ==
  /\ At("hid", "hid_wait") /\ hw.td.done /\ hw.td.dev = "mou"
  /\ LET b == hw.td.rep[1]
         kk == [k EXCEPT !.tog["mou"] = 1 - @]
     IN k' = IF b = k.last_btn THEN kk ELSE [kk EXCEPT !.last_btn = b, !.btn = b]
  /\ Unlinked /\ Goto("hid_read")
  /\ UNCHANGED <<Rest, faults>>

(* The toggle of a transfer without data stays.                             *)
TogAfterNak(kk, x) == kk

intr_limit ==
  /\ At("hid", "hid_wait") /\ ~hw.td.done /\ Ticks
  /\ Goto("hid_unlink")
  /\ UNCHANGED <<Rest, k, hw, faults>>

intr_unlink ==
  /\ At("hid", "hid_unlink")
  /\ k' = TogAfterNak([k EXCEPT !.lost = @ \/ hw.td.done], hw.td.dev)
  /\ Unlinked /\ Goto(NextPoll(hw.td.dev))
  /\ UNCHANGED <<Rest, faults>>

-----------------------------------------------------------------------------
(* keyboard_getchar; with interrupts off the USB devices are not polled.    *)
keyboard_getchar ==
  /\ At("hid", "idle")
  /\ \E by \in {"shell", "syscall"} :
       call' = [Idle EXCEPT !.by = by, !.op = "read", !.pc = IF by = "shell" THEN "hid_kbd" ELSE "hid_read"]
  /\ UNCHANGED <<Rest, k, hw, faults>>

ring_empty ==
  /\ At("hid", "hid_read") /\ k.s = k.e
  /\ call' = Idle
  /\ UNCHANGED <<Rest, k, hw, faults>>

ring_read ==
  /\ At("hid", "hid_read") /\ k.s # k.e
  /\ call' = [call EXCEPT !.pc = "hid_take", !.buf = k.ring[k.s]]
  /\ UNCHANGED <<Rest, k, hw, faults>>

ring_take ==
  /\ At("hid", "hid_take")
  /\ k' = [k EXCEPT !.s = (@ + 1) % RingSize, !.read[call.buf.src] = call.buf.n]
  /\ call' = Idle
  /\ UNCHANGED <<Rest, hw, faults>>

HidCpu ==
  \/ usbkbd_poll \/ usbmouse_poll \/ kbd_report \/ inject_next \/ mou_report
  \/ intr_limit \/ intr_unlink
  \/ keyboard_getchar \/ ring_empty \/ ring_read \/ ring_take
HidHwSteps == keyboard_handler \/ UsbPress \/ UsbRelease \/ UsbButton \/ HidAnswer

-----------------------------------------------------------------------------
(* The keys in the ring, oldest first.                                      *)
Unread == [i \in 1 .. (k.e - k.s) % RingSize |-> k.ring[(k.s + i - 1) % RingSize]]

(* Helpers of InputArrives: the presses of one keyboard in the order they   *)
(* are read; nothing on its way and nothing dropped; the last press known.  *)
Of(src) == {i \in DOMAIN Unread : Unread[i].src = src}
InOrder(src) ==
  \A i \in Of(src) : /\ k.read[src] < Unread[i].n
                     /\ \A j \in Of(src) : i < j => Unread[i].n < Unread[j].n

Quiet == /\ call.pc = "idle" /\ faults = 0 /\ ~k.lost /\ ~k.full
         /\ \A x \in HidDevs : hw.pend[x] = <<>>
Newest(src) == Max({k.read[src]} \cup {Unread[i].n : i \in Of(src)})

(* The keys of each keyboard are read in the order they were pressed and    *)
(* none twice.  When the USB devices have nothing more to send, no report   *)
(* and no key was dropped and no acknowledgement lost, every press is read  *)
(* or in the ring, and the button state is the mouse's.                     *)
InputArrives ==
  part = "hid" =>
    /\ InOrder("ps2") /\ InOrder("usb")
    /\ Quiet => /\ Newest("ps2") = hw.n.ps2 /\ Newest("usb") = hw.n.usb
                /\ k.btn = hw.btn
                /\ k.tog = hw.tog
=============================================================================
