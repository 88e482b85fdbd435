----------------------------- MODULE MCDevices -----------------------------
(* Devices for TLC: the buses looked at.                                    *)
EXTENDS Devices

P(hc, kind) == [hc |-> hc, kind |-> kind]
MCBuses ==
  {<<P("uhci", "disk"), P("uhci", "kbd")>>,
   <<P("uhci", "kbd"), P("uhci", "disk")>>,
   <<P("uhci", "kbd"), P("uhci", "mouse"), P("ehci", "disk")>>}
=============================================================================
