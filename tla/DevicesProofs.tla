--------------------------- MODULE DevicesProofs ---------------------------
(***************************************************************************)
(* What the block drivers promise, for every drive, number of calls and    *)
(* faults, depth of the rings and bus, and the input drivers for every     *)
(* ring, set of keys and number of presses.  The behaviours of module      *)
(* Devices fall into parts, one for each driver, and each part has an      *)
(* invariant of its own.                                                   *)
(***************************************************************************)
EXTENDS Devices, FiniteSetTheorems, SequenceTheorems, TLAPS

-----------------------------------------------------------------------------
(* What all drivers share *)

\* What a buffer, a data page or a FIFO may hold.
Contents == Vals \cup {None, "id", "mixed"}

CallType(c) ==
  /\ c = [pc |-> c.pc, by |-> c.by, op |-> c.op, lba |-> c.lba, val |-> c.val, buf |-> c.buf,
          astray |-> c.astray]
  /\ c.by \in {"shell", "syscall"} /\ c.op \in {"boot", "read", "write"}
  /\ c.lba \in Nat /\ c.val \in Vals /\ c.buf \in Contents
  /\ c.astray \in BOOLEAN

\* The drivers that may leave the device with a command that is not the call's.
Strays == part \in {"ahci", "ata"}

\* The call in progress and what the last one returned.
BaseInv ==
  /\ CallType(call)
  /\ call.astray => Strays
  /\ call.op # "boot" => call.lba \in Lbas
  /\ media \in [Sectors -> Vals]
  /\ last \in [rc : {0, -1}, good : BOOLEAN, astray : BOOLEAN]
  /\ SuccessMeansDone
  /\ ncalls \in Nat /\ faults \in Nat

\* The caller got what it asked for.
Good(buf) ==
  /\ call.lba \in Sectors
  /\ \/ call.op = "read" /\ buf = media[call.lba]
     \/ call.op = "write" /\ media[call.lba] = call.val

LEMMA BlankIs == Blank \in Vals
  BY BlockAssumption DEF Blank

LEMMA IdleIs == CallType(Idle) /\ Idle.op = "boot" /\ Idle.pc = "idle" /\ Idle.by = "shell" /\ ~Idle.astray
  BY BlankIs DEF CallType, Idle, Contents

LEMMA BaseInit == ASSUME Init, part # "hid" PROVE BaseInv
  <1>1. CallType(call) /\ call.op = "boot" /\ ~call.astray
    BY IdleIs DEF Init, CallType, Idle
  <1>2. media \in [Sectors -> Vals]
    BY BlankIs DEF Init
  <1> QED  BY <1>1, <1>2 DEF Init, BaseInv, SuccessMeansDone

\* Return from a call, with success only when it is deserved.
LEMMA ReturnBase ==
  ASSUME BaseInv, NEW rc \in {0, -1}, NEW buf, ReturnWith(rc, buf), rc = 0 => Good(buf) \/ call.astray,
         UNCHANGED <<part, media, ncalls, faults>>
  PROVE  BaseInv' /\ call' = Idle
  <1>1. call' = Idle /\ last' = [rc |-> rc, good |-> Good(buf), astray |-> call.astray]
    BY DEF ReturnWith, Good
  <1>2. call.astray \in BOOLEAN /\ (call.astray => Strays')
    BY DEF BaseInv, CallType, Strays
  <1>3. /\ last' \in [rc : {0, -1}, good : BOOLEAN, astray : BOOLEAN]
        /\ SuccessMeansDone'
    BY <1>1, <1>2 DEF Good, SuccessMeansDone, Strays
  <1>4. call'.op = "boot" /\ ~call'.astray
    BY <1>1 DEF Idle
  <1> QED  BY <1>1, <1>3, <1>4, IdleIs DEF BaseInv

LEMMA IdleBase ==
  ASSUME BaseInv, call' = Idle, UNCHANGED <<part, media, last, ncalls>>, faults' \in Nat
  PROVE  BaseInv'
  <1>1. call'.op = "boot" /\ ~call'.astray
    BY DEF Idle
  <1> QED  BY <1>1, IdleIs DEF BaseInv, SuccessMeansDone

LEMMA EnterBase ==
  ASSUME BaseInv, NEW p, NEW first, Enter(p, first)
  PROVE  /\ BaseInv' /\ part = p /\ call.pc = "idle" /\ UNCHANGED <<part, media, last, k, hw, faults>>
         /\ call'.pc = first /\ call'.op \in {"read", "write"} /\ call'.buf = None
         /\ ncalls' = ncalls + 1 /\ ~call'.astray
  <1>1. PICK by \in Callers, op \in {"read", "write"}, l \in Lbas, v \in Vals :
          call' = [pc |-> first, by |-> by, op |-> op, lba |-> l, val |-> v, buf |-> None, astray |-> FALSE]
    BY DEF Enter
  <1>2. CallType(call') /\ call'.lba \in Lbas
    BY <1>1, BlockAssumption DEF Contents, CallType
  <1> QED  BY <1>1, <1>2 DEF BaseInv, Enter, At, SuccessMeansDone

\* The call goes on at another place.
LEMMA GotoBase ==
  ASSUME BaseInv, NEW where, Goto(where), UNCHANGED <<part, last, ncalls>>,
         media' \in [Sectors -> Vals], faults' \in Nat
  PROVE  /\ BaseInv' /\ call'.pc = where
         /\ call'.by = call.by /\ call'.op = call.op /\ call'.lba = call.lba
         /\ call'.val = call.val /\ call'.buf = call.buf /\ call'.astray = call.astray
  BY DEF BaseInv, CallType, Goto, SuccessMeansDone, Strays

\* The command is given, and may go astray.
LEMMA AstrayBase ==
  ASSUME BaseInv, NEW where, NEW b \in BOOLEAN, Strays,
         call' = [call EXCEPT !.pc = where, !.astray = b], UNCHANGED <<part, media, last, ncalls, faults>>
  PROVE  /\ BaseInv' /\ call'.pc = where /\ call'.astray = b
         /\ call'.by = call.by /\ call'.op = call.op /\ call'.lba = call.lba
         /\ call'.val = call.val /\ call'.buf = call.buf
  BY DEF BaseInv, CallType, SuccessMeansDone, Strays

-----------------------------------------------------------------------------
(* ata.c *)

\* A command that the driver gave up may leave the drive at work on it, or with
\* data to move.  The commands of a call that did not go astray are its own.
AtaInv ==
  /\ part = "ata"
  /\ hw \in [dead : BOOLEAN, bsy : BOOLEAN, drq : BOOLEAN, err : BOOLEAN,
             cmd : [op : {"none", "identify", "read", "write"}, lba : Nat], fifo : Contents]
  /\ hw.drq => ~hw.bsy /\ ~hw.err
  /\ hw.err => ~hw.bsy
  /\ hw.bsy => /\ hw.cmd.op \in {"identify", "read", "write"}
               /\ hw.cmd.op = "write" => hw.fifo \in Vals \cup {None}
  /\ call.pc \in {"boot", "at_ident", "idle", "at_select", "at_idle", "at_xfer", "at_flush"}
  /\ call.pc = "boot" => ~hw.drq /\ ~hw.bsy
  /\ call.pc = "at_select" => call.op \in {"read", "write"}
  /\ call.pc \in {"at_idle", "at_xfer", "at_flush"} => call.op \in {"read", "write"}
  /\ call.pc \in {"at_idle", "at_xfer", "at_flush"} /\ ~call.astray
       => /\ hw.cmd.op = call.op /\ hw.cmd.lba = call.lba
          /\ hw.drq => /\ call.lba \in Sectors
                       /\ call.op = "read" => hw.fifo = media[call.lba]
  /\ call.pc = "at_idle" /\ hw.bsy => hw.fifo = None
  /\ call.pc = "at_xfer" => hw.drq
  /\ call.pc = "at_flush" => call.op = "write"
  /\ call.pc = "at_flush" /\ ~call.astray
       => /\ call.lba \in Sectors
          /\ hw.bsy => hw.fifo = call.val
          /\ ~hw.drq
          /\ ~hw.bsy /\ ~hw.err => media[call.lba] = call.val

LEMMA AtaInit == ASSUME Init, part = "ata" PROVE AtaInv
  <1>1. hw = AtaDevice /\ call.pc = "boot"
    BY DEF Init, Start, Idle
  <1> QED  BY <1>1 DEF AtaInv, AtaDevice, Contents

\* AtaCmd names the sector of the call in both forms of the command.
LEMMA AtaCmdIs ==
  ASSUME NEW op, NEW l \in Nat
  PROVE  AtaCmd(op, l) = [op |-> op, lba |-> l]
  BY BlockAssumption DEF AtaCmd

LEMMA AtaEnterStep ==
  ASSUME BaseInv, AtaInv, Enter("ata", "at_select")
  PROVE  AtaInv'
  BY EnterBase DEF AtaInv

\* A command goes to a drive that moves no data, or goes astray.
LEMMA CommandedStep ==
  ASSUME BaseInv, AtaInv, ~hw.bsy, NEW op \in {"identify", "read", "write"}, NEW l \in Nat,
         NEW next, Commanded([op |-> op, lba |-> l], next),
         UNCHANGED <<part, media, last, k, ncalls, faults>>
  PROVE  /\ BaseInv' /\ call'.pc = next /\ call'.op = call.op /\ call'.lba = call.lba
         /\ call'.val = call.val /\ call'.astray = hw.drq
         /\ \/ hw.drq /\ hw' = hw
            \/ ~hw.drq /\ hw' = [dead |-> hw.dead, bsy |-> TRUE, drq |-> FALSE, err |-> FALSE,
                                 cmd |-> [op |-> op, lba |-> l], fifo |-> None]
  <1>1. hw.drq \in BOOLEAN /\ Strays
    BY DEF AtaInv, Strays
  <1>2. call' = [call EXCEPT !.pc = next, !.astray = hw.drq]
    BY DEF Commanded
  <1>3. /\ BaseInv' /\ call'.pc = next /\ call'.op = call.op /\ call'.lba = call.lba
        /\ call'.val = call.val /\ call'.astray = hw.drq
    BY <1>1, <1>2, AstrayBase
  <1>4. \/ hw.drq /\ hw' = hw
        \/ ~hw.drq /\ hw' = [dead |-> hw.dead, bsy |-> TRUE, drq |-> FALSE, err |-> FALSE,
                             cmd |-> [op |-> op, lba |-> l], fifo |-> None]
    BY DEF Commanded, AtaInv
  <1> QED  BY <1>3, <1>4

\* The polls are used up: the call fails, the drive goes on or is dead.
LEMMA PollsOutStep ==
  ASSUME BaseInv, AtaInv, Return(-1), PollsOut, UNCHANGED <<part, media, k, ncalls, faults>>
  PROVE  BaseInv' /\ AtaInv'
  <1>1. BaseInv' /\ call' = Idle
    BY ReturnBase DEF Return
  <1>2. hw' = hw \/ hw' = [hw EXCEPT !.dead = TRUE]
    BY DEF PollsOut, GivenUp
  <1>3. AtaInv'
    BY <1>1, <1>2, IdleIs DEF AtaInv
  <1> QED  BY <1>1, <1>3

LEMMA ata_commandStep ==
  ASSUME BaseInv, AtaInv, ata_command
  PROVE  BaseInv' /\ AtaInv'
  <1>1. /\ AtaCmd(call.op, call.lba) = [op |-> call.op, lba |-> call.lba]
        /\ call.op \in {"identify", "read", "write"} /\ call.lba \in Nat
        /\ call.pc = "at_select" /\ call.op \in {"read", "write"}
    BY AtaCmdIs DEF BaseInv, CallType, AtaInv, ata_command, At
  <1>2. UNCHANGED <<part, media, k, ncalls, faults>>
    BY DEF ata_command
  <1>3. CASE ~hw.bsy /\ Commanded(AtaCmd(call.op, call.lba), "at_idle") /\ UNCHANGED last
    <2>1. /\ BaseInv' /\ call'.pc = "at_idle" /\ call'.op = call.op /\ call'.lba = call.lba
          /\ call'.val = call.val /\ call'.astray = hw.drq
          /\ \/ hw.drq /\ hw' = hw
             \/ ~hw.drq /\ hw' = [dead |-> hw.dead, bsy |-> TRUE, drq |-> FALSE, err |-> FALSE,
                                  cmd |-> [op |-> call.op, lba |-> call.lba], fifo |-> None]
      BY <1>1, <1>2, <1>3, CommandedStep
    <2>2. CASE hw.drq /\ hw' = hw
      <3>1. AtaInv'
        BY <1>1, <1>2, <2>1, <2>2 DEF AtaInv
      <3> QED  BY <2>1, <3>1
    <2>3. CASE /\ ~hw.drq
               /\ hw' = [dead |-> hw.dead, bsy |-> TRUE, drq |-> FALSE, err |-> FALSE,
                         cmd |-> [op |-> call.op, lba |-> call.lba], fifo |-> None]
      <3>1. /\ hw'.bsy /\ ~hw'.drq /\ ~hw'.err /\ hw'.cmd.op = call.op /\ hw'.cmd.lba = call.lba
            /\ hw'.fifo = None
            /\ hw' \in [dead : BOOLEAN, bsy : BOOLEAN, drq : BOOLEAN, err : BOOLEAN,
                       cmd : [op : {"none", "identify", "read", "write"}, lba : Nat], fifo : Contents]
        BY <1>1, <2>3 DEF AtaInv, Contents
      <3>2. AtaInv'
        BY <1>1, <1>2, <2>1, <3>1 DEF AtaInv
      <3> QED  BY <2>1, <3>2
    <2> QED  BY <2>1, <2>2, <2>3
  <1>4. CASE hw.bsy /\ Return(-1) /\ PollsOut
    BY <1>2, <1>4, PollsOutStep
  <1> QED  BY <1>3, <1>4 DEF ata_command

LEMMA ata_waitStep ==
  ASSUME BaseInv, AtaInv, ata_wait
  PROVE  BaseInv' /\ AtaInv'
  <1>0. UNCHANGED <<part, media, k, ncalls, faults>>
    BY DEF ata_wait
  <1>1. CASE Return(-1) /\ UNCHANGED hw
    <2>1. BaseInv' /\ call' = Idle
      BY <1>0, <1>1, ReturnBase DEF Return
    <2>2. AtaInv'
      BY <1>0, <1>1, <2>1, IdleIs DEF AtaInv
    <2> QED  BY <2>1, <2>2
  <1>2. CASE ~hw.bsy /\ ~hw.err /\ hw.drq /\ Goto("at_xfer") /\ UNCHANGED <<last, hw>>
    <2>1. /\ BaseInv' /\ call'.pc = "at_xfer" /\ call'.op = call.op /\ call'.lba = call.lba
          /\ call'.val = call.val /\ call'.astray = call.astray
      BY <1>0, <1>2, GotoBase DEF BaseInv
    <2>2. AtaInv'
      BY <1>0, <1>2, <2>1 DEF AtaInv, ata_wait, At
    <2> QED  BY <2>1, <2>2
  <1>3. CASE Return(-1) /\ PollsOut
    BY <1>0, <1>3, PollsOutStep
  <1> QED  BY <1>1, <1>2, <1>3 DEF ata_wait

LEMMA ata_transferStep ==
  ASSUME BaseInv, AtaInv, ata_transfer
  PROVE  BaseInv' /\ AtaInv'
  <1>0. /\ UNCHANGED <<part, media, k, ncalls, faults>> /\ call.pc = "at_xfer" /\ hw.drq
        /\ call.op \in {"read", "write"} /\ Moves \in BOOLEAN
    BY DEF ata_transfer, AtaInv, At, Moves
  <1>1. CASE call.op = "read"
    <2> DEFINE buf == IF Moves THEN hw.fifo ELSE "mixed"
    <2>1. ~call.astray => Good(buf)
      <3>1. ~call.astray => Moves
        BY <1>0, <1>1 DEF AtaInv, Moves
      <3> QED  BY <1>0, <1>1, <3>1 DEF Good, AtaInv
    <2>2. call.astray \in BOOLEAN /\ ReturnWith(0, buf)
      BY <1>1 DEF BaseInv, CallType, ata_transfer
    <2> HIDE DEF buf
    <2>3. BaseInv' /\ call' = Idle
      BY <1>0, <2>1, <2>2, ReturnBase
    <2>4. hw' = [hw EXCEPT !.drq = ~Moves]
      BY <1>1 DEF ata_transfer
    <2>5. AtaInv'
      BY <1>0, <2>3, <2>4, IdleIs DEF AtaInv
    <2> QED  BY <2>3, <2>5
  <1>2. CASE call.op # "read"
    <2>1. /\ BaseInv' /\ call'.pc = "at_flush" /\ call'.op = call.op /\ call'.lba = call.lba
          /\ call'.val = call.val /\ call'.astray = call.astray
      BY <1>0, <1>2, GotoBase DEF ata_transfer, BaseInv
    <2>2. ~call.astray => Moves
      BY <1>0, <1>2 DEF AtaInv, Moves
    <2>3. call.val \in Vals /\ call.op = "write"
      BY <1>0, <1>2 DEF BaseInv, CallType
    <2>4. CASE Moves
      <3>1. hw' = [hw EXCEPT !.drq = FALSE, !.bsy = TRUE, !.fifo = call.val] /\ hw.cmd.op = "write"
        BY <1>2, <2>3, <2>4 DEF ata_transfer, Moves
      <3>2. AtaInv'
        BY <1>0, <2>1, <2>3, <3>1 DEF AtaInv, Contents
      <3> QED  BY <2>1, <3>2
    <2>5. CASE ~Moves
      <3>1. hw' = hw
        BY <1>2, <2>5 DEF ata_transfer
      <3>2. AtaInv'
        BY <1>0, <2>1, <2>2, <2>3, <2>5, <3>1 DEF AtaInv
      <3> QED  BY <2>1, <3>2
    <2> QED  BY <2>4, <2>5
  <1> QED  BY <1>1, <1>2

LEMMA ata_flushStep ==
  ASSUME BaseInv, AtaInv, ata_flush
  PROVE  BaseInv' /\ AtaInv'
  <1>0. UNCHANGED <<part, media, k, ncalls, faults>> /\ call.pc = "at_flush"
    BY DEF ata_flush, At
  <1>1. CASE ~hw.bsy /\ Return(IF hw.err THEN -1 ELSE 0) /\ UNCHANGED hw
    <2> DEFINE rc == IF hw.err THEN -1 ELSE 0
    <2>1. rc \in {0, -1} /\ (rc = 0 => Good(call.buf) \/ call.astray)
      BY <1>0, <1>1 DEF Good, AtaInv
    <2>2. ReturnWith(rc, call.buf)
      BY <1>1 DEF Return
    <2> HIDE DEF rc
    <2>3. BaseInv' /\ call' = Idle
      BY <1>0, <2>1, <2>2, ReturnBase
    <2>4. AtaInv'
      BY <1>0, <1>1, <2>3, IdleIs DEF AtaInv
    <2> QED  BY <2>3, <2>4
  <1>2. CASE Return(-1) /\ PollsOut
    BY <1>0, <1>2, PollsOutStep
  <1> QED  BY <1>1, <1>2 DEF ata_flush

LEMMA AtaBootStep ==
  ASSUME BaseInv, AtaInv, ata_identify \/ ata_drive_present
  PROVE  BaseInv' /\ AtaInv'
  <1>1. CASE ata_identify
    <2>1. /\ BaseInv' /\ call'.pc = "at_ident" /\ call'.astray = hw.drq
          /\ \/ hw.drq /\ hw' = hw
             \/ ~hw.drq /\ hw' = [dead |-> hw.dead, bsy |-> TRUE, drq |-> FALSE, err |-> FALSE,
                                  cmd |-> [op |-> "identify", lba |-> 0], fifo |-> None]
      BY <1>1, CommandedStep DEF ata_identify, At, AtaInv
    <2>2. /\ ~hw.drq /\ part' = part /\ media' = media /\ part = "ata"
          /\ hw.dead \in BOOLEAN
      BY <1>1 DEF AtaInv, ata_identify, At
    <2>3. /\ hw'.bsy /\ ~hw'.drq /\ ~hw'.err /\ hw'.cmd.op = "identify"
          /\ hw' \in [dead : BOOLEAN, bsy : BOOLEAN, drq : BOOLEAN, err : BOOLEAN,
                     cmd : [op : {"none", "identify", "read", "write"}, lba : Nat], fifo : Contents]
      <3>1. hw' = [dead |-> hw.dead, bsy |-> TRUE, drq |-> FALSE, err |-> FALSE,
                   cmd |-> [op |-> "identify", lba |-> 0], fifo |-> None]
        BY <2>1, <2>2
      <3>2. [op |-> "identify", lba |-> 0] \in [op : {"none", "identify", "read", "write"}, lba : Nat]
        OBVIOUS
      <3>3. None \in Contents /\ hw.dead \in BOOLEAN
        BY <2>2 DEF Contents
      <3> QED  BY <3>1, <3>2, <3>3
    <2>4. AtaInv'
      BY <2>1, <2>2, <2>3 DEF AtaInv
    <2> QED  BY <2>1, <2>4
  <1>2. CASE ata_drive_present
    <2>1. BaseInv' /\ call' = Idle
      BY <1>2, IdleBase DEF ata_drive_present, BaseInv
    <2>2. part' = part /\ media' = media
          /\ \/ hw' = [hw EXCEPT !.drq = FALSE] \/ hw' = hw \/ hw' = [hw EXCEPT !.dead = TRUE]
      BY <1>2 DEF ata_drive_present, Drained, PollsOut, GivenUp
    <2>3. AtaInv'
      BY <2>1, <2>2, IdleIs DEF AtaInv
    <2> QED  BY <2>1, <2>3
  <1> QED  BY <1>1, <1>2

LEMMA AtExecuteStep ==
  ASSUME BaseInv, AtaInv, AtExecute
  PROVE  BaseInv' /\ AtaInv'
  <1> DEFINE c == hw.cmd
             taken == c.op = "write" /\ hw.fifo # None
  <1>1. /\ hw.bsy /\ ~hw.drq /\ ~hw.err /\ UNCHANGED <<part, call, last, k, ncalls>>
        /\ c.op \in {"identify", "read", "write"} /\ c.lba \in Nat
        /\ call.pc \notin {"boot", "at_xfer"}
    BY DEF AtExecute, AtaInv
  <1>2. /\ call.pc = "at_idle" => ~taken
        /\ call.pc = "at_flush" /\ ~call.astray
             => /\ hw.fifo = call.val /\ c.op = "write" /\ taken
                /\ c.lba = call.lba /\ call.lba \in Sectors
        /\ call.val \in Vals /\ call.val # None
        /\ taken => hw.fifo \in Vals
    BY <1>1, BlockAssumption DEF AtaInv, BaseInv, CallType
  <1>3. media' = media \/ (taken /\ c.lba \in Sectors /\ media' = [media EXCEPT ![c.lba] = hw.fifo])
    BY DEF AtExecute
  <1>4. ~taken => media' = media
    BY DEF AtExecute
  <1>5. BaseInv'
    <2>1. media' \in [Sectors -> Vals] /\ faults' \in Nat
      BY <1>2, <1>3 DEF AtExecute, BaseInv, Fault
    <2> QED  BY <1>1, <2>1 DEF BaseInv, SuccessMeansDone, Strays
  <1>6. CASE hw' = [hw EXCEPT !.bsy = FALSE, !.err = TRUE, !.fifo = None] /\ UNCHANGED media
    <2>1. AtaInv'
      BY <1>1, <1>6 DEF AtaInv, Contents
    <2> QED  BY <1>5, <2>1
  <1>7. CASE c.op = "identify" /\ hw' = [hw EXCEPT !.bsy = FALSE, !.drq = TRUE, !.fifo = "id"] /\ media' = media
    <2>1. AtaInv'
      BY <1>1, <1>2, <1>7 DEF AtaInv, Contents
    <2> QED  BY <1>5, <2>1
  <1>8. CASE /\ c.op = "read" /\ c.lba \in Sectors /\ media' = media
             /\ hw' = [hw EXCEPT !.bsy = FALSE, !.drq = TRUE, !.fifo = media[c.lba]]
    <2>1. media[c.lba] \in Contents
      BY <1>8 DEF BaseInv, Contents
    <2>2. AtaInv'
      BY <1>1, <1>2, <1>8, <2>1 DEF AtaInv
    <2> QED  BY <1>5, <2>2
  <1>9. CASE /\ c.op = "write" /\ c.lba \in Sectors
             /\ hw' = [hw EXCEPT !.bsy = FALSE, !.drq = ~taken, !.fifo = None]
             /\ media' = IF taken THEN [media EXCEPT ![c.lba] = hw.fifo] ELSE media
    <2>1. CASE ~taken
      <3>1. hw' = [hw EXCEPT !.bsy = FALSE, !.drq = TRUE, !.fifo = None] /\ media' = media
        BY <1>9, <2>1
      <3>2. AtaInv'
        BY <1>1, <1>2, <1>9, <2>1, <3>1 DEF AtaInv, Contents
      <3> QED  BY <1>5, <3>2
    <2>2. CASE taken
      <3>1. /\ hw' = [hw EXCEPT !.bsy = FALSE, !.drq = FALSE, !.fifo = None]
            /\ media' = [media EXCEPT ![c.lba] = hw.fifo]
        BY <1>9, <2>2
      <3>2. call.pc = "at_flush" /\ ~call.astray => media'[call.lba] = call.val
        BY <1>2, <3>1 DEF BaseInv
      <3>3. call.pc # "at_idle"
        BY <1>2, <2>2
      <3>4. AtaInv'
        BY <1>1, <1>9, <3>1, <3>2, <3>3 DEF AtaInv, Contents
      <3> QED  BY <1>5, <3>4
    <2> QED  BY <2>1, <2>2
  <1>10. \/ hw' = [hw EXCEPT !.bsy = FALSE, !.err = TRUE, !.fifo = None] /\ UNCHANGED media
         \/ c.op = "identify" /\ hw' = [hw EXCEPT !.bsy = FALSE, !.drq = TRUE, !.fifo = "id"] /\ media' = media
         \/ /\ c.op = "read" /\ c.lba \in Sectors /\ media' = media
            /\ hw' = [hw EXCEPT !.bsy = FALSE, !.drq = TRUE, !.fifo = media[c.lba]]
         \/ /\ c.op = "write" /\ c.lba \in Sectors
            /\ hw' = [hw EXCEPT !.bsy = FALSE, !.drq = ~taken, !.fifo = None]
            /\ media' = IF taken THEN [media EXCEPT ![c.lba] = hw.fifo] ELSE media
    BY <1>1 DEF AtExecute
  <1> QED  BY <1>6, <1>7, <1>8, <1>9, <1>10

LEMMA AtaStep ==
  ASSUME BaseInv, AtaInv, AtCpu \/ AtExecute
  PROVE  BaseInv' /\ AtaInv'
  BY EnterBase, AtaEnterStep, ata_commandStep, ata_waitStep, ata_transferStep, ata_flushStep,
     AtaBootStep, AtExecuteStep DEF AtCpu

-----------------------------------------------------------------------------
(* ahci.c *)

AhTables == [op : {"none", "identify", "read", "write"}, lba : Nat, val : Vals, n : Nat]

\* The table that the call writes.
MyTable == [op |-> call.op, lba |-> call.lba, val |-> call.val, n |-> ncalls]

\* A table written while the slot is busy may be fetched early, and a command
\* that the driver gave up may still run.  When the driver waits for a command
\* that did not go astray, the only command that can end is that one.
AhciInv ==
  /\ part = "ahci" /\ "ahci" \in Drivers
  /\ k \in [on : BOOLEAN, lba48 : BOOLEAN, tbl : AhTables]
  /\ hw \in [dead : BOOLEAN, ci : BOOLEAN, err : BOOLEAN, run : AhTables, lba48 : BOOLEAN]
  /\ ~hw.ci => hw.run = NoTable
  /\ hw.dead => hw.ci
  /\ hw.lba48 = (Cap > Lba28Max + 1)
  /\ k.on => k.lba48 = hw.lba48
  /\ call.pc \in {"boot", "ah_probe", "ah_ididle", "ah_idwait",
                  "idle", "ah_submit", "ah_idle", "ah_wait"}
  /\ call.pc \in {"ah_submit", "ah_idle", "ah_wait"} => call.op # "boot"
  /\ call.pc \in {"ah_idle", "ah_wait"} /\ ~call.astray => k.tbl = MyTable
  /\ call.pc = "ah_wait" /\ ~call.astray
       => /\ hw.run \in {NoTable, k.tbl}
          /\ ~hw.ci /\ ~hw.err => Good(call.buf)

LEMMA NoTableIs == NoTable \in AhTables
  BY BlankIs DEF NoTable, AhTables

LEMMA AhciInit == ASSUME Init, part = "ahci" PROVE AhciInv
  <1>1. k = AhKernel /\ hw = AhDevice /\ call.pc = "boot" /\ part \in Drivers
    BY DEF Init, Start, Idle
  <1> QED  BY <1>1, NoTableIs DEF AhciInv, AhKernel, AhDevice

LEMMA AhciEnterStep ==
  ASSUME BaseInv, AhciInv, Enter("ahci", "ah_submit")
  PROVE  AhciInv'
  BY EnterBase DEF AhciInv

LEMMA ahci_submitStep ==
  ASSUME BaseInv, AhciInv, ahci_submit
  PROVE  BaseInv' /\ AhciInv'
  <1>1. CASE ~k.on
    <2>1. Return(-1) /\ UNCHANGED <<part, media, k, hw, ncalls, faults>>
      BY <1>1 DEF ahci_submit
    <2>2. BaseInv' /\ call' = Idle
      BY <2>1, ReturnBase DEF Return
    <2> QED  BY <2>1, <2>2, IdleIs DEF AhciInv
  <1>2. CASE k.on
    <2>1. call.pc = "ah_submit" /\ call.op # "boot"
      BY DEF ahci_submit, At, AhciInv
    <2>2. call.lba \in Lbas /\ call.lba \in Nat /\ call.val \in Vals /\ ncalls \in Nat
          /\ call.op \in {"read", "write"}
      BY <2>1 DEF BaseInv, CallType
    <2>3. AhLba \in Nat /\ (AhLba # call.lba) \in BOOLEAN /\ Strays
      BY <2>2, BlockAssumption DEF AhLba, Strays, AhciInv
    <2>4. /\ k' = [k EXCEPT !.tbl = [op |-> call.op, lba |-> AhLba, val |-> call.val, n |-> ncalls]]
          /\ call' = [call EXCEPT !.pc = "ah_idle", !.astray = AhLba # call.lba]
          /\ UNCHANGED <<part, media, hw, last, ncalls, faults>>
      BY <1>2 DEF ahci_submit
    <2> DEFINE lba == AhLba
               cut == AhLba # call.lba
    <2>5. cut = (lba # call.lba)
      OBVIOUS
    <2> HIDE DEF lba, cut
    <2>6. /\ BaseInv' /\ call'.pc = "ah_idle" /\ call'.op = call.op /\ call'.lba = call.lba
          /\ call'.val = call.val /\ call'.astray = cut
      BY <2>3, <2>4, AstrayBase DEF cut
    <2>7. lba \in Nat /\ k' = [k EXCEPT !.tbl = [op |-> call.op, lba |-> lba, val |-> call.val, n |-> ncalls]]
      BY <2>3, <2>4 DEF lba
    <2>8. k'.tbl = [op |-> call.op, lba |-> lba, val |-> call.val, n |-> ncalls] /\ ncalls' = ncalls
      BY <2>4, <2>7 DEF AhciInv
    <2>9. k'.tbl \in AhTables
      BY <2>2, <2>7, <2>8 DEF AhTables
    <2>10. ~cut => k'.tbl = MyTable'
      BY <2>5, <2>6, <2>8 DEF MyTable
    <2> QED  BY <2>1, <2>4, <2>6, <2>7, <2>9, <2>10 DEF AhciInv
  <1> QED  BY <1>1, <1>2 DEF AhciInv

LEMMA ahci_issueStep ==
  ASSUME BaseInv, AhciInv, ahci_issue
  PROVE  BaseInv' /\ AhciInv'
  <1>1. PICK pc2 \in {"ah_wait", "ah_idwait"} :
          /\ call' = [call EXCEPT !.pc = pc2, !.astray = call.astray \/ hw.ci]
          /\ pc2 = "ah_wait" => call.pc = "ah_idle"
    BY DEF ahci_issue
  <1>2. UNCHANGED <<part, media, last, k, ncalls, faults>>
    BY DEF ahci_issue
  <1>3. (call.astray \/ hw.ci) \in BOOLEAN /\ Strays
    BY DEF Strays, AhciInv
  <1>4. /\ BaseInv' /\ call'.pc = pc2 /\ call'.op = call.op /\ call'.lba = call.lba
        /\ call'.val = call.val /\ call'.buf = call.buf /\ call'.astray = (call.astray \/ hw.ci)
    BY <1>1, <1>2, <1>3, AstrayBase
  <1>5. MyTable' = MyTable
    BY <1>2, <1>4 DEF MyTable
  <1>6. CASE hw.ci
    <2>1. hw' = hw \/ hw' = [hw EXCEPT !.dead = TRUE]
      BY <1>6 DEF ahci_issue, GivenUp
    <2>2. AhciInv'
      BY <1>1, <1>2, <1>4, <1>5, <1>6, <2>1 DEF AhciInv
    <2> QED  BY <1>4, <2>2
  <1>7. CASE ~hw.ci
    <2>1. hw' = [hw EXCEPT !.ci = TRUE] /\ hw.run = NoTable
      BY <1>7 DEF ahci_issue, AhciInv
    <2>2. AhciInv'
      BY <1>1, <1>2, <1>4, <1>5, <1>7, <2>1 DEF AhciInv
    <2> QED  BY <1>4, <2>2
  <1> QED  BY <1>6, <1>7

LEMMA ahci_doneStep ==
  ASSUME BaseInv, AhciInv, ahci_done \/ ahci_limit
  PROVE  BaseInv' /\ AhciInv'
  <1>1. CASE ahci_done
    <2>1. /\ call.pc = "ah_wait" /\ ~hw.ci /\ (~hw.err => Good(call.buf) \/ call.astray)
          /\ Return(IF ~hw.err THEN 0 ELSE -1) /\ UNCHANGED <<part, media, k, hw, ncalls, faults>>
      BY <1>1 DEF ahci_done, At, TfdOk, AhciInv
    <2>2. BaseInv' /\ call' = Idle
      BY <2>1, ReturnBase DEF Return
    <2> QED  BY <2>1, <2>2, IdleIs DEF AhciInv
  <1>2. CASE ahci_limit
    <2>1. /\ hw.ci /\ Return(-1) /\ UNCHANGED <<part, media, k, ncalls, faults>>
          /\ hw' = hw \/ hw' = [hw EXCEPT !.dead = TRUE]
      BY <1>2 DEF ahci_limit, GivenUp
    <2>2. BaseInv' /\ call' = Idle
      BY <2>1, ReturnBase DEF Return
    <2> QED  BY <2>1, <2>2, IdleIs DEF AhciInv
  <1> QED  BY <1>1, <1>2

LEMMA AhciBootStep ==
  ASSUME BaseInv, AhciInv, ahci_init \/ ahci_probe_port \/ ahci_online
  PROVE  BaseInv' /\ AhciInv'
  <1>1. CASE UNCHANGED <<part, media, last, k, hw, ncalls>> /\ Fault /\ call' = Idle
    <2>1. BaseInv'
      BY <1>1, IdleBase DEF Fault, BaseInv
    <2> QED  BY <1>1, <2>1, IdleIs DEF AhciInv
  <1>2. CASE ahci_init /\ Goto("ah_probe") /\ UNCHANGED faults
    <2>1. BaseInv' /\ call'.pc = "ah_probe"
      BY <1>2, GotoBase DEF ahci_init, BaseInv
    <2> QED  BY <1>2, <2>1 DEF AhciInv, ahci_init
  <1>3. CASE ahci_probe_port /\ Goto("ah_ididle") /\ UNCHANGED faults
             /\ k' = [k EXCEPT !.tbl = [op |-> "identify", lba |-> 0, val |-> Blank, n |-> 0]]
    <2>1. BaseInv' /\ call'.pc = "ah_ididle"
      BY <1>3, GotoBase DEF ahci_probe_port, BaseInv
    <2> QED  BY <1>3, <2>1, BlankIs DEF AhciInv, ahci_probe_port, AhTables
  <1>4. CASE ahci_online
    <2>1. /\ call' = Idle /\ UNCHANGED <<part, media, last, ncalls, faults>>
          /\ hw' = hw \/ (hw.ci /\ hw' = [hw EXCEPT !.dead = TRUE])
          /\ k' = k \/ k' = [k EXCEPT !.on = TRUE, !.lba48 = hw.lba48]
      BY <1>4 DEF ahci_online, GivenUp
    <2>2. BaseInv'
      BY <2>1, IdleBase DEF BaseInv
    <2> QED  BY <2>1, <2>2, IdleIs DEF AhciInv
  <1> QED  BY <1>1, <1>2, <1>3, <1>4 DEF ahci_init, ahci_probe_port

LEMMA AhFetchStep ==
  ASSUME BaseInv, AhciInv, AhFetch
  PROVE  BaseInv' /\ AhciInv'
  <1>1. BaseInv'
    BY DEF AhFetch, BaseInv, SuccessMeansDone, Strays
  <1>2. AhciInv'
    BY DEF AhFetch, AhciInv, Good, MyTable
  <1> QED  BY <1>1, <1>2

\* The end of a command: while the driver waits, it is the call's.
LEMMA AhExecuteStep ==
  ASSUME BaseInv, AhciInv, AhExecute
  PROVE  BaseInv' /\ AhciInv'
  <1> DEFINE c == hw.run
  <1>1. /\ ~hw.dead /\ c # NoTable /\ UNCHANGED <<part, last, k, ncalls>>
        /\ c \in AhTables /\ hw.ci
    BY DEF AhExecute, AhciInv
  <1>2. PICK e \in BOOLEAN : hw' = [hw EXCEPT !.ci = FALSE, !.err = e, !.run = NoTable]
                             /\ (e => UNCHANGED <<media, call>>)
                             /\ (~e => /\ c.op = "identify" \/ c.lba \in Sectors
                                       /\ media' = IF c.op = "write" THEN [media EXCEPT ![c.lba] = c.val] ELSE media
                                       /\ call' = IF c.op = "read" /\ c.n = ncalls /\ call.pc # "idle"
                                                    THEN [call EXCEPT !.buf = media[c.lba]] ELSE call)
    BY DEF AhExecute
  <1>3. media' \in [Sectors -> Vals] /\ faults' \in Nat
    BY <1>1, <1>2 DEF AhTables, BaseInv, AhExecute, Fault
  <1>4. CallType(call') /\ call'.pc = call.pc /\ call'.op = call.op /\ call'.lba = call.lba
        /\ call'.val = call.val /\ call'.astray = call.astray
    <2>1. c.op = "read" /\ ~e => media[c.lba] \in Contents
      BY <1>2 DEF BaseInv, Contents
    <2> QED  BY <1>2, <2>1 DEF BaseInv, CallType
  <1>5. BaseInv'
    BY <1>1, <1>3, <1>4 DEF BaseInv, SuccessMeansDone, Strays
  <1>6. MyTable' = MyTable
    BY <1>1, <1>4 DEF MyTable
  <1>7. ASSUME call.pc = "ah_wait", ~call.astray, ~e PROVE Good(call.buf)'
    <2>1. c = MyTable /\ call.op \in {"read", "write"}
      BY <1>1, <1>7 DEF AhciInv, BaseInv, CallType
    <2>2. c.op = call.op /\ c.lba = call.lba /\ c.val = call.val /\ c.n = ncalls
      BY <2>1 DEF MyTable
    <2>3. call.lba \in Sectors
      BY <1>2, <1>7, <2>1, <2>2
    <2>4. CASE call.op = "read"
      BY <1>2, <1>4, <1>7, <2>2, <2>3, <2>4 DEF Good, BaseInv, CallType
    <2>5. CASE call.op = "write"
      BY <1>2, <1>4, <1>7, <2>2, <2>3, <2>5 DEF Good, BaseInv
    <2> QED  BY <2>1, <2>4, <2>5
  <1>8. AhciInv'
    BY <1>1, <1>2, <1>4, <1>6, <1>7, NoTableIs DEF AhciInv
  <1> QED  BY <1>5, <1>8

LEMMA AhciStep ==
  ASSUME BaseInv, AhciInv, AhCpu \/ AhHw
  PROVE  BaseInv' /\ AhciInv'
  BY EnterBase, AhciEnterStep, ahci_submitStep, ahci_issueStep, ahci_doneStep, AhciBootStep,
     AhFetchStep, AhExecuteStep DEF AhCpu, AhHw

-----------------------------------------------------------------------------
(* nvme.c: the rings *)

\* The entry after i, the number of entries from a to b, and how many commands
\* were submitted after the one with this id.
After(i) == IF i + 1 = Depth THEN 0 ELSE i + 1
Dist(a, b) == IF a <= b THEN b - a ELSE b - a + Depth
Cids == 0 .. (CidMod - 1)
Age(cid, now) == IF cid <= now THEN now - cid ELSE now - cid + CidMod

NvOps == {"none", "idc", "cq", "sq", "idn", "read", "write"}
Cmds == [op : NvOps, lba : Nat, cid : Cids]
Cqes == [cid : Cids, p : {0, 1}, ok : BOOLEAN]
Queues == [tail : Ring, head : Ring, phase : {0, 1}]
RingSets == [sq : [Ring -> Cmds], cq : [Ring -> Cqes],
             db : Ring, fetch : Ring, post : Ring, p : {0, 1}, hdb : Ring]

\* Commands that wait to be fetched, completions that wait to be taken.
Queued(r) == Dist(r.fetch, r.db)
Posted(r) == Dist(r.hdb, r.post)

\* Driver and controller agree on the rings: the doorbells are the driver's
\* indices, the phase bits tell the entries of this round from the last, the
\* queued commands are the latest ones in order (all are forgotten when the
\* tail runs into the head), and completions are older than they and will be
\* taken before an id comes back.
Phased(r, q) ==
  /\ q.tail = r.db /\ q.head = r.hdb
  /\ r.p = IF r.hdb <= r.post THEN q.phase ELSE 1 - q.phase
  /\ \A i \in Ring : r.cq[i].p = IF i < r.post THEN r.p ELSE 1 - r.p

QueuedOK(r, now) ==
  \A i \in Ring :
    Dist(r.fetch, i) < Queued(r) => Age(r.sq[i].cid, now) = Queued(r) - 1 - Dist(r.fetch, i)

PostedOK(r, now, bound) ==
  \A i \in Ring :
    Dist(r.hdb, i) < Posted(r)
      => /\ Queued(r) <= Age(r.cq[i].cid, now)
         /\ Age(r.cq[i].cid, now) + Dist(r.hdb, i) <= bound

RingOK(r, q, now, bound) ==
  r \in RingSets /\ q \in Queues /\ Phased(r, q) /\ QueuedOK(r, now) /\ PostedOK(r, now, bound)

Rested == 2 * Depth - 4

LEMMA NextIs ==
  ASSUME NEW n \in Nat \ {0}, NEW i \in 0 .. (n - 1)
  PROVE  (i + 1) % n = IF i + 1 = n THEN 0 ELSE i + 1
  OBVIOUS

LEMMA AfterIs ==
  ASSUME NEW i \in Ring
  PROVE  (i + 1) % Depth = After(i) /\ After(i) \in Ring
  BY NextIs, NvmeAssumption DEF Ring, After

LEMMA CidIs ==
  ASSUME NEW c \in Cids
  PROVE  /\ (c + 1) % CidMod = IF c + 1 = CidMod THEN 0 ELSE c + 1
         /\ (c + 1) % CidMod \in Cids
  BY NextIs, NvmeAssumption DEF Cids

LEMMA DistIs ==
  ASSUME NEW a \in Ring, NEW b \in Ring
  PROVE  Dist(a, b) \in Nat /\ Dist(a, b) < Depth /\ (Dist(a, b) = 0 <=> a = b)
  BY NvmeAssumption DEF Dist, Ring

LEMMA DistOne ==
  ASSUME NEW a \in Ring, NEW b \in Ring, NEW c \in Ring, Dist(a, b) = Dist(a, c)
  PROVE  b = c
  BY NvmeAssumption DEF Dist, Ring

LEMMA DistStart ==
  ASSUME NEW a \in Ring, NEW b \in Ring
  PROVE  After(a) \in Ring /\ (a # b => Dist(After(a), b) = Dist(a, b) - 1)
  BY NvmeAssumption DEF Dist, Ring, After

LEMMA DistEnd ==
  ASSUME NEW a \in Ring, NEW b \in Ring, After(b) # a
  PROVE  Dist(a, After(b)) = Dist(a, b) + 1
  BY NvmeAssumption DEF Dist, Ring, After

LEMMA AgeIs ==
  ASSUME NEW c \in Cids, NEW now \in Cids
  PROVE  Age(c, now) \in Nat /\ (Age(c, now) = 0 <=> c = now)
  BY NvmeAssumption DEF Age, Cids

\* The driver sees a completion exactly when one is there.
LEMMA ReadyIs ==
  ASSUME NEW r \in RingSets, NEW q \in Queues, Phased(r, q)
  PROVE  (r.cq[q.head].p = q.phase) <=> Posted(r) > 0
  <1>1. r.hdb \in Ring /\ r.post \in Ring /\ q.head = r.hdb /\ q.phase \in {0, 1}
    BY DEF RingSets, Queues, Phased
  <1>2. r.cq[r.hdb].p = IF r.hdb < r.post THEN r.p ELSE 1 - r.p
    BY <1>1 DEF Phased
  <1>3. r.p = IF r.hdb <= r.post THEN q.phase ELSE 1 - q.phase
    BY DEF Phased
  <1> QED  BY <1>1, <1>2, <1>3, NvmeAssumption DEF Posted, Dist, Ring

\* A command is written at the tail, whether or not there is room.
Written(r, i, cmd, db) == [r EXCEPT !.sq[i] = cmd, !.db = db]
Moved(q, tail) == [q EXCEPT !.tail = tail]

LEMMA SubmitRing ==
  ASSUME NEW r, NEW q, NEW now \in Cids, RingOK(r, q, now, Rested),
         NEW now2, now2 = (now + 1) % CidMod, NEW cmd \in Cmds, cmd.cid = now2,
         NEW t2, t2 = (q.tail + 1) % Depth,
         NEW r2, r2 = Written(r, q.tail, cmd, t2), NEW q2, q2 = Moved(q, t2)
  PROVE  /\ RingOK(r2, q2, now2, Rested + 1)
         /\ Posted(r2) = Posted(r) /\ r2.hdb = r.hdb /\ r2.cq = r.cq
         /\ Queued(r2) = 1 => r2.sq[r2.fetch] = cmd
         /\ Posted(r2) > 0 => r2.cq[r2.hdb].cid # now2
  <1> DEFINE t == q.tail
  <1>1. /\ r \in RingSets /\ q \in Queues /\ t \in Ring /\ t = r.db /\ r.fetch \in Ring
        /\ r.hdb \in Ring /\ r.post \in Ring /\ Ring \subseteq Nat
    BY DEF RingOK, Phased, Queues, RingSets, Ring
  <1>2. /\ After(t) = t2 /\ t2 \in Ring
        /\ now2 = (IF now + 1 = CidMod THEN 0 ELSE now + 1) /\ now2 \in Cids
    BY <1>1, AfterIs, CidIs
  <1>3. /\ r2.db = After(t) /\ r2.fetch = r.fetch /\ r2.hdb = r.hdb /\ r2.post = r.post
        /\ r2.p = r.p /\ r2.cq = r.cq /\ r2.sq = [r.sq EXCEPT ![t] = cmd]
        /\ r2 \in RingSets
    BY <1>1, <1>2 DEF RingSets, Written
  <1>4. q2.tail = After(t) /\ q2.head = q.head /\ q2.phase = q.phase /\ q2 \in Queues
    BY <1>1, <1>2 DEF Queues, Moved
  <1> HIDE DEF t
  <1>5. Phased(r2, q2)
    BY <1>3, <1>4 DEF RingOK, Phased
  <1>6. \/ Queued(r2) = Queued(r) + 1 /\ Queued(r2) < Depth
        \/ Queued(r2) = 0
    BY <1>1, <1>2, <1>3, NvmeAssumption DEF Queued, Dist, After, Ring
  <1>7. ASSUME NEW c \in Cids, Age(c, now) <= 2 * Depth - 4
        PROVE  Age(c, now2) = Age(c, now) + 1
    BY <1>2, <1>7, NvmeAssumption DEF Age, Cids
  <1>8. QueuedOK(r2, now2)
    <2>1. SUFFICES ASSUME NEW i \in Ring, Dist(r.fetch, i) < Queued(r2), Queued(r2) = Queued(r) + 1,
                          Queued(r2) < Depth
                   PROVE  Age(r2.sq[i].cid, now2) = Queued(r2) - 1 - Dist(r.fetch, i)
      <3>1. \A i \in Ring : Dist(r.fetch, i) >= 0 /\ Dist(r.fetch, i) \in Int
        BY <1>1, NvmeAssumption DEF Dist, Ring
      <3> QED  BY <1>3, <1>6, <3>1 DEF QueuedOK
    <2>2. CASE i = t
      <3>1. r2.sq[i].cid = now2
        BY <1>1, <1>3, <2>2 DEF RingSets
      <3>2. Dist(r.fetch, i) = Queued(r)
        BY <1>1, <2>2 DEF Queued
      <3> QED  BY <1>1, <1>2, <2>1, <3>1, <3>2, NvmeAssumption DEF Age, Cids, Dist, Ring
    <2>3. CASE i # t
      <3>1. r2.sq[i] = r.sq[i] /\ r.sq[i].cid \in Cids
        BY <1>1, <1>3, <2>3 DEF RingSets, Cmds
      <3>2. Dist(r.fetch, i) < Queued(r)
        BY <1>1, <2>1, <2>3, NvmeAssumption DEF Queued, Dist, Ring
      <3>3. Age(r.sq[i].cid, now) = Queued(r) - 1 - Dist(r.fetch, i)
        BY <3>2 DEF RingOK, QueuedOK
      <3>4. Age(r.sq[i].cid, now) <= 2 * Depth - 4
        BY <1>1, <2>1, <3>2, <3>3, NvmeAssumption DEF Queued, Dist, Ring
      <3> QED  BY <1>1, <1>7, <2>1, <3>1, <3>3, <3>4, NvmeAssumption DEF Queued, Dist, Ring
    <2> QED  BY <2>2, <2>3
  <1>9. ASSUME NEW i \in Ring, Dist(r.hdb, i) < Posted(r)
        PROVE  /\ r.cq[i].cid \in Cids /\ Queued(r) <= Age(r.cq[i].cid, now)
               /\ Age(r.cq[i].cid, now) + Dist(r.hdb, i) <= 2 * Depth - 4
               /\ Age(r.cq[i].cid, now2) = Age(r.cq[i].cid, now) + 1
    <2>1. r.cq[i].cid \in Cids
      BY <1>1 DEF RingSets, Cqes
    <2>2. /\ Queued(r) <= Age(r.cq[i].cid, now)
          /\ Age(r.cq[i].cid, now) + Dist(r.hdb, i) <= 2 * Depth - 4
      BY <1>9 DEF RingOK, PostedOK, Rested
    <2>3. Age(r.cq[i].cid, now) <= 2 * Depth - 4
      BY <1>1, <2>1, <2>2, NvmeAssumption DEF Dist, Age, Cids, Ring
    <2> QED  BY <1>7, <2>1, <2>2, <2>3
  <1>10. Posted(r2) = Posted(r)
    BY <1>3 DEF Posted
  <1>11. PostedOK(r2, now2, Rested + 1)
    <2>1. SUFFICES ASSUME NEW i \in Ring, Dist(r.hdb, i) < Posted(r)
                   PROVE  /\ Queued(r2) <= Age(r.cq[i].cid, now2)
                          /\ Age(r.cq[i].cid, now2) + Dist(r.hdb, i) <= Rested + 1
      BY <1>3, <1>10 DEF PostedOK
    <2>2. Age(r.cq[i].cid, now) \in Nat /\ Dist(r.hdb, i) \in Nat /\ Queued(r) \in Nat
      BY <1>1, <1>9, <2>1, NvmeAssumption DEF Age, Cids, Dist, Queued, Ring
    <2> QED  BY <1>6, <1>9, <2>1, <2>2, NvmeAssumption DEF Rested
  <1>12. Queued(r2) = 1 => r2.sq[r2.fetch] = cmd
    <2>1. SUFFICES ASSUME Queued(r2) = 1 PROVE r.fetch = t
      BY <1>1, <1>3 DEF RingSets
    <2> QED  BY <1>1, <1>2, <1>3, <2>1, NvmeAssumption DEF Queued, Dist, After, Ring
  <1>13. ASSUME Posted(r2) > 0 PROVE r2.cq[r2.hdb].cid # now2
    <2>1. Dist(r.hdb, r.hdb) < Posted(r)
      BY <1>1, <1>10, <1>13 DEF Dist, Ring
    <2>2. /\ r.cq[r.hdb].cid \in Cids /\ Age(r.cq[r.hdb].cid, now2) = Age(r.cq[r.hdb].cid, now) + 1
      BY <1>1, <1>9, <2>1
    <2>3. Age(r.cq[r.hdb].cid, now2) > 0
      BY <2>2, NvmeAssumption DEF Age, Cids
    <2> QED  BY <1>2, <1>3, <2>2, <2>3 DEF Age, Cids
  <1> QED  BY <1>3, <1>4, <1>5, <1>8, <1>10, <1>11, <1>12, <1>13 DEF RingOK

\* The oldest completion is taken.
LEMMA ConsumeRing ==
  ASSUME NEW r, NEW q, NEW now \in Cids, RingOK(r, q, now, Rested + 1), Posted(r) > 0,
         NEW q2, q2 = Advanced(q), NEW r2, r2 = [r EXCEPT !.hdb = q2.head]
  PROVE  RingOK(r2, q2, now, Rested)
  <1>1. /\ r \in RingSets /\ q \in Queues /\ q.head = r.hdb /\ q.tail = r.db /\ q.phase \in {0, 1}
        /\ r.hdb \in Ring /\ r.post \in Ring /\ r.fetch \in Ring /\ r.db \in Ring
    BY DEF RingOK, Phased, Queues, RingSets
  <1>2. After(r.hdb) \in Ring
    BY <1>1, AfterIs
  <1>3. /\ q2.head = After(r.hdb) /\ q2.tail = q.tail /\ q2 \in Queues
        /\ q2.phase = IF r.hdb + 1 = Depth THEN 1 - q.phase ELSE q.phase
    <2>1. CASE r.hdb + 1 = Depth
      <3>1. q2 = [q EXCEPT !.head = 0, !.phase = 1 - q.phase]
        BY <1>1, <2>1, NvmeAssumption DEF Advanced, Ring
      <3>2. After(r.hdb) = 0 /\ 1 - q.phase \in {0, 1}
        BY <1>1, <2>1 DEF After
      <3> QED  BY <1>1, <1>2, <2>1, <3>1, <3>2 DEF Queues
    <2>2. CASE r.hdb + 1 # Depth
      <3>1. q2 = [q EXCEPT !.head = r.hdb + 1]
        BY <1>1, <2>2, NvmeAssumption DEF Advanced, Ring
      <3> QED  BY <1>1, <1>2, <2>2, <3>1 DEF Queues, After
    <2> QED  BY <2>1, <2>2
  <1>4. /\ r2 \in RingSets /\ r2.hdb = After(r.hdb) /\ r2.sq = r.sq /\ r2.cq = r.cq /\ r2.db = r.db
        /\ r2.fetch = r.fetch /\ r2.post = r.post /\ r2.p = r.p
    BY <1>1, <1>2, <1>3 DEF RingSets
  <1>5. r.hdb # r.post /\ Posted(r) = Dist(r.hdb, r.post)
        /\ Dist(After(r.hdb), r.post) = Posted(r) - 1
    BY <1>1, DistIs, DistStart DEF Posted
  <1>6. Phased(r2, q2)
    <2>1. r.p = IF r.hdb <= r.post THEN q.phase ELSE 1 - q.phase
      BY DEF RingOK, Phased
    <2>2. r2.p = IF r2.hdb <= r2.post THEN q2.phase ELSE 1 - q2.phase
      BY <1>1, <1>3, <1>4, <1>5, <2>1, NvmeAssumption DEF After, Ring
    <2> QED  BY <1>1, <1>3, <1>4, <2>2 DEF RingOK, Phased
  <1>7. Queued(r2) = Queued(r) /\ QueuedOK(r2, now)
    BY <1>4 DEF RingOK, QueuedOK, Queued
  <1>8. PostedOK(r2, now, Rested)
    <2>1. SUFFICES ASSUME NEW i \in Ring, Dist(After(r.hdb), i) < Posted(r) - 1
                   PROVE  /\ Queued(r) <= Age(r.cq[i].cid, now)
                          /\ Age(r.cq[i].cid, now) + Dist(After(r.hdb), i) <= Rested
      BY <1>4, <1>5, <1>7 DEF PostedOK, Posted
    <2>2. /\ Dist(r.hdb, i) \in Nat /\ Dist(After(r.hdb), i) \in Nat
          /\ Dist(After(r.hdb), r.hdb) \in Nat /\ Posted(r) \in Nat /\ Posted(r) < Depth
      BY <1>1, <1>2, DistIs DEF Posted
    <2>3. r.hdb # i
      BY <1>1, <2>1, <2>2, NvmeAssumption DEF Dist, After, Ring
    <2>4. Dist(After(r.hdb), i) = Dist(r.hdb, i) - 1
      BY <1>1, <2>3, DistStart
    <2>5. /\ Queued(r) <= Age(r.cq[i].cid, now)
          /\ Age(r.cq[i].cid, now) + Dist(r.hdb, i) <= Rested + 1
      BY <2>1, <2>2, <2>4 DEF RingOK, PostedOK
    <2>6. Age(r.cq[i].cid, now) \in Nat
      BY <1>1, AgeIs DEF RingSets, Cqes
    <2> QED  BY <2>2, <2>4, <2>5, <2>6, NvmeAssumption DEF Rested
  <1> QED  BY <1>3, <1>4, <1>6, <1>7, <1>8 DEF RingOK

\* The controller executes the oldest command and posts its completion.
Executed(r, e) ==
  [r EXCEPT !.fetch = (r.fetch + 1) % Depth, !.post = (r.post + 1) % Depth,
            !.p = IF (r.post + 1) % Depth = 0 THEN 1 - r.p ELSE r.p, !.cq[r.post] = e]

LEMMA PostRing ==
  ASSUME NEW r, NEW q, NEW now \in Cids, NEW b \in {Rested, Rested + 1}, RingOK(r, q, now, b),
         r.fetch # r.db, (r.post + 1) % Depth # r.hdb, NEW ok \in BOOLEAN,
         NEW e, e = [cid |-> r.sq[r.fetch].cid, p |-> r.p, ok |-> ok],
         NEW r2, r2 = Executed(r, e)
  PROVE  /\ RingOK(r2, q, now, b) /\ r2.hdb = r.hdb /\ r2.sq = r.sq
         /\ Queued(r2) = Queued(r) - 1 /\ Posted(r2) = Posted(r) + 1 /\ Posted(r) >= 0
         /\ Posted(r) > 0 => r2.cq[r.hdb] = r.cq[r.hdb] /\ r.cq[r.hdb].cid # now
         /\ Posted(r) = 0 => r2.cq[r.hdb] = e
         /\ r.sq[r.fetch].cid = now => Queued(r) = 1
  <1>1. /\ r \in RingSets /\ q \in Queues /\ q.head = r.hdb /\ q.tail = r.db /\ q.phase \in {0, 1}
        /\ r.hdb \in Ring /\ r.post \in Ring /\ r.fetch \in Ring /\ r.db \in Ring /\ r.p \in {0, 1}
    BY DEF RingOK, Phased, Queues, RingSets
  <1>2. /\ (r.fetch + 1) % Depth = After(r.fetch) /\ After(r.fetch) \in Ring
        /\ (r.post + 1) % Depth = After(r.post) /\ After(r.post) \in Ring
    BY <1>1, AfterIs
  <1>3. e \in Cqes /\ e.cid = r.sq[r.fetch].cid /\ e.p = r.p /\ r.sq[r.fetch].cid \in Cids
    BY <1>1 DEF RingSets, Cmds, Cqes
  <1>4. /\ r2.fetch = After(r.fetch) /\ r2.post = After(r.post) /\ r2.hdb = r.hdb /\ r2.db = r.db
        /\ r2.sq = r.sq /\ r2.p = (IF After(r.post) = 0 THEN 1 - r.p ELSE r.p)
        /\ \A i \in Ring : r2.cq[i] = IF i = r.post THEN e ELSE r.cq[i]
    BY <1>1, <1>2 DEF RingSets, Executed
  <1>5. r2 \in RingSets
    <2>1. r2.cq = [r.cq EXCEPT ![r.post] = e] /\ r2.cq \in [Ring -> Cqes]
      BY <1>1, <1>3 DEF RingSets, Executed
    <2>2. (IF (r.post + 1) % Depth = 0 THEN 1 - r.p ELSE r.p) \in {0, 1}
      BY <1>1
    <2> QED  BY <1>1, <1>2, <2>1, <2>2 DEF RingSets, Executed
  <1>6. /\ Queued(r) = Dist(r.fetch, r.db) /\ Queued(r) \in Nat /\ Queued(r) < Depth /\ Queued(r) > 0
        /\ Dist(After(r.fetch), r.db) = Queued(r) - 1
    BY <1>1, DistIs, DistStart DEF Queued
  <1>7. Queued(r2) = Queued(r) - 1
    BY <1>4, <1>6 DEF Queued
  <1>8. /\ Posted(r) = Dist(r.hdb, r.post) /\ Posted(r) \in Nat
        /\ Dist(r.hdb, After(r.post)) = Posted(r) + 1 /\ Posted(r) + 1 < Depth
    <2>1. Dist(r.hdb, After(r.post)) = Dist(r.hdb, r.post) + 1
      BY <1>1, <1>2, DistEnd
    <2>2. Dist(r.hdb, After(r.post)) < Depth /\ Dist(r.hdb, r.post) \in Nat
      BY <1>1, <1>2, DistIs
    <2> QED  BY <2>1, <2>2 DEF Posted
  <1>9. Posted(r2) = Posted(r) + 1
    BY <1>4, <1>8 DEF Posted
  <1>10. Phased(r2, q)
    <2>1. r.p = IF r.hdb <= r.post THEN q.phase ELSE 1 - q.phase
      BY DEF RingOK, Phased
    <2>2. r2.p = IF r2.hdb <= r2.post THEN q.phase ELSE 1 - q.phase
      BY <1>1, <1>2, <1>4, <2>1, NvmeAssumption DEF After, Ring
    <2>3. \A i \in Ring : r.cq[i].p = IF i < r.post THEN r.p ELSE 1 - r.p
      BY DEF RingOK, Phased
    <2>4. ASSUME NEW i \in Ring PROVE r2.cq[i].p = IF i < r2.post THEN r2.p ELSE 1 - r2.p
      <3>1. r2.cq[i].p = IF i <= r.post THEN r.p ELSE 1 - r.p
        BY <1>1, <1>3, <1>4, <2>3 DEF Ring
      <3> QED  BY <1>1, <1>4, <3>1, NvmeAssumption DEF After, Ring
    <2> QED  BY <1>1, <1>4, <2>2, <2>4 DEF Phased
  <1>11. Age(r.sq[r.fetch].cid, now) = Queued(r) - 1
    <2>1. Dist(r.fetch, r.fetch) = 0
      BY <1>1, DistIs
    <2>2. Age(r.sq[r.fetch].cid, now) = Queued(r) - 1 - Dist(r.fetch, r.fetch)
      BY <1>1, <1>6, <2>1 DEF RingOK, QueuedOK
    <2> QED  BY <1>6, <2>1, <2>2
  <1>12. QueuedOK(r2, now)
    <2>1. SUFFICES ASSUME NEW i \in Ring, Dist(After(r.fetch), i) < Queued(r) - 1
                   PROVE  Age(r.sq[i].cid, now) = Queued(r) - 1 - 1 - Dist(After(r.fetch), i)
      BY <1>4, <1>7 DEF QueuedOK
    <2>2. /\ Dist(r.fetch, i) \in Nat /\ Dist(After(r.fetch), i) \in Nat
      BY <1>1, <1>2, DistIs
    <2>3. r.fetch # i
      BY <1>1, <1>6, <2>1, <2>2, NvmeAssumption DEF Dist, After, Ring
    <2>4. Dist(After(r.fetch), i) = Dist(r.fetch, i) - 1
      BY <1>1, <2>3, DistStart
    <2>5. Age(r.sq[i].cid, now) = Queued(r) - 1 - Dist(r.fetch, i)
      BY <1>6, <2>1, <2>2, <2>4 DEF RingOK, QueuedOK
    <2> QED  BY <1>6, <2>2, <2>4, <2>5
  <1>13. PostedOK(r2, now, b)
    <2>1. SUFFICES ASSUME NEW i \in Ring, Dist(r.hdb, i) < Posted(r) + 1
                   PROVE  /\ Queued(r) - 1 <= Age(r2.cq[i].cid, now)
                          /\ Age(r2.cq[i].cid, now) + Dist(r.hdb, i) <= b
      BY <1>4, <1>7, <1>9 DEF PostedOK
    <2>2. CASE i = r.post
      <3>1. r2.cq[i].cid = r.sq[r.fetch].cid /\ Dist(r.hdb, i) = Posted(r)
        BY <1>1, <1>3, <1>4, <1>8, <2>2
      <3> QED  BY <1>6, <1>8, <1>11, <3>1, NvmeAssumption DEF Rested
    <2>3. CASE i # r.post
      <3>1. r2.cq[i] = r.cq[i] /\ Age(r.cq[i].cid, now) \in Nat /\ Dist(r.hdb, i) \in Nat
        BY <1>1, <1>4, <2>3, AgeIs, DistIs DEF RingSets, Cqes
      <3>2. Dist(r.hdb, i) # Posted(r)
        BY <1>1, <1>8, <2>3, DistOne
      <3>3. Queued(r) <= Age(r.cq[i].cid, now) /\ Age(r.cq[i].cid, now) + Dist(r.hdb, i) <= b
        BY <1>8, <2>1, <3>1, <3>2 DEF RingOK, PostedOK
      <3> QED  BY <1>6, <3>1, <3>3
    <2> QED  BY <2>2, <2>3
  <1>14. ASSUME Posted(r) > 0 PROVE r2.cq[r.hdb] = r.cq[r.hdb] /\ r.cq[r.hdb].cid # now
    <2>1. r.hdb # r.post /\ Dist(r.hdb, r.hdb) = 0
      BY <1>1, <1>8, <1>14, DistIs
    <2>2. Queued(r) <= Age(r.cq[r.hdb].cid, now)
      BY <1>1, <1>14, <2>1 DEF RingOK, PostedOK
    <2>3. r.cq[r.hdb].cid \in Cids
      BY <1>1 DEF RingSets, Cqes
    <2>4. r.cq[r.hdb].cid # now
      BY <1>6, <2>2, <2>3, AgeIs
    <2> QED  BY <1>1, <1>4, <2>1, <2>4
  <1>15. Posted(r) = 0 => r2.cq[r.hdb] = e
    <2>1. Posted(r) = 0 => r.hdb = r.post
      BY <1>1, <1>8, DistIs
    <2> QED  BY <1>1, <1>4, <2>1
  <1>16. r.sq[r.fetch].cid = now => Queued(r) = 1
    BY <1>3, <1>6, <1>11, AgeIs
  <1> QED  BY <1>1, <1>4, <1>5, <1>7, <1>8, <1>9, <1>10, <1>12, <1>13, <1>14, <1>15, <1>16 DEF RingOK

-----------------------------------------------------------------------------
(* nvme.c: the driver *)

NvBooting == call.pc \in {"boot", "nv_admin", "nv_admwait"}

\* The admin queue is used before the calls and holds no reads and writes.
AdminOK(r, q) ==
  /\ r \in RingSets /\ q \in Queues
  /\ q.tail = r.db /\ q.head = r.hdb
  /\ \A i \in Ring : r.sq[i].op \notin {"read", "write"}

\* Reads and writes name sectors of the drive.  In a wait, the command of the
\* call stands last in the queue or was executed; the oldest completion that
\* has its id is its own.
NvmeInv ==
  /\ part = "nvme"
  /\ k \in [on : BOOLEAN, step : Nat, cid : Cids, data : Vals,
            q : [admin : Queues, io : Queues], want : Cids]
  /\ hw \in [dead : BOOLEAN, admin : RingSets, io : RingSets]
  /\ AdminOK(hw.admin, k.q.admin)
  /\ RingOK(hw.io, k.q.io, k.cid, IF call.pc = "nv_wait" THEN Rested + 1 ELSE Rested)
  /\ \A i \in Ring : hw.io.sq[i].op \in {"read", "write"} => hw.io.sq[i].lba \in Sectors
  /\ call.pc \in {"boot", "nv_admin", "nv_admwait", "idle", "nv_io", "nv_wait"}
  /\ NvBooting => /\ call.op = "boot"
                  /\ hw.io.fetch = hw.io.db /\ hw.io.hdb = hw.io.post
  /\ call.pc \in {"nv_admin", "nv_admwait"} => k.step \in 1 .. 4
  /\ call.pc \in {"nv_io", "nv_wait"} => call.op # "boot"
  /\ call.pc = "nv_wait"
       => /\ k.want = k.cid /\ call.lba \in Sectors
          /\ Posted(hw.io) = 0 /\ Queued(hw.io) = 1
               => /\ hw.io.sq[hw.io.fetch].op = call.op
                  /\ hw.io.sq[hw.io.fetch].lba = call.lba
                  /\ call.op = "write" => k.data = call.val
          /\ LET c == hw.io.cq[hw.io.hdb]
             IN Posted(hw.io) > 0 /\ c.cid = k.cid /\ c.ok => Good(k.data)

LEMMA NvRingsOK ==
  /\ NvRings \in RingSets /\ NvQueue \in Queues /\ 0 \in Cids /\ 0 \in Ring
  /\ AdminOK(NvRings, NvQueue)
  /\ RingOK(NvRings, NvQueue, 0, Rested)
  /\ \A i \in Ring : NvRings.sq[i].op = "none"
  <1>1. 0 \in Cids /\ 0 \in Ring
    BY NvmeAssumption DEF Cids, Ring
  <1>2. NoCmd \in Cmds /\ NoCqe \in Cqes
    BY <1>1 DEF NoCmd, NoCqe, Cmds, Cqes, NvOps
  <1>3. NvRings \in RingSets /\ NvQueue \in Queues
    BY <1>1, <1>2 DEF NvRings, RingSets, NvQueue, Queues
  <1>4. \A i \in Ring : NvRings.sq[i] = NoCmd /\ NvRings.cq[i] = NoCqe
    BY DEF NvRings
  <1>5. Phased(NvRings, NvQueue)
    <2>1. \A i \in Ring : NvRings.cq[i].p = 0 /\ ~(i < 0)
      BY <1>4 DEF NoCqe, Ring
    <2> QED  BY <2>1 DEF Phased, NvRings, NvQueue
  <1>6. Queued(NvRings) = 0 /\ Posted(NvRings) = 0 /\ NvRings.fetch = 0 /\ NvRings.hdb = 0
    BY DEF Queued, Posted, NvRings, Dist
  <1>7. \A i \in Ring : ~(Dist(0, i) < 0)
    BY <1>1, DistIs
  <1>8. QueuedOK(NvRings, 0) /\ PostedOK(NvRings, 0, Rested)
    BY <1>6, <1>7 DEF QueuedOK, PostedOK
  <1> QED  BY <1>1, <1>3, <1>4, <1>5, <1>8 DEF RingOK, AdminOK, NvRings, NvQueue, NoCmd

LEMMA NvmeInit == ASSUME Init, part = "nvme" PROVE NvmeInv
  <1>1. k = NvKernel /\ hw = NvDevice /\ call.pc = "boot" /\ call.op = "boot"
    BY DEF Init, Start, Idle
  <1>2. NvRings.fetch = NvRings.db /\ NvRings.hdb = NvRings.post
    BY DEF NvRings
  <1>3. k \in [on : BOOLEAN, step : Nat, cid : Cids, data : Vals,
              q : [admin : Queues, io : Queues], want : Cids]
    BY <1>1, NvRingsOK, BlankIs DEF NvKernel
  <1>4. hw \in [dead : BOOLEAN, admin : RingSets, io : RingSets]
    BY <1>1, NvRingsOK DEF NvDevice
  <1>5. hw.admin = NvRings /\ hw.io = NvRings /\ k.q.admin = NvQueue /\ k.q.io = NvQueue /\ k.cid = 0
    BY <1>1 DEF NvDevice, NvKernel
  <1> QED  BY <1>1, <1>2, <1>3, <1>4, <1>5, NvRingsOK DEF NvmeInv, NvBooting

\* With no completion to take the bound may be tightened, and an empty ring
\* says nothing of ids.
LEMMA IdleRing ==
  ASSUME NEW r, NEW q, NEW now, NEW b, RingOK(r, q, now, b), ~(Posted(r) > 0), NEW b2
  PROVE  RingOK(r, q, now, b2)
  <1>1. r.hdb \in Ring /\ r.post \in Ring /\ Posted(r) = 0
    BY DistIs DEF RingOK, RingSets, Posted
  <1>2. \A i \in Ring : ~(Dist(r.hdb, i) < 0)
    BY <1>1, DistIs
  <1> QED  BY <1>1, <1>2 DEF RingOK, PostedOK

LEMMA EmptyRing ==
  ASSUME NEW r, NEW q, NEW now, NEW b, RingOK(r, q, now, b), r.fetch = r.db, r.hdb = r.post,
         NEW now2
  PROVE  RingOK(r, q, now2, b)
  <1>1. r.hdb \in Ring /\ r.fetch \in Ring /\ Posted(r) = 0 /\ Queued(r) = 0
    BY DistIs DEF RingOK, RingSets, Posted, Queued
  <1>2. \A i \in Ring : ~(Dist(r.hdb, i) < 0) /\ ~(Dist(r.fetch, i) < 0)
    BY <1>1, DistIs
  <1> QED  BY <1>1, <1>2 DEF RingOK, PostedOK, QueuedOK

LEMMA NvmeEnterStep ==
  ASSUME BaseInv, NvmeInv, Enter("nvme", "nv_io")
  PROVE  NvmeInv'
  <1>1. /\ call.pc = "idle" /\ UNCHANGED <<part, media, k, hw>>
        /\ call'.pc = "nv_io" /\ call'.op \in {"read", "write"}
    BY EnterBase
  <1> QED  BY <1>1 DEF NvmeInv, NvBooting

LEMMA n_io_sectorStep ==
  ASSUME BaseInv, NvmeInv, n_io_sector
  PROVE  BaseInv' /\ NvmeInv'
  <1>1. call.pc = "nv_io" /\ call.op # "boot" /\ Qn = "io"
    BY DEF n_io_sector, At, NvmeInv, Qn
  <1>2. CASE Return(-1) /\ UNCHANGED <<part, media, k, hw, ncalls, faults>>
    <2>1. BaseInv' /\ call' = Idle
      BY <1>2, ReturnBase DEF Return
    <2> QED  BY <1>1, <1>2, <2>1, IdleIs DEF NvmeInv, NvBooting
  <1>3. CASE k.on /\ ~(call.lba >= Cap)
    <2> DEFINE cid == (k.cid + 1) % CidMod
               t == k.q.io.tail
               t2 == (t + 1) % Depth
               cmd == [op |-> call.op, lba |-> call.lba, cid |-> cid]
               data == IF call.op = "write" THEN call.val ELSE k.data
    <2>1. Goto("nv_wait") /\ UNCHANGED <<part, media, last, ncalls, faults>>
      BY <1>3 DEF n_io_sector
    <2>2. /\ BaseInv' /\ call'.pc = "nv_wait" /\ call'.op = call.op /\ call'.lba = call.lba
          /\ call'.val = call.val
      BY <2>1, GotoBase DEF BaseInv
    <2>3. /\ call.lba \in Sectors /\ call.lba \in Nat /\ call.op \in {"read", "write"}
          /\ call.val \in Vals
      BY <1>1, <1>3, BlockAssumption DEF BaseInv, CallType, Sectors
    <2>4. /\ k \in [on : BOOLEAN, step : Nat, cid : Cids, data : Vals,
                    q : [admin : Queues, io : Queues], want : Cids]
          /\ hw \in [dead : BOOLEAN, admin : RingSets, io : RingSets]
          /\ t \in Ring
      BY DEF NvmeInv, Queues
    <2>5. cid \in Cids /\ t2 \in Ring /\ cmd \in Cmds /\ data \in Vals
      BY <2>3, <2>4, CidIs, AfterIs DEF Cmds, NvOps
    <2>6. /\ k' = [k EXCEPT !.cid = cid, !.want = cid, !.q["io"].tail = t2, !.data = data]
          /\ hw' = [hw EXCEPT !["io"].sq[t] = cmd, !["io"].db = t2]
      BY <1>1, <1>3 DEF n_io_sector, n_submit
    <2> HIDE DEF cid, t2, cmd, data
    <2>7. /\ k'.on = k.on /\ k'.step = k.step /\ k'.cid = cid /\ k'.want = cid /\ k'.data = data
          /\ k'.q.admin = k.q.admin /\ k'.q.io = [k.q.io EXCEPT !.tail = t2]
          /\ k' \in [on : BOOLEAN, step : Nat, cid : Cids, data : Vals,
                     q : [admin : Queues, io : Queues], want : Cids]
      BY <2>4, <2>5, <2>6 DEF Queues
    <2>8. /\ hw'.dead = hw.dead /\ hw'.admin = hw.admin
          /\ hw'.io = [hw.io EXCEPT !.sq[t] = cmd, !.db = t2]
      BY <2>4, <2>6
    <2>9. RingOK(hw.io, k.q.io, k.cid, Rested) /\ k.cid \in Cids /\ cmd.cid = cid
      BY <1>1, <2>4 DEF NvmeInv, cmd
    <2>10. /\ RingOK(hw'.io, k'.q.io, cid, Rested + 1)
           /\ Queued(hw'.io) = 1 => hw'.io.sq[hw'.io.fetch] = cmd
           /\ Posted(hw'.io) > 0 => hw'.io.cq[hw'.io.hdb].cid # cid
      <3>1. t2 = (k.q.io.tail + 1) % Depth /\ cid = (k.cid + 1) % CidMod
        BY DEF t2, cid
      <3>2. hw'.io = Written(hw.io, k.q.io.tail, cmd, t2)
        BY <2>8 DEF Written
      <3>3. k'.q.io = Moved(k.q.io, t2)
        BY <2>7 DEF Moved
      <3>4. k.cid \in Cids /\ cmd \in Cmds /\ cmd.cid = cid
        BY <2>5, <2>9
      <3>5. RingOK(hw.io, k.q.io, k.cid, Rested)
        BY <2>9
      <3> HIDE DEF t
      <3> QED  BY <3>1, <3>2, <3>3, <3>4, <3>5, SubmitRing
    <2>11. hw' \in [dead : BOOLEAN, admin : RingSets, io : RingSets]
      <3>1. hw'.io \in RingSets
        BY <2>10 DEF RingOK
      <3>2. hw' = [hw EXCEPT !.io = hw'.io]
        BY <2>4, <2>6
      <3> QED  BY <2>4, <3>1, <3>2
    <2>12. \A i \in Ring : hw'.io.sq[i].op \in {"read", "write"} => hw'.io.sq[i].lba \in Sectors
      <3>1. \A i \in Ring : hw'.io.sq[i] = IF i = t THEN cmd ELSE hw.io.sq[i]
        BY <2>4, <2>8 DEF RingSets
      <3> QED  BY <2>3, <3>1 DEF NvmeInv, cmd
    <2>13. cmd.op = call.op /\ cmd.lba = call.lba /\ (call.op = "write" => data = call.val)
      BY DEF cmd, data
    <2> QED  BY <1>1, <2>1, <2>2, <2>3, <2>7, <2>8, <2>10, <2>11, <2>12, <2>13 DEF NvmeInv, NvBooting
  <1> QED  BY <1>2, <1>3 DEF n_io_sector

LEMMA nv_doneStep ==
  ASSUME BaseInv, NvmeInv, nv_done
  PROVE  BaseInv' /\ NvmeInv'
  <1> DEFINE q2 == Advanced(k.q.io)
  <1>1. call.pc = "nv_wait" /\ call.op # "boot" /\ Qn = "io"
    BY DEF nv_done, At, NvmeInv, Qn
  <1>2. /\ k \in [on : BOOLEAN, step : Nat, cid : Cids, data : Vals,
                  q : [admin : Queues, io : Queues], want : Cids]
        /\ hw \in [dead : BOOLEAN, admin : RingSets, io : RingSets]
        /\ RingOK(hw.io, k.q.io, k.cid, Rested + 1) /\ k.want = k.cid
    BY <1>1 DEF NvmeInv
  <1>3. Posted(hw.io) > 0 /\ k.q.io.head = hw.io.hdb /\ Cqe = hw.io.cq[hw.io.hdb]
    <2>1. k.q.io.head = hw.io.hdb
      BY <1>2 DEF RingOK, Phased
    <2> QED  BY <1>1, <1>2, <2>1, ReadyIs DEF nv_done, Ready, Cqe, RingOK
  <1>4. Mine(k.want) => Good(k.data)
    BY <1>1, <1>2, <1>3 DEF Mine, NvmeInv
  <1>5. BaseInv' /\ call' = Idle
    <2>1. UNCHANGED <<part, media, ncalls, faults>>
      BY DEF nv_done
    <2>2. CASE Mine(k.want)
      BY <1>4, <2>1, <2>2, ReturnBase DEF nv_done
    <2>3. CASE ~Mine(k.want)
      <3>1. ReturnWith(-1, call.buf)
        BY <2>3 DEF nv_done, Return
      <3> QED  BY <2>1, <3>1, ReturnBase
    <2> QED  BY <2>2, <2>3
  <1>6. /\ k' = [k EXCEPT !.q["io"] = q2] /\ hw' = [hw EXCEPT !["io"].hdb = q2.head] /\ part' = part
    BY <1>1 DEF nv_done, Consume
  <1> HIDE DEF q2
  <1>7. /\ k'.cid = k.cid /\ k'.q.admin = k.q.admin /\ k'.q.io = q2
        /\ hw'.admin = hw.admin /\ hw'.io = [hw.io EXCEPT !.hdb = q2.head] /\ hw'.io.sq = hw.io.sq
    BY <1>2, <1>6 DEF RingSets
  <1>8. RingOK(hw'.io, k'.q.io, k'.cid, Rested)
    BY <1>2, <1>3, <1>7, ConsumeRing DEF q2
  <1>9. /\ k' \in [on : BOOLEAN, step : Nat, cid : Cids, data : Vals,
                   q : [admin : Queues, io : Queues], want : Cids]
        /\ hw' \in [dead : BOOLEAN, admin : RingSets, io : RingSets]
    <2>1. hw'.io \in RingSets /\ q2 \in Queues
      BY <1>7, <1>8 DEF RingOK
    <2>2. hw' = [hw EXCEPT !.io = hw'.io]
      BY <1>2, <1>6
    <2> QED  BY <1>2, <1>6, <2>1, <2>2
  <1> QED  BY <1>1, <1>5, <1>6, <1>7, <1>8, <1>9, IdleIs DEF NvmeInv, NvBooting

LEMMA nv_limitStep ==
  ASSUME BaseInv, NvmeInv, nv_limit
  PROVE  BaseInv' /\ NvmeInv'
  <1>1. call.pc = "nv_wait" /\ call.op # "boot" /\ Qn = "io"
    BY DEF nv_limit, At, NvmeInv, Qn
  <1>2. /\ hw.io \in RingSets /\ k.q.io \in Queues /\ Phased(hw.io, k.q.io)
        /\ RingOK(hw.io, k.q.io, k.cid, Rested + 1) /\ k.q.io.head = hw.io.hdb
    BY <1>1 DEF NvmeInv, RingOK, Phased
  <1>3. ~(Posted(hw.io) > 0)
    BY <1>1, <1>2, ReadyIs DEF nv_limit, Ready, Cqe
  <1>4. RingOK(hw.io, k.q.io, k.cid, Rested)
    BY <1>2, <1>3, IdleRing
  <1>5. BaseInv' /\ call' = Idle
    BY ReturnBase DEF nv_limit, Return
  <1>6. /\ UNCHANGED <<part, k>> /\ hw' \in [dead : BOOLEAN, admin : RingSets, io : RingSets]
        /\ hw'.io = hw.io /\ hw'.admin = hw.admin
    BY DEF nv_limit, GivenUp, NvmeInv
  <1> QED  BY <1>1, <1>4, <1>5, <1>6, IdleIs DEF NvmeInv, NvBooting

\* Start-up leaves the rings of the calls empty.
LEMMA nv_readyStep ==
  ASSUME BaseInv, NvmeInv, nv_ready
  PROVE  BaseInv' /\ NvmeInv'
  <1>1. call.pc = "boot" /\ call.op = "boot" /\ NvBooting
    BY DEF nv_ready, At, NvmeInv, NvBooting
  <1>2. CASE Goto("nv_admin") /\ k' = [k EXCEPT !.step = 1] /\ UNCHANGED faults
    <2>1. BaseInv' /\ call'.pc = "nv_admin" /\ call'.op = call.op
      BY <1>2, GotoBase DEF nv_ready, BaseInv
    <2>2. /\ UNCHANGED <<part, media, hw>> /\ k'.q = k.q /\ k'.cid = k.cid /\ k'.step = 1
          /\ k' \in [on : BOOLEAN, step : Nat, cid : Cids, data : Vals,
                     q : [admin : Queues, io : Queues], want : Cids]
      BY <1>2 DEF nv_ready, NvmeInv
    <2> QED  BY <1>1, <2>1, <2>2 DEF NvmeInv, NvBooting
  <1>3. CASE Fault /\ call' = Idle /\ UNCHANGED k
    <2>1. BaseInv'
      BY <1>3, IdleBase DEF nv_ready, Fault, BaseInv
    <2> QED  BY <1>1, <1>3, <2>1, IdleIs DEF NvmeInv, NvBooting, nv_ready
  <1> QED  BY <1>2, <1>3 DEF nv_ready

LEMMA nv_adminStep ==
  ASSUME BaseInv, NvmeInv, nv_admin
  PROVE  BaseInv' /\ NvmeInv'
  <1> DEFINE cid == (k.cid + 1) % CidMod
             t == k.q.admin.tail
             t2 == (t + 1) % Depth
             cmd == [op |-> NvBoot[k.step], lba |-> 0, cid |-> cid]
  <1>1. /\ call.pc = "nv_admin" /\ call.op = "boot" /\ Qn = "admin" /\ k.step \in 1 .. 4
        /\ hw.io.fetch = hw.io.db /\ hw.io.hdb = hw.io.post
    BY DEF nv_admin, At, NvmeInv, Qn, NvBooting
  <1>2. /\ BaseInv' /\ call'.pc = "nv_admwait" /\ call'.op = call.op
    BY GotoBase DEF nv_admin, BaseInv
  <1>3. /\ k \in [on : BOOLEAN, step : Nat, cid : Cids, data : Vals,
                  q : [admin : Queues, io : Queues], want : Cids]
        /\ hw \in [dead : BOOLEAN, admin : RingSets, io : RingSets]
        /\ t \in Ring /\ t = hw.admin.db /\ k.q.admin.head = hw.admin.hdb
    BY DEF NvmeInv, Queues, AdminOK
  <1>4. cid \in Cids /\ t2 \in Ring
    BY <1>3, CidIs, AfterIs
  <1>5. cmd \in Cmds /\ cmd.op \notin {"read", "write"}
    BY <1>1, <1>4 DEF Cmds, NvOps, NvBoot
  <1>6. /\ k' = [k EXCEPT !.cid = cid, !.want = cid, !.q["admin"].tail = t2, !.data = k.data]
        /\ hw' = [hw EXCEPT !["admin"].sq[t] = cmd, !["admin"].db = t2] /\ UNCHANGED <<part, media>>
    <2>1. [[op |-> NvBoot[k.step], lba |-> 0, cid |-> 0] EXCEPT !.cid = cid] = cmd
      OBVIOUS
    <2>2. n_submit([op |-> NvBoot[k.step], lba |-> 0, cid |-> 0], k.data) /\ UNCHANGED <<part, media>>
      BY DEF nv_admin
    <2> HIDE DEF cmd
    <2> QED  BY <1>1, <2>1, <2>2 DEF n_submit
  <1> HIDE DEF cid, t2, cmd
  <1>7. /\ k'.step = k.step /\ k'.cid = cid
        /\ k'.q.io = k.q.io /\ k'.q.admin = [k.q.admin EXCEPT !.tail = t2]
        /\ k' \in [on : BOOLEAN, step : Nat, cid : Cids, data : Vals,
                   q : [admin : Queues, io : Queues], want : Cids]
    BY <1>3, <1>4, <1>6 DEF Queues
  <1>8. /\ hw'.io = hw.io /\ hw'.admin = [hw.admin EXCEPT !.sq[t] = cmd, !.db = t2]
        /\ hw' \in [dead : BOOLEAN, admin : RingSets, io : RingSets]
    BY <1>3, <1>4, <1>5, <1>6 DEF RingSets
  <1>9. AdminOK(hw'.admin, k'.q.admin)
    <2>1. \A i \in Ring : hw'.admin.sq[i] = IF i = t THEN cmd ELSE hw.admin.sq[i]
      BY <1>3, <1>8 DEF RingSets
    <2>2. \A i \in Ring : hw'.admin.sq[i].op \notin {"read", "write"}
      BY <1>5, <2>1 DEF NvmeInv, AdminOK
    <2>3. hw'.admin \in RingSets /\ k'.q.admin \in Queues
      BY <1>7, <1>8
    <2>4. /\ k'.q.admin.tail = t2 /\ hw'.admin.db = t2
          /\ k'.q.admin.head = k.q.admin.head /\ hw'.admin.hdb = hw.admin.hdb
      BY <1>3, <1>7, <1>8 DEF Queues, RingSets
    <2> QED  BY <1>3, <2>2, <2>3, <2>4 DEF AdminOK
  <1>10. RingOK(hw'.io, k'.q.io, k'.cid, Rested)
    <2>1. RingOK(hw.io, k.q.io, k.cid, Rested)
      BY <1>1 DEF NvmeInv
    <2> QED  BY <1>1, <1>7, <1>8, <2>1, EmptyRing
  <1> QED  BY <1>1, <1>2, <1>6, <1>7, <1>8, <1>9, <1>10 DEF NvmeInv, NvBooting

LEMMA AdvancedIs ==
  ASSUME NEW q \in Queues
  PROVE  Advanced(q) \in Queues /\ Advanced(q).tail = q.tail
  <1>1. q.head \in Ring /\ q.phase \in {0, 1} /\ q.head \in Nat /\ Depth \in Nat
    BY NvmeAssumption DEF Queues, Ring
  <1>2. CASE q.head + 1 >= Depth
    <2>1. Advanced(q) = [q EXCEPT !.head = 0, !.phase = 1 - q.phase]
      BY <1>2 DEF Advanced
    <2>2. 0 \in Ring /\ 1 - q.phase \in {0, 1}
      BY <1>1, NvRingsOK
    <2> QED  BY <2>1, <2>2 DEF Queues
  <1>3. CASE ~(q.head + 1 >= Depth)
    <2>1. Advanced(q) = [q EXCEPT !.head = q.head + 1]
      BY <1>3 DEF Advanced
    <2>2. q.head + 1 \in Ring
      BY <1>1, <1>3 DEF Ring
    <2> QED  BY <2>1, <2>2 DEF Queues
  <1> QED  BY <1>2, <1>3

LEMMA nv_admin_doneStep ==
  ASSUME BaseInv, NvmeInv, nv_admin_done
  PROVE  BaseInv' /\ NvmeInv'
  <1> DEFINE q2 == Advanced(k.q.admin)
             more == Mine(k.want) /\ k.step < Len(NvBoot)
             on == Mine(k.want) /\ ~more
  <1>1. /\ call.pc = "nv_admwait" /\ call.op = "boot" /\ Qn = "admin" /\ k.step \in 1 .. 4
        /\ hw.io.fetch = hw.io.db /\ hw.io.hdb = hw.io.post
    BY DEF nv_admin_done, At, NvmeInv, Qn, NvBooting
  <1>2. /\ k \in [on : BOOLEAN, step : Nat, cid : Cids, data : Vals,
                  q : [admin : Queues, io : Queues], want : Cids]
        /\ hw \in [dead : BOOLEAN, admin : RingSets, io : RingSets]
    BY DEF NvmeInv
  <1>3. q2 \in Queues /\ q2.tail = k.q.admin.tail /\ q2.head \in Ring
    BY <1>2, AdvancedIs DEF Queues
  <1>4. /\ hw' = [hw EXCEPT !["admin"].hdb = q2.head]
        /\ k' = [k EXCEPT !.q["admin"] = q2, !.on = on, !.step = k.step + 1]
        /\ call' = (IF more THEN [call EXCEPT !.pc = "nv_admin"] ELSE Idle)
        /\ UNCHANGED <<part, media, last, ncalls, faults>>
    BY <1>1 DEF nv_admin_done
  <1>5. more => k.step + 1 \in 1 .. 4
    BY <1>1 DEF NvBoot
  <1>6. on \in BOOLEAN
    OBVIOUS
  <1> HIDE DEF q2, more, on
  <1>7. /\ k'.step = k.step + 1 /\ k'.cid = k.cid /\ k'.q.io = k.q.io /\ k'.q.admin = q2
        /\ k' \in [on : BOOLEAN, step : Nat, cid : Cids, data : Vals,
                   q : [admin : Queues, io : Queues], want : Cids]
    <2> DEFINE s == k.step + 1
    <2>1. s \in Nat
      BY <1>2
    <2>2. k' = [k EXCEPT !.q = [k.q EXCEPT !.admin = q2], !.on = on, !.step = s]
      BY <1>4
    <2>3. [k.q EXCEPT !.admin = q2] \in [admin : Queues, io : Queues]
      BY <1>2, <1>3
    <2> HIDE DEF s
    <2>4. k'.step = s /\ k'.cid = k.cid /\ k'.q = [k.q EXCEPT !.admin = q2]
      BY <1>2, <2>2
    <2>5. k' \in [on : BOOLEAN, step : Nat, cid : Cids, data : Vals,
                 q : [admin : Queues, io : Queues], want : Cids]
      BY <1>2, <1>6, <2>1, <2>2, <2>3
    <2> QED  BY <1>2, <2>4, <2>5 DEF s
  <1>8. /\ hw'.io = hw.io /\ hw'.admin = [hw.admin EXCEPT !.hdb = q2.head]
        /\ hw' \in [dead : BOOLEAN, admin : RingSets, io : RingSets]
    BY <1>2, <1>3, <1>4 DEF RingSets
  <1>9. AdminOK(hw'.admin, k'.q.admin)
    <2>1. /\ hw'.admin.sq = hw.admin.sq /\ hw'.admin.db = hw.admin.db /\ hw'.admin.hdb = q2.head
          /\ hw'.admin \in RingSets
      BY <1>2, <1>8 DEF RingSets
    <2> QED  BY <1>3, <1>7, <2>1 DEF NvmeInv, AdminOK
  <1>10. RingOK(hw'.io, k'.q.io, k'.cid, Rested)
    BY <1>1, <1>7, <1>8 DEF NvmeInv
  <1>11. CASE more
    <2>1. Goto("nv_admin")
      BY <1>4, <1>11 DEF Goto
    <2>2. BaseInv' /\ call'.pc = "nv_admin" /\ call'.op = call.op
      BY <1>4, <2>1, GotoBase DEF BaseInv
    <2> QED  BY <1>1, <1>4, <1>5, <1>7, <1>8, <1>9, <1>10, <1>11, <2>2 DEF NvmeInv, NvBooting
  <1>12. CASE ~more
    <2>1. BaseInv' /\ call' = Idle
      BY <1>4, <1>12, IdleBase DEF BaseInv
    <2> QED  BY <1>1, <1>4, <1>7, <1>8, <1>9, <1>10, <2>1, IdleIs DEF NvmeInv, NvBooting
  <1> QED  BY <1>11, <1>12

LEMMA nv_admin_limitStep ==
  ASSUME BaseInv, NvmeInv, nv_admin_limit
  PROVE  BaseInv' /\ NvmeInv'
  <1>1. /\ call.pc = "nv_admwait" /\ call' = Idle /\ UNCHANGED <<part, media, last, k, ncalls, faults>>
        /\ hw' = hw \/ hw' = [hw EXCEPT !.dead = TRUE]
    BY DEF nv_admin_limit, At, GivenUp
  <1>2. BaseInv'
    BY <1>1, IdleBase DEF BaseInv
  <1>3. /\ hw' \in [dead : BOOLEAN, admin : RingSets, io : RingSets]
        /\ hw'.io = hw.io /\ hw'.admin = hw.admin
    BY <1>1 DEF NvmeInv
  <1> QED  BY <1>1, <1>2, <1>3, IdleIs DEF NvmeInv, NvBooting

LEMMA NvExecuteAdmin ==
  ASSUME BaseInv, NvmeInv, NvExecute("admin")
  PROVE  BaseInv' /\ NvmeInv'
  <1> DEFINE r == hw.admin
             next == (r.fetch + 1) % Depth
             post2 == (r.post + 1) % Depth
             p2 == IF post2 = 0 THEN 1 - r.p ELSE r.p
  <1>1. /\ hw \in [dead : BOOLEAN, admin : RingSets, io : RingSets] /\ r \in RingSets
        /\ r.fetch \in Ring /\ r.post \in Ring /\ r.p \in {0, 1}
    BY DEF NvmeInv, RingSets
  <1>2. next \in Ring /\ post2 \in Ring /\ p2 \in {0, 1}
    BY <1>1, AfterIs
  <1>3. r.sq[r.fetch].op \notin {"read", "write"}
    BY <1>1 DEF NvmeInv, AdminOK
  <1>4. PICK ok \in BOOLEAN :
          hw' = [hw EXCEPT !["admin"].fetch = next, !["admin"].post = post2, !["admin"].p = p2,
                           !["admin"].cq[r.post] = [cid |-> r.sq[r.fetch].cid, p |-> r.p, ok |-> ok]]
    BY DEF NvExecute
  <1> DEFINE e == [cid |-> r.sq[r.fetch].cid, p |-> r.p, ok |-> ok]
  <1>5. e \in Cqes
    BY <1>1 DEF RingSets, Cmds, Cqes
  <1>6. UNCHANGED <<part, media, call, last, k, ncalls>> /\ faults' \in Nat
    <2>1. faults' = faults \/ faults' = faults + 1
      BY DEF NvExecute, Fault
    <2>2. UNCHANGED <<part, call, last, ncalls>>
      BY DEF NvExecute
    <2>3. UNCHANGED <<media, k>>
      BY <1>3 DEF NvExecute
    <2> QED  BY <2>1, <2>2, <2>3 DEF BaseInv
  <1> HIDE DEF next, post2, p2, e
  <1>7. hw'.admin = [r EXCEPT !.fetch = next, !.post = post2, !.p = p2, !.cq[r.post] = e]
    BY <1>1, <1>4 DEF e
  <1>8. /\ hw'.admin.sq = r.sq /\ hw'.admin.db = r.db /\ hw'.admin.hdb = r.hdb
        /\ hw'.admin \in RingSets
    <2>1. [r.cq EXCEPT ![r.post] = e] \in [Ring -> Cqes]
      BY <1>1, <1>5 DEF RingSets
    <2>2. hw'.admin = [r EXCEPT !.fetch = next, !.post = post2, !.p = p2,
                                !.cq = [r.cq EXCEPT ![r.post] = e]]
      BY <1>7
    <2> HIDE DEF r
    <2> QED  BY <1>1, <1>2, <2>1, <2>2 DEF RingSets
  <1>9. hw'.io = hw.io /\ hw'.dead = hw.dead
    BY <1>1, <1>4
  <1>10. hw' \in [dead : BOOLEAN, admin : RingSets, io : RingSets]
    <2> DEFINE a == [r EXCEPT !.fetch = next, !.post = post2, !.p = p2, !.cq[r.post] = e]
    <2>1. hw' = [hw EXCEPT !.admin = a] /\ hw'.admin = a
      BY <1>1, <1>4, <1>7 DEF e
    <2> QED  BY <1>1, <1>8, <2>1
  <1>11. BaseInv'
    BY <1>6 DEF BaseInv, SuccessMeansDone, Strays, NvExecute
  <1> QED  BY <1>6, <1>8, <1>9, <1>10, <1>11 DEF NvmeInv, NvBooting, AdminOK, Good

LEMMA NvExecuteIo ==
  ASSUME BaseInv, NvmeInv, NvExecute("io")
  PROVE  BaseInv' /\ NvmeInv'
  <1> DEFINE r == hw.io
             cmd == r.sq[r.fetch]
             now == k.cid
             b == IF call.pc = "nv_wait" THEN Rested + 1 ELSE Rested
  <1>1. /\ k \in [on : BOOLEAN, step : Nat, cid : Cids, data : Vals,
                  q : [admin : Queues, io : Queues], want : Cids]
        /\ hw \in [dead : BOOLEAN, admin : RingSets, io : RingSets]
        /\ RingOK(r, k.q.io, now, b) /\ b \in {Rested, Rested + 1} /\ now \in Cids
    BY DEF NvmeInv
  <1>2. /\ r \in RingSets /\ r.fetch \in Ring /\ r.post \in Ring /\ cmd \in Cmds
    BY <1>1 DEF RingSets
  <1>3. /\ r.fetch # r.db /\ (r.post + 1) % Depth # r.hdb
        /\ UNCHANGED <<part, call, last, ncalls>>
    BY DEF NvExecute
  <1>4. ~NvBooting
    BY <1>3 DEF NvmeInv
  <1>5. cmd.op \in {"read", "write"} => cmd.lba \in Sectors
    BY <1>2 DEF NvmeInv
  <1>6. PICK ok \in BOOLEAN :
          /\ hw' = [hw EXCEPT !["io"].fetch = (r.fetch + 1) % Depth, !["io"].post = (r.post + 1) % Depth,
                              !["io"].p = IF (r.post + 1) % Depth = 0 THEN 1 - r.p ELSE r.p,
                              !["io"].cq[r.post] = [cid |-> cmd.cid, p |-> r.p, ok |-> ok]]
          /\ ok => /\ media' = IF cmd.op = "write" THEN [media EXCEPT ![cmd.lba] = k.data] ELSE media
                   /\ k' = IF cmd.op = "read" THEN [k EXCEPT !.data = media[cmd.lba]] ELSE k
          /\ ~ok => UNCHANGED <<media, k>>
    <2>1. CASE UNCHANGED faults
      BY <2>1 DEF NvExecute, Fault
    <2>2. CASE Fault
      BY <2>2 DEF NvExecute, Fault
    <2> QED  BY <2>1, <2>2 DEF NvExecute
  <1> DEFINE e == [cid |-> cmd.cid, p |-> r.p, ok |-> ok]
  <1>7. e.cid = cmd.cid /\ e.ok = ok
    OBVIOUS
  <1>8. media' \in [Sectors -> Vals] /\ faults' \in Nat
    <2>1. faults' = faults \/ faults' = faults + 1
      BY DEF NvExecute, Fault
    <2>2. media' = media \/ media' = [media EXCEPT ![cmd.lba] = k.data]
      BY <1>6
    <2> QED  BY <1>1, <2>1, <2>2 DEF BaseInv
  <1>9. BaseInv'
    BY <1>3, <1>8 DEF BaseInv, SuccessMeansDone, Strays, NvExecute
  <1>10. /\ k'.cid = now /\ k'.q = k.q /\ k'.want = k.want /\ k'.step = k.step
         /\ k' \in [on : BOOLEAN, step : Nat, cid : Cids, data : Vals,
                    q : [admin : Queues, io : Queues], want : Cids]
    <2>1. cmd.op = "read" => media[cmd.lba] \in Vals
      BY <1>5 DEF BaseInv
    <2>2. k' = k \/ (cmd.op = "read" /\ k' = [k EXCEPT !.data = media[cmd.lba]])
      BY <1>6
    <2> QED  BY <1>1, <2>1, <2>2
  <1>11. hw'.io = Executed(r, e) /\ hw'.admin = hw.admin /\ hw'.dead = hw.dead
    BY <1>1, <1>6 DEF Executed
  <1> HIDE DEF e
  <1>12. e = [cid |-> r.sq[r.fetch].cid, p |-> r.p, ok |-> ok]
    BY DEF e
  <1>13. /\ RingOK(hw'.io, k'.q.io, now, b) /\ hw'.io.hdb = r.hdb /\ hw'.io.sq = r.sq
         /\ Posted(hw'.io) = Posted(r) + 1 /\ Posted(r) >= 0
         /\ Posted(r) > 0 => hw'.io.cq[r.hdb] = r.cq[r.hdb] /\ r.cq[r.hdb].cid # now
         /\ Posted(r) = 0 => hw'.io.cq[r.hdb] = e
         /\ cmd.cid = now => Queued(r) = 1
    BY <1>1, <1>3, <1>10, <1>11, <1>12, PostRing
  <1>14. hw' \in [dead : BOOLEAN, admin : RingSets, io : RingSets]
    <2> DEFINE next == (r.fetch + 1) % Depth
               post2 == (r.post + 1) % Depth
               p2 == IF post2 = 0 THEN 1 - r.p ELSE r.p
               x == [r EXCEPT !.fetch = next, !.post = post2, !.p = p2, !.cq[r.post] = e]
    <2>1. hw' = [hw EXCEPT !.io = Executed(r, e)]
      <3>1. hw' = [hw EXCEPT !["io"].fetch = next, !["io"].post = post2, !["io"].p = p2,
                             !["io"].cq[r.post] = e]
        BY <1>6 DEF e
      <3> HIDE DEF next, post2, p2
      <3>2. hw'.io = x
        BY <1>1, <3>1
      <3>3. r \in RingSets /\ hw \in [dead : BOOLEAN, admin : RingSets, io : RingSets]
        BY <1>1, <1>2
      <3>4. hw' = [hw EXCEPT !.io = x]
        BY <3>1, <3>2, <3>3
      <3> QED  BY <3>4 DEF Executed, next, post2, p2
    <2>2. Executed(r, e) \in RingSets
      BY <1>11, <1>13 DEF RingOK
    <2> QED  BY <1>1, <2>1, <2>2
  <1>15. Posted(r) \in Nat /\ Posted(hw'.io) > 0
    BY <1>2, <1>13, DistIs DEF Posted, RingSets
  <1>16. ASSUME call.pc = "nv_wait", hw'.io.cq[r.hdb].cid = now, hw'.io.cq[r.hdb].ok
         PROVE  Good(k.data)'
    <2>1. Posted(r) = 0 /\ hw'.io.cq[r.hdb] = e
      BY <1>13, <1>15, <1>16
    <2>2. cmd.cid = now /\ ok
      BY <1>7, <1>16, <2>1
    <2>3. Queued(r) = 1
      BY <1>13, <2>2
    <2>4. /\ cmd.op = call.op /\ cmd.lba = call.lba /\ (call.op = "write" => k.data = call.val)
          /\ call.lba \in Sectors /\ call.op \in {"read", "write"}
      BY <1>16, <2>1, <2>3 DEF NvmeInv, BaseInv, CallType
    <2>5. CASE call.op = "read"
      <3>1. media' = media /\ k'.data = media[call.lba]
        BY <1>1, <1>6, <2>2, <2>4, <2>5
      <3> QED  BY <1>3, <2>4, <2>5, <3>1 DEF Good
    <2>6. CASE call.op = "write"
      <3>1. media' = [media EXCEPT ![call.lba] = call.val]
        BY <1>6, <2>2, <2>4, <2>6
      <3>2. media'[call.lba] = call.val
        BY <2>4, <3>1 DEF BaseInv
      <3> QED  BY <1>3, <2>4, <2>6, <3>2 DEF Good
    <2> QED  BY <2>4, <2>5, <2>6
  <1> QED  BY <1>3, <1>4, <1>9, <1>10, <1>11, <1>13, <1>14, <1>15, <1>16 DEF NvmeInv, NvBooting

LEMMA NvmeStep ==
  ASSUME BaseInv, NvmeInv, NvCpu \/ NvHw
  PROVE  BaseInv' /\ NvmeInv'
  BY EnterBase, NvmeEnterStep, n_io_sectorStep, nv_doneStep, nv_limitStep, nv_readyStep, nv_adminStep,
     nv_admin_doneStep, nv_admin_limitStep, NvExecuteAdmin, NvExecuteIo DEF NvCpu, NvHw

-----------------------------------------------------------------------------
(* The USB stack: types and control *)

Hcs == {"uhci", "ehci"}
UsbKinds == {"disk", "kbd", "mouse"}
UsbOps == {None, "ready", "cap", "read", "write"}
Togs == [in : {0, 1}, out : {0, 1}]

UsbDevs ==
  [hc : Hcs, kind : UsbKinds, en : BOOLEAN, addr : Nat, conf : BOOLEAN, boot : BOOLEAN,
   tog : Togs, halt : SUBSET {"in", "out"}, st : {"cbw", "in", "out", "csw"}, left : Int,
   op : UsbOps, lba : Nat, tag : Nat, bad : BOOLEAN, fifo : Vals \cup {None}]
Entries ==
  [port : Nat, hc : Hcs, addr : Nat, vid : UsbKinds \cup {None}, hid_if : BOOLEAN,
   hid_proto : UsbKinds \cup {None}, hid_ep : UsbKinds \cup {None}, rep : BOOLEAN,
   msc_if : BOOLEAN, msc_ep : UsbKinds \cup {None}, configured : BOOLEAN]
InPackets == [csw : BOOLEAN, val : Vals \cup {None}, left : Int]
UsbMem ==
  [on : BOOLEAN, ports : Seq(Nat), port : Nat, step : Nat, slot : Entries, dev : Seq(Entries),
   kbd : Nat, mou : Nat, disk : Nat, tog : Togs, tag : Nat, cmd : UsbOps, try : {1, 2},
   clean : BOOLEAN, i : Nat, t0 : {0, 1}, got : Seq(InPackets)]

EnumPcs == {"boot", "us_uprobe", "us_ehci", "us_eprobe", "us_scan", "us_enum"}
Bots == {"us_cbw", "us_data", "us_csw"}
Recovers == {"us_reset", "us_clin", "us_clout", "us_again"}

\* The commands that devices got are of this and earlier tags.
DevOK(d, tag) ==
  /\ d \in UsbDevs /\ d.tag <= tag
  /\ d.op \in {"read", "write"} => d.lba \in Sectors
DevsOK(h, tag) ==
  /\ h \in [dead : BOOLEAN, dev : [DOMAIN h.dev -> UsbDevs]]
  /\ DOMAIN h.dev \subseteq Nat /\ IsFiniteSet(DOMAIN h.dev)
  /\ \A x \in DOMAIN h.dev : DevOK(h.dev[x], tag)

UsbTypes ==
  /\ part = "usb"
  /\ k \in UsbMem
  /\ DevsOK(hw, k.tag)
  /\ \A j \in DOMAIN k.ports : k.ports[j] \in DOMAIN hw.dev

\* A drive that is on was found by start-up, and a command in progress is the
\* one of the call.
UsbControl ==
  /\ call.pc \in EnumPcs \cup Bots \cup Recovers \cup {"us_msc", "us_mouse", "idle", "us_sector"}
  /\ call.pc \in EnumPcs \cup {"us_msc", "us_mouse"} => call.op = "boot"
  /\ call.pc = "us_sector" => call.op # "boot"
  /\ call.pc \in EnumPcs \cup {"us_msc"} => ~k.on
  /\ call.pc # "idle" /\ call.op = "boot" => last.rc = -1
  /\ k.on => k.disk \in DOMAIN k.dev
  /\ call.pc \in Bots \cup Recovers
       => /\ k.disk \in DOMAIN k.dev
          /\ call.op = "boot" => ~k.on /\ k.cmd \in {"ready", "cap"}
          /\ call.op # "boot" => k.cmd = call.op /\ call.lba \in Sectors

-----------------------------------------------------------------------------
(* The USB stack: the table of devices *)

Target0(hc, a) == Min(Answering(hc, a))

\* Ports are reset in the order of the table.  A port that was not yet reset has
\* a device at address 0, or is the first of its controller, which the probes
\* moved to address 1.
PortsOK ==
  /\ \A i, j \in DOMAIN k.ports : i < j => k.ports[i] # k.ports[j]
  /\ \A i, j \in DOMAIN k.ports :
       i < j /\ hw.dev[k.ports[i]].hc = hw.dev[k.ports[j]].hc => k.ports[i] < k.ports[j]

FirstPort(j) == \A i \in DOMAIN k.ports : i < j => hw.dev[k.ports[i]].hc # hw.dev[k.ports[j]].hc
Fresh(x) == hw.dev[x].addr = 0

Scanned ==
  /\ call.pc \in {"boot", "us_uprobe", "us_ehci"} =>
       \A j \in DOMAIN k.ports : hw.dev[k.ports[j]].hc = "uhci"
  /\ call.pc = "boot" => k.ports = <<>>
  /\ call.pc \in {"us_uprobe"} => \A j \in DOMAIN k.ports : Fresh(k.ports[j])
  /\ call.pc = "us_eprobe" => \A j \in DOMAIN k.ports :
                                hw.dev[k.ports[j]].hc = "ehci" => Fresh(k.ports[j]) /\ hw.dev[k.ports[j]].en
  /\ call.pc \in EnumPcs \ {"us_enum"} => k.dev = <<>> /\ k.port = 1 /\ k.step = 1
  /\ call.pc \in EnumPcs
       => \A j \in DOMAIN k.ports : j >= k.port => \/ Fresh(k.ports[j]) \/ FirstPort(j)
                                                 \/ (j = k.port /\ k.step > 1)

\* Where the enumeration of a port stands.
Enumerating ==
  call.pc = "us_enum" =>
    /\ k.step \in 1 .. 9 /\ k.port >= 1
    /\ k.step > 1 => /\ k.port <= Len(k.ports) /\ Len(k.dev) < MaxDev
                     /\ k.slot.hc = hw.dev[Port].hc /\ k.slot.addr = NewAddr
    /\ k.step \in 2 .. 4 => hw.dev[Port].en /\ Fresh(Port)
    /\ k.step \in 6 .. 9 => /\ Answering(k.slot.hc, NewAddr) # {}
                            /\ hw.dev[Target0(k.slot.hc, NewAddr)].kind = k.slot.vid
    /\ k.step = 9 => hw.dev[Target0(k.slot.hc, NewAddr)].conf

Entered ==
  \A i \in DOMAIN k.dev :
    LET e == k.dev[i]
        x == Target0(e.hc, e.addr)
    IN /\ e.addr = i /\ Answering(e.hc, e.addr) # {}
       /\ hw.dev[x].conf /\ hw.dev[x].kind = e.vid
       /\ call.pc \in EnumPcs => \A j \in DOMAIN k.ports : j >= k.port => k.ports[j] # x

UsbTable == PortsOK /\ Scanned /\ Enumerating /\ Entered

-----------------------------------------------------------------------------
(* The USB stack: commands *)

\* Where a transfer stands.
UsbTransfer ==
  /\ call.pc = "us_cbw" => /\ k.i = 0 /\ k.got = <<>> /\ k.t0 = k.tog.out
                           /\ \A x \in DOMAIN hw.dev : hw.dev[x].tag < k.tag
  /\ call.pc = "us_csw" => k.i = 0 /\ k.t0 = k.tog.in
  /\ call.pc = "us_data" => /\ k.i < Count /\ k.cmd # "ready"
                            /\ k.cmd # "write" => Len(k.got) = k.i
                            /\ k.cmd = "write" => k.t0 = k.tog.out

\* What the disk did of the command of the call once it has its tag.
Progress(d) ==
  /\ d.op = call.op /\ d.lba = call.lba
  /\ ~d.bad => "out" \notin d.halt
  /\ call.pc = "us_data" /\ call.op = "write"
       => /\ d.st = "out" => d.left = Count - k.i /\ d.tog.out = HostTog
          /\ d.st = "csw" => d.bad
  /\ call.pc = "us_data" /\ call.op = "read"
       => /\ d.tog.out = k.tog.out
          /\ d.st = "in" => /\ 1 <= d.left /\ d.left <= Count - k.i
                            /\ d.left = Count - k.i
                                 => \A j \in DOMAIN k.got :
                                      /\ ~k.got[j].csw /\ k.got[j].val = media[call.lba]
                                      /\ k.got[j].left = Count + 1 - j
  /\ call.pc = "us_csw" /\ d.st = "csw" /\ ~d.bad => d.tog.out = k.tog.out /\ Good(call.buf)

Taken ==
  /\ call.pc \in {"us_data", "us_csw"} /\ call.op # "boot"
  /\ Answering(Disk.hc, Disk.addr) # {} /\ hw.dev[Target].tag = k.tag

UsbProgress == Taken => Progress(hw.dev[Target])

\* What the requests of the recovery did, when none failed.
Recovered ==
  LET d == hw.dev[Target]
  IN k.clean /\ k.disk # 0 =>
       /\ call.pc \in {"us_clin", "us_clout", "us_again"} => Answering(Disk.hc, Disk.addr) # {} /\ d.st = "cbw"
       /\ call.pc \in {"us_clout", "us_again"} => "in" \notin d.halt /\ d.tog.in = 0
       /\ call.pc = "us_again" => d.halt = {} /\ d.tog.out = 0
       /\ call.pc = "us_cbw" /\ k.try = 2 => Answering(Disk.hc, Disk.addr) # {} /\ Agree(d)

UsbInv == UsbTypes /\ UsbControl /\ UsbTable /\ UsbTransfer /\ UsbProgress /\ Recovered /\ InStep

-----------------------------------------------------------------------------
(* The USB stack: devices and control transfers *)

\* The least element of a set of numbers.
LEMMA MinIs ==
  ASSUME NEW S \in SUBSET Nat, S # {}
  PROVE  Min(S) \in S /\ \A y \in S : Min(S) <= y
  <1>1. IsWellFoundedOn({ss \in Nat \X Nat : ss[1] < ss[2]}, Nat)
    BY NatLessThanWellFounded DEF OpToRel
  <1>2. PICK x \in S : \A y \in S : ~(<<y, x>> \in {ss \in Nat \X Nat : ss[1] < ss[2]})
    BY <1>1, WFMin, Zenon
  <1>3. ASSUME NEW y \in S PROVE x <= y
    BY <1>2, ~(y < x)
  <1> QED  BY <1>3 DEF Min

LEMMA MinOnly ==
  ASSUME NEW S \in SUBSET Nat, NEW x \in S, \A y \in S : x <= y
  PROVE  Min(S) = x
  <1>1. Min(S) \in S /\ Min(S) <= x
    BY MinIs
  <1>2. x <= Min(S) /\ x \in Nat /\ Min(S) \in Nat
    BY <1>1
  <1> QED  BY <1>1, <1>2

\* A device replaced by what an effect makes of it.
Put(h, x, d) == [h EXCEPT !.dev[x] = d]

LEMMA PutIs ==
  ASSUME NEW h, NEW tag \in Nat, DevsOK(h, tag), NEW x \in DOMAIN h.dev, NEW d, DevOK(d, tag)
  PROVE  /\ DevsOK(Put(h, x, d), tag) /\ DOMAIN Put(h, x, d).dev = DOMAIN h.dev
         /\ \A y \in DOMAIN h.dev : Put(h, x, d).dev[y] = IF y = x THEN d ELSE h.dev[y]
  <1> DEFINE h2 == Put(h, x, d)
  <1>1. h2.dev = [h.dev EXCEPT ![x] = d] /\ DOMAIN h2.dev = DOMAIN h.dev
    BY DEF DevsOK, Put
  <1>2. \A y \in DOMAIN h.dev : h2.dev[y] = IF y = x THEN d ELSE h.dev[y]
    BY <1>1 DEF DevsOK
  <1>3. h2 \in [dead : BOOLEAN, dev : [DOMAIN h2.dev -> UsbDevs]]
    BY <1>1, <1>2 DEF DevsOK, Put, DevOK
  <1> HIDE DEF h2
  <1>4. DevsOK(h2, tag) 
    BY <1>1, <1>2, <1>3 DEF DevsOK
  <1> QED  BY <1>1, <1>2, <1>4 DEF h2

LEMMA DevOKLater ==
  ASSUME NEW h, NEW tag \in Nat, NEW tag2 \in Nat, tag <= tag2, DevsOK(h, tag)
  PROVE  DevsOK(h, tag2)
  BY DEF DevsOK, DevOK, UsbDevs

\* What identifies a device, which bulk transfers and most requests leave alone.
SameId(d, d2) == d2.hc = d.hc /\ d2.kind = d.kind /\ d2.en = d.en /\ d2.addr = d.addr /\ d2.conf = d.conf

LEMMA EffectsOK ==
  ASSUME NEW d, NEW tag \in Nat, DevOK(d, tag)
  PROVE  /\ DevOK(SetProtocol(d), tag) /\ SameId(d, SetProtocol(d))
         /\ DevOK(BotReset(d), tag) /\ SameId(d, BotReset(d)) /\ BotReset(d).st = "cbw"
         /\ DevOK(ClearIn(d), tag) /\ SameId(d, ClearIn(d)) /\ ClearIn(d).st = d.st
         /\ ClearIn(d).halt = d.halt \ {"in"} /\ ClearIn(d).tog.in = 0
         /\ DevOK(ClearOut(d), tag) /\ SameId(d, ClearOut(d)) /\ ClearOut(d).st = d.st
         /\ ClearOut(d).halt = d.halt \ {"out"} /\ ClearOut(d).tog.out = 0
         /\ ClearOut(d).tog.in = d.tog.in
  <1>1. d \in UsbDevs
    BY DEF DevOK
  <1>2. DevOK(SetProtocol(d), tag) /\ SameId(d, SetProtocol(d))
    BY <1>1 DEF DevOK, SetProtocol, SameId, UsbDevs
  <1>3. DevOK(BotReset(d), tag) /\ SameId(d, BotReset(d)) /\ BotReset(d).st = "cbw"
    <2>1. BotReset(d) \in UsbDevs
      <3> DEFINE d1 == [d EXCEPT !.st = "cbw"]
      <3>1. d1 \in UsbDevs
        BY <1>1 DEF UsbDevs
      <3>2. BotReset(d) = [d1 EXCEPT !.left = 0]
        BY DEF BotReset
      <3> HIDE DEF d1
      <3> QED  BY <3>1, <3>2 DEF UsbDevs
    <2>2. SameId(d, BotReset(d)) /\ BotReset(d).st = "cbw"
      BY <1>1 DEF BotReset, SameId, UsbDevs
    <2>3. BotReset(d).tag = d.tag /\ BotReset(d).op = d.op /\ BotReset(d).lba = d.lba
      BY <1>1 DEF BotReset, UsbDevs
    <2> QED  BY <2>1, <2>2, <2>3 DEF DevOK
  <1>4. /\ DevOK(ClearIn(d), tag) /\ SameId(d, ClearIn(d)) /\ ClearIn(d).st = d.st
        /\ ClearIn(d).halt = d.halt \ {"in"} /\ ClearIn(d).tog.in = 0
    BY <1>1 DEF DevOK, ClearIn, SameId, UsbDevs, Togs
  <1>5. /\ DevOK(ClearOut(d), tag) /\ SameId(d, ClearOut(d)) /\ ClearOut(d).st = d.st
        /\ ClearOut(d).halt = d.halt \ {"out"} /\ ClearOut(d).tog.out = 0
        /\ ClearOut(d).tog.in = d.tog.in
    BY <1>1 DEF DevOK, ClearOut, SameId, UsbDevs, Togs
  <1> QED  BY <1>2, <1>3, <1>4, <1>5

LEMMA PortEffects ==
  ASSUME NEW d, NEW tag \in Nat, DevOK(d, tag), NEW a \in Nat
  PROVE  /\ DevOK(PortUp(d), tag) /\ PortUp(d).hc = d.hc /\ PortUp(d).kind = d.kind
         /\ PortUp(d).en /\ PortUp(d).addr = 0
         /\ DevOK(PortDown(d), tag) /\ PortDown(d).hc = d.hc /\ PortDown(d).kind = d.kind
         /\ PortDown(d).addr = 0
         /\ DevOK(Addressed(d, a), tag) /\ Addressed(d, a).hc = d.hc /\ Addressed(d, a).kind = d.kind
         /\ Addressed(d, a).en = d.en /\ Addressed(d, a).addr = a /\ Addressed(d, a).conf = d.conf
         /\ DevOK(Configured(d), tag) /\ Configured(d).hc = d.hc /\ Configured(d).kind = d.kind
         /\ Configured(d).en = d.en /\ Configured(d).addr = d.addr /\ Configured(d).conf
  <1>1. d \in UsbDevs
    BY DEF DevOK
  <1>2. [in |-> 0, out |-> 0] \in Togs
    BY DEF Togs
  <1>3. UsbDevice(d) \in UsbDevs
    BY <1>1, <1>2 DEF UsbDevice, UsbDevs, UsbOps
  <1>4. /\ UsbDevice(d).hc = d.hc /\ UsbDevice(d).kind = d.kind /\ UsbDevice(d).addr = 0
        /\ UsbDevice(d).tag = 0 /\ UsbDevice(d).op = None
    BY DEF UsbDevice
  <1>5. /\ DevOK(PortUp(d), tag) /\ PortUp(d).hc = d.hc /\ PortUp(d).kind = d.kind
        /\ PortUp(d).en /\ PortUp(d).addr = 0
    <2>1. PortUp(d) \in UsbDevs /\ PortUp(d).en
      BY <1>3, <1>4 DEF PortUp, UsbDevs
    <2>2. /\ PortUp(d).hc = d.hc /\ PortUp(d).kind = d.kind /\ PortUp(d).addr = 0
          /\ PortUp(d).tag = 0 /\ PortUp(d).op = None
      BY <1>3, <1>4 DEF PortUp, UsbDevs
    <2> QED  BY <2>1, <2>2 DEF DevOK, None
  <1>6. /\ DevOK(PortDown(d), tag) /\ PortDown(d).hc = d.hc /\ PortDown(d).kind = d.kind
        /\ PortDown(d).addr = 0
    <2>1. PortDown(d) \in UsbDevs
      BY <1>3, <1>4 DEF PortDown, UsbDevs
    <2>2. /\ PortDown(d).hc = d.hc /\ PortDown(d).kind = d.kind /\ PortDown(d).addr = 0
          /\ PortDown(d).tag = 0 /\ PortDown(d).op = None
      BY <1>3, <1>4 DEF PortDown, UsbDevs
    <2> QED  BY <2>1, <2>2 DEF DevOK, None
  <1>7. /\ DevOK(Addressed(d, a), tag) /\ Addressed(d, a).hc = d.hc /\ Addressed(d, a).kind = d.kind
        /\ Addressed(d, a).en = d.en /\ Addressed(d, a).addr = a /\ Addressed(d, a).conf = d.conf
    BY <1>1 DEF DevOK, Addressed, UsbDevs
  <1>8. /\ DevOK(Configured(d), tag) /\ Configured(d).hc = d.hc /\ Configured(d).kind = d.kind
        /\ Configured(d).en = d.en /\ Configured(d).addr = d.addr /\ Configured(d).conf
    BY <1>1, <1>2 DEF DevOK, Configured, UsbDevs
  <1> QED  BY <1>6, <1>7, <1>8, <1>5

\* How a transfer that would make d2 of the device ends.
Outcome(o, h, hc, a, d2) ==
  LET at == AnsweringIn(h, hc, a)
  IN IF at = {}
       THEN o.rc = -1 /\ o.hw = h /\ o.faults = faults
       ELSE /\ o.from = Min(at)
            /\ \/ o.rc = 0 /\ o.hw = Put(h, Min(at), d2) /\ o.faults = faults
               \/ o.rc = -1 /\ o.hw \in {h, Put(h, Min(at), d2)} /\ o.faults = faults + 1

LEMMA Outcomes ==
  ASSUME NEW hc, NEW a, NEW o
  PROVE  /\ o \in ControlXfer(hc, a, BotReset)
              => Outcome(o, hw, hc, a, BotReset(hw.dev[Min(Answering(hc, a))]))
         /\ o \in ControlXfer(hc, a, ClearIn)
              => Outcome(o, hw, hc, a, ClearIn(hw.dev[Min(Answering(hc, a))]))
         /\ o \in ControlXfer(hc, a, ClearOut)
              => Outcome(o, hw, hc, a, ClearOut(hw.dev[Min(Answering(hc, a))]))
         /\ o \in ControlXfer(hc, a, SetProtocol)
              => Outcome(o, hw, hc, a, SetProtocol(hw.dev[Min(Answering(hc, a))]))
         /\ o \in ControlXfer(hc, a, Asked)
              => Outcome(o, hw, hc, a, Asked(hw.dev[Min(Answering(hc, a))]))
         /\ o \in ControlXfer(hc, a, StepEffect)
              => Outcome(o, hw, hc, a, StepEffect(hw.dev[Min(Answering(hc, a))]))
         /\ \A h : o \in XferFrom(h, hc, a, ToOne)
                    => Outcome(o, h, hc, a, ToOne(h.dev[Min(AnsweringIn(h, hc, a))]))
  BY DEF ControlXfer, XferFrom, Ends, Errors, Outcome, Put, Answering

-----------------------------------------------------------------------------
(* The USB stack: what a step leaves alone *)

LEMMA NoEntryIs == NoEntry \in Entries
  BY DEF NoEntry, Entries, Hcs

LEMMA UsbInit == ASSUME Init, part = "usb" PROVE UsbInv
  <1>1. PICK b \in Buses : k = UsbKernel /\ hw = UsbHw(b)
    BY DEF Init, Start
  <1>2. call.pc = "boot" /\ call.op = "boot" /\ last.rc = -1
    BY DEF Init, Idle
  <1>3. b \in Seq([hc : Hcs, kind : UsbKinds])
    BY UsbAssumption DEF Hcs, UsbKinds
  <1>4. DOMAIN b = 1 .. Len(b) /\ Len(b) \in Nat
    BY <1>3
  <1>5. \A x \in DOMAIN b : DevOK(UsbDevice(b[x]), 0)
    <2>1. SUFFICES ASSUME NEW x \in DOMAIN b PROVE DevOK(UsbDevice(b[x]), 0)
      OBVIOUS
    <2>2. b[x] \in [hc : Hcs, kind : UsbKinds]
      BY <1>3, <1>4, ElementOfSeq
    <2>3. [in |-> 0, out |-> 0] \in Togs
      BY DEF Togs
    <2>4. UsbDevice(b[x]) \in UsbDevs
      BY <2>2, <2>3 DEF UsbDevice, UsbDevs, UsbOps
    <2> QED  BY <2>4 DEF DevOK, UsbDevice, None
  <1>6. DevsOK(hw, 0)
    <2>1. /\ hw = [dead |-> FALSE, dev |-> hw.dev] /\ DOMAIN hw.dev = DOMAIN b
          /\ \A x \in DOMAIN b : hw.dev[x] = UsbDevice(b[x])
      BY <1>1 DEF UsbHw
    <2>2. hw.dev = [x \in DOMAIN hw.dev |-> hw.dev[x]]
      BY <1>1 DEF UsbHw
    <2>3. hw.dev \in [DOMAIN hw.dev -> UsbDevs]
      BY <1>5, <2>1, <2>2 DEF DevOK
    <2>4. IsFiniteSet(1 .. Len(b))
      BY <1>4, FS_Interval
    <2>5. IsFiniteSet(DOMAIN hw.dev) /\ DOMAIN hw.dev \subseteq Nat
      BY <1>4, <2>1, <2>4
    <2>6. hw \in [dead : BOOLEAN, dev : [DOMAIN hw.dev -> UsbDevs]]
      <3> DEFINE f == hw.dev
      <3>1. hw = [dead |-> FALSE, dev |-> f] /\ f \in [DOMAIN f -> UsbDevs]
        BY <2>1, <2>3
      <3> HIDE DEF f
      <3>2. hw \in [dead : BOOLEAN, dev : [DOMAIN f -> UsbDevs]]
        BY <3>1
      <3> QED  BY <3>2 DEF f
    <2> QED  BY <1>5, <2>1, <2>5, <2>6 DEF DevsOK
  <1>7. k \in UsbMem /\ k.tag = 0 /\ k.ports = <<>> /\ k.dev = <<>> /\ k.disk = 0
        /\ k.port = 1 /\ k.step = 1 /\ ~k.on
    BY <1>1, NoEntryIs DEF UsbKernel, UsbMem, Togs, UsbOps
  <1>8. UsbTypes
    BY <1>6, <1>7 DEF UsbTypes
  <1>9. UsbControl
    BY <1>2, <1>7 DEF UsbControl, EnumPcs, Bots, Recovers
  <1>10. UsbTable
    BY <1>2, <1>7 DEF UsbTable, PortsOK, Scanned, Enumerating, Entered, EnumPcs
  <1>11. UsbTransfer /\ UsbProgress /\ Recovered /\ InStep
    BY <1>2, <1>7 DEF UsbTransfer, UsbProgress, Taken, Recovered, InStep
  <1> QED  BY <1>8, <1>9, <1>10, <1>11 DEF UsbInv

\* Where no command is in progress nothing is claimed of one.
LEMMA NoCommand ==
  ASSUME call'.pc \notin Bots \cup {"us_clin", "us_clout", "us_again"},
         call'.pc = "idle" => last'.rc # 0
  PROVE  UsbTransfer' /\ UsbProgress' /\ Recovered' /\ InStep'
  BY DEF Bots, UsbTransfer, UsbProgress, Taken, Recovered, InStep

\* The devices keep what identifies them.
Kept ==
  /\ DOMAIN hw'.dev = DOMAIN hw.dev
  /\ \A x \in DOMAIN hw.dev : SameId(hw.dev[x], hw'.dev[x])

LEMMA AnsweringKept ==
  ASSUME Kept, NEW hc, NEW a
  PROVE  Answering(hc, a)' = Answering(hc, a)
  BY DEF Kept, SameId, Answering, AnsweringIn

LEMMA AnsweringIs ==
  ASSUME NEW h, NEW tag, DevsOK(h, tag), NEW hc, NEW a, AnsweringIn(h, hc, a) # {}
  PROVE  LET x == Min(AnsweringIn(h, hc, a))
         IN x \in DOMAIN h.dev /\ h.dev[x].en /\ h.dev[x].hc = hc /\ h.dev[x].addr = a
  <1>1. AnsweringIn(h, hc, a) \in SUBSET Nat
    BY DEF AnsweringIn, DevsOK
  <1>2. Min(AnsweringIn(h, hc, a)) \in AnsweringIn(h, hc, a)
    BY <1>1, MinIs
  <1> QED  BY <1>2 DEF AnsweringIn

\* Once the ports are enumerated the table of devices stays.
LEMMA KeptTable ==
  ASSUME UsbTypes, UsbTable, Kept, call'.pc \notin EnumPcs, k'.ports = k.ports, k'.dev = k.dev
  PROVE  UsbTable'
  <1>1. PortsOK'
    BY DEF PortsOK, UsbTypes, UsbTable, Kept, SameId
  <1>2. Scanned' /\ Enumerating'
    BY DEF Scanned, Enumerating, EnumPcs
  <1>3. Entered'
    <2>1. SUFFICES ASSUME NEW i \in DOMAIN k.dev
                   PROVE  LET e == k.dev[i]
                              x == Target0(e.hc, e.addr)'
                          IN /\ e.addr = i /\ Answering(e.hc, e.addr)' # {}
                             /\ hw'.dev[x].conf /\ hw'.dev[x].kind = e.vid
      BY DEF Entered
    <2> DEFINE e == k.dev[i]
               x == Target0(e.hc, e.addr)
    <2>2. e.addr = i /\ Answering(e.hc, e.addr) # {} /\ hw.dev[x].conf /\ hw.dev[x].kind = e.vid
      BY DEF UsbTable, Entered
    <2>3. Answering(e.hc, e.addr)' = Answering(e.hc, e.addr)
      BY AnsweringKept
    <2>4. x \in DOMAIN hw.dev
      BY <2>2, AnsweringIs DEF Target0, Answering, UsbTypes
    <2>5. SameId(hw.dev[x], hw'.dev[x])
      BY <2>4 DEF Kept
    <2> QED  BY <2>2, <2>3, <2>5 DEF Target0, SameId
  <1> QED  BY <1>1, <1>2, <1>3 DEF UsbTable

\* The disk that a command is for.
LEMMA TargetIs ==
  ASSUME UsbTypes, UsbTable, k.disk \in DOMAIN k.dev
  PROVE  /\ Answering(Disk.hc, Disk.addr) # {} /\ Target \in DOMAIN hw.dev
         /\ Disk \in Entries /\ DevOK(hw.dev[Target], k.tag) /\ hw.dev[Target] \in UsbDevs
  <1>1. Answering(Disk.hc, Disk.addr) # {}
    BY DEF UsbTable, Entered, Disk
  <1>2. Target \in DOMAIN hw.dev
    BY <1>1, AnsweringIs DEF Target, Answering, UsbTypes
  <1>3. Disk \in Entries
    BY DEF Disk, UsbTypes, UsbMem
  <1> QED  BY <1>1, <1>2, <1>3 DEF UsbTypes, DevsOK, DevOK

LEMMA TargetKept ==
  ASSUME Kept, k'.dev = k.dev, k'.disk = k.disk
  PROVE  Disk' = Disk /\ Target' = Target
         /\ Answering(Disk.hc, Disk.addr)' = Answering(Disk.hc, Disk.addr)
  BY AnsweringKept DEF Disk, Target

LEMMA KeptSame ==
  ASSUME UNCHANGED hw
  PROVE  Kept
  BY DEF Kept, SameId

LEMMA XferStep ==
  ASSUME UsbTypes, faults \in Nat, NEW hc, NEW a, NEW d2, NEW o, Outcome(o, hw, hc, a, d2),
         Answering(hc, a) # {} => DevOK(d2, k.tag) /\ SameId(hw.dev[Target0(hc, a)], d2),
         hw' = o.hw, faults' = o.faults
  PROVE  /\ Kept /\ DevsOK(hw', k.tag) /\ faults' \in Nat
         /\ o.rc \in {0, -1}
         /\ o.rc = 0 => Answering(hc, a) # {} /\ hw'.dev[Target0(hc, a)] = d2
  <1>1. CASE Answering(hc, a) = {}
    <2>1. hw' = hw /\ faults' = faults /\ o.rc = -1
      BY <1>1 DEF Outcome, Answering
    <2> QED  BY <2>1, KeptSame DEF UsbTypes
  <1>2. CASE Answering(hc, a) # {}
    <2> DEFINE x == Target0(hc, a)
    <2>1. x \in DOMAIN hw.dev /\ DevOK(d2, k.tag) /\ SameId(hw.dev[x], d2)
      BY <1>2, AnsweringIs DEF UsbTypes, Answering, Target0
    <2>2. \/ hw' = hw /\ o.rc = -1
          \/ hw' = Put(hw, x, d2) /\ o.rc \in {0, -1}
      BY <1>2 DEF Outcome, Answering, Target0
    <2>3. faults' \in Nat
      BY <1>2 DEF Outcome, Answering
    <2>4. CASE hw' = hw /\ o.rc = -1
      BY <2>3, <2>4, KeptSame DEF UsbTypes
    <2>5. CASE hw' = Put(hw, x, d2) /\ o.rc \in {0, -1}
      <3>1. k.tag \in Nat
        BY DEF UsbTypes, UsbMem
      <3>2. DevsOK(hw, k.tag)
        BY DEF UsbTypes
      <3>3. /\ DevsOK(hw', k.tag) /\ DOMAIN hw'.dev = DOMAIN hw.dev
            /\ \A y \in DOMAIN hw.dev : hw'.dev[y] = IF y = x THEN d2 ELSE hw.dev[y]
        BY <2>1, <2>5, <3>1, <3>2, PutIs
      <3>4. Kept
        BY <2>1, <3>3 DEF Kept, SameId
      <3> QED  BY <1>2, <2>1, <2>3, <2>5, <3>3, <3>4
    <2> QED  BY <2>2, <2>4, <2>5
  <1> QED  BY <1>1, <1>2

-----------------------------------------------------------------------------
(* The USB stack: the start and the recovery of a command *)

LEMMA BotStartIs ==
  ASSUME NEW m \in UsbMem, NEW op \in UsbOps
  PROVE  LET n == BotStart(m, op)
         IN /\ n \in UsbMem /\ n.on = m.on /\ n.ports = m.ports /\ n.dev = m.dev /\ n.disk = m.disk
            /\ n.tog = m.tog /\ n.try = m.try /\ n.clean = m.clean
            /\ n.cmd = op /\ n.tag = m.tag + 1 /\ n.i = 0 /\ n.t0 = m.tog.out /\ n.got = <<>>
  <1>1. m.tog.out \in {0, 1} /\ m.tag + 1 \in Nat
    BY DEF UsbMem, Togs
  <1>2. BotStart(m, op) = [m EXCEPT !.cmd = op, !.tag = @ + 1, !.i = 0, !.t0 = m.tog.out, !.got = <<>>]
    BY DEF BotStart
  <1>3. <<>> \in Seq(InPackets)
    OBVIOUS
  <1> DEFINE m1 == [m EXCEPT !.cmd = op, !.tag = @ + 1, !.i = 0]
  <1>4. m1 \in UsbMem
    BY <1>1 DEF UsbMem
  <1>5. /\ m1.on = m.on /\ m1.ports = m.ports /\ m1.dev = m.dev /\ m1.disk = m.disk
        /\ m1.tog = m.tog /\ m1.try = m.try /\ m1.clean = m.clean
        /\ m1.cmd = op /\ m1.tag = m.tag + 1 /\ m1.i = 0
    BY DEF UsbMem
  <1>6. BotStart(m, op) = [m1 EXCEPT !.t0 = m.tog.out, !.got = <<>>]
    BY <1>2
  <1> HIDE DEF m1
  <1> QED  BY <1>1, <1>3, <1>4, <1>5, <1>6 DEF UsbMem

LEMMA StartCommand ==
  ASSUME UsbTypes, UsbTable, Kept, DevsOK(hw', k.tag), part' = part,
         NEW m \in UsbMem, m.tag = k.tag, m.ports = k.ports, m.dev = k.dev, NEW op \in UsbOps,
         k' = BotStart(m, op), call'.pc = "us_cbw"
  PROVE  UsbTypes' /\ UsbTable' /\ UsbTransfer' /\ UsbProgress'
  <1>1. /\ k' \in UsbMem /\ k'.ports = k.ports /\ k'.dev = k.dev /\ k'.tag = k.tag + 1
        /\ k'.i = 0 /\ k'.t0 = k'.tog.out /\ k'.got = <<>>
    BY BotStartIs
  <1>2. k.tag \in Nat
    BY DEF UsbTypes, UsbMem
  <1>3. UsbTypes'
    <2>1. DevsOK(hw', k'.tag)
      BY <1>1, <1>2, DevOKLater
    <2> QED  BY <1>1, <2>1 DEF UsbTypes, Kept
  <1>4. UsbTable'
    BY <1>1, KeptTable DEF EnumPcs
  <1>5. UsbTransfer'
    <2>1. \A x \in DOMAIN hw'.dev : hw'.dev[x].tag < k'.tag
      BY <1>1, <1>2 DEF DevsOK, DevOK, UsbDevs
    <2> QED  BY <1>1, <2>1 DEF UsbTransfer
  <1>6. UsbProgress'
    BY DEF UsbProgress, Taken
  <1> QED  BY <1>3, <1>4, <1>5, <1>6

LEMMA FirstTry ==
  ASSUME call'.pc = "us_cbw", k'.try = 1
  PROVE  Recovered' /\ InStep'
  BY DEF Recovered, InStep

LEMMA UsbEnterStep ==
  ASSUME BaseInv, UsbInv, Enter("usb", "us_sector")
  PROVE  UsbInv'
  <1>1. /\ part' = part /\ k' = k /\ hw' = hw /\ call'.pc = "us_sector" /\ call'.op \in {"read", "write"}
    BY EnterBase
  <1>2. UsbTypes'
    BY <1>1 DEF UsbInv, UsbTypes
  <1>3. UsbTable'
    BY <1>1, KeptSame, KeptTable DEF UsbInv, EnumPcs
  <1>4. UsbControl'
    BY <1>1 DEF UsbInv, UsbControl, EnumPcs, Bots, Recovers
  <1> QED  BY <1>1, <1>2, <1>3, <1>4, NoCommand DEF UsbInv, Bots

LEMMA usbmsc_sectorStep ==
  ASSUME BaseInv, UsbInv, usbmsc_sector
  PROVE  BaseInv' /\ UsbInv'
  <1>1. /\ call.pc = "us_sector" /\ call.op # "boot" /\ UNCHANGED <<part, media, hw, ncalls, faults>>
        /\ k \in UsbMem
    BY DEF usbmsc_sector, At, UsbInv, UsbControl, UsbTypes
  <1>2. CASE ~k.on \/ call.lba >= Cap
    <2>1. Return(-1) /\ k' = k
      BY <1>2 DEF usbmsc_sector
    <2>2. BaseInv' /\ call' = Idle
      BY <1>1, <2>1, ReturnBase DEF Return
    <2>3. last'.rc = -1 /\ call'.pc = "idle" /\ call'.op = "boot"
      BY <2>1, <2>2, IdleIs DEF Return, ReturnWith
    <2>4. UsbTypes'
      BY <1>1, <2>1 DEF UsbInv, UsbTypes
    <2>5. UsbTable'
      BY <1>1, <2>1, <2>3, KeptSame, KeptTable DEF UsbInv, EnumPcs
    <2>6. UsbControl'
      BY <1>1, <2>1, <2>3 DEF UsbInv, UsbControl, EnumPcs, Bots, Recovers
    <2> QED  BY <2>2, <2>3, <2>4, <2>5, <2>6, NoCommand DEF UsbInv, Bots
  <1>3. CASE k.on /\ call.lba < Cap
    <2>1. call.lba \in Nat /\ call.op \in {"read", "write"}
      BY <1>1 DEF BaseInv, CallType
    <2>2. call.lba \in Sectors
      BY <1>3, <2>1, BlockAssumption DEF Sectors
    <2> DEFINE m == [k EXCEPT !.try = 1, !.clean = FALSE]
    <2>3. k' = BotStart(m, call.op) /\ Goto("us_cbw") /\ last' = last
      BY <1>3, <2>1, BlockAssumption DEF usbmsc_sector
    <2>4. /\ m \in UsbMem /\ m.tag = k.tag /\ m.ports = k.ports /\ m.dev = k.dev /\ m.try = 1
          /\ m.on = k.on /\ m.disk = k.disk
      BY <1>1 DEF UsbMem
    <2> HIDE DEF m
    <2>5. /\ BaseInv' /\ call'.pc = "us_cbw" /\ call'.op = call.op /\ call'.lba = call.lba
      BY <1>1, <2>3, GotoBase DEF BaseInv
    <2>6. /\ k'.try = 1 /\ k'.cmd = call.op /\ k'.on = k.on /\ k'.disk = k.disk /\ k'.dev = k.dev
      BY <2>1, <2>3, <2>4, BotStartIs DEF UsbOps
    <2>7. UsbTypes' /\ UsbTable' /\ UsbTransfer' /\ UsbProgress'
      BY <1>1, <2>1, <2>3, <2>4, <2>5, KeptSame, StartCommand DEF UsbInv, UsbOps, UsbTypes
    <2>8. UsbControl'
      BY <1>1, <1>3, <2>2, <2>5, <2>6 DEF UsbInv, UsbControl, EnumPcs, Bots, Recovers
    <2> QED  BY <2>5, <2>6, <2>7, <2>8, FirstTry DEF UsbInv
  <1> QED
    <2>1. call.lba \in Nat /\ Cap \in Nat
      BY BlockAssumption DEF BaseInv, CallType
    <2> QED  BY <1>2, <1>3, <2>1

LEMMA usbmsc_initStep ==
  ASSUME BaseInv, UsbInv, usbmsc_init
  PROVE  BaseInv' /\ UsbInv'
  <1>1. /\ call.pc = "us_msc" /\ call.op = "boot" /\ UNCHANGED <<part, media, last, hw, ncalls, faults>>
        /\ k \in UsbMem /\ ~k.on
    BY DEF usbmsc_init, At, UsbInv, UsbControl, UsbTypes
  <1>2. CASE Candidates = {}
    <2>1. Goto("us_mouse") /\ k' = k
      BY <1>2 DEF usbmsc_init
    <2>2. BaseInv' /\ call'.pc = "us_mouse" /\ call'.op = call.op
      BY <1>1, <2>1, GotoBase DEF BaseInv
    <2>3. UsbTypes'
      BY <1>1, <2>1 DEF UsbInv, UsbTypes
    <2>4. UsbTable'
      BY <1>1, <2>1, <2>2, KeptSame, KeptTable DEF UsbInv, EnumPcs
    <2>5. UsbControl'
      BY <1>1, <2>1, <2>2 DEF UsbInv, UsbControl, EnumPcs, Bots, Recovers
    <2> QED  BY <2>2, <2>3, <2>4, <2>5, NoCommand DEF UsbInv, Bots
  <1>3. CASE Candidates # {}
    <2> DEFINE c == Min(Candidates)
               m == [k EXCEPT !.disk = c, !.try = 1]
    <2>1. k' = BotStart(m, "ready") /\ Goto("us_cbw")
      BY <1>3 DEF usbmsc_init
    <2>2. Candidates \in SUBSET Nat /\ Candidates \subseteq DOMAIN k.dev
      BY <1>1 DEF Candidates, UsbMem
    <2>3. c \in DOMAIN k.dev /\ c \in Nat
      BY <1>3, <2>2, MinIs
    <2> HIDE DEF c
    <2>4. /\ m \in UsbMem /\ m.tag = k.tag /\ m.ports = k.ports /\ m.dev = k.dev /\ m.try = 1
          /\ m.on = k.on /\ m.disk = c
      BY <1>1, <2>3 DEF UsbMem
    <2> HIDE DEF m
    <2>5. /\ BaseInv' /\ call'.pc = "us_cbw" /\ call'.op = call.op
      BY <1>1, <2>1, GotoBase DEF BaseInv
    <2>6. /\ k'.try = 1 /\ k'.cmd = "ready" /\ k'.on = k.on /\ k'.disk = c /\ k'.dev = k.dev
      BY <2>1, <2>4, BotStartIs DEF UsbOps
    <2>7. UsbTypes' /\ UsbTable' /\ UsbTransfer' /\ UsbProgress'
      BY <1>1, <2>1, <2>4, <2>5, KeptSame, StartCommand DEF UsbInv, UsbOps, UsbTypes
    <2>8. UsbControl'
      BY <1>1, <2>3, <2>5, <2>6 DEF UsbInv, UsbControl, EnumPcs, Bots, Recovers
    <2> QED  BY <2>5, <2>6, <2>7, <2>8, FirstTry DEF UsbInv
  <1> QED  BY <1>2, <1>3

LEMMA bot_againStep ==
  ASSUME BaseInv, UsbInv, bot_again
  PROVE  BaseInv' /\ UsbInv'
  <1>1. /\ call.pc = "us_again" /\ UNCHANGED <<part, media, last, hw, ncalls, faults>>
        /\ k \in UsbMem /\ k.cmd \in UsbOps /\ k.disk \in DOMAIN k.dev
    BY DEF bot_again, At, UsbInv, UsbControl, UsbTypes, UsbMem, Recovers
  <1> DEFINE m == [k EXCEPT !.tog = TogsReset, !.try = 2]
  <1>2. k' = BotStart(m, k.cmd) /\ Goto("us_cbw")
    BY DEF bot_again
  <1>3. /\ m \in UsbMem /\ m.tag = k.tag /\ m.ports = k.ports /\ m.dev = k.dev /\ m.tog = TogsReset
        /\ m.on = k.on /\ m.disk = k.disk /\ m.clean = k.clean
    BY <1>1 DEF UsbMem, TogsReset, Togs
  <1> HIDE DEF m
  <1>4. /\ BaseInv' /\ call'.pc = "us_cbw" /\ call'.op = call.op /\ call'.lba = call.lba
    BY <1>1, <1>2, GotoBase DEF BaseInv
  <1>5. /\ k'.cmd = k.cmd /\ k'.on = k.on /\ k'.disk = k.disk /\ k'.dev = k.dev /\ k'.tog = TogsReset
        /\ k'.clean = k.clean
    BY <1>1, <1>2, <1>3, BotStartIs
  <1>6. UsbTypes' /\ UsbTable' /\ UsbTransfer' /\ UsbProgress'
    BY <1>1, <1>2, <1>3, <1>4, KeptSame, StartCommand DEF UsbInv, UsbTypes
  <1>7. UsbControl'
    BY <1>1, <1>4, <1>5 DEF UsbInv, UsbControl, EnumPcs, Bots, Recovers
  <1>8. k.clean /\ k.disk # 0 => Answering(Disk.hc, Disk.addr)' # {} /\ Agree(hw.dev[Target])'
    <2>1. Disk' = Disk /\ Target' = Target /\ Answering(Disk.hc, Disk.addr)' = Answering(Disk.hc, Disk.addr)
      BY <1>1, <1>5, KeptSame, TargetKept
    <2>2. SUFFICES ASSUME k.clean, k.disk # 0
                   PROVE  Answering(Disk.hc, Disk.addr)' # {} /\ Agree(hw.dev[Target])'
      OBVIOUS
    <2> DEFINE d == hw.dev[Target]
    <2>3. /\ Answering(Disk.hc, Disk.addr) # {} /\ d.st = "cbw" /\ d.tog.in = 0 /\ d.halt = {} /\ d.tog.out = 0
      BY <1>1, <2>2 DEF UsbInv, Recovered
    <2>4. d.tog \in Togs
      BY <1>1, TargetIs DEF UsbInv, UsbDevs
    <2>5. d.tog = TogsReset
      BY <2>3, <2>4 DEF Togs, TogsReset
    <2> QED  BY <1>1, <1>5, <2>1, <2>3, <2>5 DEF Agree
  <1>9. Recovered' /\ InStep'
    BY <1>4, <1>5, <1>8 DEF Recovered, InStep
  <1> QED  BY <1>4, <1>6, <1>7, <1>9 DEF UsbInv

\* A request of the recovery: d2 is what it makes of the disk.
LEMMA RecoverStep ==
  ASSUME BaseInv, UsbInv, call.pc \in Recovers, NEW next \in Recovers, Goto(next),
         NEW o, NEW d2, Outcome(o, hw, Disk.hc, Disk.addr, d2),
         DevOK(d2, k.tag) /\ SameId(hw.dev[Target], d2),
         hw' = o.hw, faults' = o.faults, k' = [k EXCEPT !.clean = @ /\ o.rc = 0],
         UNCHANGED <<part, media, last, ncalls>>
  PROVE  /\ BaseInv' /\ UsbTypes' /\ UsbControl' /\ UsbTable' /\ UsbTransfer' /\ UsbProgress' /\ InStep'
         /\ call'.pc = next /\ Disk' = Disk /\ Target' = Target
         /\ Answering(Disk.hc, Disk.addr)' = Answering(Disk.hc, Disk.addr)
         /\ k'.clean => k.clean /\ Answering(Disk.hc, Disk.addr) # {} /\ hw'.dev[Target] = d2
         /\ k'.disk = k.disk
  <1>1. k \in UsbMem /\ k.disk \in DOMAIN k.dev /\ Target = Target0(Disk.hc, Disk.addr)
    BY DEF UsbInv, UsbTypes, UsbControl, Target, Target0
  <1>2. /\ Kept /\ DevsOK(hw', k.tag) /\ faults' \in Nat /\ o.rc \in {0, -1}
        /\ o.rc = 0 => Answering(Disk.hc, Disk.addr) # {} /\ hw'.dev[Target] = d2
    BY <1>1, XferStep DEF UsbInv, BaseInv
  <1>3. /\ BaseInv' /\ call'.pc = next /\ call'.op = call.op /\ call'.lba = call.lba
    BY <1>2, GotoBase DEF BaseInv
  <1>4. /\ k' \in UsbMem /\ k'.tag = k.tag /\ k'.ports = k.ports /\ k'.dev = k.dev /\ k'.disk = k.disk
        /\ k'.on = k.on /\ k'.cmd = k.cmd
    <2>1. (k.clean /\ o.rc = 0) \in BOOLEAN
      OBVIOUS
    <2> DEFINE c == k.clean /\ o.rc = 0
    <2>2. k' = [k EXCEPT !.clean = c]
      BY <1>1 DEF UsbMem
    <2> HIDE DEF c
    <2> QED  BY <1>1, <2>1, <2>2 DEF UsbMem, c
  <1>5. k'.clean => k.clean /\ o.rc = 0
    <2> DEFINE c == k.clean /\ o.rc = 0
    <2>1. k'.clean = c
      BY <1>1 DEF UsbMem
    <2> QED  BY <2>1
  <1>6. UsbTypes'
    BY <1>2, <1>4 DEF UsbInv, UsbTypes, Kept
  <1>7. UsbTable'
    BY <1>2, <1>3, <1>4, KeptTable DEF UsbInv, EnumPcs, Recovers
  <1>8. UsbControl'
    BY <1>3, <1>4 DEF UsbInv, UsbControl, EnumPcs, Bots, Recovers
  <1>9. UsbTransfer' /\ UsbProgress' /\ InStep'
    BY <1>3 DEF UsbTransfer, UsbProgress, Taken, InStep, Recovers
  <1>10. Disk' = Disk /\ Target' = Target /\ Answering(Disk.hc, Disk.addr)' = Answering(Disk.hc, Disk.addr)
    BY <1>2, <1>4, TargetKept
  <1> QED  BY <1>2, <1>3, <1>4, <1>5, <1>6, <1>7, <1>8, <1>9, <1>10

LEMMA recover_resetStep ==
  ASSUME BaseInv, UsbInv, recover_reset
  PROVE  BaseInv' /\ UsbInv'
  <1>1. /\ call.pc = "us_reset" /\ Goto("us_clin") /\ UNCHANGED <<part, media, last, ncalls>>
        /\ k.disk \in DOMAIN k.dev
    BY DEF recover_reset, Recover, At, UsbInv, UsbControl, Recovers
  <1>2. PICK o \in ControlXfer(Disk.hc, Disk.addr, BotReset) :
          hw' = o.hw /\ faults' = o.faults /\ k' = [k EXCEPT !.clean = @ /\ o.rc = 0]
    BY DEF recover_reset, Recover
  <1> DEFINE d2 == BotReset(hw.dev[Target])
  <1>3. Outcome(o, hw, Disk.hc, Disk.addr, d2)
    BY Outcomes DEF Target
  <1>4. DevOK(d2, k.tag) /\ SameId(hw.dev[Target], d2) /\ d2.st = "cbw"
    BY <1>1, TargetIs, EffectsOK DEF UsbInv, UsbTypes, UsbMem
  <1> HIDE DEF d2
  <1>5. /\ BaseInv' /\ UsbTypes' /\ UsbControl' /\ UsbTable' /\ UsbTransfer' /\ UsbProgress' /\ InStep'
        /\ call'.pc = "us_clin" /\ Disk' = Disk /\ Target' = Target
        /\ Answering(Disk.hc, Disk.addr)' = Answering(Disk.hc, Disk.addr)
        /\ k'.clean => k.clean /\ Answering(Disk.hc, Disk.addr) # {} /\ hw'.dev[Target] = d2
    BY <1>1, <1>2, <1>3, <1>4, RecoverStep DEF Recovers
  <1>6. Recovered'
    BY <1>4, <1>5 DEF Recovered
  <1> QED  BY <1>5, <1>6 DEF UsbInv

LEMMA recover_inStep ==
  ASSUME BaseInv, UsbInv, recover_in
  PROVE  BaseInv' /\ UsbInv'
  <1>1. /\ call.pc = "us_clin" /\ Goto("us_clout") /\ UNCHANGED <<part, media, last, ncalls>>
        /\ k.disk \in DOMAIN k.dev
    BY DEF recover_in, Recover, At, UsbInv, UsbControl, Recovers
  <1>2. PICK o \in ControlXfer(Disk.hc, Disk.addr, ClearIn) :
          hw' = o.hw /\ faults' = o.faults /\ k' = [k EXCEPT !.clean = @ /\ o.rc = 0]
    BY DEF recover_in, Recover
  <1> DEFINE d2 == ClearIn(hw.dev[Target])
  <1>3. Outcome(o, hw, Disk.hc, Disk.addr, d2)
    BY Outcomes DEF Target
  <1>4. /\ DevOK(d2, k.tag) /\ SameId(hw.dev[Target], d2) /\ d2.st = hw.dev[Target].st
        /\ "in" \notin d2.halt /\ d2.tog.in = 0
    <2>1. DevOK(hw.dev[Target], k.tag) /\ k.tag \in Nat
      BY <1>1, TargetIs DEF UsbInv, UsbTypes, UsbMem
    <2>2. /\ DevOK(d2, k.tag) /\ SameId(hw.dev[Target], d2) /\ d2.st = hw.dev[Target].st
          /\ d2.halt = hw.dev[Target].halt \ {"in"} /\ d2.tog.in = 0
      BY <2>1, EffectsOK
    <2> QED  BY <2>2
  <1> HIDE DEF d2
  <1>5. /\ BaseInv' /\ UsbTypes' /\ UsbControl' /\ UsbTable' /\ UsbTransfer' /\ UsbProgress' /\ InStep'
        /\ call'.pc = "us_clout" /\ Disk' = Disk /\ Target' = Target
        /\ Answering(Disk.hc, Disk.addr)' = Answering(Disk.hc, Disk.addr)
        /\ k'.clean => k.clean /\ Answering(Disk.hc, Disk.addr) # {} /\ hw'.dev[Target] = d2
        /\ k'.disk = k.disk
    BY <1>1, <1>2, <1>3, <1>4, RecoverStep DEF Recovers
  <1>6. k.clean /\ k.disk # 0 => hw.dev[Target].st = "cbw"
    BY <1>1 DEF UsbInv, Recovered
  <1>7. Recovered'
    BY <1>4, <1>5, <1>6 DEF Recovered
  <1> QED  BY <1>5, <1>7 DEF UsbInv

LEMMA recover_outStep ==
  ASSUME BaseInv, UsbInv, recover_out
  PROVE  BaseInv' /\ UsbInv'
  <1>1. /\ call.pc = "us_clout" /\ Goto("us_again") /\ UNCHANGED <<part, media, last, ncalls>>
        /\ k.disk \in DOMAIN k.dev
    BY DEF recover_out, Recover, At, UsbInv, UsbControl, Recovers
  <1>2. PICK o \in ControlXfer(Disk.hc, Disk.addr, ClearOut) :
          hw' = o.hw /\ faults' = o.faults /\ k' = [k EXCEPT !.clean = @ /\ o.rc = 0]
    BY DEF recover_out, Recover
  <1> DEFINE d2 == ClearOut(hw.dev[Target])
  <1>3. Outcome(o, hw, Disk.hc, Disk.addr, d2)
    BY Outcomes DEF Target
  <1>4. /\ DevOK(d2, k.tag) /\ SameId(hw.dev[Target], d2) /\ d2.st = hw.dev[Target].st
        /\ d2.halt = hw.dev[Target].halt \ {"out"} /\ d2.tog.out = 0
        /\ d2.tog.in = hw.dev[Target].tog.in /\ hw.dev[Target].halt \subseteq {"in", "out"}
    BY <1>1, TargetIs, EffectsOK DEF UsbInv, UsbTypes, UsbMem, UsbDevs
  <1> HIDE DEF d2
  <1>5. /\ BaseInv' /\ UsbTypes' /\ UsbControl' /\ UsbTable' /\ UsbTransfer' /\ UsbProgress' /\ InStep'
        /\ call'.pc = "us_again" /\ Disk' = Disk /\ Target' = Target
        /\ Answering(Disk.hc, Disk.addr)' = Answering(Disk.hc, Disk.addr)
        /\ k'.clean => k.clean /\ Answering(Disk.hc, Disk.addr) # {} /\ hw'.dev[Target] = d2
        /\ k'.disk = k.disk
    BY <1>1, <1>2, <1>3, <1>4, RecoverStep DEF Recovers
  <1>6. k.clean /\ k.disk # 0
          => hw.dev[Target].st = "cbw" /\ "in" \notin hw.dev[Target].halt /\ hw.dev[Target].tog.in = 0
    BY <1>1 DEF UsbInv, Recovered
  <1>7. Recovered'
    BY <1>4, <1>5, <1>6 DEF Recovered
  <1> QED  BY <1>5, <1>7 DEF UsbInv

-----------------------------------------------------------------------------
(* The USB stack: the packets of a command *)

LEMMA PutKept ==
  ASSUME UsbTypes, Target \in DOMAIN hw.dev, NEW d2, DevOK(d2, k.tag), SameId(hw.dev[Target], d2),
         hw' = Put(hw, Target, d2)
  PROVE  /\ Kept /\ DevsOK(hw', k.tag) /\ hw'.dev[Target] = d2
         /\ \A x \in DOMAIN hw.dev : x # Target => hw'.dev[x] = hw.dev[x]
  <1>1. k.tag \in Nat /\ DevsOK(hw, k.tag)
    BY DEF UsbTypes, UsbMem
  <1>2. /\ DevsOK(hw', k.tag) /\ DOMAIN hw'.dev = DOMAIN hw.dev
        /\ \A y \in DOMAIN hw.dev : hw'.dev[y] = IF y = Target THEN d2 ELSE hw.dev[y]
    BY <1>1, PutIs
  <1>3. Kept
    BY <1>2 DEF Kept, SameId
  <1> QED  BY <1>2, <1>3

\* A parity bit and the next one.
LEMMA NextBit ==
  ASSUME NEW n \in Nat
  PROVE  n % 2 \in {0, 1} /\ (n + 1) % 2 = 1 - (n % 2) /\ (n < 2 => n % 2 = n)
  OBVIOUS

\* What is known in the middle of a command.
LEMMA InCommand ==
  ASSUME BaseInv, UsbInv, call.pc \in Bots
  PROVE  /\ k \in UsbMem /\ k.disk \in DOMAIN k.dev /\ k.disk \in Nat /\ k.disk # 0
         /\ Target \in DOMAIN hw.dev /\ hw.dev[Target] \in UsbDevs /\ DevOK(hw.dev[Target], k.tag)
         /\ Answering(Disk.hc, Disk.addr) # {}
         /\ Disk.hc \in Hcs /\ Ep \in {"in", "out"} /\ HostTog \in {0, 1}
         /\ k.cmd \in {"ready", "cap", "read", "write"}
         /\ DataPackets(k.cmd) \in 0 .. 2 /\ Count \in 0 .. 2
         /\ k.cmd \in {"read", "write"} => DataPackets(k.cmd) \in 1 .. 2
         /\ k.cmd \in {"read", "write"} => call.op = k.cmd /\ call.lba \in Sectors
         /\ k.cmd = "ready" => DataPackets(k.cmd) = 0
         /\ k.cmd \in {"ready", "cap"} => call.op = "boot" /\ ~k.on
         /\ call.val \in Vals /\ call.buf \in Contents /\ call.op \in {"boot", "read", "write"}
  <1>1. /\ k \in UsbMem /\ k.disk \in DOMAIN k.dev
        /\ call.val \in Vals /\ call.buf \in Contents /\ call.op \in {"boot", "read", "write"}
    BY DEF UsbInv, UsbTypes, UsbControl, BaseInv, CallType
  <1>2. /\ Target \in DOMAIN hw.dev /\ hw.dev[Target] \in UsbDevs /\ DevOK(hw.dev[Target], k.tag)
        /\ Answering(Disk.hc, Disk.addr) # {} /\ Disk \in Entries
    BY <1>1, TargetIs DEF UsbInv
  <1>3. Disk.hc \in Hcs
    BY <1>2 DEF Entries
  <1>4. k.disk \in Nat /\ k.disk # 0
    <2>1. DOMAIN k.dev = 1 .. Len(k.dev)
      BY <1>1 DEF UsbMem
    <2> QED  BY <1>1, <2>1 DEF UsbMem
  <1>5. /\ k.cmd \in {"ready", "cap", "read", "write"}
        /\ k.cmd \in {"read", "write"} => call.op = k.cmd /\ call.lba \in Sectors
        /\ k.cmd \in {"ready", "cap"} => call.op = "boot" /\ ~k.on
    BY <1>1 DEF UsbInv, UsbControl
  <1>6. /\ DataPackets(k.cmd) \in 0 .. 2
        /\ k.cmd \in {"read", "write"} => DataPackets(k.cmd) \in 1 .. 2
        /\ k.cmd = "ready" => DataPackets(k.cmd) = 0
    BY <1>3, <1>5 DEF DataPackets, Packets, Hcs
  <1>7. Count \in 0 .. 2
    BY <1>6 DEF Count
  <1>8. Ep \in {"in", "out"}
    BY DEF Ep
  <1>9. HostTog \in {0, 1}
    <2>1. k.t0 + k.i \in Nat
      BY <1>1 DEF UsbMem
    <2> QED  BY <2>1, NextBit DEF HostTog
  <1> QED  BY <1>1, <1>2, <1>3, <1>4, <1>5, <1>6, <1>7, <1>8, <1>9

\* A failed call, whatever happened to the medium.
LEMMA FailBase ==
  ASSUME BaseInv, Return(-1), media' \in [Sectors -> Vals], faults' \in Nat, UNCHANGED <<part, ncalls>>
  PROVE  BaseInv' /\ call' = Idle /\ last'.rc = -1
  <1>1. call' = Idle /\ last'.rc = -1 /\ last' \in [rc : {0, -1}, good : BOOLEAN, astray : BOOLEAN]
    BY DEF Return, ReturnWith, BaseInv, CallType
  <1>2. call'.op = "boot" /\ ~call'.astray
    BY <1>1 DEF Idle
  <1> QED  BY <1>1, <1>2, IdleIs DEF BaseInv, SuccessMeansDone, Strays

\* The memory of the driver after a transfer of one endpoint.
LEMMA TogSet ==
  ASSUME NEW m \in UsbMem, NEW e \in {"in", "out"}, NEW b \in {0, 1}
  PROVE  LET n == [m EXCEPT !.tog[e] = b]
         IN /\ n \in UsbMem /\ n.tog = [m.tog EXCEPT ![e] = b] /\ n.tog \in Togs
            /\ n = [m EXCEPT !.tog = n.tog]
  <1> DEFINE tg == [m.tog EXCEPT ![e] = b]
  <1>1. tg \in Togs
    BY DEF UsbMem, Togs
  <1>2. [m EXCEPT !.tog[e] = b] = [m EXCEPT !.tog = tg]
    OBVIOUS
  <1> HIDE DEF tg
  <1>3. [m EXCEPT !.tog = tg] \in UsbMem /\ [m EXCEPT !.tog = tg].tog = tg
    BY <1>1 DEF UsbMem
  <1> QED  BY <1>1, <1>2, <1>3 DEF tg

LEMMA BotFailedStep ==
  ASSUME BaseInv, UsbInv, call.pc \in Bots, NEW nn \in Nat, NEW ok \in BOOLEAN, BotFailed(nn, ok),
         Kept, DevsOK(hw', k.tag),
         media' \in [Sectors -> Vals], faults' \in Nat, UNCHANGED <<part, ncalls>>
  PROVE  BaseInv' /\ UsbInv'
  <1> DEFINE b == TogAfter(Disk.hc, nn, ok)
             tg == [k.tog EXCEPT ![Ep] = b]
             kk == [k EXCEPT !.tog[Ep] = b, !.i = 0, !.got = <<>>]
  <1>1. /\ k \in UsbMem /\ k.disk \in DOMAIN k.dev /\ k.disk \in Nat /\ Ep \in {"in", "out"}
        /\ k.cmd \in {"ready", "cap", "read", "write"}
        /\ k.cmd \in {"read", "write"} => call.op = k.cmd
        /\ k.cmd \in {"ready", "cap"} => call.op = "boot" /\ ~k.on
    BY InCommand
  <1>2. b \in {0, 1}
    <2>1. k.t0 + nn \in Nat /\ k.t0 \in {0, 1}
      BY <1>1 DEF UsbMem
    <2> QED  BY <2>1, NextBit DEF TogAfter
  <1>3. /\ kk \in UsbMem /\ kk.tag = k.tag /\ kk.ports = k.ports /\ kk.dev = k.dev /\ kk.disk = k.disk
        /\ kk.on = k.on /\ kk.cmd = k.cmd
    <2> DEFINE n == [k EXCEPT !.tog[Ep] = b]
    <2>1. n \in UsbMem
      BY <1>1, <1>2, TogSet
    <2>2. /\ n.tag = k.tag /\ n.ports = k.ports /\ n.dev = k.dev /\ n.disk = k.disk
          /\ n.on = k.on /\ n.cmd = k.cmd
      BY <1>1 DEF UsbMem
    <2>3. kk = [n EXCEPT !.i = 0, !.got = <<>>] /\ <<>> \in Seq(InPackets)
      OBVIOUS
    <2> HIDE DEF n
    <2> QED  BY <2>1, <2>2, <2>3 DEF UsbMem
  <1> HIDE DEF b, tg
  <1>4. \/ k' = [kk EXCEPT !.clean = TRUE] /\ Goto("us_reset") /\ UNCHANGED last
        \/ call.op = "boot" /\ k' = [kk EXCEPT !.step = k.disk + 1, !.disk = 0] /\ Goto("us_msc") /\ UNCHANGED last
        \/ call.op # "boot" /\ k' = kk /\ Return(-1)
    BY DEF BotFailed, b
  <1> HIDE DEF kk
  <1>5. CASE k' = [kk EXCEPT !.clean = TRUE] /\ Goto("us_reset") /\ UNCHANGED last
    <2>1. /\ k' \in UsbMem /\ k'.tag = k.tag /\ k'.ports = k.ports /\ k'.dev = k.dev /\ k'.disk = k.disk
          /\ k'.on = k.on /\ k'.cmd = k.cmd
      BY <1>3, <1>5 DEF UsbMem
    <2>2. BaseInv' /\ call'.pc = "us_reset" /\ call'.op = call.op /\ call'.lba = call.lba
      BY <1>5, GotoBase
    <2>3. UsbTypes'
      BY <2>1 DEF UsbInv, UsbTypes, Kept
    <2>4. UsbTable'
      BY <2>1, <2>2, KeptTable DEF UsbInv, EnumPcs
    <2>5. UsbControl'
      BY <1>5, <2>1, <2>2 DEF UsbInv, UsbControl, EnumPcs, Bots, Recovers
    <2> QED  BY <2>2, <2>3, <2>4, <2>5, NoCommand DEF UsbInv, Bots
  <1>6. CASE call.op = "boot" /\ k' = [kk EXCEPT !.step = k.disk + 1, !.disk = 0] /\ Goto("us_msc") /\ UNCHANGED last
    <2>1. /\ k' \in UsbMem /\ k'.tag = k.tag /\ k'.ports = k.ports /\ k'.dev = k.dev
          /\ k'.on = k.on
      <3> DEFINE s == k.disk + 1
      <3>1. s \in Nat /\ k' = [kk EXCEPT !.step = s, !.disk = 0]
        BY <1>1, <1>6
      <3> HIDE DEF s
      <3>2. k' \in UsbMem
        BY <1>3, <3>1 DEF UsbMem
      <3>3. k'.tag = kk.tag /\ k'.ports = kk.ports /\ k'.dev = kk.dev /\ k'.on = kk.on
        BY <1>3, <3>1 DEF UsbMem
      <3> QED  BY <1>3, <3>2, <3>3
    <2>2. BaseInv' /\ call'.pc = "us_msc" /\ call'.op = call.op
      BY <1>6, GotoBase
    <2>3. UsbTypes'
      BY <2>1 DEF UsbInv, UsbTypes, Kept
    <2>4. UsbTable'
      BY <2>1, <2>2, KeptTable DEF UsbInv, EnumPcs
    <2>5. UsbControl'
      BY <1>1, <1>6, <2>1, <2>2 DEF UsbInv, UsbControl, EnumPcs, Bots, Recovers
    <2> QED  BY <2>2, <2>3, <2>4, <2>5, NoCommand DEF UsbInv, Bots
  <1>7. CASE call.op # "boot" /\ k' = kk /\ Return(-1)
    <2>1. BaseInv' /\ call' = Idle /\ last'.rc = -1
      BY <1>7, FailBase
    <2>2. call'.pc = "idle" /\ call'.op = "boot"
      BY <2>1, IdleIs
    <2>3. UsbTypes'
      BY <1>3, <1>7 DEF UsbInv, UsbTypes, Kept
    <2>4. UsbTable'
      BY <1>3, <1>7, <2>2, KeptTable DEF UsbInv, EnumPcs
    <2>5. UsbControl'
      BY <1>1, <1>3, <1>7, <2>1, <2>2 DEF UsbInv, UsbControl, EnumPcs, Bots, Recovers
    <2> QED  BY <2>1, <2>2, <2>3, <2>4, <2>5, NoCommand DEF UsbInv, Bots
  <1> QED  BY <1>4, <1>5, <1>6, <1>7

\* What an OUT packet makes of the disk.
LEMMA AfterOutIs ==
  ASSUME BaseInv, UsbInv, call.pc \in Bots
  PROVE  LET d == hw.dev[Target]
             d2 == AfterOut(d)
         IN /\ DevOK(d2, k.tag) /\ SameId(d, d2) /\ d2.halt \subseteq {"in", "out"}
            /\ \/ d2 = d /\ HostTog # d.tog.out
               \/ /\ HostTog = d.tog.out /\ d.st = "cbw" /\ call.pc = "us_cbw"
                  /\ d2.tog.out = 1 - HostTog /\ d2.op = k.cmd /\ d2.lba = call.lba /\ d2.tag = k.tag
                  /\ ~d2.bad /\ d2.left = DataPackets(k.cmd) /\ d2.halt = d.halt /\ d2.fifo = None
                  /\ k.cmd = "read" => d2.st = "in"
                  /\ k.cmd = "write" => d2.st = "out"
               \/ /\ HostTog = d.tog.out /\ d.st = "out" /\ call.pc = "us_data"
                  /\ d2.tog.out = 1 - HostTog /\ d2.op = d.op /\ d2.lba = d.lba /\ d2.tag = d.tag
                  /\ d2.bad = d.bad /\ d2.left = d.left - 1 /\ d2.halt = d.halt /\ d2.fifo = call.val
                  /\ d2.st = IF d.left = 1 THEN "csw" ELSE "out"
               \/ /\ d.st = "out" /\ call.pc = "us_cbw" /\ d2.bad /\ d2.tag = d.tag
               \/ /\ d2.st = d.st /\ d2.tag = d.tag /\ "out" \in d2.halt
  <1> DEFINE d == hw.dev[Target]
             d2 == AfterOut(d)
  <1>1. /\ k \in UsbMem /\ d \in UsbDevs /\ DevOK(d, k.tag) /\ HostTog \in {0, 1}
        /\ k.cmd \in UsbOps /\ k.tag \in Nat /\ DataPackets(k.cmd) \in Int
        /\ k.cmd \in {"read", "write"} => call.lba \in Sectors
        /\ call.lba \in Nat /\ call.val \in Vals
    BY InCommand DEF UsbOps, UsbMem, BaseInv, CallType
  <1> DEFINE f == [d.tog EXCEPT !.out = 1 - HostTog]
  <1>2. f \in Togs /\ f.out = 1 - HostTog /\ d.halt \subseteq {"in", "out"} /\ d.left - 1 \in Int
    BY <1>1 DEF UsbDevs, Togs
  <1> HIDE DEF d, f
  <1>3. CASE HostTog # d.tog.out
    <2>1. d2 = d
      BY <1>3 DEF AfterOut
    <2> QED  BY <1>1, <1>2, <1>3, <2>1 DEF SameId, d
  <1>4. CASE HostTog = d.tog.out /\ d.st = "cbw" /\ call.pc = "us_cbw"
    <2> DEFINE s == CASE k.cmd = "ready" -> "csw" [] k.cmd = "write" -> "out" [] OTHER -> "in"
               d1 == [d EXCEPT !.tog = f, !.op = k.cmd, !.lba = call.lba, !.tag = k.tag]
    <2>1. s \in {"cbw", "in", "out", "csw"} /\ (k.cmd = "read" => s = "in") /\ (k.cmd = "write" => s = "out")
      OBVIOUS
    <2> HIDE DEF s
    <2>2. d1 \in UsbDevs
      BY <1>1, <1>2 DEF UsbDevs
    <2>3. /\ SameId(d, d1) /\ d1.tog = f /\ d1.op = k.cmd /\ d1.lba = call.lba /\ d1.tag = k.tag
          /\ d1.halt = d.halt
      BY <1>1 DEF UsbDevs, SameId
    <2>4. d2 = [d1 EXCEPT !.bad = FALSE, !.fifo = None, !.left = DataPackets(k.cmd), !.st = s]
      BY <1>4 DEF AfterOut, Flip, f, s
    <2> HIDE DEF d1, d2
    <2>5. d2 \in UsbDevs
      BY <1>1, <2>1, <2>2, <2>4 DEF UsbDevs
    <2>6. /\ SameId(d1, d2) /\ d2.tog = d1.tog /\ d2.op = d1.op /\ d2.lba = d1.lba /\ d2.tag = d1.tag
          /\ d2.halt = d1.halt /\ ~d2.bad /\ d2.fifo = None /\ d2.left = DataPackets(k.cmd) /\ d2.st = s
      BY <2>2, <2>4 DEF UsbDevs, SameId
    <2>7. DevOK(d2, k.tag)
      BY <1>1, <2>3, <2>5, <2>6 DEF DevOK
    <2> QED  BY <1>2, <1>4, <2>1, <2>3, <2>6, <2>7 DEF SameId, d, d2
  <1>5. CASE HostTog = d.tog.out /\ d.st = "out" /\ call.pc = "us_data"
    <2> DEFINE s == IF d.left = 1 THEN "csw" ELSE "out"
               n == d.left - 1
    <2>1. s \in {"cbw", "in", "out", "csw"} /\ n \in Int
      BY <1>2
    <2>2. d2 = [d EXCEPT !.tog = f, !.left = n, !.fifo = call.val, !.st = s]
      BY <1>1, <1>5 DEF AfterOut, Flip, f, UsbDevs
    <2> HIDE DEF s, n, d2
    <2>3. d2 \in UsbDevs
      BY <1>1, <1>2, <2>1, <2>2 DEF UsbDevs
    <2>4. /\ SameId(d, d2) /\ d2.tog = f /\ d2.op = d.op /\ d2.lba = d.lba /\ d2.tag = d.tag
          /\ d2.halt = d.halt /\ d2.bad = d.bad /\ d2.fifo = call.val /\ d2.left = n /\ d2.st = s
      BY <1>1, <2>2 DEF UsbDevs, SameId
    <2>5. DevOK(d2, k.tag)
      BY <1>1, <2>3, <2>4 DEF DevOK
    <2> QED  BY <1>2, <1>5, <2>4, <2>5 DEF d, d2, s, n
  <1>6. CASE HostTog = d.tog.out /\ d.st = "out" /\ call.pc = "us_cbw"
    <2>1. d2 = [d EXCEPT !.tog = f, !.bad = TRUE, !.st = "csw"]
      BY <1>6 DEF AfterOut, Flip, f
    <2> HIDE DEF d2
    <2>2. d2 \in UsbDevs /\ SameId(d, d2) /\ d2.bad
      BY <1>1, <1>2, <2>1 DEF UsbDevs, SameId
    <2>3. d2.tag = d.tag /\ d2.op = d.op /\ d2.lba = d.lba /\ d2.halt = d.halt
      BY <1>1, <2>1 DEF UsbDevs
    <2>4. DevOK(d2, k.tag)
      BY <1>1, <2>2, <2>3 DEF DevOK
    <2> QED  BY <1>2, <1>6, <2>2, <2>3, <2>4 DEF d, d2
  <1>7. CASE /\ ~(HostTog # d.tog.out)
             /\ ~(HostTog = d.tog.out /\ d.st = "cbw" /\ call.pc = "us_cbw")
             /\ ~(HostTog = d.tog.out /\ d.st = "out" /\ call.pc = "us_data")
             /\ ~(HostTog = d.tog.out /\ d.st = "out" /\ call.pc = "us_cbw")
    <2> DEFINE ht == d.halt \cup {"out"}
    <2>1. d2 = [d EXCEPT !.halt = ht]
      BY <1>7 DEF AfterOut
    <2>2. ht \in SUBSET {"in", "out"} /\ "out" \in ht
      BY <1>2
    <2> HIDE DEF d2, ht
    <2>3. d2 \in UsbDevs /\ SameId(d, d2)
      BY <1>1, <2>1, <2>2 DEF UsbDevs, SameId
    <2>4. d2.tag = d.tag /\ d2.op = d.op /\ d2.lba = d.lba /\ d2.halt = ht /\ d2.st = d.st
      BY <1>1, <2>1 DEF UsbDevs
    <2>5. DevOK(d2, k.tag)
      BY <1>1, <2>3, <2>4 DEF DevOK
    <2> QED  BY <2>2, <2>3, <2>4, <2>5 DEF d, d2
  <1> QED  BY <1>3, <1>4, <1>5, <1>6, <1>7

\* What an IN packet makes of it.
LEMMA AfterInIs ==
  ASSUME NEW d \in UsbDevs, NEW tag, DevOK(d, tag), d.st \in {"in", "csw"}
  PROVE  LET d2 == AfterIn(d)
         IN /\ DevOK(d2, tag) /\ SameId(d, d2)
            /\ d2.tog \in Togs /\ d2.tog.in = 1 - d.tog.in /\ d2.tog.out = d.tog.out
            /\ d2.op = d.op /\ d2.lba = d.lba /\ d2.tag = d.tag /\ d2.bad = d.bad /\ d2.halt = d.halt
            /\ d.st = "in" => d2.left = d.left - 1 /\ d2.st = (IF d.left = 1 THEN "csw" ELSE "in")
            /\ d.st = "csw" => d2.st = "cbw"
  <1> DEFINE d2 == AfterIn(d)
             f == [d.tog EXCEPT !.in = 1 - d.tog.in]
             n == d.left - 1
             s == IF d.left = 1 THEN "csw" ELSE "in"
  <1>1. f \in Togs /\ f.in = 1 - d.tog.in /\ f.out = d.tog.out /\ n \in Int
        /\ s \in {"cbw", "in", "out", "csw"}
    BY DEF UsbDevs, Togs
  <1>2. CASE d.st = "in"
    <2>1. d2 = [d EXCEPT !.tog = f, !.left = n, !.st = s]
      BY <1>2 DEF AfterIn, Flip, UsbDevs, Togs
    <2> HIDE DEF d2, f, n, s
    <2>2. d2 \in UsbDevs
      BY <1>1, <2>1 DEF UsbDevs
    <2>3. /\ SameId(d, d2) /\ d2.tog = f /\ d2.op = d.op /\ d2.lba = d.lba /\ d2.tag = d.tag
          /\ d2.bad = d.bad /\ d2.halt = d.halt /\ d2.left = n /\ d2.st = s
      BY <2>1 DEF UsbDevs, SameId
    <2>4. DevOK(d2, tag)
      BY <2>2, <2>3 DEF DevOK
    <2> QED  BY <1>1, <1>2, <2>3, <2>4 DEF d2, n, s
  <1>3. CASE d.st = "csw"
    <2>1. d2 = [d EXCEPT !.tog = f, !.st = "cbw"]
      BY <1>3 DEF AfterIn, Flip, UsbDevs, Togs
    <2> HIDE DEF d2, f
    <2>2. d2 \in UsbDevs
      BY <1>1, <2>1 DEF UsbDevs
    <2>3. /\ SameId(d, d2) /\ d2.tog = f /\ d2.op = d.op /\ d2.lba = d.lba /\ d2.tag = d.tag
          /\ d2.bad = d.bad /\ d2.halt = d.halt /\ d2.st = "cbw"
      BY <2>1 DEF UsbDevs, SameId
    <2>4. DevOK(d2, tag)
      BY <2>2, <2>3 DEF DevOK
    <2> QED  BY <1>1, <1>3, <2>3, <2>4 DEF d2
  <1> QED  BY <1>2, <1>3

LEMMA StoredIs ==
  ASSUME BaseInv, UsbInv, call.pc \in Bots
  PROVE  LET d == hw.dev[Target]
             d2 == AfterOut(d)
         IN /\ Stored(d, d2) \in [Sectors -> Vals]
            /\ call.pc # "us_data" => Stored(d, d2) = media
            /\ d.st = "out" /\ d2.st = "csw" /\ ~d2.bad
                 => Stored(d, d2) = [media EXCEPT ![d.lba] = call.val]
  <1> DEFINE d == hw.dev[Target]
             d2 == AfterOut(d)
  <1>1. call.val \in Vals /\ media \in [Sectors -> Vals]
    BY InCommand DEF BaseInv
  <1>2. d.st = "out" /\ d2.st = "csw" /\ ~d2.bad
          => call.pc = "us_data" /\ d2.lba = d.lba /\ d2.fifo = call.val
    BY AfterOutIs
  <1>3. Stored(d, d2) = IF d.st = "out" /\ d2.st = "csw" /\ ~d2.bad THEN [media EXCEPT ![d2.lba] = d2.fifo] ELSE media
    BY DEF Stored
  <1> HIDE DEF d, d2
  <1>4. CASE d.st = "out" /\ d2.st = "csw" /\ ~d2.bad
    <2>1. Stored(d, d2) = [media EXCEPT ![d.lba] = call.val] /\ call.pc = "us_data"
      BY <1>2, <1>3, <1>4
    <2>2. Stored(d, d2) \in [Sectors -> Vals]
      BY <1>1, <2>1
    <2> QED  BY <2>1, <2>2 DEF d, d2
  <1>5. CASE ~(d.st = "out" /\ d2.st = "csw" /\ ~d2.bad)
    <2>1. Stored(d, d2) = media
      BY <1>3, <1>5
    <2> QED  BY <1>1, <1>5, <2>1 DEF d, d2
  <1> QED  BY <1>4, <1>5

LEMMA GotoBufBase ==
  ASSUME BaseInv, NEW where, NEW buf \in Contents, call' = [call EXCEPT !.pc = where, !.buf = buf],
         UNCHANGED <<part, last, ncalls>>, media' \in [Sectors -> Vals], faults' \in Nat
  PROVE  /\ BaseInv' /\ call'.pc = where
         /\ call'.by = call.by /\ call'.op = call.op /\ call'.lba = call.lba
         /\ call'.val = call.val /\ call'.buf = buf
  BY DEF BaseInv, CallType, SuccessMeansDone, Strays

LEMMA DataPacketsKept ==
  ASSUME Kept, k'.dev = k.dev, k'.disk = k.disk, k'.cmd = k.cmd
  PROVE  DataPackets(k.cmd)' = DataPackets(k.cmd)
  BY TargetKept DEF DataPackets

\* A stage of a command ends well.
LEMMA StageDoneStep ==
  ASSUME BaseInv, UsbInv, call.pc \in {"us_cbw", "us_data"}, NEW got, NEW buf \in Contents, StageDone(got, buf),
         Kept, DevsOK(hw', k.tag), media' \in [Sectors -> Vals], faults' \in Nat, UNCHANGED <<part, ncalls>>
  PROVE  /\ BaseInv' /\ UsbTypes' /\ UsbControl' /\ UsbTable' /\ UsbTransfer' /\ Recovered' /\ InStep'
         /\ Disk' = Disk /\ Target' = Target /\ DataPackets(k.cmd)' = DataPackets(k.cmd)
         /\ call'.pc = (IF call.pc = "us_cbw" /\ DataPackets(k.cmd) > 0 THEN "us_data" ELSE "us_csw")
         /\ call'.op = call.op /\ call'.lba = call.lba /\ call'.val = call.val /\ call'.buf = buf
         /\ k'.tog = [k.tog EXCEPT ![Ep] = (k.t0 + (k.i + 1)) % 2] /\ k'.tog \in Togs
         /\ k'.tag = k.tag /\ k'.cmd = k.cmd /\ k'.i = 0 /\ k'.got = <<>>
         /\ call'.pc = "us_data" /\ k.cmd = "write" => k'.t0 = k'.tog.out
  <1>1. /\ k \in UsbMem /\ k.disk \in DOMAIN k.dev /\ Ep \in {"in", "out"} /\ DataPackets(k.cmd) \in 0 .. 2
        /\ k.cmd = "ready" => DataPackets(k.cmd) = 0
    BY InCommand DEF Bots
  <1> DEFINE b == (k.t0 + (k.i + 1)) % 2
             tg == [k.tog EXCEPT ![Ep] = b]
             next == IF call.pc = "us_cbw" /\ DataPackets(k.cmd) > 0 THEN "us_data" ELSE "us_csw"
             t == IF next = "us_data" /\ k.cmd = "write" THEN tg.out ELSE tg.in
  <1>2. /\ k' = [k EXCEPT !.tog = tg, !.i = 0, !.got = <<>>, !.t0 = t]
        /\ call' = [call EXCEPT !.pc = next, !.buf = buf] /\ UNCHANGED last
    BY DEF StageDone, TogAfter
  <1>3. b \in {0, 1}
    <2>1. k.t0 + (k.i + 1) \in Nat
      BY <1>1 DEF UsbMem
    <2> QED  BY <2>1, NextBit
  <1> HIDE DEF b
  <1>4. tg \in Togs
    BY <1>1, <1>3 DEF UsbMem, Togs
  <1> HIDE DEF tg
  <1>5. t \in {0, 1}
    BY <1>4 DEF Togs
  <1>6. next = "us_data" /\ k.cmd = "write" => t = tg.out
    OBVIOUS
  <1>7. next = "us_csw" => t = tg.in
    OBVIOUS
  <1> HIDE DEF t
  <1>8. k' \in UsbMem
    <2> DEFINE m1 == [k EXCEPT !.tog = tg, !.i = 0]
    <2>1. m1 \in UsbMem
      BY <1>1, <1>4 DEF UsbMem
    <2>2. k' = [m1 EXCEPT !.got = <<>>, !.t0 = t] /\ <<>> \in Seq(InPackets)
      BY <1>2
    <2> HIDE DEF m1
    <2> QED  BY <1>5, <2>1, <2>2 DEF UsbMem
  <1>9. /\ k'.tag = k.tag /\ k'.ports = k.ports /\ k'.dev = k.dev /\ k'.disk = k.disk
        /\ k'.on = k.on /\ k'.cmd = k.cmd
    BY <1>1, <1>2 DEF UsbMem
  <1>10. k'.tog = tg /\ k'.i = 0 /\ k'.got = <<>> /\ k'.t0 = t
    BY <1>1, <1>2 DEF UsbMem
  <1>11. /\ BaseInv' /\ call'.pc = next /\ call'.op = call.op /\ call'.lba = call.lba
         /\ call'.val = call.val /\ call'.buf = buf
    BY <1>2, GotoBufBase
  <1>12. next \in {"us_data", "us_csw"} /\ (next = "us_data" => DataPackets(k.cmd) > 0)
    OBVIOUS
  <1>13. Disk' = Disk /\ Target' = Target /\ DataPackets(k.cmd)' = DataPackets(k.cmd)
    BY <1>9, TargetKept, DataPacketsKept
  <1>14. UsbTypes'
    BY <1>8, <1>9 DEF UsbInv, UsbTypes, Kept
  <1>15. UsbTable'
    BY <1>9, <1>11, <1>12, KeptTable DEF UsbInv, EnumPcs
  <1> HIDE DEF next
  <1>16. UsbControl'
    BY <1>1, <1>2, <1>9, <1>11, <1>12 DEF UsbInv, UsbControl, EnumPcs, Bots, Recovers
  <1>17. UsbTransfer'
    <2>1. next = "us_data" => Count' = DataPackets(k.cmd) /\ k.cmd # "ready"
      BY <1>1, <1>11, <1>12, <1>13 DEF Count
    <2>2. Len(<<>>) = 0
      OBVIOUS
    <2> QED  BY <1>1, <1>6, <1>7, <1>9, <1>10, <1>11, <1>12, <2>1, <2>2 DEF UsbTransfer
  <1>18. Recovered' /\ InStep'
    BY <1>11, <1>12 DEF Recovered, InStep
  <1> QED  BY <1>4, <1>6, <1>9, <1>10, <1>11, <1>12, <1>13, <1>14, <1>15, <1>16, <1>17, <1>18 DEF next, tg, b

LEMMA bulk_failsStep ==
  ASSUME BaseInv, UsbInv, bulk_fails
  PROVE  BaseInv' /\ UsbInv'
  <1>0. k.i \in Nat
    BY DEF UsbInv, UsbTypes, UsbMem
  <1>1. /\ call.pc \in Bots /\ BotFailed(k.i, FALSE) /\ UNCHANGED <<part, media, hw, ncalls, faults>>
    BY DEF bulk_fails, Bulk, Bots
  <1>2. Kept /\ DevsOK(hw', k.tag) /\ media' \in [Sectors -> Vals] /\ faults' \in Nat
    BY <1>1, KeptSame DEF UsbInv, UsbTypes, BaseInv
  <1> QED  BY <1>0, <1>1, <1>2, BotFailedStep

\* An OUT packet reached the disk.
LEMMA OutKept ==
  ASSUME BaseInv, UsbInv, call.pc \in Bots,
         hw' = [hw EXCEPT !.dev[Target] = AfterOut(@)], media' = Stored(hw.dev[Target], AfterOut(hw.dev[Target]))
  PROVE  /\ Kept /\ DevsOK(hw', k.tag) /\ media' \in [Sectors -> Vals]
         /\ hw'.dev[Target] = AfterOut(hw.dev[Target])
         /\ \A x \in DOMAIN hw.dev : x # Target => hw'.dev[x] = hw.dev[x]
  <1> DEFINE d2 == AfterOut(hw.dev[Target])
  <1>1. DevOK(d2, k.tag) /\ SameId(hw.dev[Target], d2)
    BY AfterOutIs
  <1>2. hw' = Put(hw, Target, d2)
    BY DEF Put
  <1>3. media' \in [Sectors -> Vals]
    BY StoredIs
  <1>4. UsbTypes /\ Target \in DOMAIN hw.dev
    BY InCommand DEF UsbInv
  <1> HIDE DEF d2
  <1>5. /\ Kept /\ DevsOK(hw', k.tag) /\ hw'.dev[Target] = d2
        /\ \A x \in DOMAIN hw.dev : x # Target => hw'.dev[x] = hw.dev[x]
    BY <1>1, <1>2, <1>4, PutKept
  <1> QED  BY <1>3, <1>5 DEF d2

LEMMA bulk_errorStep ==
  ASSUME BaseInv, UsbInv, bulk_error
  PROVE  BaseInv' /\ UsbInv'
  <1>0. k.i \in Nat
    BY DEF UsbInv, UsbTypes, UsbMem
  <1>1. call.pc \in Bots /\ BotFailed(k.i, FALSE) /\ UNCHANGED <<part, ncalls>> /\ faults' \in Nat
    <2>1. faults' \in Nat
      BY DEF bulk_error, Fault, BaseInv
    <2>2. call.pc \in Bots
      BY DEF bulk_error, Bulk, Bots
    <2>3. BotFailed(k.i, FALSE) /\ UNCHANGED <<part, ncalls>>
      BY DEF bulk_error
    <2> QED  BY <2>1, <2>2, <2>3
  <1>2. CASE UNCHANGED <<hw, media>>
    <2>1. Kept /\ DevsOK(hw', k.tag) /\ media' \in [Sectors -> Vals]
      BY <1>2, KeptSame DEF UsbInv, UsbTypes, BaseInv
    <2> QED  BY <1>0, <1>1, <2>1, BotFailedStep
  <1>3. CASE /\ hw' = [hw EXCEPT !.dev[Target] = AfterOut(@)]
             /\ media' = Stored(hw.dev[Target], AfterOut(hw.dev[Target]))
    <2>1. Kept /\ DevsOK(hw', k.tag) /\ media' \in [Sectors -> Vals]
      BY <1>1, <1>3, OutKept
    <2> QED  BY <1>0, <1>1, <2>1, BotFailedStep
  <1> QED  BY <1>2, <1>3 DEF bulk_error

LEMMA MscFailsStep ==
  ASSUME BaseInv, UsbInv, MscFails
  PROVE  BaseInv' /\ UsbInv'
  <1> DEFINE d == hw.dev[Target]
             d2 == [d EXCEPT !.bad = TRUE, !.st = "csw", !.halt = @ \cup ({d.st} \ {"csw"})]
             ht == d.halt \cup ({d.st} \ {"csw"})
  <1>1. /\ call.pc \in Bots /\ d.st # "cbw" /\ UNCHANGED <<part, media, call, last, k, ncalls>>
        /\ hw' = Put(hw, Target, d2)
    BY DEF MscFails, Bulk, Bots, Put
  <1>2. faults' \in Nat
    BY DEF MscFails, Fault, BaseInv
  <1>3. /\ k \in UsbMem /\ d \in UsbDevs /\ DevOK(d, k.tag) /\ Target \in DOMAIN hw.dev /\ UsbTypes
    BY <1>1, InCommand DEF UsbInv
  <1>4. ht \in SUBSET {"in", "out"} /\ d2 = [d EXCEPT !.bad = TRUE, !.st = "csw", !.halt = ht]
    BY <1>1, <1>3 DEF UsbDevs
  <1> HIDE DEF d, d2, ht
  <1>5. /\ d2 \in UsbDevs /\ SameId(d, d2) /\ d2.bad
    BY <1>3, <1>4 DEF UsbDevs, SameId
  <1>6. /\ d2.tag = d.tag /\ d2.op = d.op /\ d2.lba = d.lba /\ d2.tog = d.tog /\ d2.st = "csw"
    BY <1>3, <1>4 DEF UsbDevs
  <1>7. DevOK(d2, k.tag)
    BY <1>3, <1>5, <1>6 DEF DevOK
  <1>8. /\ Kept /\ DevsOK(hw', k.tag) /\ hw'.dev[Target] = d2
        /\ \A x \in DOMAIN hw.dev : x # Target => hw'.dev[x] = hw.dev[x]
    BY <1>1, <1>3, <1>5, <1>7, PutKept DEF d
  <1>9. BaseInv'
    BY <1>1, <1>2 DEF BaseInv, SuccessMeansDone, Strays
  <1>10. UsbTypes'
    BY <1>1, <1>3, <1>8 DEF UsbTypes, Kept
  <1>11. UsbControl'
    BY <1>1 DEF UsbInv, UsbControl
  <1>12. UsbTable'
    BY <1>1, <1>8, KeptTable DEF UsbInv, EnumPcs, Bots
  <1>13. /\ Disk' = Disk /\ Target' = Target /\ DataPackets(k.cmd)' = DataPackets(k.cmd)
         /\ Answering(Disk.hc, Disk.addr)' = Answering(Disk.hc, Disk.addr)
    BY <1>1, <1>8, TargetKept, DataPacketsKept
  <1>14. UsbTransfer'
    <2>1. Count' = Count
      BY <1>1, <1>13 DEF Count
    <2>2. \A x \in DOMAIN hw'.dev : hw'.dev[x].tag = hw.dev[x].tag
      BY <1>6, <1>8 DEF Kept, d
    <2> QED  BY <1>1, <1>8, <2>1, <2>2 DEF UsbInv, UsbTransfer, Kept
  <1>15. UsbProgress'
    <2>1. SUFFICES ASSUME Taken' PROVE Progress(hw.dev[Target])'
      BY DEF UsbProgress
    <2>2. Taken
      BY <1>1, <1>6, <1>8, <1>13, <2>1 DEF Taken, d
    <2>3. Progress(d)
      BY <2>2 DEF UsbInv, UsbProgress, d
    <2> QED  BY <1>1, <1>5, <1>6, <1>8, <1>13, <2>3 DEF Progress
  <1>16. ~(call.pc = "us_cbw" /\ k.try = 2 /\ k.clean)
    BY <1>1, <1>3, InCommand DEF UsbInv, Recovered, Agree, d
  <1>17. Recovered' /\ InStep'
    BY <1>1, <1>16 DEF Recovered, InStep, Bots
  <1> QED  BY <1>9, <1>10, <1>11, <1>12, <1>14, <1>15, <1>17 DEF UsbInv

\* A packet of the CBW or of the data of a write.
LEMMA bulk_outStep ==
  ASSUME BaseInv, UsbInv, bulk_out
  PROVE  BaseInv' /\ UsbInv'
  <1> DEFINE d == hw.dev[Target]
             d2 == AfterOut(d)
  <1>1. /\ call.pc \in {"us_cbw", "us_data"} /\ call.pc \in Bots /\ Ep = "out"
        /\ call.pc = "us_data" => k.cmd = "write"
        /\ UNCHANGED <<part, ncalls, faults>>
        /\ "out" \notin d.halt /\ hw' = [hw EXCEPT !.dev[Target] = AfterOut(@)] /\ media' = Stored(d, d2)
    BY DEF bulk_out, Bulk, Ep, Bots
  <1>2. /\ k \in UsbMem /\ d \in UsbDevs /\ DevOK(d, k.tag) /\ Target \in DOMAIN hw.dev /\ HostTog \in {0, 1}
        /\ k.cmd \in {"read", "write"} => DataPackets(k.cmd) \in 1 .. 2
        /\ k.cmd \in {"read", "write"} => call.op = k.cmd /\ call.lba \in Sectors
        /\ k.cmd \in {"ready", "cap"} => call.op = "boot"
        /\ k.cmd \in {"ready", "cap", "read", "write"} /\ call.buf \in Contents
        /\ DataPackets(k.cmd) \in 0 .. 2
    BY <1>1, InCommand
  <1>3. /\ Kept /\ DevsOK(hw', k.tag) /\ media' \in [Sectors -> Vals] /\ hw'.dev[Target] = d2
        /\ \A x \in DOMAIN hw.dev : x # Target => hw'.dev[x] = hw.dev[x]
    BY <1>1, OutKept
  <1>4. faults' \in Nat
    BY <1>1 DEF BaseInv
  <1>5. CASE BotFailed(k.i, FALSE)
    <2>1. k.i \in Nat
      BY DEF UsbInv, UsbTypes, UsbMem
    <2> QED  BY <1>1, <1>3, <1>4, <1>5, <2>1, BotFailedStep
  \* Another packet of the data follows.
  <1>6. CASE "out" \notin d2.halt /\ k.i + 1 < Count /\ k' = [k EXCEPT !.i = @ + 1] /\ UNCHANGED <<call, last>>
    <2>1. call.pc = "us_data" /\ k.cmd = "write" /\ call.op = "write" /\ k.i \in Nat /\ k.t0 \in {0, 1}
      BY <1>1, <1>2, <1>6 DEF UsbInv, UsbTransfer, Count, UsbMem
    <2>2. BaseInv'
      BY <1>1, <1>3, <1>4, <1>6 DEF BaseInv, SuccessMeansDone, Strays
    <2>3. /\ k' \in UsbMem /\ k'.tag = k.tag /\ k'.ports = k.ports /\ k'.dev = k.dev /\ k'.disk = k.disk
          /\ k'.on = k.on /\ k'.cmd = k.cmd /\ k'.i = k.i + 1 /\ k'.t0 = k.t0 /\ k'.tog = k.tog
      <3> DEFINE n == k.i + 1
      <3>1. n \in Nat /\ k' = [k EXCEPT !.i = n]
        BY <1>6, <2>1
      <3> HIDE DEF n
      <3>2. k' \in UsbMem
        BY <1>2, <3>1 DEF UsbMem
      <3>3. /\ k'.tag = k.tag /\ k'.ports = k.ports /\ k'.dev = k.dev /\ k'.disk = k.disk
            /\ k'.on = k.on /\ k'.cmd = k.cmd /\ k'.i = n /\ k'.t0 = k.t0 /\ k'.tog = k.tog
        BY <1>2, <3>1 DEF UsbMem
      <3> QED  BY <3>2, <3>3 DEF n
    <2>4. /\ Disk' = Disk /\ Target' = Target /\ Count' = Count
          /\ Answering(Disk.hc, Disk.addr)' = Answering(Disk.hc, Disk.addr)
      BY <1>3, <1>6, <2>3, TargetKept, DataPacketsKept DEF Count
    <2>5. UsbTypes'
      BY <1>1, <1>3, <2>3 DEF UsbInv, UsbTypes, Kept
    <2>6. UsbTable'
      BY <1>3, <1>6, <2>1, <2>3, KeptTable DEF UsbInv, EnumPcs
    <2>7. UsbControl'
      BY <1>6, <2>3 DEF UsbInv, UsbControl
    <2>8. UsbTransfer'
      BY <1>6, <2>1, <2>3, <2>4 DEF UsbInv, UsbTransfer
    <2>9. UsbProgress'
      <3>1. SUFFICES ASSUME Taken' PROVE Progress(hw.dev[Target])'
        BY DEF UsbProgress
      <3>2. d2.tag = k.tag
        BY <1>3, <2>3, <2>4, <3>1 DEF Taken
      <3>3. d.tag = k.tag
        BY <1>1, <2>1, <3>2, AfterOutIs
      <3>4. Taken
        BY <1>6, <2>4, <3>1, <3>3 DEF Taken
      <3>5. Progress(d)
        BY <3>4 DEF UsbInv, UsbProgress
      <3>6. /\ d.op = call.op /\ d.lba = call.lba /\ (~d.bad => "out" \notin d.halt)
            /\ d.st = "out" => d.left = Count - k.i /\ d.tog.out = HostTog
            /\ d.st = "csw" => d.bad
        BY <2>1, <3>5 DEF Progress
      <3>7. HostTog' = 1 - HostTog
        <4>1. k.t0 + k.i \in Nat /\ k'.t0 + k'.i = (k.t0 + k.i) + 1
          BY <2>1, <2>3
        <4> QED  BY <4>1, NextBit DEF HostTog
      <3>8. Count \in Int /\ d.left \in Int /\ k.i + 1 < Count
        BY <1>1, <1>2, <1>6, InCommand DEF UsbDevs
      <3>9. \/ d2 = d /\ d.st # "out"
            \/ /\ d.st = "out" /\ d2.tog.out = 1 - HostTog /\ d2.op = d.op /\ d2.lba = d.lba /\ d2.bad = d.bad
               /\ d2.left = d.left - 1 /\ d2.halt = d.halt /\ d2.st = (IF d.left = 1 THEN "csw" ELSE "out")
        BY <1>1, <1>6, <2>1, <3>6, AfterOutIs
      <3> HIDE DEF d, d2
      <3>10. /\ d2.op = call.op /\ d2.lba = call.lba /\ (~d2.bad => "out" \notin d2.halt)
             /\ d2.st = "out" => d2.left = Count - (k.i + 1) /\ d2.tog.out = 1 - HostTog
             /\ d2.st = "csw" => d2.bad
        BY <2>1, <3>6, <3>8, <3>9
      <3> QED  BY <1>3, <1>6, <2>1, <2>3, <2>4, <3>7, <3>10 DEF Progress
    <2>10. Recovered' /\ InStep'
      BY <1>6, <2>1 DEF Recovered, InStep
    <2> QED  BY <2>2, <2>5, <2>6, <2>7, <2>8, <2>9, <2>10 DEF UsbInv
  \* The last packet of the stage.
  <1>7. CASE "out" \notin d2.halt /\ k.i + 1 = Count /\ StageDone(<<>>, call.buf)
    <2>1. /\ BaseInv' /\ UsbTypes' /\ UsbControl' /\ UsbTable' /\ UsbTransfer' /\ Recovered' /\ InStep'
          /\ Disk' = Disk /\ Target' = Target /\ DataPackets(k.cmd)' = DataPackets(k.cmd)
          /\ call'.pc = (IF call.pc = "us_cbw" /\ DataPackets(k.cmd) > 0 THEN "us_data" ELSE "us_csw")
          /\ call'.op = call.op /\ call'.lba = call.lba /\ call'.val = call.val /\ call'.buf = call.buf
          /\ k'.tog = [k.tog EXCEPT ![Ep] = (k.t0 + (k.i + 1)) % 2] /\ k'.tog \in Togs
          /\ k'.tag = k.tag /\ k'.cmd = k.cmd /\ k'.i = 0 /\ k'.got = <<>>
          /\ call'.pc = "us_data" /\ k.cmd = "write" => k'.t0 = k'.tog.out
      BY <1>1, <1>2, <1>3, <1>4, <1>7, StageDoneStep
    <2>2. k'.tog.out = 1 - HostTog
      <3>1. k.t0 + k.i \in Nat /\ k.t0 + (k.i + 1) = (k.t0 + k.i) + 1 /\ k.tog \in Togs
        BY <1>2 DEF UsbMem
      <3>2. k'.tog.out = (k.t0 + (k.i + 1)) % 2
        BY <1>1, <2>1, <3>1 DEF Togs
      <3> QED  BY <3>1, <3>2, NextBit DEF HostTog
    <2>3. UsbProgress'
      <3>1. SUFFICES ASSUME Taken' PROVE Progress(hw.dev[Target])'
        BY DEF UsbProgress
      <3>2. d2.tag = k.tag /\ call.op # "boot"
        BY <1>3, <2>1, <3>1 DEF Taken
      <3>3. k.cmd \in {"read", "write"} /\ DataPackets(k.cmd) > 0 /\ call.op = k.cmd
        BY <1>2, <3>2
      <3>4. CASE call.pc = "us_cbw"
        <4>1. d.tag < k.tag /\ k.tag \in Nat /\ d.tag \in Nat
          BY <1>2, <3>4 DEF UsbInv, UsbTransfer, UsbMem, UsbDevs
        <4>2. d.tag # k.tag
          BY <4>1
        <4>3. /\ d2.tog.out = 1 - HostTog /\ d2.op = k.cmd /\ d2.lba = call.lba
              /\ ~d2.bad /\ d2.left = DataPackets(k.cmd) /\ d2.halt = d.halt
              /\ k.cmd = "read" => d2.st = "in"
              /\ k.cmd = "write" => d2.st = "out"
          BY <1>1, <1>7, <3>2, <3>4, <4>2, AfterOutIs
        <4>4. call'.pc = "us_data" /\ Count' = DataPackets(k.cmd)
          BY <2>1, <3>3, <3>4 DEF Count
        <4>5. k.cmd = "write" => HostTog' = 1 - HostTog
          <5>1. SUFFICES ASSUME k.cmd = "write" PROVE HostTog' = 1 - HostTog
            OBVIOUS
          <5>2. k'.t0 + k'.i = 1 - HostTog /\ 1 - HostTog \in Nat /\ 1 - HostTog < 2
            BY <1>2, <2>1, <2>2, <4>4, <5>1
          <5>3. (k'.t0 + k'.i) % 2 = 1 - HostTog
            BY <5>2, NextBit
          <5> QED  BY <5>3 DEF HostTog
        <4>6. DataPackets(k.cmd) - 0 = DataPackets(k.cmd) /\ DataPackets(k.cmd) >= 1
          BY <1>2, <3>3
        <4> HIDE DEF d, d2
        <4>7. hw'.dev[Target'] = d2
          BY <1>3, <2>1
        <4>8. call'.pc = "us_data" /\ call'.op = k.cmd /\ k'.i = 0 /\ DOMAIN k'.got = {}
          BY <2>1, <3>3, <4>4
        <4>9. d2.op = call'.op /\ d2.lba = call'.lba /\ "out" \notin d2.halt
          BY <1>1, <2>1, <4>3, <4>8 DEF d
        <4>10. CASE k.cmd = "write"
          <5>1. d2.left = Count' - k'.i /\ d2.tog.out = HostTog' /\ d2.st = "out"
            BY <4>3, <4>4, <4>5, <4>6, <4>8, <4>10
          <5> QED  BY <4>7, <4>8, <4>9, <4>10, <5>1 DEF Progress
        <4>11. CASE k.cmd = "read"
          <5>1. d2.tog.out = k'.tog.out /\ d2.left = Count' - k'.i /\ 1 <= d2.left /\ d2.left <= Count' - k'.i
            BY <1>2, <2>2, <4>3, <4>4, <4>6, <4>8
          <5> QED  BY <4>7, <4>8, <4>9, <4>11, <5>1 DEF Progress
        <4> QED  BY <3>3, <4>10, <4>11
      <3>5. CASE call.pc = "us_data"
        <4>1. k.cmd = "write" /\ call.op = "write"
          BY <1>1, <3>3, <3>5
        <4>2. d.tag = k.tag
          BY <1>1, <3>2, <3>5, AfterOutIs
        <4>3. Taken
          BY <1>1, <1>2, <3>2, <3>5, <4>2, InCommand DEF Taken
        <4>4. Progress(d)
          BY <4>3 DEF UsbInv, UsbProgress
        <4>5. /\ d.op = call.op /\ d.lba = call.lba /\ (~d.bad => "out" \notin d.halt)
              /\ d.st = "out" => d.left = Count - k.i /\ d.tog.out = HostTog
              /\ d.st = "csw" => d.bad
          BY <3>5, <4>1, <4>4 DEF Progress
        <4>6. Count \in Int /\ k.i \in Nat /\ Count - k.i = 1
          BY <1>1, <1>2, <1>7, InCommand DEF UsbMem
        <4>7. \/ d2 = d /\ d.st # "out"
              \/ /\ d.st = "out" /\ d2.tog.out = 1 - HostTog /\ d2.op = d.op /\ d2.lba = d.lba /\ d2.bad = d.bad
                 /\ d2.halt = d.halt /\ d2.st = "csw"
          BY <1>1, <1>7, <3>5, <4>5, <4>6, AfterOutIs
        <4>8. d.st = "out" /\ d2.st = "csw" /\ ~d2.bad => media'[call.lba] = call.val
          <5>1. d.st = "out" /\ d2.st = "csw" /\ ~d2.bad => media' = [media EXCEPT ![d.lba] = call.val]
            BY <1>1, StoredIs
          <5> QED  BY <1>2, <3>3, <4>5, <5>1 DEF BaseInv
        <4>9. call'.pc = "us_csw"
          BY <2>1, <3>5
        <4>10. d2.st = "csw" /\ ~d2.bad => d2.tog.out = k'.tog.out /\ media'[call.lba] = call.val
          BY <2>2, <4>5, <4>7, <4>8
        <4>11. d2.op = call.op /\ d2.lba = call.lba /\ (~d2.bad => "out" \notin d2.halt)
          BY <4>5, <4>7
        <4> HIDE DEF d, d2
        <4>12. d2.st = "csw" /\ ~d2.bad => Good(call.buf)'
          BY <1>2, <2>1, <3>3, <4>1, <4>10 DEF Good
        <4>13. hw'.dev[Target'] = d2
          BY <1>3, <2>1
        <4> QED  BY <2>1, <4>9, <4>10, <4>11, <4>12, <4>13 DEF Progress
      <3> QED  BY <1>1, <3>4, <3>5
    <2> QED  BY <2>1, <2>3 DEF UsbInv
  <1> QED  BY <1>5, <1>6, <1>7 DEF bulk_out

\* What the buffer of the caller holds after the data of a read.
LEMMA BufferIs ==
  ASSUME NEW got \in Seq(InPackets), got # <<>>
  PROVE  Buffer(got) \in Contents
  <1>1. Len(got) \in Nat \ {0}
    BY EmptySeq
  <1>2. got[1] \in InPackets
    BY <1>1
  <1> QED  BY <1>2 DEF Buffer, Contents, InPackets

\* One IN packet: d2 is the disk after it.
LEMMA InKept ==
  ASSUME BaseInv, UsbInv, call.pc \in Bots, hw.dev[Target].st \in {"in", "csw"},
         hw' = [hw EXCEPT !.dev[Target] = AfterIn(hw.dev[Target])]
  PROVE  Kept /\ DevsOK(hw', k.tag) /\ hw'.dev[Target] = AfterIn(hw.dev[Target])
  <1> DEFINE d2 == AfterIn(hw.dev[Target])
  <1>1. DevOK(d2, k.tag) /\ SameId(hw.dev[Target], d2) /\ Target \in DOMAIN hw.dev /\ UsbTypes
    BY InCommand, AfterInIs DEF UsbInv
  <1>2. hw' = Put(hw, Target, d2)
    BY DEF Put
  <1> HIDE DEF d2
  <1>3. Kept /\ DevsOK(hw', k.tag) /\ hw'.dev[Target] = d2
    BY <1>1, <1>2, PutKept
  <1> QED  BY <1>3 DEF d2

\* A packet that the controller drops for its toggle.
LEMMA InDropped ==
  ASSUME BaseInv, UsbInv, call.pc \in {"us_data", "us_csw"}, Ep = "in", hw.dev[Target].st \in {"in", "csw"},
         ~(call.pc = "us_csw" /\ hw.dev[Target].st = "in"),
         hw' = [hw EXCEPT !.dev[Target] = AfterIn(hw.dev[Target])],
         UNCHANGED <<part, media, call, last, k, ncalls, faults>>
  PROVE  BaseInv' /\ UsbInv'
  <1> DEFINE d == hw.dev[Target]
             d2 == AfterIn(d)
  <1>1. /\ k \in UsbMem /\ d \in UsbDevs /\ DevOK(d, k.tag) /\ call.pc \in Bots /\ Count \in Int
    BY InCommand DEF Bots
  <1>2. Kept /\ DevsOK(hw', k.tag) /\ hw'.dev[Target] = d2
    BY <1>1, InKept
  <1>3. BaseInv'
    BY DEF BaseInv, SuccessMeansDone, Strays
  <1>4. UsbTypes'
    BY <1>2 DEF UsbInv, UsbTypes, Kept
  <1>5. UsbControl'
    BY DEF UsbInv, UsbControl
  <1>6. UsbTable'
    BY <1>2, KeptTable DEF UsbInv, EnumPcs
  <1>7. /\ Disk' = Disk /\ Target' = Target /\ Count' = Count
        /\ Answering(Disk.hc, Disk.addr)' = Answering(Disk.hc, Disk.addr)
    BY <1>2, TargetKept, DataPacketsKept DEF Count
  <1>8. UsbTransfer'
    BY <1>7 DEF UsbInv, UsbTransfer
  <1>9. UsbProgress'
    <2>1. SUFFICES ASSUME Taken' PROVE Progress(hw.dev[Target])'
      BY DEF UsbProgress
    <2>2. /\ d2.tog.out = d.tog.out /\ d2.op = d.op /\ d2.lba = d.lba /\ d2.tag = d.tag
          /\ d2.bad = d.bad /\ d2.halt = d.halt
          /\ d.st = "in" => d2.left = d.left - 1 /\ d2.st = (IF d.left = 1 THEN "csw" ELSE "in")
          /\ d.st = "csw" => d2.st = "cbw"
      BY <1>1, AfterInIs
    <2>3. Taken
      BY <1>2, <1>7, <2>1, <2>2 DEF Taken
    <2>4. Progress(d)
      BY <2>3 DEF UsbInv, UsbProgress
    <2>5. ~(call.pc = "us_data" /\ call.op = "write")
      BY <1>1, <2>3, InCommand DEF Ep, Taken
    <2>6. d.left \in Int /\ k.i \in Int
      BY <1>1 DEF UsbDevs, UsbMem
    <2>7. hw'.dev[Target'] = d2
      BY <1>2, <1>7
    <2> HIDE DEF d, d2
    <2>8. d2.op = call.op /\ d2.lba = call.lba /\ (~d2.bad => "out" \notin d2.halt)
      BY <2>2, <2>4 DEF Progress
    <2>9. call.pc = "us_data" /\ call.op = "read"
            => d2.tog.out = k.tog.out /\ (d2.st = "in" => 1 <= d2.left /\ d2.left < Count - k.i)
      BY <1>1, <2>2, <2>4, <2>6 DEF Progress, d
    <2>10. call.pc = "us_csw" => d2.st # "csw"
      BY <2>2 DEF d
    <2>11. d2.left < Count - k.i => d2.left <= Count - k.i /\ d2.left # Count - k.i
      BY <1>1, <2>2, <2>6 DEF d, d2, AfterIn
    <2> QED  BY <1>7, <2>5, <2>7, <2>8, <2>9, <2>10, <2>11 DEF Progress
  <1>10. Recovered' /\ InStep'
    BY DEF Recovered, InStep
  <1> QED  BY <1>3, <1>4, <1>5, <1>6, <1>8, <1>9, <1>10 DEF UsbInv

\* A packet of data that another one follows.
LEMMA InMore ==
  ASSUME BaseInv, UsbInv, call.pc = "us_data", Ep = "in", hw.dev[Target].st = "in", k.i + 1 < Count,
         hw' = [hw EXCEPT !.dev[Target] = AfterIn(hw.dev[Target])],
         k' = [k EXCEPT !.i = @ + 1, !.got = Append(k.got, InPacket(hw.dev[Target]))],
         InPacket(hw.dev[Target]) \in InPackets,
         UNCHANGED <<part, media, call, last, ncalls, faults>>
  PROVE  BaseInv' /\ UsbInv'
  <1> DEFINE d == hw.dev[Target]
             d2 == AfterIn(d)
             p == InPacket(d)
             got == Append(k.got, p)
             n == k.i + 1
  <1>1. /\ k \in UsbMem /\ d \in UsbDevs /\ DevOK(d, k.tag) /\ call.pc \in Bots /\ Count \in Int
    BY InCommand DEF Bots
  <1>2. Kept /\ DevsOK(hw', k.tag) /\ hw'.dev[Target] = d2
    BY <1>1, InKept
  <1>3. BaseInv'
    BY DEF BaseInv, SuccessMeansDone, Strays
  <1>4. /\ k.got \in Seq(InPackets) /\ got \in Seq(InPackets) /\ Len(got) = Len(k.got) + 1
        /\ Len(k.got) \in Nat /\ DOMAIN k.got = 1 .. Len(k.got) /\ DOMAIN got = 1 .. Len(got)
        /\ \A j \in 1 .. Len(k.got) : got[j] = k.got[j]
        /\ got[Len(k.got) + 1] = p
    BY <1>1 DEF UsbMem
  <1>5. k' = [k EXCEPT !.i = n, !.got = got] /\ n \in Nat /\ k.i \in Nat
    BY <1>1 DEF UsbMem
  <1> HIDE DEF got, n, p
  <1>6. k' \in UsbMem
    BY <1>1, <1>4, <1>5 DEF UsbMem
  <1>7. /\ k'.tag = k.tag /\ k'.ports = k.ports /\ k'.dev = k.dev /\ k'.disk = k.disk
        /\ k'.on = k.on /\ k'.cmd = k.cmd /\ k'.i = n /\ k'.got = got /\ k'.t0 = k.t0 /\ k'.tog = k.tog
    BY <1>1, <1>5 DEF UsbMem
  <1>8. UsbTypes'
    BY <1>2, <1>6, <1>7 DEF UsbInv, UsbTypes, Kept
  <1>9. UsbControl'
    BY <1>7 DEF UsbInv, UsbControl
  <1>10. UsbTable'
    BY <1>2, <1>7, KeptTable DEF UsbInv, EnumPcs
  <1>11. /\ Disk' = Disk /\ Target' = Target /\ Count' = Count
         /\ Answering(Disk.hc, Disk.addr)' = Answering(Disk.hc, Disk.addr)
    BY <1>2, <1>7, TargetKept, DataPacketsKept DEF Count
  <1>12. k.cmd # "write" /\ Len(k.got) = k.i
    BY DEF Ep, UsbInv, UsbTransfer
  <1>13. UsbTransfer'
    BY <1>4, <1>7, <1>11, <1>12 DEF UsbInv, UsbTransfer, n
  <1>14. UsbProgress'
    <2>1. SUFFICES ASSUME Taken' PROVE Progress(hw.dev[Target])'
      BY DEF UsbProgress
    <2>2. /\ d2.tog.out = d.tog.out /\ d2.op = d.op /\ d2.lba = d.lba /\ d2.tag = d.tag
          /\ d2.bad = d.bad /\ d2.halt = d.halt
          /\ d2.left = d.left - 1 /\ d2.st = (IF d.left = 1 THEN "csw" ELSE "in")
      BY <1>1, AfterInIs
    <2>3. Taken
      BY <1>2, <1>7, <1>11, <2>1, <2>2 DEF Taken
    <2>4. Progress(d)
      BY <2>3 DEF UsbInv, UsbProgress
    <2>5. call.op = "read"
      BY <1>1, <1>12, <2>3, InCommand DEF Taken
    <2>6. d.left \in Int
      BY <1>1 DEF UsbDevs
    <2>7. hw'.dev[Target'] = d2
      BY <1>2, <1>11
    <2>8. d.op = "read" /\ d.lba = call.lba /\ (~d.bad => "out" \notin d.halt) /\ d.tog.out = k.tog.out
          /\ 1 <= d.left /\ d.left <= Count - k.i
      BY <2>4, <2>5 DEF Progress
    <2>9. d.left = Count - k.i
            => \A j \in DOMAIN k.got : ~k.got[j].csw /\ k.got[j].val = media[call.lba] /\ k.got[j].left = Count + 1 - j
      BY <2>4, <2>5 DEF Progress
    <2>10. ~p.csw /\ p.val = media[call.lba] /\ p.left = d.left
      BY <2>8 DEF p, InPacket
    <2> HIDE DEF d, d2
    <2>11. d2.st = "in" => 1 <= d2.left /\ d2.left <= Count - n
      BY <1>1, <1>5, <2>2, <2>6, <2>8 DEF n
    <2>12. d2.left = Count - n
             => \A j \in DOMAIN got : ~got[j].csw /\ got[j].val = media[call.lba] /\ got[j].left = Count + 1 - j
      <3>1. SUFFICES ASSUME d2.left = Count - n, NEW j \in DOMAIN got
                     PROVE  ~got[j].csw /\ got[j].val = media[call.lba] /\ got[j].left = Count + 1 - j
        OBVIOUS
      <3>2. d.left = Count - k.i
        BY <1>1, <1>5, <2>2, <2>6, <3>1 DEF n
      <3>3. CASE j \in 1 .. Len(k.got)
        BY <1>4, <2>9, <3>2, <3>3
      <3>4. CASE j = Len(k.got) + 1
        <4>1. Count + 1 - j = Count - k.i
          BY <1>1, <1>5, <1>12, <3>4
        <4> QED  BY <1>4, <2>10, <3>2, <3>4, <4>1
      <3> QED  BY <1>4, <3>3, <3>4
    <2> QED  BY <1>7, <1>11, <2>2, <2>5, <2>7, <2>8, <2>11, <2>12 DEF Progress
  <1>15. Recovered' /\ InStep'
    BY DEF Recovered, InStep
  <1> QED  BY <1>3, <1>8, <1>9, <1>10, <1>13, <1>14, <1>15 DEF UsbInv

\* The last packet of the data, or a packet that ends them early.
LEMMA InLast ==
  ASSUME BaseInv, UsbInv, call.pc = "us_data", Ep = "in", hw.dev[Target].st \in {"in", "csw"},
         ~(hw.dev[Target].st = "in" /\ k.i + 1 < Count),
         hw' = [hw EXCEPT !.dev[Target] = AfterIn(hw.dev[Target])], HostTog = hw.dev[Target].tog.in,
         NEW got, got = Append(k.got, InPacket(hw.dev[Target])), StageDone(got, Buffer(got)),
         InPacket(hw.dev[Target]) \in InPackets,
         UNCHANGED <<part, media, ncalls, faults>>
  PROVE  BaseInv' /\ UsbInv'
  <1> DEFINE d == hw.dev[Target]
             d2 == AfterIn(d)
             p == InPacket(d)
  <1>1. /\ k \in UsbMem /\ d \in UsbDevs /\ DevOK(d, k.tag) /\ call.pc \in Bots /\ Count \in Int
    BY InCommand DEF Bots
  <1>2. Kept /\ DevsOK(hw', k.tag) /\ hw'.dev[Target] = d2
    BY <1>1, InKept
  <1>3. /\ k.got \in Seq(InPackets) /\ got \in Seq(InPackets) /\ Len(got) = Len(k.got) + 1
        /\ Len(k.got) \in Nat /\ DOMAIN k.got = 1 .. Len(k.got) /\ DOMAIN got = 1 .. Len(got)
        /\ \A j \in 1 .. Len(k.got) : got[j] = k.got[j]
        /\ got[Len(k.got) + 1] = p /\ got # <<>> /\ k.i \in Nat
    BY <1>1 DEF UsbMem
  <1>4. Buffer(got) \in Contents
    BY <1>3, BufferIs
  <1>5. media' \in [Sectors -> Vals] /\ faults' \in Nat
    BY DEF BaseInv
  <1>6. /\ BaseInv' /\ UsbTypes' /\ UsbControl' /\ UsbTable' /\ UsbTransfer' /\ Recovered' /\ InStep'
        /\ Disk' = Disk /\ Target' = Target /\ call'.pc = "us_csw"
        /\ call'.op = call.op /\ call'.lba = call.lba /\ call'.val = call.val /\ call'.buf = Buffer(got)
        /\ k'.tog = [k.tog EXCEPT !["in"] = (k.t0 + (k.i + 1)) % 2] /\ k'.tag = k.tag
    <2> DEFINE buf == Buffer(got)
    <2>1. buf \in Contents /\ StageDone(got, buf)
      BY <1>4
    <2> HIDE DEF buf
    <2>2. /\ BaseInv' /\ UsbTypes' /\ UsbControl' /\ UsbTable' /\ UsbTransfer' /\ Recovered' /\ InStep'
          /\ Disk' = Disk /\ Target' = Target
          /\ call'.pc = (IF call.pc = "us_cbw" /\ DataPackets(k.cmd) > 0 THEN "us_data" ELSE "us_csw")
          /\ call'.op = call.op /\ call'.lba = call.lba /\ call'.val = call.val /\ call'.buf = buf
          /\ k'.tog = [k.tog EXCEPT ![Ep] = (k.t0 + (k.i + 1)) % 2] /\ k'.tag = k.tag
      BY <1>2, <1>5, <2>1, StageDoneStep
    <2> QED  BY <2>2 DEF buf
  <1>7. k.cmd # "write" /\ Len(k.got) = k.i /\ k.i < Count
    BY DEF Ep, UsbInv, UsbTransfer
  <1>8. UsbProgress'
    <2>1. SUFFICES ASSUME Taken' PROVE Progress(hw.dev[Target])'
      BY DEF UsbProgress
    <2>2. /\ d2.tog.out = d.tog.out /\ d2.op = d.op /\ d2.lba = d.lba /\ d2.tag = d.tag
          /\ d2.bad = d.bad /\ d2.halt = d.halt
          /\ d.st = "in" => d2.left = d.left - 1 /\ d2.st = (IF d.left = 1 THEN "csw" ELSE "in")
          /\ d.st = "csw" => d2.st = "cbw"
      BY <1>1, AfterInIs
    <2>3. Taken
      BY <1>1, <1>2, <1>6, <2>1, <2>2, InCommand DEF Taken
    <2>4. Progress(d)
      BY <2>3 DEF UsbInv, UsbProgress
    <2>5. call.op = "read" /\ call.lba \in Sectors
      BY <1>1, <1>7, <2>3, InCommand DEF Taken
    <2>6. d.left \in Int /\ k.tog \in Togs
      BY <1>1 DEF UsbDevs, UsbMem
    <2>7. hw'.dev[Target'] = d2 /\ k'.tog.out = k.tog.out
      BY <1>2, <1>6, <2>6 DEF Togs
    <2>8. /\ d.op = "read" /\ d.lba = call.lba /\ (~d.bad => "out" \notin d.halt) /\ d.tog.out = k.tog.out
          /\ d.st = "in" => 1 <= d.left /\ d.left <= Count - k.i
      BY <2>4, <2>5 DEF Progress
    <2>9. d.st = "in" /\ d.left = Count - k.i
            => \A j \in DOMAIN k.got : ~k.got[j].csw /\ k.got[j].val = media[call.lba] /\ k.got[j].left = Count + 1 - j
      BY <2>4, <2>5 DEF Progress
    <2>10. d.st = "in" => ~p.csw /\ p.val = media[call.lba] /\ p.left = d.left
      <3>1. p.csw = (d.st = "csw") /\ p.left = d.left
            /\ p.val = (IF d.op = "read" THEN media[d.lba] ELSE None)
        BY DEF InPacket
      <3> HIDE DEF p, d
      <3> QED  BY <2>8, <3>1
    <2>11. d2.st = "csw" => Buffer(got) = media[call.lba]
      <3>1. SUFFICES ASSUME d2.st = "csw" PROVE Buffer(got) = media[call.lba]
        OBVIOUS
      <3>2. d.st = "in" /\ d.left = 1 /\ k.i + 1 = Count
        BY <1>1, <1>3, <1>7, <2>2, <3>1
      <3>3. Len(got) = Count /\ Count - k.i = 1
        BY <1>1, <1>3, <1>7, <3>2
      <3> HIDE DEF d, d2, p
      <3>4. ASSUME NEW j \in DOMAIN got
            PROVE  ~got[j].csw /\ got[j].val = media[call.lba] /\ got[j].left = Count + 1 - j
        <4>1. CASE j \in 1 .. Len(k.got)
          BY <1>3, <2>9, <3>2, <3>3, <4>1
        <4>2. CASE j = Len(k.got) + 1
          <5>1. Count + 1 - j = 1
            BY <1>1, <1>3, <3>3, <4>2
          <5> QED  BY <1>3, <2>10, <3>2, <4>2, <5>1
        <4> QED  BY <1>3, <3>4, <4>1, <4>2
      <3>5. 1 \in DOMAIN got
        BY <1>3
      <3> QED  BY <3>3, <3>4, <3>5 DEF Buffer
    <2>12. d2.op = call'.op /\ d2.lba = call'.lba /\ (~d2.bad => "out" \notin d2.halt)
           /\ d2.tog.out = k'.tog.out
      <3>1. call'.op = call.op /\ call'.lba = call.lba
        BY <1>6
      <3> HIDE DEF d, d2
      <3> QED  BY <2>2, <2>5, <2>7, <2>8, <3>1
    <2> HIDE DEF d, d2
    <2>13. d2.st = "csw" => Good(call.buf)'
      BY <1>6, <2>5, <2>11 DEF Good
    <2> QED  BY <1>6, <2>7, <2>12, <2>13 DEF Progress
  <1> QED  BY <1>6, <1>8 DEF UsbInv

\* The CSW reports success.
LEMMA CswDone ==
  ASSUME BaseInv, UsbInv, call.pc = "us_csw", Ep = "in", hw.dev[Target].st = "csw", "in" \notin hw.dev[Target].halt,
         hw' = [hw EXCEPT !.dev[Target] = AfterIn(hw.dev[Target])], HostTog = hw.dev[Target].tog.in,
         CswOk(hw.dev[Target]), BotDone, UNCHANGED <<part, media, ncalls, faults>>
  PROVE  BaseInv' /\ UsbInv'
  <1> DEFINE d == hw.dev[Target]
             d2 == AfterIn(d)
             b == (k.t0 + 1) % 2
             n == [k EXCEPT !.tog["in"] = b]
             kk == [k EXCEPT !.tog["in"] = b, !.i = 0, !.clean = FALSE, !.try = 1]
  <1>1. /\ k \in UsbMem /\ d \in UsbDevs /\ DevOK(d, k.tag) /\ call.pc \in Bots /\ k.disk \in DOMAIN k.dev
        /\ k.cmd \in {"ready", "cap", "read", "write"}
        /\ k.cmd \in {"read", "write"} => call.op = k.cmd
        /\ k.cmd \in {"ready", "cap"} => call.op = "boot" /\ ~k.on
        /\ Answering(Disk.hc, Disk.addr) # {}
    BY InCommand DEF Bots
  <1>2. Kept /\ DevsOK(hw', k.tag) /\ hw'.dev[Target] = d2
    BY <1>1, InKept
  <1>3. k.i = 0 /\ k.t0 = k.tog.in /\ k.t0 \in {0, 1} /\ b = 1 - HostTog /\ HostTog = k.t0 /\ b \in {0, 1}
    <2>1. k.i = 0 /\ k.t0 = k.tog.in /\ k.t0 \in {0, 1}
      BY <1>1 DEF UsbInv, UsbTransfer, UsbMem
    <2>2. k.t0 + k.i = k.t0 /\ k.t0 \in Nat /\ k.t0 < 2
      BY <2>1
    <2> QED  BY <2>1, <2>2, NextBit DEF HostTog
  <1>4. /\ kk \in UsbMem /\ kk.tag = k.tag /\ kk.ports = k.ports /\ kk.dev = k.dev /\ kk.disk = k.disk
        /\ kk.on = k.on /\ kk.try = 1 /\ kk.tog = [k.tog EXCEPT !["in"] = b]
    <2>1. n \in UsbMem /\ n.tog = [k.tog EXCEPT !["in"] = b]
      BY <1>1, <1>3, TogSet
    <2>2. /\ n.tag = k.tag /\ n.ports = k.ports /\ n.dev = k.dev /\ n.disk = k.disk
          /\ n.on = k.on
      BY <1>1 DEF UsbMem
    <2>3. kk = [n EXCEPT !.i = 0, !.clean = FALSE, !.try = 1]
      OBVIOUS
    <2> HIDE DEF n, b
    <2> QED  BY <2>1, <2>2, <2>3 DEF UsbMem
  <1>5. \/ k.cmd = "ready" /\ k' = BotStart(kk, "cap") /\ Goto("us_cbw") /\ UNCHANGED last
        \/ k.cmd = "cap" /\ k' = [kk EXCEPT !.on = TRUE] /\ Goto("us_mouse") /\ UNCHANGED last
        \/ k.cmd \in {"read", "write"} /\ k' = kk /\ Return(0)
    BY <1>1 DEF BotDone, TogAfter
  <1>6. media' \in [Sectors -> Vals] /\ faults' \in Nat
    BY DEF BaseInv
  <1> HIDE DEF kk
  <1>7. CASE k.cmd = "ready" /\ k' = BotStart(kk, "cap") /\ Goto("us_cbw") /\ UNCHANGED last
    <2>1. /\ BaseInv' /\ call'.pc = "us_cbw" /\ call'.op = call.op
      BY <1>6, <1>7, GotoBase
    <2>2. /\ k'.try = 1 /\ k'.cmd = "cap" /\ k'.on = k.on /\ k'.disk = k.disk /\ k'.dev = k.dev
      BY <1>4, <1>7, BotStartIs DEF UsbOps
    <2>3. UsbTypes' /\ UsbTable' /\ UsbTransfer' /\ UsbProgress'
      BY <1>2, <1>4, <1>7, <2>1, StartCommand DEF UsbInv, UsbOps
    <2>4. UsbControl'
      BY <1>1, <1>7, <2>1, <2>2 DEF UsbInv, UsbControl, EnumPcs, Bots, Recovers
    <2> QED  BY <2>1, <2>2, <2>3, <2>4, FirstTry DEF UsbInv
  <1>8. CASE k.cmd = "cap" /\ k' = [kk EXCEPT !.on = TRUE] /\ Goto("us_mouse") /\ UNCHANGED last
    <2>1. /\ BaseInv' /\ call'.pc = "us_mouse" /\ call'.op = call.op
      BY <1>6, <1>8, GotoBase
    <2>2. /\ k' \in UsbMem /\ k'.tag = k.tag /\ k'.ports = k.ports /\ k'.dev = k.dev /\ k'.disk = k.disk
      BY <1>4, <1>8 DEF UsbMem
    <2>3. UsbTypes'
      BY <1>2, <2>2 DEF UsbInv, UsbTypes, Kept
    <2>4. UsbTable'
      BY <1>2, <2>1, <2>2, KeptTable DEF UsbInv, EnumPcs
    <2>5. UsbControl'
      BY <1>1, <1>8, <2>1, <2>2 DEF UsbInv, UsbControl, EnumPcs, Bots, Recovers
    <2> QED  BY <2>1, <2>3, <2>4, <2>5, NoCommand DEF UsbInv, Bots
  <1>9. CASE k.cmd \in {"read", "write"} /\ k' = kk /\ Return(0)
    <2>1. Progress(d)
      BY <1>1, <1>9 DEF UsbInv, UsbProgress, Taken, CswOk
    <2>2. ~d.bad
      BY DEF CswOk
    <2>3. d.tog.out = k.tog.out /\ Good(call.buf) /\ "out" \notin d.halt
      BY <2>1, <2>2 DEF Progress
    <2>4. BaseInv' /\ call' = Idle
      BY <1>9, <2>3, ReturnBase DEF Return
    <2>5. call'.pc = "idle" /\ call'.op = "boot"
      BY <2>4, IdleIs
    <2>6. UsbTypes'
      BY <1>2, <1>4, <1>9 DEF UsbInv, UsbTypes, Kept
    <2>7. UsbTable'
      BY <1>2, <1>4, <1>9, <2>5, KeptTable DEF UsbInv, EnumPcs
    <2>8. UsbControl'
      BY <1>1, <1>4, <1>9, <2>5 DEF UsbInv, UsbControl, EnumPcs, Bots, Recovers
    <2>9. UsbTransfer' /\ UsbProgress' /\ Recovered'
      BY <2>5 DEF UsbTransfer, UsbProgress, Taken, Recovered
    <2>10. Agree(hw.dev[Target])'
      <3>1. Target' = Target
        BY <1>2, <1>4, <1>9, TargetKept
      <3>2. /\ d2.tog \in Togs /\ d2.tog.in = 1 - d.tog.in /\ d2.tog.out = d.tog.out /\ d2.st = "cbw"
            /\ d2.halt = d.halt /\ d.halt \subseteq {"in", "out"}
        BY <1>1, AfterInIs DEF UsbDevs
      <3>3. k'.tog \in Togs /\ k'.tog.in = b /\ k'.tog.out = k.tog.out
        <4>1. k.tog \in Togs
          BY <1>1 DEF UsbMem
        <4> HIDE DEF b
        <4> QED  BY <1>3, <1>4, <1>9, <4>1 DEF Togs
      <3>4. d2.tog = k'.tog
        BY <1>3, <2>3, <3>2, <3>3 DEF Togs
      <3>5. d2.halt = {}
        BY <2>3, <3>2
      <3> QED  BY <1>2, <3>1, <3>2, <3>4, <3>5 DEF Agree
    <2>11. InStep'
      BY <2>5, <2>10 DEF InStep
    <2> QED  BY <2>4, <2>6, <2>7, <2>8, <2>9, <2>11 DEF UsbInv
  <1> QED  BY <1>5, <1>7, <1>8, <1>9

LEMMA bulk_inStep ==
  ASSUME BaseInv, UsbInv, bulk_in
  PROVE  BaseInv' /\ UsbInv'
  <1> DEFINE d == hw.dev[Target]
             got == Append(k.got, InPacket(d))
             more == call.pc = "us_data" /\ d.st = "in" /\ k.i + 1 < Count
  <1>1. /\ call.pc \in {"us_data", "us_csw"} /\ call.pc \in Bots /\ Ep = "in"
        /\ UNCHANGED <<part, media, ncalls, faults>>
        /\ "in" \notin d.halt /\ d.st \in {"in", "csw"}
    BY DEF bulk_in, Bulk, Ep, Bots
  <1>2. media' \in [Sectors -> Vals] /\ faults' \in Nat
    BY <1>1 DEF BaseInv
  <1>3. InPacket(d) \in InPackets
    <2>1. d \in UsbDevs /\ DevOK(d, k.tag)
      BY <1>1, InCommand
    <2>2. d.op = "read" => media[d.lba] \in Vals
      BY <2>1 DEF DevOK, BaseInv
    <2>3. d.left \in Int /\ (d.st = "csw") \in BOOLEAN
      BY <2>1 DEF UsbDevs
    <2> DEFINE c == d.st = "csw"
               v == IF d.op = "read" THEN media[d.lba] ELSE None
    <2>4. v \in Vals \cup {None} /\ c \in BOOLEAN
      BY <2>2
    <2>5. InPacket(d) = [csw |-> c, val |-> v, left |-> d.left]
      BY DEF InPacket
    <2> HIDE DEF c, v
    <2> QED  BY <2>3, <2>4, <2>5 DEF InPackets
  <1>4. CASE call.pc = "us_csw" /\ d.st = "in" /\ BotFailed(k.i, FALSE) /\ UNCHANGED hw
    <2>1. Kept /\ DevsOK(hw', k.tag)
      BY <1>4, KeptSame DEF UsbInv, UsbTypes
    <2>2. k.i \in Nat
      BY DEF UsbInv, UsbTypes, UsbMem
    <2> QED  BY <1>1, <1>2, <1>4, <2>1, <2>2, BotFailedStep
  <1>5. CASE /\ ~(call.pc = "us_csw" /\ d.st = "in")
             /\ hw' = [hw EXCEPT !.dev[Target] = AfterIn(hw.dev[Target])]
             /\ UNCHANGED <<k, call, last>>
    BY <1>1, <1>5, InDropped
  <1>6. CASE /\ ~(call.pc = "us_csw" /\ d.st = "in")
             /\ hw' = [hw EXCEPT !.dev[Target] = AfterIn(hw.dev[Target])] /\ HostTog = d.tog.in
             /\ \/ more /\ k' = [k EXCEPT !.i = @ + 1, !.got = got] /\ UNCHANGED <<call, last>>
                \/ call.pc = "us_data" /\ ~more /\ StageDone(got, Buffer(got))
                \/ call.pc = "us_csw" /\ CswOk(d) /\ BotDone
                \/ call.pc = "us_csw" /\ ~CswOk(d) /\ BotFailed(1, TRUE)
    <2>1. CASE more /\ k' = [k EXCEPT !.i = @ + 1, !.got = got] /\ UNCHANGED <<call, last>>
      BY <1>1, <1>3, <1>6, <2>1, InMore
    <2>2. CASE call.pc = "us_data" /\ ~more /\ StageDone(got, Buffer(got))
      BY <1>1, <1>3, <1>6, <2>2, InLast
    <2>3. CASE call.pc = "us_csw" /\ CswOk(d) /\ BotDone
      BY <1>1, <1>6, <2>3, CswDone
    <2>4. CASE call.pc = "us_csw" /\ ~CswOk(d) /\ BotFailed(1, TRUE)
      <3>1. Kept /\ DevsOK(hw', k.tag)
        BY <1>1, <1>6, InKept
      <3> QED  BY <1>1, <1>2, <2>4, <3>1, BotFailedStep
    <2> QED  BY <1>6, <2>1, <2>2, <2>3, <2>4
  <1> QED  BY <1>1, <1>4, <1>5, <1>6 DEF bulk_in

-----------------------------------------------------------------------------
(* The USB stack: the ports *)

LEMMA EnumControl ==
  ASSUME UsbInv, call.pc \in EnumPcs, call'.pc \in EnumPcs \cup {"us_msc"}, call'.op = call.op,
         last' = last, k'.on = k.on
  PROVE  UsbControl'
  BY DEF UsbInv, UsbControl, EnumPcs, Bots, Recovers

\* Controllers keep their ports.
SameHc == DOMAIN hw'.dev = DOMAIN hw.dev /\ \A y \in DOMAIN hw.dev : hw'.dev[y].hc = hw.dev[y].hc

LEMMA PortsKept ==
  ASSUME UsbTypes, PortsOK, SameHc, k'.ports = k.ports
  PROVE  PortsOK' /\ \A j \in DOMAIN k.ports : FirstPort(j)' = FirstPort(j)
  <1>1. \A j \in DOMAIN k.ports : hw'.dev[k.ports[j]].hc = hw.dev[k.ports[j]].hc
    BY DEF UsbTypes, SameHc
  <1> QED  BY <1>1 DEF PortsOK, FirstPort

\* The devices after the ports of a controller were reset.
ResetDev(hc, up) ==
  [p \in DOMAIN hw.dev |-> IF p \in up THEN PortUp(hw.dev[p])
                           ELSE IF p \in PortsOf(hc) THEN PortDown(hw.dev[p]) ELSE hw.dev[p]]

LEMMA SetUpIs ==
  ASSUME UsbTypes, NEW hc, SetUp(hc), faults \in Nat
  PROVE  \E up \in SUBSET PortsOf(hc), found \in Seq(Nat) :
           /\ \A j \in DOMAIN found : found[j] \in up
           /\ Ascending(found) /\ k' = [k EXCEPT !.ports = k.ports \o found]
           /\ DevsOK(hw', k.tag) /\ SameHc /\ faults' \in Nat
           /\ \A p \in up : hw'.dev[p].en /\ hw'.dev[p].addr = 0
           /\ \A p \in DOMAIN hw.dev : hw.dev[p].hc # hc => hw'.dev[p] = hw.dev[p]
  <1>1. PICK up \in SUBSET PortsOf(hc) : \E found \in [1 .. Cardinality(up) -> up] :
          /\ Ascending(found) /\ hw' = [hw EXCEPT !.dev = ResetDev(hc, up)]
          /\ k' = [k EXCEPT !.ports = k.ports \o found]
          /\ UNCHANGED faults \/ Fault
    BY DEF SetUp, ResetDev
  <1>2. PICK found \in [1 .. Cardinality(up) -> up] :
          /\ Ascending(found) /\ hw' = [hw EXCEPT !.dev = ResetDev(hc, up)]
          /\ k' = [k EXCEPT !.ports = k.ports \o found]
          /\ UNCHANGED faults \/ Fault
    BY <1>1
  <1>3. faults' \in Nat
    BY <1>2 DEF Fault
  <1>4. /\ DevsOK(hw, k.tag) /\ k.tag \in Nat /\ IsFiniteSet(DOMAIN hw.dev) /\ DOMAIN hw.dev \subseteq Nat
        /\ up \subseteq DOMAIN hw.dev
    BY <1>1 DEF UsbTypes, UsbMem, DevsOK, PortsOf
  <1>5. Cardinality(up) \in Nat
    BY <1>4, FS_Subset, FS_CardinalityType
  <1>6. found \in Seq(Nat) /\ \A j \in DOMAIN found : found[j] \in up
    <2> DEFINE n == Cardinality(up)
    <2>1. n \in Nat /\ found \in [1 .. n -> up] /\ up \subseteq Nat
      BY <1>2, <1>4, <1>5
    <2> HIDE DEF n
    <2>2. found \in [1 .. n -> Nat]
      BY <2>1
    <2> QED  BY <2>1, <2>2
  <1> DEFINE f == ResetDev(hc, up)
  <1>7. \A p \in DOMAIN hw.dev :
          /\ f[p] = IF p \in up THEN PortUp(hw.dev[p])
                    ELSE IF p \in PortsOf(hc) THEN PortDown(hw.dev[p]) ELSE hw.dev[p]
          /\ DevOK(hw.dev[p], k.tag)
    BY <1>4 DEF ResetDev, DevsOK
  <1>8. \A p \in DOMAIN hw.dev : DevOK(f[p], k.tag) /\ f[p].hc = hw.dev[p].hc
    <2>1. SUFFICES ASSUME NEW p \in DOMAIN hw.dev PROVE DevOK(f[p], k.tag) /\ f[p].hc = hw.dev[p].hc
      OBVIOUS
    <2>2. /\ DevOK(PortUp(hw.dev[p]), k.tag) /\ PortUp(hw.dev[p]).hc = hw.dev[p].hc
          /\ DevOK(PortDown(hw.dev[p]), k.tag) /\ PortDown(hw.dev[p]).hc = hw.dev[p].hc
      BY <1>4, <1>7, PortEffects, 0 \in Nat
    <2> HIDE DEF f
    <2> QED  BY <1>7, <2>2
  <1>9. \A p \in up : f[p].en /\ f[p].addr = 0
    <2>1. SUFFICES ASSUME NEW p \in up PROVE f[p].en /\ f[p].addr = 0
      OBVIOUS
    <2>2. PortUp(hw.dev[p]).en /\ PortUp(hw.dev[p]).addr = 0
      BY <1>4, <1>7, PortEffects, 0 \in Nat
    <2> HIDE DEF f
    <2> QED  BY <1>4, <1>7, <2>2
  <1>10. DOMAIN f = DOMAIN hw.dev /\ f = [p \in DOMAIN f |-> f[p]]
    BY DEF ResetDev
  <1> HIDE DEF f
  <1>11. hw'.dev = f /\ hw' = [hw EXCEPT !.dev = f]
    BY <1>2, <1>4 DEF f, DevsOK
  <1>12. DevsOK(hw', k.tag)
    <2>1. f \in [DOMAIN f -> UsbDevs]
      BY <1>8, <1>10 DEF DevOK
    <2>2. hw' \in [dead : BOOLEAN, dev : [DOMAIN f -> UsbDevs]]
      BY <1>4, <1>11, <2>1 DEF DevsOK
    <2>3. hw' \in [dead : BOOLEAN, dev : [DOMAIN hw'.dev -> UsbDevs]]
      BY <1>11, <2>2
    <2> QED  BY <1>4, <1>8, <1>10, <1>11, <2>3 DEF DevsOK
  <1>13. \A p \in DOMAIN hw.dev : hw.dev[p].hc # hc => f[p] = hw.dev[p]
    BY <1>1, <1>7 DEF PortsOf
  <1>14. SameHc
    BY <1>8, <1>10, <1>11 DEF SameHc
  <1> QED  BY <1>2, <1>3, <1>6, <1>9, <1>11, <1>12, <1>13, <1>14

LEMMA uhci_setup_oneStep ==
  ASSUME BaseInv, UsbInv, uhci_setup_one
  PROVE  BaseInv' /\ UsbInv'
  <1>1. /\ call.pc = "boot" /\ SetUp("uhci") /\ Goto("us_uprobe") /\ UNCHANGED <<part, media, last, ncalls>>
        /\ k \in UsbMem /\ k.ports = <<>> /\ k.dev = <<>> /\ k.port = 1 /\ k.step = 1
    BY DEF uhci_setup_one, At, UsbInv, UsbTypes, UsbTable, Scanned, EnumPcs
  <1>2. PICK up \in SUBSET PortsOf("uhci"), found \in Seq(Nat) :
           /\ \A j \in DOMAIN found : found[j] \in up
           /\ Ascending(found) /\ k' = [k EXCEPT !.ports = k.ports \o found]
           /\ DevsOK(hw', k.tag) /\ SameHc /\ faults' \in Nat
           /\ \A p \in up : hw'.dev[p].en /\ hw'.dev[p].addr = 0
    BY <1>1, SetUpIs DEF UsbInv, BaseInv
  <1>3. k.ports \o found = found
    BY <1>1, ConcatEmptySeq
  <1>4. /\ k' \in UsbMem /\ k'.tag = k.tag /\ k'.ports = found /\ k'.dev = k.dev /\ k'.port = k.port
        /\ k'.step = k.step /\ k'.on = k.on
    BY <1>1, <1>2, <1>3 DEF UsbMem
  <1>5. BaseInv' /\ call'.pc = "us_uprobe" /\ call'.op = call.op
    BY <1>1, <1>2, GotoBase DEF BaseInv
  <1>6. \A j \in DOMAIN found : /\ found[j] \in DOMAIN hw.dev /\ hw'.dev[found[j]].hc = "uhci"
                                /\ hw'.dev[found[j]].addr = 0
    BY <1>2 DEF PortsOf, SameHc
  <1>7. UsbTypes'
    BY <1>1, <1>2, <1>4, <1>6 DEF UsbInv, UsbTypes, SameHc
  <1>8. UsbControl'
    BY <1>1, <1>4, <1>5, EnumControl DEF EnumPcs
  <1>9. PortsOK'
    <2>1. SUFFICES ASSUME NEW i \in DOMAIN found, NEW j \in DOMAIN found, i < j
                   PROVE  found[i] # found[j] /\ found[i] < found[j]
      BY <1>4 DEF PortsOK
    <2>2. found[i] < found[j] /\ found[i] \in Nat /\ found[j] \in Nat
      BY <1>2, <2>1 DEF Ascending
    <2> QED  BY <2>2
  <1>10. Scanned' /\ Enumerating' /\ Entered'
    BY <1>1, <1>4, <1>5, <1>6 DEF Scanned, Enumerating, Entered, Fresh, EnumPcs
  <1> QED  BY <1>5, <1>7, <1>8, <1>9, <1>10, NoCommand DEF UsbInv, UsbTable, Bots

LEMMA ehci_setup_oneStep ==
  ASSUME BaseInv, UsbInv, ehci_setup_one
  PROVE  BaseInv' /\ UsbInv'
  <1>1. /\ call.pc = "us_ehci" /\ SetUp("ehci") /\ Goto("us_eprobe") /\ UNCHANGED <<part, media, last, ncalls>>
        /\ k \in UsbMem /\ k.dev = <<>> /\ k.port = 1 /\ k.step = 1
        /\ \A j \in DOMAIN k.ports : k.ports[j] \in DOMAIN hw.dev /\ hw.dev[k.ports[j]].hc = "uhci"
    BY DEF ehci_setup_one, At, UsbInv, UsbTypes, UsbTable, Scanned, EnumPcs
  <1>2. PICK up \in SUBSET PortsOf("ehci"), found \in Seq(Nat) :
           /\ \A j \in DOMAIN found : found[j] \in up
           /\ Ascending(found) /\ k' = [k EXCEPT !.ports = k.ports \o found]
           /\ DevsOK(hw', k.tag) /\ SameHc /\ faults' \in Nat
           /\ \A p \in up : hw'.dev[p].en /\ hw'.dev[p].addr = 0
           /\ \A p \in DOMAIN hw.dev : hw.dev[p].hc # "ehci" => hw'.dev[p] = hw.dev[p]
    BY <1>1, SetUpIs DEF UsbInv, BaseInv
  <1> DEFINE ps == k.ports \o found
             m == Len(k.ports)
             n == Len(found)
  <1>3. k.ports \in Seq(Nat) /\ m \in Nat /\ DOMAIN k.ports = 1 .. m
    BY <1>1 DEF UsbMem
  <1>4. /\ ps \in Seq(Nat) /\ DOMAIN ps = 1 .. (m + n) /\ n \in Nat
        /\ DOMAIN found = 1 .. n
        /\ \A j \in 1 .. (m + n) : ps[j] = IF j <= m THEN k.ports[j] ELSE found[j - m]
    BY <1>2, <1>3, ConcatProperties
  <1> HIDE DEF ps, m, n
  <1>5. /\ k' \in UsbMem /\ k'.tag = k.tag /\ k'.ports = ps /\ k'.dev = k.dev /\ k'.port = k.port
        /\ k'.step = k.step /\ k'.on = k.on
    BY <1>1, <1>2, <1>4 DEF UsbMem, ps
  <1>6. BaseInv' /\ call'.pc = "us_eprobe" /\ call'.op = call.op
    BY <1>1, <1>2, GotoBase DEF BaseInv
  \* The ports of the table are those of UHCI, then those of EHCI.
  <1>7. ASSUME NEW j \in DOMAIN ps
        PROVE  \/ /\ j \in DOMAIN k.ports /\ j <= m /\ ps[j] = k.ports[j] /\ ps[j] \in DOMAIN hw.dev
                  /\ hw'.dev[ps[j]] = hw.dev[ps[j]] /\ hw'.dev[ps[j]].hc = "uhci"
               \/ /\ j - m \in DOMAIN found /\ j > m /\ ps[j] = found[j - m] /\ ps[j] \in DOMAIN hw.dev
                  /\ hw'.dev[ps[j]].hc = "ehci" /\ hw'.dev[ps[j]].en /\ hw'.dev[ps[j]].addr = 0
    <2>1. CASE j <= m
      <3>1. j \in DOMAIN k.ports /\ ps[j] = k.ports[j]
        BY <1>3, <1>4, <1>7, <2>1
      <3> QED  BY <1>1, <1>2, <2>1, <3>1
    <2>2. CASE j > m
      <3>1. j - m \in DOMAIN found /\ ps[j] = found[j - m]
        BY <1>3, <1>4, <1>7, <2>2
      <3>2. ps[j] \in up
        BY <1>2, <3>1
      <3> QED  BY <1>2, <2>2, <3>1, <3>2 DEF PortsOf, SameHc
    <2> QED  BY <1>3, <1>4, <2>1, <2>2
  <1>8. UsbTypes'
    BY <1>1, <1>2, <1>5, <1>7 DEF UsbInv, UsbTypes, SameHc
  <1>9. UsbControl'
    BY <1>1, <1>5, <1>6, EnumControl DEF EnumPcs
  <1>10. PortsOK'
    <2>1. SUFFICES ASSUME NEW i \in DOMAIN ps, NEW j \in DOMAIN ps, i < j
                   PROVE  /\ ps[i] # ps[j]
                          /\ hw'.dev[ps[i]].hc = hw'.dev[ps[j]].hc => ps[i] < ps[j]
      BY <1>5 DEF PortsOK
    <2>2. CASE j <= m
      <3>1. i \in DOMAIN k.ports /\ j \in DOMAIN k.ports /\ ps[i] = k.ports[i] /\ ps[j] = k.ports[j]
        <4>1. i \in 1 .. (m + n) /\ j \in 1 .. (m + n) /\ m \in Nat /\ n \in Nat
          BY <1>3, <1>4, <2>1
        <4>2. i \in 1 .. m /\ j \in 1 .. m /\ i <= m
          BY <2>1, <2>2, <4>1
        <4>3. ps[i] = k.ports[i] /\ ps[j] = k.ports[j]
          BY <1>4, <2>2, <4>1, <4>2
        <4> QED  BY <1>3, <4>2, <4>3
      <3> QED  BY <1>1, <2>1, <3>1 DEF UsbInv, UsbTable, PortsOK
    <2>3. CASE i > m
      <3>1. /\ i - m \in DOMAIN found /\ j - m \in DOMAIN found /\ i - m < j - m
            /\ ps[i] = found[i - m] /\ ps[j] = found[j - m]
        <4>1. i \in Int /\ j \in Int /\ j > m /\ ~(i <= m) /\ ~(j <= m) /\ i - m < j - m
          BY <1>3, <1>4, <2>1, <2>3
        <4>2. i - m \in DOMAIN found /\ ps[i] = found[i - m]
          BY <1>7, <4>1
        <4>3. j - m \in DOMAIN found /\ ps[j] = found[j - m]
          BY <1>7, <4>1
        <4> QED  BY <4>1, <4>2, <4>3
      <3>2. ps[i] < ps[j] /\ ps[i] \in Nat /\ ps[j] \in Nat
        BY <1>2, <1>4, <2>1, <3>1 DEF Ascending
      <3> QED  BY <3>2
    <2>4. CASE i <= m /\ j > m
      <3>1. hw'.dev[ps[i]].hc = "uhci" /\ hw'.dev[ps[j]].hc = "ehci"
        BY <1>3, <1>4, <1>7, <2>1, <2>4
      <3> QED  BY <3>1
    <2> QED  BY <1>3, <1>4, <2>1, <2>2, <2>3, <2>4
  <1>11. \A j \in DOMAIN ps : ps[j] \in DOMAIN hw.dev /\ (hw'.dev[ps[j]].addr = 0 \/ FirstPort(j)')
    <2>1. SUFFICES ASSUME NEW j \in DOMAIN ps
                   PROVE  ps[j] \in DOMAIN hw.dev /\ (hw'.dev[ps[j]].addr = 0 \/ FirstPort(j)')
      OBVIOUS
    <2>2. CASE j > m
      BY <1>3, <1>4, <1>7, <2>1, <2>2
    <2>3. CASE j <= m
      <3>1. /\ j \in DOMAIN k.ports /\ ps[j] = k.ports[j] /\ hw'.dev[ps[j]] = hw.dev[ps[j]]
            /\ ps[j] \in DOMAIN hw.dev /\ j >= k.port
        BY <1>1, <1>3, <1>4, <1>7, <2>1, <2>3
      <3>2. Fresh(k.ports[j]) \/ FirstPort(j)
        BY <1>1, <3>1 DEF UsbInv, UsbTable, Scanned, EnumPcs
      <3>3. FirstPort(j) => j = 1
        <4>1. j # 1 => 1 \in DOMAIN k.ports /\ 1 < j
          BY <1>3, <3>1
        <4> QED  BY <1>1, <3>1, <4>1 DEF FirstPort
      <3>4. j = 1 => FirstPort(j)'
        BY <1>4, <1>5 DEF FirstPort
      <3> QED  BY <3>1, <3>2, <3>3, <3>4 DEF Fresh
    <2> QED  BY <1>3, <1>4, <2>1, <2>2, <2>3
  <1>12. Scanned'
    <2>1. \A j \in DOMAIN ps : hw'.dev[ps[j]].hc = "ehci" => hw'.dev[ps[j]].addr = 0 /\ hw'.dev[ps[j]].en
      BY <1>7
    <2> QED  BY <1>1, <1>5, <1>6, <1>11, <2>1 DEF Scanned, Fresh, EnumPcs
  <1>13. Enumerating' /\ Entered'
    BY <1>1, <1>5, <1>6 DEF Enumerating, Entered
  <1> QED  BY <1>6, <1>8, <1>9, <1>10, <1>12, <1>13, NoCommand DEF UsbInv, UsbTable, Bots

\* The first port of a controller is the least one, and the probes address a
\* device no later than it.
LEMMA ProbeStep ==
  ASSUME BaseInv, UsbInv, call.pc \in {"us_uprobe", "us_eprobe"}, NEW next, Goto(next),
         next = (IF call.pc = "us_uprobe" THEN "us_ehci" ELSE "us_scan"),
         NEW x \in DOMAIN hw.dev,
         SameHc, DevsOK(hw', k.tag), \A y \in DOMAIN hw.dev : y = x \/ hw'.dev[y].addr \in {0, hw.dev[y].addr},
         \A j \in DOMAIN k.ports : k.ports[j] = x => FirstPort(j),
         UNCHANGED <<part, media, last, k, ncalls>>, faults' \in Nat
  PROVE  BaseInv' /\ UsbInv'
  <1>1. /\ k.dev = <<>> /\ k.port = 1 /\ k.step = 1
        /\ call.pc = "us_uprobe" => \A j \in DOMAIN k.ports : hw.dev[k.ports[j]].hc = "uhci"
        /\ \A j \in DOMAIN k.ports : Fresh(k.ports[j]) \/ FirstPort(j) \/ ~(j >= 1)
    BY DEF UsbInv, UsbTable, Scanned, EnumPcs
  <1>2. BaseInv' /\ call'.pc = next /\ call'.op = call.op
    BY GotoBase DEF BaseInv
  <1>3. UsbTypes'
    BY DEF UsbInv, UsbTypes, SameHc
  <1>4. UsbControl'
    BY <1>2, EnumControl DEF EnumPcs
  <1>5. PortsOK' /\ \A j \in DOMAIN k.ports : FirstPort(j)' = FirstPort(j)
    BY PortsKept DEF UsbInv, UsbTable
  <1>6. \A j \in DOMAIN k.ports : k.ports[j] \in DOMAIN hw.dev
    BY DEF UsbInv, UsbTypes
  <1>7. \A j \in DOMAIN k.ports : j >= 1 => Fresh(k.ports[j])' \/ FirstPort(j)'
    BY <1>1, <1>5, <1>6 DEF Fresh
  <1>8. next = "us_ehci" => \A j \in DOMAIN k.ports : hw'.dev[k.ports[j]].hc = "uhci"
    BY <1>1, <1>6 DEF SameHc
  <1>9. Scanned'
    BY <1>1, <1>2, <1>7, <1>8 DEF Scanned, EnumPcs
  <1>10. Enumerating' /\ Entered'
    BY <1>1, <1>2 DEF Enumerating, Entered
  <1>11. next \notin Bots \cup {"us_clin", "us_clout", "us_again", "idle"}
    BY DEF Bots
  <1>12. UsbTransfer' /\ UsbProgress' /\ Recovered' /\ InStep'
    BY <1>2, <1>11, NoCommand
  <1> QED  BY <1>2, <1>3, <1>4, <1>5, <1>9, <1>10, <1>12 DEF UsbInv, UsbTable

LEMMA FirstIs ==
  ASSUME UsbInv, NEW hc, First(hc) # {}
  PROVE  /\ Min(First(hc)) \in DOMAIN hw.dev /\ hw.dev[Min(First(hc))].hc = hc
         /\ \A j \in DOMAIN k.ports : hw.dev[k.ports[j]].hc = hc => Min(First(hc)) <= k.ports[j]
         /\ \E j \in DOMAIN k.ports : k.ports[j] = Min(First(hc))
  <1>1. \A j \in DOMAIN k.ports : k.ports[j] \in DOMAIN hw.dev /\ k.ports[j] \in Nat
    BY DEF UsbInv, UsbTypes, DevsOK
  <1>2. First(hc) \in SUBSET Nat
    BY <1>1 DEF First
  <1>3. Min(First(hc)) \in First(hc) /\ \A y \in First(hc) : Min(First(hc)) <= y
    BY <1>2, MinIs
  <1> QED  BY <1>1, <1>3 DEF First

LEMMA NoProbe ==
  ASSUME BaseInv, UsbInv, call.pc \in {"us_uprobe", "us_eprobe"}, NEW next, Goto(next),
         next = (IF call.pc = "us_uprobe" THEN "us_ehci" ELSE "us_scan"),
         UNCHANGED <<part, media, last, k, hw, ncalls, faults>>
  PROVE  BaseInv' /\ UsbInv'
  <1>1. /\ k.dev = <<>> /\ k.port = 1 /\ k.step = 1
    BY DEF UsbInv, UsbTable, Scanned, EnumPcs
  <1>2. BaseInv' /\ call'.pc = next /\ call'.op = call.op
    BY GotoBase DEF BaseInv
  <1>3. UsbTypes'
    BY DEF UsbInv, UsbTypes
  <1>4. UsbControl'
    BY <1>2, EnumControl DEF EnumPcs
  <1>5. PortsOK'
    BY DEF UsbInv, UsbTable, PortsOK
  <1>6. Scanned'
    BY <1>2 DEF UsbInv, UsbTable, Scanned, Fresh, FirstPort, EnumPcs
  <1>7. Enumerating' /\ Entered'
    BY <1>1, <1>2 DEF Enumerating, Entered
  <1>8. next \notin Bots \cup {"us_clin", "us_clout", "us_again", "idle"}
    BY DEF Bots
  <1>9. UsbTransfer' /\ UsbProgress' /\ Recovered' /\ InStep'
    BY <1>2, <1>8, NoCommand
  <1> QED  BY <1>2, <1>3, <1>4, <1>5, <1>6, <1>7, <1>9 DEF UsbInv, UsbTable

\* How a transfer leaves the devices when its effect leaves all but the address.
LEMMA AddressXfer ==
  ASSUME NEW h, NEW tag \in Nat, DevsOK(h, tag), NEW hc, NEW a, NEW b \in Nat, NEW o,
         AnsweringIn(h, hc, a) # {},
         Outcome(o, h, hc, a, Addressed(h.dev[Min(AnsweringIn(h, hc, a))], b))
  PROVE  LET x == Min(AnsweringIn(h, hc, a))
         IN /\ DevsOK(o.hw, tag) /\ DOMAIN o.hw.dev = DOMAIN h.dev /\ o.faults \in {faults, faults + 1}
            /\ \A y \in DOMAIN h.dev :
                 /\ o.hw.dev[y].hc = h.dev[y].hc /\ o.hw.dev[y].kind = h.dev[y].kind
                 /\ o.hw.dev[y].en = h.dev[y].en /\ o.hw.dev[y].conf = h.dev[y].conf
                 /\ y # x => o.hw.dev[y] = h.dev[y]
            /\ o.hw.dev[x].addr \in {h.dev[x].addr, b}
            /\ o.rc = 0 => o.hw.dev[x].addr = b
  <1> DEFINE x == Min(AnsweringIn(h, hc, a))
             d2 == Addressed(h.dev[x], b)
  <1>1. x \in DOMAIN h.dev /\ DevOK(h.dev[x], tag)
    BY AnsweringIs DEF DevsOK
  <1>2. DevOK(d2, tag) /\ d2.hc = h.dev[x].hc /\ d2.kind = h.dev[x].kind
            /\ d2.en = h.dev[x].en /\ d2.addr = b /\ d2.conf = h.dev[x].conf
    <2> DEFINE e == h.dev[x]
    <2>1. DevOK(e, tag)
      BY <1>1
    <2> HIDE DEF e
    <2>2. /\ DevOK(Addressed(e, b), tag) /\ Addressed(e, b).hc = e.hc /\ Addressed(e, b).kind = e.kind
          /\ Addressed(e, b).en = e.en /\ Addressed(e, b).addr = b /\ Addressed(e, b).conf = e.conf
      BY <2>1, PortEffects
    <2> QED  BY <2>2 DEF e
  <1>3. /\ o.hw \in {h, Put(h, x, d2)} /\ o.faults \in {faults, faults + 1}
        /\ o.rc = 0 => o.hw = Put(h, x, d2)
    BY DEF Outcome
  <1> HIDE DEF x, d2
  <1>4. /\ DevsOK(Put(h, x, d2), tag) /\ DOMAIN Put(h, x, d2).dev = DOMAIN h.dev
        /\ \A y \in DOMAIN h.dev : Put(h, x, d2).dev[y] = IF y = x THEN d2 ELSE h.dev[y]
    BY <1>1, <1>2, PutIs
  <1>5. CASE o.hw = h
    BY <1>1, <1>2, <1>3, <1>4, <1>5 DEF x
  <1>6. CASE o.hw = Put(h, x, d2)
    BY <1>1, <1>2, <1>3, <1>4, <1>6 DEF x
  <1> QED  BY <1>3, <1>5, <1>6

LEMMA uhci_control_probeStep ==
  ASSUME BaseInv, UsbInv, uhci_control_probe
  PROVE  BaseInv' /\ UsbInv'
  <1>1. /\ call.pc = "us_uprobe" /\ Goto("us_ehci") /\ UNCHANGED <<part, media, last, k, ncalls>>
        /\ DevsOK(hw, k.tag) /\ k.tag \in Nat /\ faults \in Nat
    BY DEF uhci_control_probe, At, UsbInv, UsbTypes, UsbMem, BaseInv
  <1>2. CASE First("uhci") = {}
    BY <1>1, <1>2, NoProbe DEF uhci_control_probe
  <1>3. CASE First("uhci") # {}
    <2> DEFINE m == Min(First("uhci"))
               h == Put(hw, m, PortUp(hw.dev[m]))
    <2>1. /\ m \in DOMAIN hw.dev /\ hw.dev[m].hc = "uhci"
          /\ \A j \in DOMAIN k.ports : hw.dev[k.ports[j]].hc = "uhci" => m <= k.ports[j]
          /\ \E j \in DOMAIN k.ports : k.ports[j] = m
      BY <1>3, FirstIs
    <2>2. PICK o \in XferFrom(h, "uhci", 0, ToOne) : hw' = o.hw /\ faults' = o.faults
      BY <1>3 DEF uhci_control_probe, Put
    <2>3. Outcome(o, h, "uhci", 0, ToOne(h.dev[Min(AnsweringIn(h, "uhci", 0))]))
      BY <2>2, Outcomes
    <2> DEFINE u == PortUp(hw.dev[m])
    <2>4. DevOK(u, k.tag) /\ u.hc = "uhci" /\ u.en /\ u.addr = 0
      BY <1>1, <2>1, PortEffects, 0 \in Nat DEF DevsOK
    <2> HIDE DEF m, u
    <2>5. /\ DevsOK(h, k.tag) /\ DOMAIN h.dev = DOMAIN hw.dev
          /\ \A y \in DOMAIN hw.dev : h.dev[y] = IF y = m THEN u ELSE hw.dev[y]
      BY <1>1, <2>1, <2>4, PutIs DEF u
    <2> HIDE DEF h
    <2>6. m \in AnsweringIn(h, "uhci", 0) /\ AnsweringIn(h, "uhci", 0) \in SUBSET Nat
      BY <2>1, <2>4, <2>5 DEF AnsweringIn, DevsOK
    <2> DEFINE x == Min(AnsweringIn(h, "uhci", 0))
    <2>7. x \in DOMAIN h.dev /\ x <= m /\ x \in Nat /\ m \in Nat
      BY <2>6, MinIs DEF AnsweringIn
    <2>8. /\ DevsOK(o.hw, k.tag) /\ DOMAIN o.hw.dev = DOMAIN h.dev /\ o.faults \in {faults, faults + 1}
          /\ \A y \in DOMAIN h.dev : o.hw.dev[y].hc = h.dev[y].hc
          /\ \A y \in DOMAIN h.dev : y # x => o.hw.dev[y] = h.dev[y]
      <3>1. Outcome(o, h, "uhci", 0, Addressed(h.dev[Min(AnsweringIn(h, "uhci", 0))], 1))
        BY <2>3 DEF ToOne
      <3>2. AnsweringIn(h, "uhci", 0) # {} /\ 1 \in Nat
        BY <2>6
      <3>3. DevsOK(h, k.tag) /\ k.tag \in Nat
        BY <1>1, <2>5
      <3> QED  BY <3>1, <3>2, <3>3, AddressXfer
    <2> HIDE DEF x
    <2>9. SameHc /\ DevsOK(hw', k.tag) /\ faults' \in Nat
      BY <1>1, <2>1, <2>2, <2>4, <2>5, <2>8 DEF SameHc
    <2>10. \A y \in DOMAIN hw.dev : y = x \/ hw'.dev[y].addr \in {0, hw.dev[y].addr}
      BY <2>2, <2>4, <2>5, <2>8
    <2>11. \A j \in DOMAIN k.ports : k.ports[j] = x => FirstPort(j)
      <3>1. SUFFICES ASSUME NEW j \in DOMAIN k.ports, k.ports[j] = x, NEW i \in DOMAIN k.ports, i < j,
                            hw.dev[k.ports[i]].hc = hw.dev[k.ports[j]].hc
                     PROVE  FALSE
        BY DEF FirstPort
      <3>2. hw.dev[k.ports[i]].hc = "uhci"
        BY <1>1 DEF UsbInv, UsbTable, Scanned
      <3>3. k.ports[i] < k.ports[j] /\ m <= k.ports[i] /\ k.ports[i] \in Nat /\ k.ports[j] \in Nat
        BY <2>1, <3>1, <3>2 DEF UsbInv, UsbTable, PortsOK, UsbTypes, DevsOK
      <3> QED  BY <2>7, <3>1, <3>3
    <2> QED  BY <1>1, <2>5, <2>7, <2>9, <2>10, <2>11, ProbeStep
  <1> QED  BY <1>2, <1>3

LEMMA ehci_control_probeStep ==
  ASSUME BaseInv, UsbInv, ehci_control_probe
  PROVE  BaseInv' /\ UsbInv'
  <1>1. /\ call.pc = "us_eprobe" /\ Goto("us_scan") /\ UNCHANGED <<part, media, last, k, ncalls>>
        /\ DevsOK(hw, k.tag) /\ k.tag \in Nat /\ faults \in Nat
    BY DEF ehci_control_probe, At, UsbInv, UsbTypes, UsbMem, BaseInv
  <1>2. CASE First("ehci") = {}
    BY <1>1, <1>2, NoProbe DEF ehci_control_probe
  <1>3. CASE First("ehci") # {}
    <2> DEFINE at == AnsweringIn(hw, "ehci", 0)
               x == Min(at)
    <2>1. PICK o \in ControlXfer("ehci", 0, ToOne) : hw' = o.hw /\ faults' = o.faults
      BY <1>3 DEF ehci_control_probe
    <2>2. Outcome(o, hw, "ehci", 0, Addressed(hw.dev[x], 1))
      BY <2>1, Outcomes DEF ControlXfer, ToOne
    \* The ports of EHCI are enabled and at address 0.
    <2>3. \A j \in DOMAIN k.ports : hw.dev[k.ports[j]].hc = "ehci" => k.ports[j] \in at
      BY <1>1 DEF UsbInv, UsbTable, Scanned, Fresh, AnsweringIn, UsbTypes
    <2>4. at # {} /\ at \in SUBSET Nat
      <3>1. \E j \in DOMAIN k.ports : hw.dev[k.ports[j]].hc = "ehci"
        BY <1>3, FirstIs
      <3> QED  BY <1>1, <2>3, <3>1 DEF AnsweringIn, DevsOK
    <2>5. x \in at /\ x \in DOMAIN hw.dev /\ hw.dev[x].hc = "ehci" /\ \A y \in at : x <= y
      <3>1. x \in at /\ \A y \in at : x <= y
        BY <2>4, MinIs
      <3> HIDE DEF x
      <3> QED  BY <3>1 DEF AnsweringIn
    <2>6. /\ DevsOK(o.hw, k.tag) /\ DOMAIN o.hw.dev = DOMAIN hw.dev /\ o.faults \in {faults, faults + 1}
          /\ \A y \in DOMAIN hw.dev : o.hw.dev[y].hc = hw.dev[y].hc
          /\ \A y \in DOMAIN hw.dev : y # x => o.hw.dev[y] = hw.dev[y]
      BY <1>1, <2>2, <2>4, AddressXfer
    <2> HIDE DEF x, at
    <2>7. SameHc /\ DevsOK(hw', k.tag) /\ faults' \in Nat
      BY <1>1, <2>1, <2>6 DEF SameHc
    <2>8. \A y \in DOMAIN hw.dev : y = x \/ hw'.dev[y].addr \in {0, hw.dev[y].addr}
      BY <2>1, <2>6
    <2>9. \A j \in DOMAIN k.ports : k.ports[j] = x => FirstPort(j)
      <3>1. SUFFICES ASSUME NEW j \in DOMAIN k.ports, k.ports[j] = x, NEW i \in DOMAIN k.ports, i < j,
                            hw.dev[k.ports[i]].hc = hw.dev[k.ports[j]].hc
                     PROVE  FALSE
        BY DEF FirstPort
      <3>2. k.ports[i] \in at
        BY <2>3, <2>5, <3>1
      <3>3. k.ports[i] < k.ports[j] /\ x <= k.ports[i] /\ k.ports[i] \in Nat /\ k.ports[j] \in Nat
        BY <2>4, <2>5, <3>1, <3>2 DEF UsbInv, UsbTable, PortsOK
      <3> QED  BY <3>1, <3>3
    <2> QED  BY <1>1, <2>5, <2>7, <2>8, <2>9, ProbeStep
  <1> QED  BY <1>2, <1>3

LEMMA usbhc_scanStep ==
  ASSUME BaseInv, UsbInv, usbhc_scan
  PROVE  BaseInv' /\ UsbInv'
  <1>1. /\ call.pc = "us_scan" /\ Goto("us_enum") /\ UNCHANGED <<part, media, last, hw, ncalls, faults>>
        /\ k \in UsbMem /\ k.dev = <<>> /\ k.port = 1 /\ k.step = 1
        /\ k' = [k EXCEPT !.ports = IF Len(@) > MaxPorts THEN SubSeq(@, 1, MaxPorts) ELSE @]
    BY DEF usbhc_scan, At, UsbInv, UsbTypes, UsbTable, Scanned, EnumPcs
  <1> DEFINE ps == IF Len(k.ports) > MaxPorts THEN SubSeq(k.ports, 1, MaxPorts) ELSE k.ports
  <1>2. /\ ps \in Seq(Nat) /\ DOMAIN ps \subseteq DOMAIN k.ports
        /\ \A j \in DOMAIN ps : ps[j] = k.ports[j]
        /\ \A j \in DOMAIN ps, i \in DOMAIN k.ports : i < j => i \in DOMAIN ps
    <2>1. k.ports \in Seq(Nat) /\ Len(k.ports) \in Nat /\ DOMAIN k.ports = 1 .. Len(k.ports) /\ MaxPorts \in Nat
      BY <1>1, UsbAssumption DEF UsbMem
    <2>2. CASE Len(k.ports) > MaxPorts
      <3> DEFINE s == SubSeq(k.ports, 1, MaxPorts)
      <3>1. \A i \in 1 .. MaxPorts : k.ports[i] \in Nat
        BY <2>1, <2>2
      <3>2. /\ s \in Seq(Nat) /\ Len(s) = (IF 1 <= MaxPorts THEN MaxPorts - 1 + 1 ELSE 0)
            /\ \A i \in 1 .. MaxPorts - 1 + 1 : s[i] = k.ports[1 + i - 1]
        BY <2>1, <3>1, SubSeqProperties
      <3> HIDE DEF s
      <3>3. Len(s) = MaxPorts /\ DOMAIN s = 1 .. MaxPorts /\ \A i \in 1 .. MaxPorts : s[i] = k.ports[i]
        BY <2>1, <3>2
      <3>4. ps = s
        BY <2>2 DEF s
      <3> HIDE DEF ps
      <3> QED  BY <2>1, <2>2, <3>2, <3>3, <3>4
    <2>3. CASE ~(Len(k.ports) > MaxPorts)
      BY <2>1, <2>3
    <2> QED  BY <2>2, <2>3
  <1> HIDE DEF ps
  <1>3. /\ k' \in UsbMem /\ k'.tag = k.tag /\ k'.ports = ps /\ k'.dev = k.dev /\ k'.port = k.port
        /\ k'.step = k.step /\ k'.on = k.on
    <2>1. k' = [k EXCEPT !.ports = ps]
      BY <1>1 DEF ps
    <2> QED  BY <1>1, <1>2, <2>1 DEF UsbMem
  <1>4. BaseInv' /\ call'.pc = "us_enum" /\ call'.op = call.op
    BY <1>1, GotoBase DEF BaseInv
  <1>5. UsbTypes'
    BY <1>1, <1>2, <1>3 DEF UsbInv, UsbTypes
  <1>6. UsbControl'
    BY <1>1, <1>3, <1>4, EnumControl DEF EnumPcs
  <1>7. PortsOK'
    <2>1. SUFFICES ASSUME NEW i \in DOMAIN ps, NEW j \in DOMAIN ps, i < j
                   PROVE  /\ ps[i] # ps[j]
                          /\ hw.dev[ps[i]].hc = hw.dev[ps[j]].hc => ps[i] < ps[j]
      <3>1. k'.ports = ps /\ hw' = hw
        BY <1>1, <1>3
      <3> QED  BY <3>1 DEF PortsOK
    <2>2. i \in DOMAIN k.ports /\ j \in DOMAIN k.ports /\ ps[i] = k.ports[i] /\ ps[j] = k.ports[j]
      BY <1>2, <2>1
    <2> QED  BY <2>1, <2>2 DEF UsbInv, UsbTable, PortsOK
  <1>8. \A j \in DOMAIN ps : FirstPort(j) => FirstPort(j)'
    <2>1. SUFFICES ASSUME NEW j \in DOMAIN ps, FirstPort(j), NEW i \in DOMAIN ps, i < j
                   PROVE  hw.dev[ps[i]].hc # hw.dev[ps[j]].hc
      <3>1. k'.ports = ps /\ hw' = hw
        BY <1>1, <1>3
      <3>2. \A y \in DOMAIN ps : FirstPort(y)' = \A x \in DOMAIN ps : x < y => hw.dev[ps[x]].hc # hw.dev[ps[y]].hc
        BY <3>1 DEF FirstPort
      <3> QED  BY <3>2
    <2>2. i \in DOMAIN k.ports /\ j \in DOMAIN k.ports /\ ps[i] = k.ports[i] /\ ps[j] = k.ports[j]
      <3>1. \A y \in DOMAIN ps : y \in DOMAIN k.ports /\ ps[y] = k.ports[y]
        BY <1>2
      <3> QED  BY <2>1, <3>1
    <2> QED  BY <2>1, <2>2 DEF FirstPort
  <1>9. Scanned'
    <2>1. \A j \in DOMAIN ps : j >= 1 => Fresh(k.ports[j]) \/ FirstPort(j)
      BY <1>1, <1>2 DEF UsbInv, UsbTable, Scanned, EnumPcs
    <2>2. \A j \in DOMAIN ps : j >= 1 => Fresh(k.ports[j])' \/ FirstPort(j)'
      BY <1>1, <1>2, <1>3, <1>8, <2>1 DEF Fresh
    <2> QED  BY <1>1, <1>3, <1>4, <2>2 DEF Scanned, EnumPcs
  <1>10. Enumerating' /\ Entered'
    BY <1>1, <1>3, <1>4 DEF Enumerating, Entered
  <1> QED  BY <1>4, <1>5, <1>6, <1>7, <1>9, <1>10, NoCommand DEF UsbInv, UsbTable, Bots

-----------------------------------------------------------------------------
(* The USB stack: the enumeration of a port *)

LEMMA InEnum ==
  ASSUME BaseInv, UsbInv, MorePorts
  PROVE  /\ call.pc = "us_enum" /\ call.op = "boot" /\ ~k.on /\ k \in UsbMem
         /\ DevsOK(hw, k.tag) /\ k.tag \in Nat /\ faults \in Nat
         /\ k.step \in 1 .. 9 /\ k.port \in Nat /\ k.port >= 1 /\ k.port \in DOMAIN k.ports
         /\ Port \in DOMAIN hw.dev /\ Port \in Nat /\ Port = k.ports[k.port]
         /\ NewAddr \in Nat /\ NewAddr # 0 /\ k.slot \in Entries /\ k.port <= Len(k.ports) /\ Len(k.dev) < MaxDev
         /\ \A i \in DOMAIN k.dev : k.dev[i].addr = i /\ i # NewAddr /\ i # 0 /\ i \in Nat
         /\ \A j \in DOMAIN k.ports : j \in Nat /\ k.ports[j] \in DOMAIN hw.dev
  <1>1. /\ call.pc = "us_enum" /\ call.op = "boot" /\ ~k.on /\ k \in UsbMem
        /\ DevsOK(hw, k.tag) /\ k.tag \in Nat /\ faults \in Nat /\ k.step \in 1 .. 9
        /\ k.port \in Nat /\ k.port >= 1 /\ k.port <= Len(k.ports) /\ Len(k.dev) < MaxDev
    BY DEF MorePorts, At, UsbInv, UsbTypes, UsbControl, UsbMem, UsbTable, Enumerating, BaseInv, EnumPcs
  <1>2. /\ k.ports \in Seq(Nat) /\ k.dev \in Seq(Entries) /\ k.slot \in Entries
    BY <1>1 DEF UsbMem
  <1>3. k.port \in DOMAIN k.ports /\ Len(k.ports) \in Nat
    BY <1>1, <1>2
  <1>4. Port \in DOMAIN hw.dev /\ Port \in Nat /\ Port = k.ports[k.port]
    BY <1>1, <1>3 DEF Port, UsbInv, UsbTypes, DevsOK
  <1>5. NewAddr \in Nat /\ NewAddr # 0 /\ \A i \in DOMAIN k.dev : i # NewAddr /\ i # 0 /\ i \in Nat
    BY <1>2 DEF NewAddr
  <1>6. \A i \in DOMAIN k.dev : k.dev[i].addr = i
    BY DEF UsbInv, UsbTable, Entered
  <1>7. \A j \in DOMAIN k.ports : j \in Nat /\ k.ports[j] \in DOMAIN hw.dev
    BY <1>2 DEF UsbInv, UsbTypes
  <1> QED  BY <1>1, <1>2, <1>3, <1>4, <1>5, <1>6, <1>7

\* The ports still to come are as they were, or may be at any address.
LaterPorts ==
  \A j \in DOMAIN k.ports :
    j > k.port /\ hw.dev[k.ports[j]].addr = 0 => hw'.dev[k.ports[j]].addr = 0 \/ FirstPort(j)

LEMMA ScannedLater ==
  ASSUME BaseInv, UsbInv, MorePorts, SameHc, call' = call, k'.ports = k.ports,
         k'.port \in {k.port, k.port + 1}, k'.port = k.port => k'.step > 1, LaterPorts
  PROVE  PortsOK' /\ Scanned'
  <1>1. call.pc = "us_enum" /\ k.port \in Nat /\ \A j \in DOMAIN k.ports : j \in Nat
    BY InEnum
  <1>2. PortsOK' /\ \A j \in DOMAIN k.ports : FirstPort(j)' = FirstPort(j)
    BY PortsKept DEF UsbInv, UsbTable
  <1>3. \A j \in DOMAIN k.ports : j > k.port => hw'.dev[k.ports[j]].addr = 0 \/ FirstPort(j)'
    <2>1. \A j \in DOMAIN k.ports : j > k.port => Fresh(k.ports[j]) \/ FirstPort(j)
      BY <1>1 DEF UsbInv, UsbTable, Scanned, EnumPcs
    <2> QED  BY <1>2, <2>1 DEF LaterPorts, Fresh
  <1>4. \A j \in DOMAIN k.ports : j >= k'.port => j > k.port \/ (j = k'.port /\ k'.step > 1)
    BY <1>1
  <1>5. \A j \in DOMAIN k'.ports : j >= k'.port => \/ hw'.dev[k'.ports[j]].addr = 0 \/ FirstPort(j)'
                                                  \/ (j = k'.port /\ k'.step > 1)
    BY <1>3, <1>4
  <1> QED  BY <1>1, <1>2, <1>5 DEF Scanned, Fresh

\* An entry of the table has its device after the step.
Stands(i) ==
  LET e == k.dev[i]
      x == Min(AnsweringIn(hw, e.hc, e.addr))
  IN /\ AnsweringIn(hw', e.hc, e.addr) # {} /\ Min(AnsweringIn(hw', e.hc, e.addr)) = x
     /\ hw'.dev[x].conf /\ hw'.dev[x].kind = e.vid

LEMMA EnteredLater ==
  ASSUME BaseInv, UsbInv, MorePorts, call' = call, k'.ports = k.ports, k'.dev = k.dev,
         k'.port \in {k.port, k.port + 1}, \A i \in DOMAIN k.dev : Stands(i)
  PROVE  Entered'
  <1>1. call.pc = "us_enum" /\ k.port \in Nat /\ \A j \in DOMAIN k.ports : j \in Nat
    BY InEnum
  <1>2. SUFFICES ASSUME NEW i \in DOMAIN k.dev
                 PROVE  LET e == k.dev[i]
                            x == Min(AnsweringIn(hw', e.hc, e.addr))
                        IN /\ e.addr = i /\ AnsweringIn(hw', e.hc, e.addr) # {}
                           /\ hw'.dev[x].conf /\ hw'.dev[x].kind = e.vid
                           /\ \A j \in DOMAIN k.ports : j >= k'.port => k.ports[j] # x
    BY DEF Entered, Target0, Answering
  <1>3. Stands(i) /\ k.dev[i].addr = i
    BY InEnum
  <1>4. \A j \in DOMAIN k.ports : j >= k.port => k.ports[j] # Min(AnsweringIn(hw, k.dev[i].hc, k.dev[i].addr))
    BY <1>1 DEF UsbInv, UsbTable, Entered, EnumPcs, Target0, Answering
  <1>5. \A j \in DOMAIN k.ports : j >= k'.port => j >= k.port
    BY <1>1
  <1> QED  BY <1>3, <1>4, <1>5 DEF Stands

\* A request leaves the entries standing: it may configure a device, or move one
\* from address 0 to the new address.
Requested ==
  /\ DOMAIN hw'.dev = DOMAIN hw.dev
  /\ \A y \in DOMAIN hw.dev :
       /\ hw'.dev[y].hc = hw.dev[y].hc /\ hw'.dev[y].kind = hw.dev[y].kind /\ hw'.dev[y].en = hw.dev[y].en
       /\ hw.dev[y].conf => hw'.dev[y].conf
       /\ hw'.dev[y].addr = hw.dev[y].addr \/ (hw.dev[y].addr = 0 /\ hw'.dev[y].addr = NewAddr)

LEMMA RequestedAnswers ==
  ASSUME Requested, NEW hc, NEW a, a # 0, a # NewAddr
  PROVE  AnsweringIn(hw', hc, a) = AnsweringIn(hw, hc, a)
  <1>1. ASSUME NEW y \in AnsweringIn(hw, hc, a) PROVE y \in AnsweringIn(hw', hc, a)
    BY DEF AnsweringIn, Requested
  <1>2. ASSUME NEW y \in AnsweringIn(hw', hc, a) PROVE y \in AnsweringIn(hw, hc, a)
    BY DEF AnsweringIn, Requested
  <1> QED  BY <1>1, <1>2

LEMMA RequestedStands ==
  ASSUME BaseInv, UsbInv, MorePorts, Requested
  PROVE  SameHc /\ \A i \in DOMAIN k.dev : Stands(i)
  <1>1. SUFFICES ASSUME NEW i \in DOMAIN k.dev PROVE Stands(i)
    BY DEF Requested, SameHc
  <1>2. /\ k.dev[i].addr = i /\ i # NewAddr /\ i # 0 /\ DevsOK(hw, k.tag)
    BY InEnum
  <1> DEFINE hc == k.dev[i].hc
             x == Min(AnsweringIn(hw, hc, i))
  <1>3. AnsweringIn(hw, hc, i) # {} /\ hw.dev[x].conf /\ hw.dev[x].kind = k.dev[i].vid
    BY <1>2 DEF UsbInv, UsbTable, Entered, Target0, Answering
  <1>4. AnsweringIn(hw', hc, i) = AnsweringIn(hw, hc, i)
    BY <1>2, RequestedAnswers
  <1>5. x \in DOMAIN hw.dev
    BY <1>2, <1>3, AnsweringIs
  <1>6. hw'.dev[x].conf /\ hw'.dev[x].kind = hw.dev[x].kind
    BY <1>3, <1>5 DEF Requested
  <1> QED  BY <1>2, <1>3, <1>4, <1>6 DEF Stands

\* The next port.
LEMMA EnumFailedStep ==
  ASSUME BaseInv, UsbInv, MorePorts, DevsOK(hw', k.tag), SameHc, \A i \in DOMAIN k.dev : Stands(i),
         NEW slot \in Entries, k' = [k EXCEPT !.port = @ + 1, !.step = 1, !.slot = slot], LaterPorts,
         UNCHANGED <<part, media, call, last, ncalls>>, faults' \in Nat
  PROVE  BaseInv' /\ UsbInv'
  <1>1. k \in UsbMem /\ k.port \in Nat /\ call.pc = "us_enum" /\ k.port >= 1
    BY InEnum
  <1> DEFINE n == k.port + 1
             m == [k EXCEPT !.port = n, !.step = 1]
  <1>2. n \in Nat /\ n >= 1 /\ k' = [m EXCEPT !.slot = slot] /\ n = k.port + 1 /\ n # k.port
    BY <1>1
  <1> HIDE DEF n
  <1>3. /\ m \in UsbMem /\ m.tag = k.tag /\ m.ports = k.ports /\ m.dev = k.dev /\ m.on = k.on
        /\ m.port = n /\ m.step = 1
    BY <1>1, <1>2 DEF UsbMem
  <1> HIDE DEF m
  <1>4. /\ k' \in UsbMem /\ k'.tag = k.tag /\ k'.ports = k.ports /\ k'.dev = k.dev /\ k'.on = k.on
        /\ k'.port = n /\ k'.step = 1
    BY <1>2, <1>3 DEF UsbMem
  <1>5. BaseInv'
    BY DEF BaseInv, SuccessMeansDone, Strays
  <1>6. UsbTypes'
    BY <1>4 DEF UsbInv, UsbTypes, SameHc
  <1>7. UsbControl'
    BY <1>1, <1>4, EnumControl DEF EnumPcs
  <1>8. PortsOK' /\ Scanned'
    BY <1>2, <1>4, ScannedLater
  <1>9. Entered'
    BY <1>2, <1>4, EnteredLater
  <1>10. Enumerating'
    BY <1>1, <1>2, <1>4 DEF Enumerating
  <1>11. UsbTransfer' /\ UsbProgress' /\ Recovered' /\ InStep'
    BY <1>1, NoCommand DEF Bots
  <1> QED  BY <1>5, <1>6, <1>7, <1>8, <1>9, <1>10, <1>11 DEF UsbInv, UsbTable

\* The entries are not about the port in hand.
LEMMA ResetStands ==
  ASSUME BaseInv, UsbInv, MorePorts, NEW d2, DevOK(d2, k.tag), d2.hc = hw.dev[Port].hc, d2.addr = 0,
         hw' = Put(hw, Port, d2)
  PROVE  /\ DevsOK(hw', k.tag) /\ SameHc /\ hw'.dev[Port] = d2 /\ LaterPorts
         /\ \A i \in DOMAIN k.dev : Stands(i)
  <1>1. DevsOK(hw, k.tag) /\ k.tag \in Nat /\ Port \in DOMAIN hw.dev
    BY InEnum
  <1>2. /\ DevsOK(hw', k.tag) /\ DOMAIN hw'.dev = DOMAIN hw.dev
        /\ \A y \in DOMAIN hw.dev : hw'.dev[y] = IF y = Port THEN d2 ELSE hw.dev[y]
    BY <1>1, PutIs
  <1>3. SameHc
    BY <1>2 DEF SameHc
  <1>4. LaterPorts
    <2>1. \A j \in DOMAIN k.ports : k.ports[j] \in DOMAIN hw.dev
      BY InEnum
    <2> QED  BY <1>2, <2>1 DEF LaterPorts
  <1>5. ASSUME NEW i \in DOMAIN k.dev PROVE Stands(i)
    <2> DEFINE hc == k.dev[i].hc
               at == AnsweringIn(hw, hc, i)
               x == Min(at)
    <2>1. /\ k.dev[i].addr = i /\ i # 0 /\ call.pc = "us_enum" /\ k.port \in DOMAIN k.ports
          /\ Port = k.ports[k.port] /\ k.port >= k.port
      BY InEnum
    <2>2. /\ at # {} /\ hw.dev[x].conf /\ hw.dev[x].kind = k.dev[i].vid /\ x # Port
      BY <2>1 DEF UsbInv, UsbTable, Entered, EnumPcs, Answering, Target0
    <2>3. at \in SUBSET Nat
      BY <1>1 DEF AnsweringIn, DevsOK
    <2>4. x \in at /\ \A y \in at : x <= y
      BY <2>2, <2>3, MinIs
    <2>5. x \in DOMAIN hw.dev /\ hw'.dev[x] = hw.dev[x]
      BY <1>2, <2>2, <2>4 DEF AnsweringIn
    <2>6. x \in AnsweringIn(hw', hc, i)
      BY <1>2, <2>4, <2>5 DEF AnsweringIn
    <2>7. ASSUME NEW y \in AnsweringIn(hw', hc, i) PROVE y \in at
      <3>1. y \in DOMAIN hw.dev /\ hw'.dev[y].en /\ hw'.dev[y].hc = hc /\ hw'.dev[y].addr = i
        BY <1>2 DEF AnsweringIn
      <3>2. y # Port
        BY <1>2, <2>1, <3>1
      <3> QED  BY <1>2, <3>1, <3>2 DEF AnsweringIn
    <2>8. AnsweringIn(hw', hc, i) \in SUBSET Nat /\ \A y \in AnsweringIn(hw', hc, i) : x <= y
      BY <2>3, <2>4, <2>7
    <2>9. Min(AnsweringIn(hw', hc, i)) = x
      BY <2>6, <2>8, MinOnly
    <2> HIDE DEF x, at
    <2> QED  BY <2>1, <2>2, <2>5, <2>6, <2>9 DEF Stands, x, at
  <1> QED  BY <1>1, <1>2, <1>3, <1>4, <1>5

\* The entry that the reset of the port begins.
LEMMA BegunIs ==
  ASSUME BaseInv, UsbInv, MorePorts
  PROVE  LET e == [k.slot EXCEPT !.port = Port, !.hc = hw.dev[Port].hc, !.addr = NewAddr,
                                 !.hid_if = FALSE, !.msc_if = FALSE]
         IN e \in Entries /\ e.hc = hw.dev[Port].hc /\ e.addr = NewAddr
  <1>1. k.slot \in Entries /\ Port \in Nat /\ NewAddr \in Nat /\ Port \in DOMAIN hw.dev /\ DevsOK(hw, k.tag)
    BY InEnum
  <1>2. hw.dev[Port].hc \in Hcs
    BY <1>1 DEF DevsOK, DevOK, UsbDevs
  <1> DEFINE p == Port
             n == NewAddr
             hc == hw.dev[Port].hc
             e1 == [k.slot EXCEPT !.port = p, !.hc = hc, !.addr = n]
             e == [e1 EXCEPT !.hid_if = FALSE, !.msc_if = FALSE]
  <1>3. p \in Nat /\ n \in Nat /\ hc \in Hcs
    BY <1>1, <1>2
  <1> HIDE DEF p, n, hc
  <1>4. e1 \in Entries /\ e1.hc = hc /\ e1.addr = n
    BY <1>1, <1>3 DEF Entries
  <1> HIDE DEF e1
  <1>5. e \in Entries /\ e.hc = hc /\ e.addr = n
    BY <1>4 DEF Entries
  <1> QED  BY <1>5 DEF e1, p, n, hc

LEMMA enum_resetStep ==
  ASSUME BaseInv, UsbInv, enum_reset
  PROVE  BaseInv' /\ UsbInv'
  <1> DEFINE up == PortUp(hw.dev[Port])
             down == PortDown(hw.dev[Port])
             entry == [k.slot EXCEPT !.port = Port, !.hc = hw.dev[Port].hc, !.addr = NewAddr,
                                     !.hid_if = FALSE, !.msc_if = FALSE]
  <1>1. MorePorts /\ UNCHANGED <<part, media, call, last, ncalls>> /\ k.step = 1
    BY DEF enum_reset
  <1>2. /\ Port \in DOMAIN hw.dev /\ DevsOK(hw, k.tag) /\ k.tag \in Nat /\ faults \in Nat
        /\ k \in UsbMem /\ call.pc = "us_enum" /\ k.port \in Nat /\ k.port >= 1
        /\ k.port <= Len(k.ports) /\ Len(k.dev) < MaxDev
    BY <1>1, InEnum
  <1>3. /\ DevOK(up, k.tag) /\ up.hc = hw.dev[Port].hc /\ up.addr = 0 /\ up.en
        /\ DevOK(down, k.tag) /\ down.hc = hw.dev[Port].hc /\ down.addr = 0
    <2>1. DevOK(hw.dev[Port], k.tag) /\ 0 \in Nat
      BY <1>2 DEF DevsOK
    <2> QED  BY <1>2, <2>1, PortEffects
  <1>4. entry \in Entries /\ entry.hc = hw.dev[Port].hc /\ entry.addr = NewAddr
    BY <1>1, BegunIs
  <1>5. \/ hw' = Put(hw, Port, up) /\ k' = [k EXCEPT !.step = 2, !.slot = entry] /\ UNCHANGED faults
        \/ /\ faults' = faults + 1 /\ k' = [k EXCEPT !.port = @ + 1, !.slot = entry]
           /\ hw' = Put(hw, Port, up) \/ hw' = Put(hw, Port, down)
    BY DEF enum_reset, Fault, Put
  <1> HIDE DEF up, down, entry
  <1>6. CASE hw' = Put(hw, Port, up) /\ k' = [k EXCEPT !.step = 2, !.slot = entry] /\ UNCHANGED faults
    <2>1. /\ DevsOK(hw', k.tag) /\ SameHc /\ hw'.dev[Port] = up /\ LaterPorts
          /\ \A i \in DOMAIN k.dev : Stands(i)
      BY <1>1, <1>3, <1>6, ResetStands
    <2>2. /\ k' \in UsbMem /\ k'.tag = k.tag /\ k'.ports = k.ports /\ k'.dev = k.dev /\ k'.on = k.on
          /\ k'.port = k.port /\ k'.step = 2 /\ k'.slot = entry
      BY <1>2, <1>4, <1>6 DEF UsbMem
    <2>3. BaseInv'
      BY <1>1, <1>6 DEF BaseInv, SuccessMeansDone, Strays
    <2>4. UsbTypes'
      BY <1>1, <2>1, <2>2 DEF UsbInv, UsbTypes, SameHc
    <2>5. UsbControl'
      BY <1>1, <1>2, <2>2, EnumControl DEF EnumPcs
    <2>6. PortsOK' /\ Scanned'
      BY <1>1, <2>1, <2>2, ScannedLater
    <2>7. Entered'
      BY <1>1, <2>1, <2>2, EnteredLater
    <2>8. Enumerating'
      <3>1. Port' = Port /\ NewAddr' = NewAddr
        BY <2>2 DEF Port, NewAddr
      <3> QED  BY <1>1, <1>2, <1>3, <1>4, <2>1, <2>2, <3>1 DEF Enumerating, Fresh
    <2>9. UsbTransfer' /\ UsbProgress' /\ Recovered' /\ InStep'
      BY <1>1, <1>2, NoCommand DEF Bots
    <2> QED  BY <2>3, <2>4, <2>5, <2>6, <2>7, <2>8, <2>9 DEF UsbInv, UsbTable
  <1>7. ASSUME faults' = faults + 1, k' = [k EXCEPT !.port = @ + 1, !.slot = entry],
               NEW d2, DevOK(d2, k.tag), d2.hc = hw.dev[Port].hc, d2.addr = 0, hw' = Put(hw, Port, d2)
        PROVE  BaseInv' /\ UsbInv'
    <2>1. DevsOK(hw', k.tag) /\ SameHc /\ LaterPorts /\ \A i \in DOMAIN k.dev : Stands(i)
      BY <1>1, <1>7, ResetStands
    <2>2. k' = [k EXCEPT !.port = @ + 1, !.step = 1, !.slot = entry]
      BY <1>1, <1>2, <1>7 DEF UsbMem
    <2>3. faults' \in Nat
      BY <1>2, <1>7
    <2> QED  BY <1>1, <1>4, <2>1, <2>2, <2>3, EnumFailedStep
  <1> QED  BY <1>3, <1>5, <1>6, <1>7

\* What the steps ask: only the fourth and the eighth change the device.
LEMMA StepIs ==
  ASSUME NEW d, k.step \in 2 .. 8
  PROVE  /\ EnumSteps[k.step] = "set_address" <=> k.step = 4
         /\ EnumSteps[k.step] = "verify" <=> k.step = 5
         /\ EnumSteps[k.step] = "dev18" <=> k.step = 3
         /\ k.step = 4 => StepEffect(d) = Addressed(d, NewAddr)
         /\ k.step = 8 => StepEffect(d) = Configured(d)
         /\ k.step \notin {4, 8} => StepEffect(d) = d
         /\ k.step <= 4 => StepAddr = 0
         /\ k.step > 4 => StepAddr = NewAddr
  <1>1. k.step \in {2, 3, 4, 5, 6, 7, 8}
    OBVIOUS
  <1>2. /\ EnumSteps[k.step] = "set_address" <=> k.step = 4
        /\ EnumSteps[k.step] = "set_config" <=> k.step = 8
        /\ EnumSteps[k.step] = "verify" <=> k.step = 5
        /\ EnumSteps[k.step] = "dev18" <=> k.step = 3
    BY <1>1 DEF EnumSteps
  <1>3. StepEffect(d) = IF k.step = 4 THEN Addressed(d, NewAddr) ELSE IF k.step = 8 THEN Configured(d) ELSE d
    BY <1>1, <1>2 DEF StepEffect
  <1>4. StepAddr = IF k.step <= 4 THEN 0 ELSE NewAddr
    BY DEF StepAddr
  <1> QED  BY <1>1, <1>2, <1>3, <1>4

LEMMA AnsweredIs ==
  ASSUME NEW e \in Entries, NEW kind \in UsbKinds, NEW s
  PROVE  LET a == Answered(e, s, kind)
         IN /\ a \in Entries /\ a.hc = e.hc /\ a.addr = e.addr
            /\ s # "dev18" => a.vid = e.vid
  <1>1. LET a == [e EXCEPT !.vid = kind] IN a \in Entries /\ a.hc = e.hc /\ a.addr = e.addr
    BY DEF Entries
  <1>2. LET a == [e EXCEPT !.configured = TRUE]
        IN a \in Entries /\ a.hc = e.hc /\ a.addr = e.addr /\ a.vid = e.vid
    BY DEF Entries
  <1>3. LET a == parse_config(e, kind)
        IN a \in Entries /\ a.hc = e.hc /\ a.addr = e.addr /\ a.vid = e.vid
    <2> DEFINE hid == kind \in {"kbd", "mouse"}
               msc == kind = "disk"
               proto == IF hid THEN kind ELSE e.hid_proto
               rep == e.rep \/ hid
               ep == IF hid /\ e.hid_ep = None THEN kind ELSE e.hid_ep
               mep == IF msc /\ e.msc_ep = None THEN kind ELSE e.msc_ep
               e1 == [e EXCEPT !.hid_if = hid, !.hid_proto = proto, !.rep = rep]
               e2 == [e1 EXCEPT !.hid_ep = ep, !.msc_if = msc, !.msc_ep = mep]
    <2>1. /\ hid \in BOOLEAN /\ msc \in BOOLEAN /\ rep \in BOOLEAN
          /\ proto \in UsbKinds \cup {None} /\ ep \in UsbKinds \cup {None} /\ mep \in UsbKinds \cup {None}
      BY DEF Entries
    <2>2. parse_config(e, kind) = e2
      BY DEF parse_config, Entries
    <2> HIDE DEF hid, msc, proto, rep, ep, mep
    <2>3. e1 \in Entries /\ e1.hc = e.hc /\ e1.addr = e.addr /\ e1.vid = e.vid
      BY <2>1 DEF Entries
    <2> HIDE DEF e1
    <2>4. e2 \in Entries /\ e2.hc = e.hc /\ e2.addr = e.addr /\ e2.vid = e.vid
      BY <2>1, <2>3 DEF Entries
    <2> QED  BY <2>2, <2>4
  <1>4. \/ s = "dev18" /\ Answered(e, s, kind) = [e EXCEPT !.vid = kind]
        \/ s # "dev18" /\ Answered(e, s, kind) = parse_config(e, kind)
        \/ s # "dev18" /\ Answered(e, s, kind) = [e EXCEPT !.configured = TRUE]
        \/ s # "dev18" /\ Answered(e, s, kind) = e
    BY DEF Answered
  <1> QED  BY <1>1, <1>2, <1>3, <1>4

\* A request to the device of the port: whatever comes of it, the table stands.
LEMMA EnumXfer ==
  ASSUME BaseInv, UsbInv, MorePorts, k.step \in 2 .. 8,
         NEW o \in ControlXfer(k.slot.hc, StepAddr, StepEffect), hw' = o.hw, faults' = o.faults
  PROVE  LET at == AnsweringIn(hw, k.slot.hc, StepAddr)
             x == Min(at)
         IN /\ DevsOK(hw', k.tag) /\ faults' \in Nat /\ Requested /\ LaterPorts
            /\ k.step # 4 => \A y \in DOMAIN hw.dev : hw'.dev[y].addr = hw.dev[y].addr
            /\ o.rc = 0 => /\ at # {} /\ o.from = x
                           /\ hw'.dev[x] = StepEffect(hw.dev[x])
  <1> DEFINE hc == k.slot.hc
             at == AnsweringIn(hw, hc, StepAddr)
             x == Min(at)
             d == hw.dev[x]
             d2 == StepEffect(d)
  <1>1. /\ DevsOK(hw, k.tag) /\ k.tag \in Nat /\ faults \in Nat /\ NewAddr \in Nat /\ k.port \in DOMAIN k.ports
        /\ call.pc = "us_enum" /\ Port \in DOMAIN hw.dev /\ Port = k.ports[k.port] /\ Port \in Nat /\ k.port \in Nat
        /\ \A j \in DOMAIN k.ports : j \in Nat /\ k.ports[j] \in DOMAIN hw.dev
    BY InEnum
  <1>2. Outcome(o, hw, hc, StepAddr, d2)
    BY Outcomes DEF Answering
  <1>3. CASE at = {}
    <2>1. o.rc = -1 /\ hw' = hw /\ faults' = faults
      BY <1>2, <1>3 DEF Outcome
    <2> QED  BY <1>1, <2>1 DEF Requested, LaterPorts
  <1>4. CASE at # {}
    <2>1. at \in SUBSET Nat /\ DOMAIN hw.dev \subseteq Nat
      BY <1>1 DEF AnsweringIn, DevsOK
    <2>2. x \in at /\ x \in DOMAIN hw.dev /\ d.hc = hc /\ d.addr = StepAddr /\ DevOK(d, k.tag)
          /\ \A y \in at : x <= y
      <3>1. x \in at /\ \A y \in at : x <= y
        BY <1>4, <2>1, MinIs
      <3> QED  BY <1>1, <3>1 DEF AnsweringIn, DevsOK
    <2>3. /\ DevOK(d2, k.tag) /\ d2.hc = d.hc /\ d2.kind = d.kind /\ d2.en = d.en
          /\ d.conf => d2.conf
          /\ k.step # 4 => d2.addr = d.addr
          /\ k.step = 4 => d2.addr = NewAddr /\ d.addr = 0
      <3>1. /\ DevOK(Addressed(d, NewAddr), k.tag) /\ Addressed(d, NewAddr).hc = d.hc
            /\ Addressed(d, NewAddr).kind = d.kind /\ Addressed(d, NewAddr).en = d.en
            /\ Addressed(d, NewAddr).addr = NewAddr /\ Addressed(d, NewAddr).conf = d.conf
            /\ DevOK(Configured(d), k.tag) /\ Configured(d).hc = d.hc /\ Configured(d).kind = d.kind
            /\ Configured(d).en = d.en /\ Configured(d).addr = d.addr /\ Configured(d).conf
        <4> HIDE DEF d
        <4>1. DevOK(d, k.tag) /\ k.tag \in Nat /\ NewAddr \in Nat
          BY <1>1, <2>2
        <4> QED  BY <4>1, PortEffects
      <3>2. /\ k.step = 4 => d2 = Addressed(d, NewAddr) /\ StepAddr = 0
            /\ k.step = 8 => d2 = Configured(d)
            /\ k.step \notin {4, 8} => d2 = d
        BY StepIs
      <3> HIDE DEF d2
      <3> QED  BY <2>2, <3>1, <3>2
    <2> HIDE DEF d2, d, x
    <2>4. /\ DevsOK(Put(hw, x, d2), k.tag) /\ DOMAIN Put(hw, x, d2).dev = DOMAIN hw.dev
          /\ \A y \in DOMAIN hw.dev : Put(hw, x, d2).dev[y] = IF y = x THEN d2 ELSE hw.dev[y]
      <3>1. DevOK(d2, k.tag) /\ x \in DOMAIN hw.dev /\ DevsOK(hw, k.tag) /\ k.tag \in Nat
        BY <1>1, <2>2, <2>3
      <3> QED  BY <3>1, PutIs
    <2>5. \/ o.rc = 0 /\ hw' = Put(hw, x, d2) /\ faults' = faults
          \/ o.rc = -1 /\ hw' \in {hw, Put(hw, x, d2)} /\ faults' = faults + 1
      BY <1>2, <1>4 DEF Outcome, x
    <2>6. o.from = x
      BY <1>2, <1>4 DEF Outcome, x
    <2>7. /\ DevsOK(hw', k.tag) /\ faults' \in Nat /\ DOMAIN hw'.dev = DOMAIN hw.dev
          /\ \A y \in DOMAIN hw.dev : hw'.dev[y] = hw.dev[y] \/ (y = x /\ hw'.dev[y] = d2)
      BY <1>1, <2>4, <2>5
    <2>8. Requested
      <3>1. SUFFICES ASSUME NEW y \in DOMAIN hw.dev
                     PROVE  /\ hw'.dev[y].hc = hw.dev[y].hc /\ hw'.dev[y].kind = hw.dev[y].kind
                            /\ hw'.dev[y].en = hw.dev[y].en
                            /\ hw.dev[y].conf => hw'.dev[y].conf
                            /\ \/ hw'.dev[y].addr = hw.dev[y].addr
                               \/ hw.dev[y].addr = 0 /\ hw'.dev[y].addr = NewAddr
        BY <2>7 DEF Requested
      <3>2. CASE hw'.dev[y] = hw.dev[y]
        BY <3>2
      <3>3. CASE y = x /\ hw'.dev[y] = d2
        BY <2>3, <3>3 DEF d
      <3> QED  BY <2>7, <3>2, <3>3
    <2>9. k.step # 4 => \A y \in DOMAIN hw.dev : hw'.dev[y].addr = hw.dev[y].addr
      BY <2>3, <2>7 DEF d
    <2>10. LaterPorts
      <3>1. CASE k.step # 4
        BY <1>1, <2>9, <3>1 DEF LaterPorts
      <3>2. CASE k.step = 4
        <4>1. hw.dev[Port].en /\ hw.dev[Port].addr = 0 /\ hw.dev[Port].hc = hc /\ StepAddr = 0
          BY <1>1, <3>2, StepIs DEF UsbInv, UsbTable, Enumerating, Fresh
        <4>2. x <= Port
          BY <1>1, <2>2, <4>1 DEF AnsweringIn
        <4>3. SUFFICES ASSUME NEW j \in DOMAIN k.ports, j > k.port, k.ports[j] = x PROVE FALSE
          BY <1>1, <2>7 DEF LaterPorts
        <4>4. Port < x
          BY <1>1, <2>2, <4>1, <4>3 DEF UsbInv, UsbTable, PortsOK, d
        <4> QED  BY <1>1, <2>1, <2>2, <4>2, <4>4
      <3> QED  BY <3>1, <3>2
    <2>11. o.rc = 0 => hw'.dev[x] = d2
      BY <2>2, <2>4, <2>5
    <2> QED  BY <1>4, <2>6, <2>7, <2>8, <2>9, <2>10, <2>11 DEF x, d2, d
  <1> QED  BY <1>3, <1>4

\* The answer was the expected one: on to the next step of the port.
LEMMA EnumNext ==
  ASSUME BaseInv, UsbInv, MorePorts, k.step \in 2 .. 8,
         NEW o \in ControlXfer(k.slot.hc, StepAddr, StepEffect), hw' = o.hw, faults' = o.faults, o.rc = 0,
         k.step = 5 => hw.dev[o.from].kind = k.slot.vid,
         k' = [k EXCEPT !.step = @ + 1, !.slot = Answered(@, EnumSteps[k.step], hw.dev[o.from].kind)],
         UNCHANGED <<part, media, call, last, ncalls>>
  PROVE  BaseInv' /\ UsbInv'
  <1> DEFINE hc == k.slot.hc
             at == AnsweringIn(hw, hc, StepAddr)
             x == Min(at)
             kind == hw.dev[x].kind
             slot == Answered(k.slot, EnumSteps[k.step], kind)
             n == k.step + 1
  <1>1. /\ DevsOK(hw, k.tag) /\ k \in UsbMem /\ k.slot \in Entries /\ call.pc = "us_enum"
        /\ k.port \in Nat /\ k.port >= 1 /\ k.port <= Len(k.ports) /\ Len(k.dev) < MaxDev
        /\ Port \in DOMAIN hw.dev /\ k.step \in 2 .. 8
    BY InEnum
  <1>2. /\ DevsOK(hw', k.tag) /\ faults' \in Nat /\ Requested /\ LaterPorts
        /\ k.step # 4 => \A y \in DOMAIN hw.dev : hw'.dev[y].addr = hw.dev[y].addr
        /\ at # {} /\ o.from = x
        /\ hw'.dev[x] = StepEffect(hw.dev[x])
    BY EnumXfer
  <1>3. x \in DOMAIN hw.dev /\ kind \in UsbKinds
    <2>1. x \in DOMAIN hw.dev
      BY <1>1, <1>2, AnsweringIs
    <2> QED  BY <1>1, <2>1 DEF DevsOK, DevOK, UsbDevs
  <1>4. /\ slot \in Entries /\ slot.hc = hc /\ slot.addr = k.slot.addr
        /\ k.step # 3 => slot.vid = k.slot.vid
    BY <1>1, <1>3, AnsweredIs, StepIs
  <1>5. k' = [k EXCEPT !.step = n, !.slot = slot] /\ n \in Nat /\ n \in 3 .. 9 /\ n = k.step + 1
    <2>1. o.from = x
      BY <1>2
    <2> QED  BY <1>1, <2>1
  <1> HIDE DEF slot, n
  <1>6. /\ k' \in UsbMem /\ k'.tag = k.tag /\ k'.ports = k.ports /\ k'.dev = k.dev /\ k'.on = k.on
        /\ k'.port = k.port /\ k'.step = n /\ k'.slot = slot
    BY <1>1, <1>4, <1>5 DEF UsbMem
  <1>7. SameHc /\ \A i \in DOMAIN k.dev : Stands(i)
    BY <1>2, RequestedStands
  <1>8. BaseInv'
    BY <1>2 DEF BaseInv, SuccessMeansDone, Strays
  <1>9. UsbTypes'
    BY <1>2, <1>6, <1>7 DEF UsbInv, UsbTypes, SameHc
  <1>10. UsbControl'
    BY <1>1, <1>6, EnumControl DEF EnumPcs
  <1>11. PortsOK' /\ Scanned'
    BY <1>2, <1>5, <1>6, <1>7, ScannedLater
  <1>12. Entered'
    BY <1>6, <1>7, EnteredLater
  <1>13. Port' = Port /\ NewAddr' = NewAddr
    BY <1>6 DEF Port, NewAddr
  <1>14. Enumerating'
    <2>1. k.slot.hc = hw.dev[Port].hc /\ k.slot.addr = NewAddr
      BY <1>1 DEF UsbInv, UsbTable, Enumerating
    <2>2. slot.hc = hw'.dev[Port].hc /\ slot.addr = NewAddr
      BY <1>1, <1>4, <2>1, <1>7 DEF SameHc
    <2>3. n \in 3 .. 4 => hw'.dev[Port].en /\ hw'.dev[Port].addr = 0
      <3>1. SUFFICES ASSUME n \in 3 .. 4 PROVE hw'.dev[Port].en /\ hw'.dev[Port].addr = 0
        OBVIOUS
      <3>2. k.step \in 2 .. 4 /\ k.step # 4
        BY <1>1, <1>5, <3>1
      <3>3. hw.dev[Port].en /\ hw.dev[Port].addr = 0
        BY <1>1, <3>2 DEF UsbInv, UsbTable, Enumerating, Fresh
      <3> QED  BY <1>1, <1>2, <3>2, <3>3 DEF Requested
    <2>4. n \in 6 .. 9 => /\ AnsweringIn(hw', hc, NewAddr) = at
                          /\ hw'.dev[x].kind = slot.vid
      <3>1. SUFFICES ASSUME n \in 6 .. 9 PROVE AnsweringIn(hw', hc, NewAddr) = at /\ hw'.dev[x].kind = slot.vid
        OBVIOUS
      <3>2. k.step > 4 /\ k.step # 4 /\ k.step \in 5 .. 8 /\ k.step # 3
        BY <1>1, <1>5, <3>1
      <3>3. StepAddr = NewAddr
        BY <3>2, StepIs
      <3>4. AnsweringIn(hw', hc, NewAddr) = AnsweringIn(hw, hc, NewAddr)
        <4>1. ASSUME NEW y PROVE y \in AnsweringIn(hw', hc, NewAddr) <=> y \in AnsweringIn(hw, hc, NewAddr)
          BY <1>2, <3>2 DEF AnsweringIn, Requested
        <4> QED  BY <4>1
      <3>5. hw.dev[x].kind = k.slot.vid
        <4>1. CASE k.step = 5
          BY <1>2, <4>1
        <4>2. CASE k.step \in 6 .. 8
          BY <1>1, <3>3, <4>2 DEF UsbInv, UsbTable, Enumerating, Target0, Answering
        <4> QED  BY <3>2, <4>1, <4>2
      <3>6. hw'.dev[x].kind = hw.dev[x].kind
        BY <1>2, <1>3 DEF Requested
      <3> QED  BY <1>4, <3>2, <3>3, <3>4, <3>5, <3>6
    <2>5. n = 9 => hw'.dev[x].conf
      <3>1. SUFFICES ASSUME n = 9 PROVE hw'.dev[x].conf
        OBVIOUS
      <3>2. k.step = 8
        BY <1>1, <1>5, <3>1
      <3>3. hw'.dev[x] = Configured(hw.dev[x])
        BY <1>2, <3>2, StepIs
      <3>4. DevOK(hw.dev[x], k.tag) /\ k.tag \in Nat /\ 0 \in Nat
        BY <1>1, <1>3 DEF DevsOK, UsbMem
      <3>5. Configured(hw.dev[x]).conf
        BY <3>4, PortEffects
      <3> QED  BY <3>3, <3>5
    <2> HIDE DEF at, x
    <2>6. Answering(k.slot.hc, NewAddr)' = AnsweringIn(hw', hc, NewAddr)
      BY <1>4, <1>6, <1>13 DEF Answering
    <2>7. n \in 6 .. 9 => Target0(k.slot.hc, NewAddr)' = x /\ Answering(k.slot.hc, NewAddr)' # {}
      BY <1>2, <2>4, <2>6 DEF Target0, x
    <2> QED  BY <1>1, <1>2, <1>5, <1>6, <1>13, <2>2, <2>3, <2>4, <2>5, <2>7 DEF Enumerating, Fresh
  <1>15. UsbTransfer' /\ UsbProgress' /\ Recovered' /\ InStep'
    BY <1>1, NoCommand DEF Bots
  <1> QED  BY <1>8, <1>9, <1>10, <1>11, <1>12, <1>14, <1>15 DEF UsbInv, UsbTable

LEMMA enum_oneStep ==
  ASSUME BaseInv, UsbInv, enum_one
  PROVE  BaseInv' /\ UsbInv'
  <1>1. MorePorts /\ k.step \in 2 .. 8 /\ UNCHANGED <<part, media, call, last, ncalls>>
    BY DEF enum_one
  <1>2. PICK o \in ControlXfer(k.slot.hc, StepAddr, StepEffect) :
          /\ hw' = o.hw /\ faults' = o.faults
          /\ IF o.rc # 0 \/ (EnumSteps[k.step] = "verify" /\ ~SameDevice(k.slot, hw.dev[o.from].kind))
               THEN EnumFailed
               ELSE k' = [k EXCEPT !.step = @ + 1,
                                   !.slot = Answered(@, EnumSteps[k.step], hw.dev[o.from].kind)]
    BY DEF enum_one
  <1>3. DevsOK(hw', k.tag) /\ faults' \in Nat /\ Requested /\ LaterPorts
    BY <1>1, <1>2, EnumXfer
  <1>4. SameHc /\ \A i \in DOMAIN k.dev : Stands(i)
    BY <1>1, <1>3, RequestedStands
  <1>5. CASE EnumFailed
    <2>1. k.slot \in Entries /\ k \in UsbMem
      BY <1>1, InEnum
    <2>2. k' = [k EXCEPT !.port = @ + 1, !.step = 1, !.slot = k.slot]
      BY <1>5, <2>1 DEF EnumFailed, UsbMem
    <2> QED  BY <1>1, <1>3, <1>4, <2>1, <2>2, EnumFailedStep
  <1>6. CASE /\ o.rc = 0 /\ ~(EnumSteps[k.step] = "verify" /\ ~SameDevice(k.slot, hw.dev[o.from].kind))
             /\ k' = [k EXCEPT !.step = @ + 1, !.slot = Answered(@, EnumSteps[k.step], hw.dev[o.from].kind)]
    <2>1. k.step = 5 => hw.dev[o.from].kind = k.slot.vid
      BY <1>1, <1>6, StepIs DEF SameDevice
    <2> QED  BY <1>1, <1>2, <1>6, <2>1, EnumNext
  <1> QED  BY <1>2, <1>5, <1>6

\* What answers at an address.
LEMMA AnswererOK ==
  ASSUME UsbTypes, NEW hc, NEW a, Answering(hc, a) # {}
  PROVE  Target0(hc, a) \in DOMAIN hw.dev /\ DevOK(hw.dev[Target0(hc, a)], k.tag) /\ k.tag \in Nat
  <1>1. Target0(hc, a) \in DOMAIN hw.dev
    BY AnsweringIs DEF Target0, Answering, UsbTypes
  <1> QED  BY <1>1 DEF UsbTypes, DevsOK, UsbMem

\* The report descriptor changes nothing at the device.
LEMMA ReportXfer ==
  ASSUME BaseInv, UsbInv, enum_report
  PROVE  Kept /\ DevsOK(hw', k.tag) /\ faults' \in Nat
  <1>1. UsbTypes /\ faults \in Nat
    BY DEF UsbInv, BaseInv
  <1>2. CASE UNCHANGED <<hw, faults>>
    BY <1>1, <1>2, KeptSame DEF UsbTypes
  <1>3. CASE \E o \in ControlXfer(k.slot.hc, NewAddr, Asked) : hw' = o.hw /\ faults' = o.faults
    <2> DEFINE hc == k.slot.hc
               a == NewAddr
               d == hw.dev[Target0(hc, a)]
    <2>1. PICK o \in ControlXfer(hc, a, Asked) : hw' = o.hw /\ faults' = o.faults
      BY <1>3
    <2>2. Outcome(o, hw, hc, a, d)
      BY <2>1, Outcomes DEF Asked, Target0
    <2>3. Answering(hc, a) # {} => DevOK(d, k.tag) /\ SameId(d, d)
      BY <1>1, AnswererOK DEF SameId
    <2> HIDE DEF hc, a
    <2> QED  BY <1>1, <2>1, <2>2, <2>3, XferStep
  <1> QED  BY <1>2, <1>3 DEF enum_report

LEMMA enum_reportStep ==
  ASSUME BaseInv, UsbInv, enum_report
  PROVE  BaseInv' /\ UsbInv'
  <1>1. MorePorts /\ k.step = 9 /\ UNCHANGED <<part, media, call, last, ncalls>> /\ EnumDone
    BY DEF enum_report
  <1>2. Kept /\ DevsOK(hw', k.tag) /\ faults' \in Nat
    BY ReportXfer
  <1>3. /\ DevsOK(hw, k.tag) /\ k \in UsbMem /\ k.slot \in Entries /\ call.pc = "us_enum"
        /\ k.port \in Nat /\ k.port >= 1 /\ k.port \in DOMAIN k.ports
        /\ Port \in DOMAIN hw.dev /\ Port = k.ports[k.port] /\ NewAddr # 0
        /\ \A j \in DOMAIN k.ports : j \in Nat /\ k.ports[j] \in DOMAIN hw.dev
    BY <1>1, InEnum
  <1> DEFINE n == k.port + 1
             dv == Append(k.dev, k.slot)
             m == [k EXCEPT !.port = n, !.step = 1]
  <1>4. /\ dv \in Seq(Entries) /\ DOMAIN dv = DOMAIN k.dev \cup {NewAddr}
        /\ dv[NewAddr] = k.slot /\ \A i \in DOMAIN k.dev : dv[i] = k.dev[i] /\ i # NewAddr
    BY <1>3, AppendProperties DEF UsbMem, NewAddr
  <1>5. n \in Nat /\ n >= 1 /\ n = k.port + 1 /\ k' = [m EXCEPT !.dev = dv, !.slot = NoEntry]
    BY <1>1, <1>3 DEF EnumDone
  <1> HIDE DEF n, dv
  <1>6. /\ m \in UsbMem /\ m.tag = k.tag /\ m.ports = k.ports /\ m.on = k.on
        /\ m.port = n /\ m.step = 1
    BY <1>3, <1>5 DEF UsbMem
  <1> HIDE DEF m
  <1>7. /\ k' \in UsbMem /\ k'.tag = k.tag /\ k'.ports = k.ports /\ k'.dev = dv /\ k'.on = k.on
        /\ k'.port = n /\ k'.step = 1
    BY <1>4, <1>5, <1>6, NoEntryIs DEF UsbMem
  <1>8. SameHc
    BY <1>2 DEF SameHc, Kept, SameId
  <1>9. LaterPorts
    BY <1>2, <1>3 DEF LaterPorts, Kept, SameId
  <1>10. BaseInv'
    BY <1>1, <1>2 DEF BaseInv, SuccessMeansDone, Strays
  <1>11. UsbTypes'
    BY <1>1, <1>2, <1>7, <1>8 DEF UsbInv, UsbTypes, SameHc
  <1>12. UsbControl'
    BY <1>1, <1>3, <1>7, EnumControl DEF EnumPcs
  <1>13. PortsOK' /\ Scanned'
    BY <1>1, <1>3, <1>5, <1>7, <1>8, <1>9, ScannedLater
  <1>14. Enumerating'
    BY <1>1, <1>3, <1>5, <1>7 DEF Enumerating
  <1>15. ASSUME NEW i \in DOMAIN dv
         PROVE  LET e == dv[i]
                    x == Min(AnsweringIn(hw', e.hc, e.addr))
                IN /\ e.addr = i /\ AnsweringIn(hw', e.hc, e.addr) # {}
                   /\ hw'.dev[x].conf /\ hw'.dev[x].kind = e.vid
                   /\ \A j \in DOMAIN k.ports : j >= n => k.ports[j] # x
    <2> DEFINE e == dv[i]
               at == AnsweringIn(hw, e.hc, e.addr)
               x == Min(at)
    <2>1. AnsweringIn(hw', e.hc, e.addr) = at
      <3> DEFINE hc == e.hc
                 a == e.addr
      <3> HIDE DEF hc, a
      <3>1. AnsweringIn(hw', hc, a) = AnsweringIn(hw, hc, a)
        BY <1>2 DEF Kept, SameId, AnsweringIn
      <3> QED  BY <3>1 DEF hc, a
    <2>2. /\ e.addr = i /\ at # {} /\ hw.dev[x].conf /\ hw.dev[x].kind = e.vid
          /\ \A j \in DOMAIN k.ports : j >= n => k.ports[j] # x
      <3>1. CASE i \in DOMAIN k.dev
        <4>1. e = k.dev[i] /\ \A j \in DOMAIN k.ports : j >= n => j >= k.port
          BY <1>3, <1>4, <1>5, <3>1
        <4>2. LET f == k.dev[i]
                  y == Min(AnsweringIn(hw, f.hc, f.addr))
              IN /\ f.addr = i /\ AnsweringIn(hw, f.hc, f.addr) # {}
                 /\ hw.dev[y].conf /\ hw.dev[y].kind = f.vid
                 /\ \A j \in DOMAIN k.ports : j >= k.port => k.ports[j] # y
          BY <1>3, <3>1 DEF UsbInv, UsbTable, Entered, Target0, Answering, EnumPcs
        <4> HIDE DEF e
        <4> QED  BY <4>1, <4>2
      <3>2. CASE i = NewAddr
        <4>1. e = k.slot
          BY <1>4, <3>2
        <4>2. /\ k.slot.hc = hw.dev[Port].hc /\ k.slot.addr = NewAddr
              /\ AnsweringIn(hw, k.slot.hc, NewAddr) # {}
              /\ hw.dev[Min(AnsweringIn(hw, k.slot.hc, NewAddr))].kind = k.slot.vid
              /\ hw.dev[Min(AnsweringIn(hw, k.slot.hc, NewAddr))].conf
          BY <1>1, <1>3 DEF UsbInv, UsbTable, Enumerating, Target0, Answering
        <4> DEFINE y == Min(AnsweringIn(hw, k.slot.hc, NewAddr))
        <4>3. y \in DOMAIN hw.dev /\ hw.dev[y].hc = hw.dev[Port].hc /\ hw.dev[y].addr = NewAddr
          BY <1>3, <4>2, AnsweringIs
        <4>4. ASSUME NEW j \in DOMAIN k.ports, j >= n PROVE k.ports[j] # y
          <5>1. j > k.port /\ j >= k.port /\ j # k.port
            BY <1>3, <1>5, <4>4
          <5>2. hw.dev[k.ports[j]].addr = 0 \/ FirstPort(j)
            BY <1>3, <5>1 DEF UsbInv, UsbTable, Scanned, EnumPcs, Fresh
          <5>3. CASE hw.dev[k.ports[j]].addr = 0
            BY <1>3, <4>3, <5>3
          <5>4. CASE FirstPort(j)
            BY <1>3, <4>3, <5>1, <5>4 DEF FirstPort
          <5> QED  BY <5>2, <5>3, <5>4
        <4>5. x = y /\ at = AnsweringIn(hw, k.slot.hc, NewAddr)
          BY <4>1, <4>2
        <4> HIDE DEF x, y, at, e
        <4> QED  BY <3>2, <4>1, <4>2, <4>4, <4>5 DEF y
      <3> QED  BY <1>4, <3>1, <3>2
    <2>3. x \in DOMAIN hw.dev
      BY <1>3, <2>2, AnsweringIs
    <2>4. SameId(hw.dev[x], hw'.dev[x])
      BY <1>2, <2>3 DEF Kept
    <2> HIDE DEF x, at
    <2> QED  BY <2>1, <2>2, <2>4 DEF SameId, x
  <1>16. Entered'
    BY <1>7, <1>15 DEF Entered, Target0, Answering
  <1>17. UsbTransfer' /\ UsbProgress' /\ Recovered' /\ InStep'
    BY <1>1, <1>3, NoCommand DEF Bots
  <1> QED  BY <1>10, <1>11, <1>12, <1>13, <1>14, <1>16, <1>17 DEF UsbInv, UsbTable

-----------------------------------------------------------------------------
(* The USB stack: the claims, and every step *)

LEMMA BootXfer ==
  ASSUME UsbTypes, faults \in Nat, NEW c, BootProtocol(c)
  PROVE  Kept /\ DevsOK(hw', k.tag) /\ faults' \in Nat
  <1>1. CASE UNCHANGED <<hw, faults>>
    BY <1>1, KeptSame DEF UsbTypes
  <1>2. CASE \E o \in ControlXfer("uhci", k.dev[c].addr, SetProtocol) : hw' = o.hw /\ faults' = o.faults
    <2> DEFINE a == k.dev[c].addr
               d == hw.dev[Target0("uhci", a)]
               d2 == SetProtocol(d)
    <2>1. PICK o \in ControlXfer("uhci", a, SetProtocol) : hw' = o.hw /\ faults' = o.faults
      BY <1>2
    <2>2. Outcome(o, hw, "uhci", a, d2)
      BY <2>1, Outcomes DEF Target0
    <2>3. Answering("uhci", a) # {} => DevOK(d2, k.tag) /\ SameId(d, d2)
      BY AnswererOK, EffectsOK
    <2> HIDE DEF a, d2
    <2> QED  BY <2>1, <2>2, <2>3, XferStep
  <1> QED  BY <1>1, <1>2 DEF BootProtocol

LEMMA ClaimedIs ==
  ASSUME k \in UsbMem, NEW kind
  PROVE  Claimed(kind) \in Nat
  <1>1. BootHid(kind) \in SUBSET Nat
    BY DEF BootHid, UsbMem
  <1> QED  BY <1>1, MinIs DEF Claimed

\* A claim: the table and the devices stay as they are.
LEMMA ClaimStep ==
  ASSUME BaseInv, UsbInv, call.pc \in {"us_enum", "us_mouse"}, NEW kind, BootProtocol(Claimed(kind)),
         k' \in UsbMem, k'.tag = k.tag, k'.ports = k.ports, k'.dev = k.dev, k'.on = k.on, k'.disk = k.disk,
         call'.pc = (IF call.pc = "us_enum" THEN "us_msc" ELSE "idle"), call'.op = "boot", BaseInv',
         UNCHANGED <<part, last>>
  PROVE  UsbInv'
  <1>1. UsbTypes /\ UsbTable /\ faults \in Nat /\ last.rc = -1 /\ call.op = "boot"
    BY DEF UsbInv, UsbControl, BaseInv, EnumPcs
  <1>2. Kept /\ DevsOK(hw', k.tag)
    BY <1>1, BootXfer
  <1>3. UsbTypes'
    BY <1>1, <1>2 DEF UsbTypes, Kept
  <1>4. UsbTable'
    BY <1>1, <1>2, KeptTable DEF EnumPcs
  <1>5. UsbControl'
    BY <1>1 DEF UsbInv, UsbControl, EnumPcs, Bots, Recovers
  <1>6. UsbTransfer' /\ UsbProgress' /\ Recovered' /\ InStep'
    BY <1>1, NoCommand DEF Bots
  <1> QED  BY <1>3, <1>4, <1>5, <1>6 DEF UsbInv

LEMMA usbkbd_initStep ==
  ASSUME BaseInv, UsbInv, usbkbd_init
  PROVE  BaseInv' /\ UsbInv'
  <1>1. /\ call.pc = "us_enum" /\ BootProtocol(Claimed("kbd")) /\ Goto("us_msc")
        /\ UNCHANGED <<part, media, last, ncalls>> /\ k' = [k EXCEPT !.kbd = Claimed("kbd"), !.step = 1]
    BY DEF usbkbd_init, At
  <1>2. k \in UsbMem /\ UsbTypes /\ faults \in Nat /\ call.op = "boot" /\ media \in [Sectors -> Vals]
    BY <1>1 DEF UsbInv, UsbTypes, UsbControl, BaseInv, EnumPcs
  <1>3. faults' \in Nat
    BY <1>1, <1>2, BootXfer
  <1>4. BaseInv' /\ call'.pc = "us_msc" /\ call'.op = "boot"
    BY <1>1, <1>2, <1>3, GotoBase
  <1> DEFINE c == Claimed("kbd")
  <1>5. c \in Nat /\ k' = [k EXCEPT !.kbd = c, !.step = 1]
    BY <1>1, <1>2, ClaimedIs
  <1> HIDE DEF c
  <1>6. /\ k' \in UsbMem /\ k'.tag = k.tag /\ k'.ports = k.ports /\ k'.dev = k.dev /\ k'.on = k.on
        /\ k'.disk = k.disk
    BY <1>2, <1>5 DEF UsbMem
  <1> QED  BY <1>1, <1>4, <1>6, ClaimStep

LEMMA usbmouse_initStep ==
  ASSUME BaseInv, UsbInv, usbmouse_init
  PROVE  BaseInv' /\ UsbInv'
  <1>1. /\ call.pc = "us_mouse" /\ BootProtocol(Claimed("mouse")) /\ call' = Idle
        /\ UNCHANGED <<part, media, last, ncalls>> /\ k' = [k EXCEPT !.mou = Claimed("mouse")]
    BY DEF usbmouse_init, At
  <1>2. k \in UsbMem /\ UsbTypes /\ faults \in Nat
    BY DEF UsbInv, UsbTypes, BaseInv
  <1>3. faults' \in Nat
    BY <1>1, <1>2, BootXfer
  <1>4. BaseInv' /\ call'.pc = "idle" /\ call'.op = "boot"
    BY <1>1, <1>3, IdleBase, IdleIs
  <1> DEFINE c == Claimed("mouse")
  <1>5. c \in Nat /\ k' = [k EXCEPT !.mou = c]
    BY <1>1, <1>2, ClaimedIs
  <1> HIDE DEF c
  <1>6. /\ k' \in UsbMem /\ k'.tag = k.tag /\ k'.ports = k.ports /\ k'.dev = k.dev /\ k'.on = k.on
        /\ k'.disk = k.disk
    BY <1>2, <1>5 DEF UsbMem
  <1> QED  BY <1>1, <1>4, <1>6, ClaimStep

LEMMA UsbStep ==
  ASSUME BaseInv, UsbInv, UsbCpu \/ MscFails
  PROVE  BaseInv' /\ UsbInv'
  <1>1. CASE EnCpu
    BY <1>1, uhci_setup_oneStep, uhci_control_probeStep, ehci_setup_oneStep, ehci_control_probeStep,
       usbhc_scanStep, enum_resetStep, enum_oneStep, enum_reportStep, usbkbd_initStep, usbmouse_initStep
       DEF EnCpu
  <1>2. CASE Enter("usb", "us_sector")
    BY <1>2, UsbEnterStep, EnterBase
  <1>3. CASE usbmsc_init \/ usbmsc_sector \/ bot_again \/ recover_reset \/ recover_in \/ recover_out
    BY <1>3, usbmsc_initStep, usbmsc_sectorStep, bot_againStep, recover_resetStep, recover_inStep,
       recover_outStep
  <1>4. CASE bulk_out \/ bulk_in \/ bulk_fails \/ bulk_error \/ MscFails
    BY <1>4, bulk_outStep, bulk_inStep, bulk_failsStep, bulk_errorStep, MscFailsStep
  <1> QED  BY <1>1, <1>2, <1>3, <1>4 DEF UsbCpu

-----------------------------------------------------------------------------
(* keyboard.c, usbkbd.c and usbmouse.c: what is known of a state *)

\* An element in front of a sequence.
Cons(a, s) == [i \in 1 .. Len(s) + 1 |-> IF i = 1 THEN a ELSE s[i - 1]]

Keys == [src : {"ps2", "usb"}, n : Nat]
Presses == [ps2 : Nat, usb : Nat]

\* The keys held down, with the number of the press, as a report shows them.
Reports == UNION {[S -> Nat] : S \in SUBSET Codes}

HidKernels ==
  [ring : [0 .. RingSize - 1 -> Keys \cup {None}], s : 0 .. RingSize - 1, e : 0 .. RingSize - 1,
   prev : SUBSET Codes, todo : Seq(Keys), tog : [HidDevs -> {0, 1}], btn : {0, 1}, last_btn : {0, 1},
   read : Presses, lost : BOOLEAN, full : BOOLEAN]

HidTds == [on : BOOLEAN, dev : HidDevs, tog : {0, 1}, done : BOOLEAN, rep : Seq(Reports \cup {0, 1})]

HidDevices ==
  [down : Reports, btn : {0, 1}, pend : [HidDevs -> Seq(Reports \cup {0, 1})],
   tog : [HidDevs -> {0, 1}], n : [ps2 : Nat, usb : Nat, mou : Nat], td : HidTds]

\* Reports of device x that the driver has not seen, the one in the descriptor first.
InTd(x) == hw.td.done /\ hw.td.dev = x
Waiting(x) == IF InTd(x) THEN Cons(hw.td.rep[1], hw.pend[x]) ELSE hw.pend[x]

HidTypes ==
  /\ k \in HidKernels /\ hw \in HidDevices /\ faults \in Nat
  /\ hw.pend["kbd"] \in Seq(Reports) /\ hw.pend["mou"] \in Seq({0, 1})
  /\ hw.td.done => /\ hw.td.on /\ hw.td.rep # <<>>
                   /\ hw.td.dev = "kbd" => hw.td.rep[1] \in Reports
                   /\ hw.td.dev = "mou" => hw.td.rep[1] \in {0, 1}
  /\ \A i \in DOMAIN Unread : Unread[i] \in Keys
  /\ \A i \in DOMAIN k.todo : k.todo[i].src = "usb"

\* A descriptor is linked exactly during a transfer, keys are injected behind a
\* report, and a key that is about to be taken is the oldest of the ring.
HidControl ==
  /\ call.pc \in {"idle", "hid_kbd", "hid_mou", "hid_wait", "hid_unlink", "hid_inject", "hid_read", "hid_take"}
  /\ hw.td.on <=> call.pc \in {"hid_wait", "hid_unlink"}
  /\ hw.td.on => hw.td.tog = k.tog[hw.td.dev]
  /\ k.todo # <<>> => call.pc = "hid_inject"
  /\ call.pc = "hid_take" => k.s # k.e /\ call.buf = k.ring[k.s]
  /\ k.last_btn = k.btn

\* The USB presses that went to the reader, the ring or the loop that injects.
Emitted == {k.read["usb"]} \cup {Unread[i].n : i \in Of("usb")} \cup {k.todo[i].n : i \in DOMAIN k.todo}

HidOrder ==
  /\ InOrder("ps2") /\ InOrder("usb")
  /\ k.read["ps2"] <= hw.n.ps2 /\ \A i \in Of("ps2") : Unread[i].n <= hw.n.ps2
  /\ \A i \in DOMAIN k.todo :
        /\ k.read["usb"] < k.todo[i].n
        /\ \A j \in Of("usb") : Unread[j].n < k.todo[i].n
        /\ \A j \in DOMAIN k.todo : j < i => k.todo[j].n < k.todo[i].n

\* A key that a report shows and an earlier one did not was pressed later than
\* everything that was emitted or shown up to that earlier one.
Later(E, Q, i, m) == (\A x \in E : x < m) /\ \A l \in 1 .. i : \A c \in DOMAIN Q[l] : Q[l][c] < m
ReportsOK(prev, E, Q) ==
  \A j \in DOMAIN Q : \A c \in DOMAIN Q[j] :
    /\ c \notin prev => \A x \in E : x < Q[j][c]
    /\ \A i \in 1 .. j - 1 : c \notin DOMAIN Q[i] => Later(E, Q, i, Q[j][c])

UpTo(E, Q, n) == (\A x \in E : x <= n) /\ \A i \in DOMAIN Q : \A c \in DOMAIN Q[i] : Q[i][c] <= n

\* Press n was emitted or is new in a report that waits.
Before(prev, Q, i) == IF i = 1 THEN prev ELSE DOMAIN Q[i - 1]
Pressed(prev, E, Q, n) ==
  n \in E \/ \E i \in DOMAIN Q : \E c \in DOMAIN Q[i] : Q[i][c] = n /\ c \notin Before(prev, Q, i)

\* The last report shows what is down.
Shown(prev, Q, S) == Before(prev, Q, Len(Q) + 1) = S

HidReports ==
  /\ ReportsOK(k.prev, Emitted, Append(Waiting("kbd"), hw.down))
  /\ UpTo(Emitted, Append(Waiting("kbd"), hw.down), hw.n.usb)

\* As long as nothing was sent again or dropped.
Clean == faults = 0 /\ ~k.lost /\ ~k.full
Toggle(x) == IF InTd(x) THEN 1 - hw.tog[x] ELSE hw.tog[x]
HidComplete ==
  /\ ~k.full => hw.n.ps2 = k.read["ps2"] \/ \E i \in Of("ps2") : Unread[i].n = hw.n.ps2
  /\ Clean =>
       /\ Pressed(k.prev, Emitted, Waiting("kbd"), hw.n.usb)
       /\ Shown(k.prev, Waiting("kbd"), DOMAIN hw.down)
       /\ LET Q == Waiting("mou") IN hw.btn = IF Q = <<>> THEN k.btn ELSE Q[Len(Q)]
       /\ \A x \in HidDevs : k.tog[x] = Toggle(x)

HidInv == HidTypes /\ HidControl /\ HidOrder /\ HidReports /\ HidComplete

-----------------------------------------------------------------------------
(* keyboard.c, usbkbd.c and usbmouse.c: sequences of reports *)

InFront(t, a, s, S) ==
  /\ t \in Seq(S) /\ Len(t) = Len(s) + 1 /\ DOMAIN t = 1 .. Len(s) + 1 /\ t[1] = a
  /\ \A i \in 1 .. Len(s) : t[i + 1] = s[i]
  /\ \A i \in 2 .. Len(s) + 1 : i - 1 \in 1 .. Len(s) /\ t[i] = s[i - 1]

LEMMA ConsIs ==
  ASSUME NEW S, NEW a \in S, NEW s \in Seq(S)
  PROVE  InFront(Cons(a, s), a, s, S)
  <1>1. Len(s) \in Nat /\ DOMAIN s = 1 .. Len(s) /\ \A i \in 1 .. Len(s) : s[i] \in S
    BY LenProperties, ElementOfSeq
  <1>2. Cons(a, s) \in [1 .. Len(s) + 1 -> S]
    BY <1>1 DEF Cons
  <1>3. Cons(a, s) \in Seq(S)
    BY <1>1, <1>2, SeqDef
  <1>4. Len(Cons(a, s)) = Len(s) + 1
    BY <1>1, <1>2, <1>3, LenProperties
  <1> QED  BY <1>1, <1>2, <1>3, <1>4 DEF Cons, InFront

LEMMA ConsAppend ==
  ASSUME NEW S, NEW a \in S, NEW s \in Seq(S), NEW d \in S
  PROVE  Append(Cons(a, s), d) = Cons(a, Append(s, d))
  <1>1. /\ Append(s, d) \in Seq(S) /\ Len(Append(s, d)) = Len(s) + 1 /\ Len(s) \in Nat
        /\ Append(s, d)[Len(s) + 1] = d /\ \A i \in 1 .. Len(s) : Append(s, d)[i] = s[i]
    BY AppendProperties, LenProperties
  <1>0. InFront(Cons(a, s), a, s, S)
    BY ConsIs
  <1>2. InFront(Cons(a, s), a, s, S) /\ Cons(a, s) \in Seq(S) /\ Len(Cons(a, s)) = Len(s) + 1
    BY <1>0 DEF InFront
  <1>3. /\ Append(Cons(a, s), d) \in Seq(S) /\ Len(Append(Cons(a, s), d)) = Len(s) + 2
        /\ Append(Cons(a, s), d)[Len(s) + 2] = d
        /\ \A i \in 1 .. Len(s) + 1 : Append(Cons(a, s), d)[i] = Cons(a, s)[i]
    <2> DEFINE u == Cons(a, s)
    <2> HIDE DEF u
    <2>1. u \in Seq(S) /\ Len(u) = Len(s) + 1 /\ Len(s) \in Nat
      BY <1>1, <1>2 DEF u
    <2>2. /\ Append(u, d) \in Seq(S) /\ Len(Append(u, d)) = Len(s) + 2
          /\ Append(u, d)[Len(s) + 2] = d
          /\ \A i \in 1 .. Len(s) + 1 : Append(u, d)[i] = u[i]
      BY <2>1, AppendProperties
    <2> QED  BY <2>2 DEF u
  <1>4. /\ Cons(a, Append(s, d)) \in Seq(S) /\ Len(Cons(a, Append(s, d))) = Len(s) + 2
        /\ \A i \in 2 .. Len(s) + 2 : Cons(a, Append(s, d))[i] = Append(s, d)[i - 1]
    <2> DEFINE t == Append(s, d)
    <2>1. t \in Seq(S) /\ Len(t) = Len(s) + 1 /\ Len(s) \in Nat
      BY <1>1
    <2> HIDE DEF t
    <2>2. InFront(Cons(a, t), a, t, S)
      BY <2>1, ConsIs
    <2>3. Len(t) + 1 = Len(s) + 2
      BY <2>1
    <2>4. /\ Cons(a, t) \in Seq(S) /\ Len(Cons(a, t)) = Len(s) + 2
          /\ \A i \in 2 .. Len(s) + 2 : Cons(a, t)[i] = t[i - 1]
      BY <2>2, <2>3 DEF InFront
    <2> QED  BY <2>4 DEF t
  <1>5. ASSUME NEW i \in 1 .. Len(s) + 2 PROVE Append(Cons(a, s), d)[i] = Cons(a, Append(s, d))[i]
    <2>1. CASE i = 1
      <3>1. Append(Cons(a, s), d)[i] = a
        BY <1>1, <1>2, <1>3, <2>1 DEF InFront
      <3>2. Cons(a, Append(s, d))[i] = a
        BY <1>1, <2>1 DEF Cons
      <3> QED  BY <3>1, <3>2
    <2>2. CASE i \in 2 .. Len(s) + 1
      <3>1. i - 1 \in 1 .. Len(s) /\ i \in 1 .. Len(s) + 1 /\ i \in 2 .. Len(s) + 2
        BY <1>1, <2>2
      <3>2. Append(Cons(a, s), d)[i] = Cons(a, s)[i] /\ Cons(a, s)[i] = s[i - 1]
        BY <1>2, <1>3, <2>2, <3>1 DEF InFront
      <3> QED  BY <1>1, <1>4, <3>1, <3>2
    <2>3. CASE i = Len(s) + 2
      <3>1. i - 1 = Len(s) + 1 /\ i \in 2 .. Len(s) + 2
        BY <1>1, <2>3
      <3>2. Append(Cons(a, s), d)[i] = d
        BY <1>3, <2>3
      <3>3. Cons(a, Append(s, d))[i] = Append(s, d)[i - 1]
        BY <1>4, <3>1
      <3>4. Append(s, d)[i - 1] = d
        BY <1>1, <3>1
      <3> QED  BY <3>2, <3>3, <3>4
    <2>4. i = 1 \/ i \in 2 .. Len(s) + 1 \/ i = Len(s) + 2
      <3>1. Len(s) \in Nat
        BY <1>1
      <3> QED  BY <3>1
    <2> QED  BY <2>1, <2>2, <2>3, <2>4
  <1> QED  BY <1>1, <1>3, <1>4, <1>5, SeqEqual

LEMMA ReportIs ==
  ASSUME NEW R \in Reports
  PROVE  R \in [DOMAIN R -> Nat] /\ DOMAIN R \in SUBSET Codes /\ \A c \in DOMAIN R : R[c] \in Nat
  BY DEF Reports

\* The numbers a sequence of reports shows.
LEMMA ReportsShow ==
  ASSUME NEW Q \in Seq(Reports)
  PROVE  /\ DOMAIN Q = 1 .. Len(Q) /\ Len(Q) \in Nat
         /\ \A i \in DOMAIN Q : Q[i] \in Reports
         /\ \A i \in DOMAIN Q : \A c \in DOMAIN Q[i] : Q[i][c] \in Nat
  BY LenProperties, ElementOfSeq, ReportIs

LEMMA FewerEmitted ==
  ASSUME NEW prev, NEW E, NEW F \in SUBSET E, NEW Q, NEW n
  PROVE  /\ ReportsOK(prev, E, Q) => ReportsOK(prev, F, Q)
         /\ UpTo(E, Q, n) => UpTo(F, Q, n)
  BY DEF ReportsOK, Later, UpTo

\* A press or a release: the last report is the new state, and the state.
LEMMA ReportMade ==
  ASSUME NEW prev, NEW E \in SUBSET Nat, NEW Q \in Seq(Reports), NEW d \in Reports, NEW d2 \in Reports,
         NEW n \in Nat, NEW m \in Nat, n <= m,
         ReportsOK(prev, E, Append(Q, d)), UpTo(E, Append(Q, d), n),
         \A c \in DOMAIN d2 : d2[c] <= m /\ (d2[c] > n \/ (c \in DOMAIN d /\ d2[c] = d[c]))
  PROVE  /\ ReportsOK(prev, E, Append(Append(Q, d2), d2))
         /\ UpTo(E, Append(Append(Q, d2), d2), m)
  <1> DEFINE L == Len(Q)
             A == Append(Q, d)
             H == Append(Append(Q, d2), d2)
  <1>1. L \in Nat /\ DOMAIN Q = 1 .. L
    BY ReportsShow
  <1>2. /\ A \in Seq(Reports) /\ DOMAIN A = 1 .. L + 1 /\ A[L + 1] = d
        /\ \A i \in 1 .. L : A[i] = Q[i]
    BY <1>1, AppendProperties, LenProperties
  <1>3. /\ DOMAIN H = 1 .. L + 2 /\ H[L + 1] = d2 /\ H[L + 2] = d2
        /\ \A i \in 1 .. L : H[i] = Q[i]
    BY <1>1, AppendProperties, LenProperties
  <1>4. /\ \A i \in 1 .. L : \A c \in DOMAIN Q[i] : Q[i][c] \in Nat /\ Q[i][c] <= n
        /\ \A c \in DOMAIN d : d[c] \in Nat /\ d[c] <= n
        /\ \A c \in DOMAIN d2 : d2[c] \in Nat
        /\ \A x \in E : x \in Nat /\ x <= n
    <2> HIDE DEF A, H, L
    <2>1. \A i \in 1 .. L + 1 : \A c \in DOMAIN A[i] : A[i][c] \in Nat /\ A[i][c] <= n
      BY <1>2, ReportsShow DEF UpTo, A
    <2>2. \A i \in 1 .. L : i \in 1 .. L + 1 /\ A[i] = Q[i]
      BY <1>1, <1>2
    <2>3. L + 1 \in 1 .. L + 1
      BY <1>1
    <2>4. \A x \in E : x \in Nat /\ x <= n
      BY DEF UpTo
    <2>5. \A c \in DOMAIN d2 : d2[c] \in Nat
      BY ReportIs
    <2> QED  BY <1>2, <2>1, <2>2, <2>3, <2>4, <2>5
  <1> HIDE DEF A, H, L
  <1>5. UpTo(E, H, m)
    <2>1. \A x \in E : x <= m
      BY <1>4
    <2>2. ASSUME NEW i \in DOMAIN H, NEW c \in DOMAIN H[i] PROVE H[i][c] <= m
      <3>1. CASE i \in 1 .. L
        BY <1>3, <1>4, <2>2, <3>1
      <3>2. CASE i \notin 1 .. L
        BY <1>1, <1>3, <2>2, <3>2
      <3> QED  BY <3>1, <3>2
    <2> QED  BY <2>1, <2>2 DEF UpTo
  <1>6. ASSUME NEW c \in DOMAIN d2
        PROVE  /\ c \notin prev => \A x \in E : x < d2[c]
               /\ \A i \in 1 .. L : c \notin DOMAIN Q[i] => Later(E, Q, i, d2[c])
    <2>1. CASE d2[c] > n
      BY <1>1, <1>4, <2>1 DEF Later
    <2>2. CASE c \in DOMAIN d /\ d2[c] = d[c]
      <3>1. /\ c \notin prev => \A x \in E : x < d[c]
            /\ \A i \in 1 .. L : c \notin DOMAIN A[i] => Later(E, A, i, d[c])
        BY <1>1, <1>2, <2>2 DEF ReportsOK, A
      <3>2. ASSUME NEW i \in 1 .. L, Later(E, A, i, d[c]) PROVE Later(E, Q, i, d[c])
        BY <1>1, <1>2, <3>2 DEF Later
      <3> QED  BY <1>2, <2>2, <3>1, <3>2
    <2> QED  BY <2>1, <2>2
  <1>7. ASSUME NEW j \in DOMAIN H, NEW c \in DOMAIN H[j]
        PROVE  /\ c \notin prev => \A x \in E : x < H[j][c]
               /\ \A i \in 1 .. j - 1 : c \notin DOMAIN H[i] => Later(E, H, i, H[j][c])
    <2>1. \A i \in 1 .. L : \A v : Later(E, Q, i, v) => Later(E, H, i, v)
      BY <1>1, <1>3 DEF Later
    <2>2. CASE j \in 1 .. L
      <3>1. /\ c \notin prev => \A x \in E : x < Q[j][c]
            /\ \A i \in 1 .. j - 1 : c \notin DOMAIN A[i] => Later(E, A, i, Q[j][c])
        BY <1>1, <1>2, <1>3, <1>7, <2>2 DEF ReportsOK, A
      <3>2. \A i \in 1 .. j - 1 : i \in 1 .. L /\ (Later(E, A, i, Q[j][c]) => Later(E, H, i, Q[j][c]))
        BY <1>1, <1>2, <1>3, <2>2 DEF Later
      <3> QED  BY <1>2, <1>3, <2>2, <3>1, <3>2
    <2>3. CASE j \notin 1 .. L
      <3>1. H[j] = d2 /\ j \in {L + 1, L + 2}
        BY <1>1, <1>3, <2>3
      <3>2. ASSUME NEW i \in 1 .. j - 1, c \notin DOMAIN H[i] PROVE i \in 1 .. L
        BY <1>1, <1>3, <1>7, <3>1, <3>2
      <3> QED  BY <1>3, <1>6, <1>7, <2>1, <3>1, <3>2
    <2> QED  BY <2>2, <2>3
  <1> QED  BY <1>5, <1>7 DEF ReportsOK, H

\* The first report is sent a second time.
LEMMA ReportAgain ==
  ASSUME NEW prev, NEW E, NEW r \in Reports, NEW p \in Seq(Reports), NEW n,
         ReportsOK(prev, E, Cons(r, p)), UpTo(E, Cons(r, p), n)
  PROVE  ReportsOK(prev, E, Cons(r, Cons(r, p))) /\ UpTo(E, Cons(r, Cons(r, p)), n)
  <1> DEFINE L == Len(p)
             Q == Cons(r, p)
             H == Cons(r, Cons(r, p))
  <1>1. L \in Nat /\ Q \in Seq(Reports) /\ Len(Q) = L + 1 /\ DOMAIN Q = 1 .. L + 1 /\ Q[1] = r
    BY ConsIs, ReportsShow DEF InFront
  <1>2. /\ DOMAIN H = 1 .. L + 2 /\ H[1] = r
        /\ \A i \in 2 .. L + 2 : i - 1 \in 1 .. L + 1 /\ H[i] = Q[i - 1]
    <2> HIDE DEF Q, L
    <2>1. InFront(H, r, Q, Reports)
      BY <1>1, ConsIs DEF Q
    <2>2. Len(Q) + 1 = L + 2
      BY <1>1
    <2> QED  BY <1>1, <2>1, <2>2 DEF InFront
  <1> HIDE DEF L, Q, H
  <1>3. UpTo(E, H, n)
    BY <1>1, <1>2 DEF UpTo, Q
  <1>4. ASSUME NEW j \in DOMAIN H, NEW c \in DOMAIN H[j]
        PROVE  /\ c \notin prev => \A x \in E : x < H[j][c]
               /\ \A i \in 1 .. j - 1 : c \notin DOMAIN H[i] => Later(E, H, i, H[j][c])
    <2>1. CASE j = 1
      BY <1>1, <1>2, <1>4, <2>1 DEF ReportsOK, Q
    <2>2. CASE j \in 2 .. L + 2
      <3>1. /\ j - 1 \in DOMAIN Q /\ H[j] = Q[j - 1]
        BY <1>1, <1>2, <2>2
      <3>2. /\ c \notin prev => \A x \in E : x < H[j][c]
            /\ \A i \in 1 .. (j - 1) - 1 : c \notin DOMAIN Q[i] => Later(E, Q, i, H[j][c])
        BY <1>4, <3>1 DEF ReportsOK, Q
      <3>3. ASSUME NEW i \in 1 .. j - 1, c \notin DOMAIN H[i] PROVE Later(E, H, i, H[j][c])
        <4> DEFINE i2 == IF i = 1 THEN 1 ELSE i - 1
        <4>1. i2 \in 1 .. L + 1 /\ H[i] = Q[i2] /\ i2 <= j - 1
          BY <1>1, <1>2, <2>2
        <4>2. i2 # j - 1
          BY <1>4, <3>1, <3>3, <4>1
        <4>3. Later(E, Q, i2, H[j][c])
          BY <2>2, <3>2, <3>3, <4>1, <4>2
        <4>4. \A l \in 1 .. i : \E l2 \in 1 .. i2 : H[l] = Q[l2]
          <5>1. ASSUME NEW l \in 1 .. i PROVE \E l2 \in 1 .. i2 : H[l] = Q[l2]
            <6>1. CASE l = 1
              BY <1>1, <1>2, <2>2, <6>1
            <6>2. CASE l # 1
              <7>1. l \in 2 .. L + 2 /\ l - 1 \in 1 .. i2
                BY <1>1, <2>2, <6>2
              <7> QED  BY <1>2, <7>1
            <6> QED  BY <6>1, <6>2
          <5> QED  BY <5>1
        <4> HIDE DEF i2
        <4> QED  BY <4>3, <4>4 DEF Later
      <3> QED  BY <3>2, <3>3
    <2> QED  BY <1>1, <1>2, <2>1, <2>2
  <1> QED  BY <1>3, <1>4 DEF ReportsOK, H

\* The first report is taken, with the new keys in it, or lost.
LEMMA ReportTaken ==
  ASSUME NEW prev, NEW E, NEW F, NEW r \in Reports, NEW p \in Seq(Reports), NEW n,
         ReportsOK(prev, E, Cons(r, p)), UpTo(E, Cons(r, p), n),
         \A x \in F : x \in E \/ \E c \in DOMAIN r : x = r[c]
  PROVE  ReportsOK(DOMAIN r, F, p) /\ UpTo(F, p, n) /\ ReportsOK(prev, E, p) /\ UpTo(E, p, n)
  <1> DEFINE L == Len(p)
             Q == Cons(r, p)
  <1>1. /\ L \in Nat /\ DOMAIN p = 1 .. L /\ DOMAIN Q = 1 .. L + 1 /\ Q[1] = r
        /\ \A i \in 1 .. L : Q[i + 1] = p[i] /\ i + 1 \in DOMAIN Q
    BY ConsIs, ReportsShow DEF InFront
  <1> HIDE DEF Q, L
  <1>2. UpTo(F, p, n) /\ UpTo(E, p, n)
    BY <1>1 DEF UpTo, Q
  <1>3. ASSUME NEW j \in DOMAIN p, NEW c \in DOMAIN p[j]
        PROVE  /\ c \notin prev => \A x \in E : x < p[j][c]
               /\ c \notin DOMAIN r => \A x \in F : x < p[j][c]
               /\ \A i \in 1 .. j - 1 : c \notin DOMAIN p[i] => Later(E, p, i, p[j][c]) /\ Later(F, p, i, p[j][c])
    <2>1. /\ c \notin prev => \A x \in E : x < p[j][c]
          /\ \A i \in 1 .. j : c \notin DOMAIN Q[i] => Later(E, Q, i, p[j][c])
      BY <1>1, <1>3 DEF ReportsOK, Q
    <2>2. 1 \in 1 .. j
      BY <1>1, <1>3
    <2>3. \A i \in 1 .. j : \A v : Later(E, Q, i, v) => \A x \in F : x < v
      BY <1>1 DEF Later
    <2>4. c \notin DOMAIN r => \A x \in F : x < p[j][c]
      BY <1>1, <2>1, <2>2, <2>3
    <2>5. ASSUME NEW i \in 1 .. j - 1, c \notin DOMAIN p[i]
          PROVE  Later(E, p, i, p[j][c]) /\ Later(F, p, i, p[j][c])
      <3>1. i + 1 \in 1 .. j /\ c \notin DOMAIN Q[i + 1]
        BY <1>1, <2>5
      <3>2. Later(E, Q, i + 1, p[j][c])
        BY <2>1, <3>1
      <3>3. \A l \in 1 .. i : l + 1 \in 1 .. i + 1 /\ Q[l + 1] = p[l]
        BY <1>1
      <3> QED  BY <2>3, <3>1, <3>2, <3>3 DEF Later
    <2> QED  BY <2>1, <2>4, <2>5
  <1> QED  BY <1>2, <1>3 DEF ReportsOK

LEMMA ReportLost ==
  ASSUME NEW prev, NEW E, NEW r \in Reports, NEW p \in Seq(Reports), NEW n,
         ReportsOK(prev, E, Cons(r, p)), UpTo(E, Cons(r, p), n)
  PROVE  ReportsOK(prev, E, p) /\ UpTo(E, p, n)
  <1>1. \A x \in E : x \in E \/ \E c \in DOMAIN r : x = r[c]
    OBVIOUS
  <1> QED  BY <1>1, ReportTaken

\* A press is shown by the report it makes, and stays known until it is emitted.
LEMMA PressShown ==
  ASSUME NEW prev, NEW E, NEW Q \in Seq(Reports), NEW d2 \in Reports, NEW S, NEW n, NEW m,
         Pressed(prev, E, Q, n), Shown(prev, Q, S),
         m = n \/ \E c \in DOMAIN d2 : c \notin S /\ d2[c] = m
  PROVE  Pressed(prev, E, Append(Q, d2), m) /\ Shown(prev, Append(Q, d2), DOMAIN d2)
  <1> DEFINE L == Len(Q)
             A == Append(Q, d2)
  <1>1. /\ L \in Nat /\ DOMAIN Q = 1 .. L
        /\ Len(A) = L + 1 /\ DOMAIN A = 1 .. L + 1 /\ A[L + 1] = d2 /\ \A i \in 1 .. L : A[i] = Q[i]
    BY ReportsShow, AppendProperties, LenProperties
  <1> HIDE DEF A, L
  <1>2. \A i \in 1 .. L + 1 : Before(prev, A, i) = Before(prev, Q, i)
    BY <1>1 DEF Before
  <1>3. Before(prev, Q, L + 1) = S
    BY DEF Shown, L
  <1>4. Shown(prev, A, DOMAIN d2)
    BY <1>1 DEF Shown, Before
  <1>5. ASSUME m = n PROVE Pressed(prev, E, A, m)
    <2>1. DOMAIN Q \subseteq DOMAIN A /\ \A i \in DOMAIN Q : A[i] = Q[i] /\ Before(prev, A, i) = Before(prev, Q, i)
      BY <1>1, <1>2
    <2> QED  BY <1>5, <2>1 DEF Pressed
  <1>6. ASSUME NEW c \in DOMAIN d2, c \notin S, d2[c] = m PROVE Pressed(prev, E, A, m)
    <2>1. L + 1 \in DOMAIN A /\ Before(prev, A, L + 1) = S
      BY <1>1, <1>2, <1>3
    <2> QED  BY <1>1, <1>6, <2>1 DEF Pressed
  <1> QED  BY <1>4, <1>5, <1>6 DEF A

LEMMA PressTaken ==
  ASSUME NEW prev, NEW E, NEW F, NEW r \in Reports, NEW p \in Seq(Reports), NEW S, NEW n,
         Pressed(prev, E, Cons(r, p), n), Shown(prev, Cons(r, p), S),
         E \subseteq F, \A c \in DOMAIN r \ prev : r[c] \in F
  PROVE  Pressed(DOMAIN r, F, p, n) /\ Shown(DOMAIN r, p, S)
  <1> DEFINE L == Len(p)
             Q == Cons(r, p)
  <1>1. /\ L \in Nat /\ DOMAIN p = 1 .. L /\ Len(Q) = L + 1 /\ DOMAIN Q = 1 .. L + 1 /\ Q[1] = r
        /\ \A i \in 1 .. L : Q[i + 1] = p[i]
        /\ \A i \in 2 .. L + 1 : i - 1 \in 1 .. L /\ Q[i] = p[i - 1]
    <2>1. InFront(Q, r, p, Reports)
      BY ConsIs
    <2>2. L \in Nat /\ DOMAIN p = 1 .. L
      BY ReportsShow
    <2> HIDE DEF Q, L
    <2> QED  BY <2>1, <2>2 DEF InFront, L
  <1> HIDE DEF Q, L
  <1>2. ASSUME NEW i \in 2 .. L + 2 PROVE Before(prev, Q, i) = Before(DOMAIN r, p, i - 1)
    <2>1. CASE i = 2
      BY <1>1, <2>1 DEF Before
    <2>2. CASE i # 2
      <3>1. i - 1 \in 2 .. L + 1 /\ i # 1 /\ i - 1 # 1
        BY <1>1, <2>2
      <3> QED  BY <1>1, <3>1 DEF Before
    <2> QED  BY <2>1, <2>2
  <1>3. Shown(DOMAIN r, p, S)
    <2>1. L + 2 \in 2 .. L + 2 /\ (L + 2) - 1 = L + 1 /\ Len(Q) + 1 = L + 2
      BY <1>1
    <2>2. Before(prev, Q, L + 2) = S
      BY <2>1 DEF Shown, Q
    <2> QED  BY <1>2, <2>1, <2>2 DEF Shown, L
  <1>4. ASSUME n \in E PROVE Pressed(DOMAIN r, F, p, n)
    BY <1>4 DEF Pressed
  <1>6. n \in E \/ \E i \in DOMAIN Q : \E c \in DOMAIN Q[i] : Q[i][c] = n /\ c \notin Before(prev, Q, i)
    BY DEF Pressed, Q
  <1>5. ASSUME NEW i \in DOMAIN Q, NEW c \in DOMAIN Q[i], Q[i][c] = n, c \notin Before(prev, Q, i)
        PROVE  Pressed(DOMAIN r, F, p, n)
    <2>1. CASE i = 1
      BY <1>1, <1>5, <2>1 DEF Before, Pressed
    <2>2. CASE i # 1
      <3>1. i \in 2 .. L + 1 /\ i \in 2 .. L + 2
        BY <1>1, <2>2
      <3>2. i - 1 \in DOMAIN p /\ Q[i] = p[i - 1] /\ Before(prev, Q, i) = Before(DOMAIN r, p, i - 1)
        BY <1>1, <1>2, <3>1
      <3> QED  BY <1>5, <3>2 DEF Pressed
    <2> QED  BY <2>1, <2>2
  <1> QED  BY <1>3, <1>4, <1>5, <1>6

LEMMA PressKept ==
  ASSUME NEW prev, NEW E, NEW F, NEW Q, NEW n, Pressed(prev, E, Q, n), n \in E => n \in F
  PROVE  Pressed(prev, F, Q, n)
  BY DEF Pressed

-----------------------------------------------------------------------------
(* keyboard.c: the ring *)

Places == 0 .. RingSize - 1
Used(kk) == (kk.e - kk.s) % RingSize
UnreadOf(kk) == [i \in 1 .. Used(kk) |-> kk.ring[(kk.s + i - 1) % RingSize]]

LEMMA HidMod ==
  \A x \in Int :
    /\ 0 <= x /\ x < RingSize => x % RingSize = x
    /\ RingSize <= x /\ x < 2 * RingSize => x % RingSize = x - RingSize
    /\ -RingSize <= x /\ x < 0 => x % RingSize = x + RingSize
  <1>1. \A b \in Nat \ {0} : \A x \in Int : 0 <= x /\ x < b => x % b = x
    OBVIOUS
  <1>2. \A b \in Nat \ {0} : \A x \in Int : b <= x /\ x < 2 * b => x % b = x - b
    OBVIOUS
  <1>3. \A b \in Nat \ {0} : \A x \in Int : -b <= x /\ x < 0 => x % b = x + b
    OBVIOUS
  <1> QED  BY <1>1, <1>2, <1>3, HidAssumption, Zenon

\* Positions of the ring, without the modulus.
LEMMA RingIs ==
  ASSUME NEW a \in Places, NEW b \in Places
  PROVE  /\ (b - a) % RingSize = IF b >= a THEN b - a ELSE b - a + RingSize
         /\ (b - a) % RingSize \in Places
         /\ (b + 1) % RingSize = IF b = RingSize - 1 THEN 0 ELSE b + 1
         /\ (b + 1) % RingSize \in Places
         /\ \A i \in 1 .. RingSize :
               (a + i - 1) % RingSize = IF a + i - 1 < RingSize THEN a + i - 1 ELSE a + i - 1 - RingSize
  <1>1. RingSize \in Nat \ {0} /\ a \in Int /\ b \in Int /\ 0 <= a /\ a < RingSize /\ 0 <= b /\ b < RingSize
    BY HidAssumption DEF Places
  <1>2. (b - a) % RingSize = IF b >= a THEN b - a ELSE b - a + RingSize
    <2>1. CASE b >= a
      BY <1>1, <2>1, HidMod, b - a \in Int, 0 <= b - a, b - a < RingSize
    <2>2. CASE ~(b >= a)
      BY <1>1, <2>2, HidMod, b - a \in Int, -RingSize <= b - a, b - a < 0
    <2> QED  BY <2>1, <2>2
  <1>3. (b + 1) % RingSize = IF b = RingSize - 1 THEN 0 ELSE b + 1
    <2>1. CASE b = RingSize - 1
      <3> DEFINE x == b + 1
      <3>1. x \in Int /\ RingSize <= x /\ x < 2 * RingSize /\ x - RingSize = 0
        BY <1>1, <2>1
      <3> HIDE DEF x
      <3>2. x % RingSize = 0
        BY <3>1, HidMod
      <3> QED  BY <2>1, <3>2 DEF x
    <2>2. CASE b # RingSize - 1
      <3>1. b + 1 \in Int /\ 0 <= b + 1 /\ b + 1 < RingSize
        BY <1>1, <2>2
      <3>2. (b + 1) % RingSize = b + 1
        BY <3>1, HidMod
      <3> QED  BY <2>2, <3>2
    <2> QED  BY <2>1, <2>2
  <1>4. ASSUME NEW i \in 1 .. RingSize
        PROVE  (a + i - 1) % RingSize = IF a + i - 1 < RingSize THEN a + i - 1 ELSE a + i - 1 - RingSize
    <2>1. a + i - 1 \in Int /\ 0 <= a + i - 1 /\ a + i - 1 < 2 * RingSize
      BY <1>1
    <2> HIDE DEF Places
    <2> QED  BY <1>1, <2>1, HidMod
  <1> QED  BY <1>1, <1>2, <1>3, <1>4 DEF Places

\* A key that finds room is the last of those not read.
LEMMA PushRoom ==
  ASSUME NEW kk \in HidKernels, NEW key \in Keys, HasRoom(kk)
  PROVE  LET q == Push(kk, key)
         IN /\ q \in HidKernels /\ q = [kk EXCEPT !.ring = q.ring, !.e = q.e]
            /\ Used(kk) \in Nat /\ Used(q) = Used(kk) + 1
            /\ \A i \in 1 .. Used(kk) : UnreadOf(q)[i] = UnreadOf(kk)[i]
            /\ UnreadOf(q)[Used(kk) + 1] = key
            /\ q.s # q.e /\ \A i \in Places : i # kk.e => q.ring[i] = kk.ring[i]
  <1> DEFINE e2 == (kk.e + 1) % RingSize
             ring2 == [kk.ring EXCEPT ![kk.e] = key]
             q == Push(kk, key)
  <1>1. RingSize \in Nat \ {0} /\ kk.s \in Places /\ kk.e \in Places /\ kk.ring \in [Places -> Keys \cup {None}]
    BY HidAssumption DEF HidKernels, Places
  <1>2. e2 \in Places /\ e2 = (IF kk.e = RingSize - 1 THEN 0 ELSE kk.e + 1) /\ e2 # kk.s
    BY <1>1, RingIs DEF HasRoom
  <1>3. ring2 \in [Places -> Keys \cup {None}] /\ ring2[kk.e] = key /\ \A i \in Places : i # kk.e => ring2[i] = kk.ring[i]
    BY <1>1
  <1>4. q = [kk EXCEPT !.ring = ring2, !.e = e2]
    BY DEF Push
  <1> HIDE DEF e2, ring2, q
  <1>5. q.ring = ring2 /\ q.e = e2 /\ q.s = kk.s /\ q \in HidKernels
    BY <1>2, <1>3, <1>4 DEF HidKernels, Places
  <1>6. Used(kk) = (IF kk.e >= kk.s THEN kk.e - kk.s ELSE kk.e - kk.s + RingSize) /\ Used(kk) \in Places
    BY <1>1, RingIs DEF Used
  <1>7. Used(q) = (IF e2 >= kk.s THEN e2 - kk.s ELSE e2 - kk.s + RingSize)
    BY <1>1, <1>2, <1>5, RingIs DEF Used
  <1>8. Used(kk) \in Nat /\ Used(kk) < RingSize /\ Used(q) = Used(kk) + 1
    BY <1>1, <1>2, <1>6, <1>7 DEF Places
  <1> DEFINE pos(i) == (kk.s + i - 1) % RingSize
  <1>9. ASSUME NEW i \in 1 .. RingSize
        PROVE  pos(i) \in Places /\ pos(i) = (IF kk.s + i - 1 < RingSize THEN kk.s + i - 1 ELSE kk.s + i - 1 - RingSize)
    <2>1. pos(i) = (IF kk.s + i - 1 < RingSize THEN kk.s + i - 1 ELSE kk.s + i - 1 - RingSize)
      BY <1>1, RingIs
    <2> HIDE DEF pos
    <2> QED  BY <1>1, <2>1 DEF Places
  <1>10. \A i \in 1 .. Used(kk) : UnreadOf(q)[i] = ring2[pos(i)] /\ UnreadOf(kk)[i] = kk.ring[pos(i)]
    BY <1>5, <1>8 DEF UnreadOf
  <1>11. UnreadOf(q)[Used(kk) + 1] = ring2[pos(Used(kk) + 1)]
    BY <1>5, <1>8 DEF UnreadOf
  <1> HIDE DEF pos
  <1>12. ASSUME NEW i \in 1 .. Used(kk) PROVE pos(i) # kk.e /\ pos(i) \in Places
    <2>1. i \in 1 .. RingSize /\ i <= Used(kk)
      BY <1>1, <1>8
    <2>2. pos(i) \in Places /\ pos(i) = IF kk.s + i - 1 < RingSize THEN kk.s + i - 1 ELSE kk.s + i - 1 - RingSize
      BY <1>9, <2>1
    <2>3. kk.s \in Int /\ kk.e \in Int /\ i \in Int /\ kk.s + i - 1 \in Int /\ 1 <= i /\ i <= Used(kk)
          /\ 0 <= kk.s /\ kk.s < RingSize /\ 0 <= kk.e /\ kk.e < RingSize /\ Used(kk) \in Int /\ RingSize \in Int
      BY <1>1, <1>8, <2>1 DEF Places
    <2> QED  BY <1>6, <2>2, <2>3
  <1>13. pos(Used(kk) + 1) = kk.e
    <2>1. Used(kk) + 1 \in 1 .. RingSize
      BY <1>1, <1>8
    <2> DEFINE i == Used(kk) + 1
    <2>2. pos(i) = IF kk.s + i - 1 < RingSize THEN kk.s + i - 1 ELSE kk.s + i - 1 - RingSize
      BY <1>9, <2>1
    <2>3. kk.s \in Int /\ kk.e \in Int /\ 0 <= kk.s /\ kk.s < RingSize /\ 0 <= kk.e /\ kk.e < RingSize
          /\ Used(kk) \in Int /\ RingSize \in Int /\ kk.s + i - 1 = kk.s + Used(kk)
      BY <1>1, <1>8 DEF Places
    <2>4. pos(i) = IF kk.s + Used(kk) < RingSize THEN kk.s + Used(kk) ELSE kk.s + Used(kk) - RingSize
      BY <2>2, <2>3
    <2> HIDE DEF i
    <2>5. pos(i) = kk.e
      BY <1>6, <2>3, <2>4
    <2> QED  BY <2>5 DEF i
  <1>14. q = [kk EXCEPT !.ring = q.ring, !.e = q.e]
    BY <1>4, <1>5
  <1> QED  BY <1>2, <1>3, <1>5, <1>8, <1>10, <1>11, <1>12, <1>13, <1>14 DEF q

LEMMA PushFull ==
  ASSUME NEW kk \in HidKernels, NEW key, ~HasRoom(kk)
  PROVE  Push(kk, key) = [kk EXCEPT !.full = TRUE] /\ Push(kk, key) \in HidKernels
  BY DEF Push, HidKernels

\* The oldest key is taken.
LEMMA TakeRing ==
  ASSUME NEW kk \in HidKernels, NEW q \in HidKernels, kk.s # kk.e,
         q.ring = kk.ring, q.e = kk.e, q.s = (kk.s + 1) % RingSize
  PROVE  /\ Used(kk) \in Nat \ {0} /\ Used(q) = Used(kk) - 1
         /\ UnreadOf(kk)[1] = kk.ring[kk.s]
         /\ \A i \in 1 .. Used(q) : UnreadOf(q)[i] = UnreadOf(kk)[i + 1]
  <1>1. RingSize \in Nat \ {0} /\ kk.s \in Places /\ kk.e \in Places
    BY HidAssumption DEF HidKernels, Places
  <1>2. q.s \in Places /\ q.s = (IF kk.s = RingSize - 1 THEN 0 ELSE kk.s + 1)
    BY <1>1, RingIs
  <1>3. Used(kk) = (IF kk.e >= kk.s THEN kk.e - kk.s ELSE kk.e - kk.s + RingSize)
    BY <1>1, RingIs DEF Used
  <1>4. Used(q) = (IF kk.e >= q.s THEN kk.e - q.s ELSE kk.e - q.s + RingSize)
    BY <1>1, <1>2, RingIs DEF Used
  <1>5. Used(kk) \in Nat \ {0} /\ Used(q) = Used(kk) - 1 /\ Used(kk) < RingSize
    BY <1>1, <1>2, <1>3, <1>4 DEF Places
  <1>6. UnreadOf(kk)[1] = kk.ring[kk.s]
    <2>1. (kk.s + 1 - 1) % RingSize = kk.s
      <3>1. kk.s \in Int /\ 0 <= kk.s /\ kk.s < RingSize /\ kk.s + 1 - 1 = kk.s
        BY <1>1 DEF Places
      <3> QED  BY <3>1, HidMod
    <2> QED  BY <1>5, <2>1 DEF UnreadOf
  <1>7. ASSUME NEW i \in 1 .. Used(q) PROVE UnreadOf(q)[i] = UnreadOf(kk)[i + 1]
    <2>1. i \in 1 .. RingSize /\ i + 1 \in 1 .. RingSize /\ i + 1 \in 1 .. Used(kk)
      BY <1>1, <1>5
    <2>2. (q.s + i - 1) % RingSize = IF q.s + i - 1 < RingSize THEN q.s + i - 1 ELSE q.s + i - 1 - RingSize
      BY <1>2, <2>1, RingIs
    <2>3. (kk.s + (i + 1) - 1) % RingSize
            = IF kk.s + (i + 1) - 1 < RingSize THEN kk.s + (i + 1) - 1 ELSE kk.s + (i + 1) - 1 - RingSize
      BY <1>1, <2>1, RingIs
    <2>4. (q.s + i - 1) % RingSize = (kk.s + (i + 1) - 1) % RingSize
      <3> DEFINE x == (q.s + i - 1) % RingSize
                 y == (kk.s + (i + 1) - 1) % RingSize
      <3>1. /\ x = IF q.s + i - 1 < RingSize THEN q.s + i - 1 ELSE q.s + i - 1 - RingSize
            /\ y = IF kk.s + (i + 1) - 1 < RingSize THEN kk.s + (i + 1) - 1 ELSE kk.s + (i + 1) - 1 - RingSize
        BY <2>2, <2>3
      <3> HIDE DEF x, y
      <3>2. x = y
        BY <1>1, <1>2, <2>1, <3>1 DEF Places
      <3> QED  BY <3>2 DEF x, y
    <2>5. UnreadOf(q)[i] = kk.ring[(q.s + i - 1) % RingSize]
      BY DEF UnreadOf
    <2>6. UnreadOf(kk)[i + 1] = kk.ring[(kk.s + (i + 1) - 1) % RingSize]
      BY <2>1 DEF UnreadOf
    <2> QED  BY <2>4, <2>5, <2>6
  <1> QED  BY <1>5, <1>6, <1>7

-----------------------------------------------------------------------------
(* keyboard.c, usbkbd.c and usbmouse.c: facts about a state *)

LEMMA UnreadIs ==
  ASSUME k \in HidKernels
  PROVE  /\ Unread = UnreadOf(k) /\ Used(k) \in Nat /\ DOMAIN Unread = 1 .. Used(k)
         /\ k.read["ps2"] \in Nat /\ k.read["usb"] \in Nat
  <1>1. k.s \in Places /\ k.e \in Places /\ k.read["ps2"] \in Nat /\ k.read["usb"] \in Nat
    BY DEF HidKernels, Places, Presses
  <1>2. Used(k) \in Places
    BY <1>1, RingIs DEF Used
  <1> QED  BY <1>1, <1>2, HidAssumption DEF Unread, UnreadOf, Used, Places

LEMMA EmittedIs ==
  ASSUME HidTypes
  PROVE  /\ Emitted \in SUBSET Nat
         /\ \A i \in DOMAIN Unread : Unread[i].n \in Nat
         /\ \A i \in DOMAIN k.todo : k.todo[i] \in Keys /\ k.todo[i].n \in Nat
  <1>1. \A i \in DOMAIN Unread : Unread[i].n \in Nat
    BY DEF HidTypes, Keys
  <1>2. k.todo \in Seq(Keys)
    BY DEF HidTypes, HidKernels
  <1>3. ASSUME NEW i \in DOMAIN k.todo PROVE k.todo[i] \in Keys /\ k.todo[i].n \in Nat
    <2>1. k.todo[i] \in Keys
      BY <1>2, <1>3, LenProperties, ElementOfSeq
    <2> QED  BY <2>1 DEF Keys
  <1>4. k.read["usb"] \in Nat
    BY UnreadIs DEF HidTypes
  <1> QED  BY <1>1, <1>3, <1>4 DEF Emitted, Of

LEMMA WaitingIs ==
  ASSUME HidTypes
  PROVE  Waiting("kbd") \in Seq(Reports) /\ Waiting("mou") \in Seq({0, 1}) /\ hw.down \in Reports
  <1>1. hw.pend["kbd"] \in Seq(Reports) /\ hw.pend["mou"] \in Seq({0, 1}) /\ hw.down \in Reports
    BY DEF HidTypes, HidDevices
  <1>2. ASSUME InTd("kbd") PROVE Cons(hw.td.rep[1], hw.pend["kbd"]) \in Seq(Reports)
    <2>1. hw.td.rep[1] \in Reports
      BY <1>2 DEF HidTypes, InTd
    <2>2. InFront(Cons(hw.td.rep[1], hw.pend["kbd"]), hw.td.rep[1], hw.pend["kbd"], Reports)
      BY <1>1, <2>1, ConsIs
    <2> QED  BY <2>2 DEF InFront
  <1>3. ASSUME InTd("mou") PROVE Cons(hw.td.rep[1], hw.pend["mou"]) \in Seq({0, 1})
    <2>1. hw.td.rep[1] \in {0, 1}
      BY <1>3 DEF HidTypes, InTd
    <2>2. InFront(Cons(hw.td.rep[1], hw.pend["mou"]), hw.td.rep[1], hw.pend["mou"], {0, 1})
      BY <1>1, <2>1, ConsIs
    <2> QED  BY <2>2 DEF InFront
  <1> QED  BY <1>1, <1>2, <1>3 DEF Waiting

\* The keys on their way to the reader are as before.
SameKeys ==
  /\ k'.ring = k.ring /\ k'.s = k.s /\ k'.e = k.e /\ k'.todo = k.todo /\ k'.read = k.read
  /\ hw'.n.ps2 = hw.n.ps2

LEMMA KeysSame ==
  ASSUME HidTypes, HidOrder, SameKeys
  PROVE  /\ Unread' = Unread /\ Emitted' = Emitted /\ HidOrder' /\ \A src : Of(src)' = Of(src)
         /\ \A i \in DOMAIN Unread' : Unread'[i] \in Keys
         /\ \A i \in DOMAIN k'.todo : k'.todo[i].src = "usb"
  <1>1. Unread' = Unread
    BY DEF SameKeys, Unread
  <1>2. \A src : Of(src)' = Of(src)
    BY <1>1 DEF Of
  <1>3. Emitted' = Emitted
    BY <1>1, <1>2 DEF Emitted, SameKeys
  <1>4. HidOrder'
    BY <1>1, <1>2 DEF HidOrder, InOrder, SameKeys
  <1> QED  BY <1>1, <1>2, <1>3, <1>4 DEF HidTypes, SameKeys

\* The reports of the keyboard are as before.
SameReports ==
  /\ Waiting("kbd")' = Waiting("kbd") /\ hw'.down = hw.down /\ hw'.n.usb = hw.n.usb /\ k'.prev = k.prev

LEMMA ReportsSame ==
  ASSUME HidTypes, HidReports, SameReports, Emitted' \subseteq Emitted
  PROVE  HidReports'
  BY FewerEmitted DEF HidReports, SameReports

\* Of the keyboards nothing changes, or nothing that InputArrives asks about.
LEMMA CompleteSame ==
  ASSUME HidTypes, HidOrder, HidComplete, SameKeys, SameReports,
         k.full => k'.full, Clean' => Clean,
         Clean' => LET Q == Waiting("mou")' IN hw'.btn = IF Q = <<>> THEN k'.btn ELSE Q[Len(Q)],
         Clean' => \A x \in HidDevs : k'.tog[x] = Toggle(x)'
  PROVE  HidComplete'
  <1>1. Unread' = Unread /\ Emitted' = Emitted /\ \A src : Of(src)' = Of(src)
    BY KeysSame
  <1>2. ~k'.full => hw'.n.ps2 = k'.read["ps2"] \/ \E i \in Of("ps2")' : Unread'[i].n = hw'.n.ps2
    BY <1>1 DEF HidComplete, SameKeys
  <1>3. Clean' => /\ Pressed(k'.prev, Emitted', Waiting("kbd")', hw'.n.usb)
                  /\ Shown(k'.prev, Waiting("kbd")', DOMAIN hw'.down)
    BY <1>1 DEF HidComplete, SameReports
  <1> QED  BY <1>2, <1>3 DEF HidComplete

LEMMA CallOnly ==
  ASSUME HidInv, UNCHANGED <<k, hw, faults>>, HidControl'
  PROVE  HidInv'
  <1>1. SameKeys /\ HidTypes /\ HidOrder /\ Unread' = Unread
    BY DEF HidInv, SameKeys, Unread
  <1>2. \A x : Waiting(x)' = Waiting(x) /\ InTd(x)' = InTd(x) /\ Toggle(x)' = Toggle(x)
    BY DEF Waiting, InTd, Toggle
  <1>3. SameReports /\ HidOrder' /\ Emitted' = Emitted
    BY <1>1, <1>2, KeysSame DEF SameReports
  <1>4. HidTypes'
    BY <1>1 DEF HidTypes
  <1>5. HidReports'
    BY <1>1, <1>3, ReportsSame DEF HidInv
  <1>6. Clean' = Clean
    BY DEF Clean
  <1>7. HidComplete'
    BY <1>1, <1>2, <1>3, <1>6, CompleteSame DEF HidInv, HidComplete
  <1> QED  BY <1>3, <1>4, <1>5, <1>7 DEF HidInv

-----------------------------------------------------------------------------
(* keyboard.c, usbkbd.c and usbmouse.c: the steps that move no key *)

\* The control of a step that leaves the driver and the descriptor alone.
LEMMA ControlSame ==
  ASSUME HidControl, SameKeys, call' = call, k'.tog = k.tog, k'.btn = k.btn, k'.last_btn = k.last_btn,
         hw'.td.on = hw.td.on, hw'.td.dev = hw.td.dev, hw'.td.tog = hw.td.tog
  PROVE  HidControl'
  BY DEF HidControl, SameKeys

\* A press or a release makes a report.
LEMMA UsbKeysStep ==
  ASSUME HidInv, NEW down \in Reports, NEW n \in Nat, hw.n.usb <= n, UsbKeys(down, n),
         \A c \in DOMAIN down :
           (down[c] > hw.n.usb /\ down[c] <= n) \/ (c \in DOMAIN hw.down /\ down[c] = hw.down[c]),
         n = hw.n.usb \/ \E c \in DOMAIN down : c \notin DOMAIN hw.down /\ down[c] = n
  PROVE  HidInv'
  <1> DEFINE W == Waiting("kbd")
             p == hw.pend["kbd"]
             p2 == Append(p, down)
  <1>1. HidTypes /\ HidControl /\ HidOrder /\ HidReports /\ HidComplete /\ hw \in HidDevices /\ hw.n.usb \in Nat
    BY DEF HidInv, HidTypes, HidDevices
  <1>2. /\ W \in Seq(Reports) /\ hw.down \in Reports /\ p \in Seq(Reports)
    BY <1>1, WaitingIs DEF HidTypes
  <1>3. p2 \in Seq(Reports) /\ p2 \in Seq(Reports \cup {0, 1})
    <2>1. p \in Seq(Reports \cup {0, 1}) /\ down \in Reports \cup {0, 1}
      BY <1>1 DEF HidDevices, HidDevs
    <2> HIDE DEF p
    <2> QED  BY <1>2, <2>1, AppendProperties
  <1>4. hw' = [hw EXCEPT !.down = down, !.pend["kbd"] = p2, !.n.usb = n] /\ UNCHANGED <<k, call, faults>>
    BY DEF UsbKeys
  <1> HIDE DEF p2
  <1>5. /\ hw' \in HidDevices /\ hw'.pend["kbd"] = p2 /\ hw'.pend["mou"] = hw.pend["mou"] /\ hw'.down = down
        /\ hw'.n.usb = n /\ hw'.n.ps2 = hw.n.ps2 /\ hw'.td = hw.td /\ hw'.tog = hw.tog /\ hw'.btn = hw.btn
    <2>1. hw.n \in [ps2 : Nat, usb : Nat, mou : Nat] /\ hw.pend \in [HidDevs -> Seq(Reports \cup {0, 1})]
      BY <1>1 DEF HidDevices
    <2> DEFINE n2 == [hw.n EXCEPT !.usb = n]
               pend2 == [hw.pend EXCEPT !["kbd"] = p2]
    <2>2. n2 \in [ps2 : Nat, usb : Nat, mou : Nat] /\ n2.usb = n /\ n2.ps2 = hw.n.ps2
      BY <2>1
    <2>3. pend2 \in [HidDevs -> Seq(Reports \cup {0, 1})] /\ pend2["kbd"] = p2 /\ pend2["mou"] = hw.pend["mou"]
      BY <1>3, <2>1 DEF HidDevs
    <2>4. hw' = [hw EXCEPT !.down = down, !.pend = pend2, !.n = n2]
      BY <1>4
    <2> HIDE DEF n2, pend2
    <2> QED  BY <1>1, <2>2, <2>3, <2>4 DEF HidDevices
  <1>6. Waiting("kbd")' = Append(W, down)
    <2>1. CASE InTd("kbd")
      <3>1. hw.td.rep[1] \in Reports
        BY <1>1, <2>1 DEF HidTypes, InTd
      <3>2. Append(Cons(hw.td.rep[1], p), down) = Cons(hw.td.rep[1], Append(p, down))
        <4> DEFINE x == hw.td.rep[1]
        <4> HIDE DEF x, p
        <4>1. x \in Reports
          BY <3>1 DEF x
        <4>2. Append(Cons(x, p), down) = Cons(x, Append(p, down))
          BY <1>2, <4>1, ConsAppend
        <4> QED  BY <4>2 DEF x
      <3> QED  BY <1>5, <2>1, <3>2 DEF Waiting, InTd, p2
    <2>2. CASE ~InTd("kbd")
      BY <1>5, <2>2 DEF Waiting, InTd, p2
    <2> QED  BY <2>1, <2>2
  <1>7. Waiting("mou")' = Waiting("mou") /\ \A x : Toggle(x)' = Toggle(x) /\ Clean' = Clean
    BY <1>4, <1>5 DEF Waiting, InTd, Toggle, Clean
  <1>8. SameKeys
    BY <1>4, <1>5 DEF SameKeys
  <1>9. /\ Unread' = Unread /\ Emitted' = Emitted /\ HidOrder' /\ \A src : Of(src)' = Of(src)
        /\ \A i \in DOMAIN Unread' : Unread'[i] \in Keys
        /\ \A i \in DOMAIN k'.todo : k'.todo[i].src = "usb"
    BY <1>1, <1>8, KeysSame
  <1>10. HidTypes' /\ HidControl'
    BY <1>1, <1>3, <1>4, <1>5, <1>8, <1>9, ControlSame DEF HidTypes
  <1> HIDE DEF W, p
  <1>11. HidReports'
    <2>1. /\ ReportsOK(k.prev, Emitted, Append(W, hw.down)) /\ UpTo(Emitted, Append(W, hw.down), hw.n.usb)
          /\ Emitted \in SUBSET Nat
      BY <1>1, EmittedIs DEF HidReports, W
    <2>2. \A c \in DOMAIN down : down[c] <= n /\ (down[c] > hw.n.usb \/ (c \in DOMAIN hw.down /\ down[c] = hw.down[c]))
      <3>1. \A c \in DOMAIN hw.down : hw.down[c] \in Nat /\ hw.down[c] <= hw.n.usb
        <4>1. Append(W, hw.down)[Len(W) + 1] = hw.down /\ Len(W) + 1 \in DOMAIN Append(W, hw.down)
          BY <1>2, AppendProperties, LenProperties
        <4> QED  BY <1>2, <2>1, <4>1, ReportIs DEF UpTo
      <3>2. \A c \in DOMAIN down : down[c] \in Nat
        BY ReportIs
      <3> QED  BY <1>1, <3>1, <3>2
    <2>3. /\ ReportsOK(k.prev, Emitted, Append(Append(W, down), down))
          /\ UpTo(Emitted, Append(Append(W, down), down), n)
      <3> DEFINE m == hw.n.usb
                 E == Emitted
                 d == hw.down
                 prev == k.prev
      <3>1. m \in Nat /\ n \in Nat /\ m <= n /\ E \in SUBSET Nat /\ d \in Reports
        BY <1>1, <1>2, <2>1
      <3>2. ReportsOK(prev, E, Append(W, d)) /\ UpTo(E, Append(W, d), m)
        BY <2>1
      <3>3. \A c \in DOMAIN down : down[c] <= n /\ (down[c] > m \/ (c \in DOMAIN d /\ down[c] = d[c]))
        BY <2>2
      <3> HIDE DEF m, E, d, prev
      <3>4. ReportsOK(prev, E, Append(Append(W, down), down)) /\ UpTo(E, Append(Append(W, down), down), n)
        BY <1>2, <3>1, <3>2, <3>3, ReportMade
      <3> QED  BY <3>4 DEF E, prev
    <2> QED  BY <1>4, <1>5, <1>6, <1>9, <2>3 DEF HidReports
  <1>12. HidComplete'
    <2>1. Clean => /\ Pressed(k.prev, Emitted, Append(W, down), n)
                   /\ Shown(k.prev, Append(W, down), DOMAIN down)
      BY <1>1, <1>2, PressShown DEF HidComplete, W
    <2> QED  BY <1>1, <1>4, <1>5, <1>6, <1>7, <1>9, <2>1 DEF HidComplete
  <1> QED  BY <1>9, <1>10, <1>11, <1>12 DEF HidInv

LEMMA UsbPressStep ==
  ASSUME HidInv, UsbPress
  PROVE  HidInv'
  <1> DEFINE n == hw.n.usb + 1
  <1>1. hw.n.usb \in Nat /\ hw.down \in Reports
    BY DEF HidInv, HidTypes, HidDevices
  <1>2. PICK c \in Codes \ DOMAIN hw.down :
          UsbKeys([x \in DOMAIN hw.down \cup {c} |-> IF x = c THEN n ELSE hw.down[x]], n)
    BY DEF UsbPress
  <1> DEFINE down == [x \in DOMAIN hw.down \cup {c} |-> IF x = c THEN n ELSE hw.down[x]]
  <1>3. DOMAIN hw.down \in SUBSET Codes /\ \A x \in DOMAIN hw.down : hw.down[x] \in Nat
    BY <1>1, ReportIs
  <1>4. down \in [DOMAIN hw.down \cup {c} -> Nat] /\ DOMAIN hw.down \cup {c} \in SUBSET Codes
    BY <1>1, <1>3
  <1>5. down \in Reports
    <2> HIDE DEF down
    <2> QED  BY <1>4 DEF Reports
  <1>6. n \in Nat /\ hw.n.usb <= n /\ n > hw.n.usb
    BY <1>1
  <1>7. DOMAIN down = DOMAIN hw.down \cup {c} /\ down[c] = n /\ \A x \in DOMAIN hw.down : down[x] = hw.down[x]
    OBVIOUS
  <1>8. UsbKeys(down, n)
    BY <1>2
  <1> HIDE DEF down, n
  <1>9. \A x \in DOMAIN down :
           (down[x] > hw.n.usb /\ down[x] <= n) \/ (x \in DOMAIN hw.down /\ down[x] = hw.down[x])
    BY <1>6, <1>7
  <1> QED  BY <1>2, <1>5, <1>6, <1>7, <1>8, <1>9, UsbKeysStep

LEMMA UsbReleaseStep ==
  ASSUME HidInv, UsbRelease
  PROVE  HidInv'
  <1>1. hw.n.usb \in Nat /\ hw.down \in Reports
    BY DEF HidInv, HidTypes, HidDevices
  <1>2. PICK c \in DOMAIN hw.down : UsbKeys([x \in DOMAIN hw.down \ {c} |-> hw.down[x]], hw.n.usb)
    BY DEF UsbRelease
  <1> DEFINE down == [x \in DOMAIN hw.down \ {c} |-> hw.down[x]]
  <1>3. DOMAIN hw.down \in SUBSET Codes /\ \A x \in DOMAIN hw.down : hw.down[x] \in Nat
    BY <1>1, ReportIs
  <1>4. /\ down \in [DOMAIN hw.down \ {c} -> Nat] /\ DOMAIN hw.down \ {c} \in SUBSET Codes
        /\ \A x \in DOMAIN down : x \in DOMAIN hw.down /\ down[x] = hw.down[x]
    BY <1>3
  <1>5. UsbKeys(down, hw.n.usb)
    BY <1>2
  <1> HIDE DEF down
  <1>6. down \in Reports
    BY <1>4 DEF Reports
  <1> QED  BY <1>1, <1>4, <1>5, <1>6, UsbKeysStep

LEMMA UsbButtonStep ==
  ASSUME HidInv, UsbButton
  PROVE  HidInv'
  <1> DEFINE W == Waiting("mou")
             p == hw.pend["mou"]
             b == 1 - hw.btn
             p2 == Append(p, b)
  <1>1. HidTypes /\ HidControl /\ HidOrder /\ HidReports /\ HidComplete /\ hw \in HidDevices
        /\ hw.n.mou \in Nat /\ hw.btn \in {0, 1}
    BY DEF HidInv, HidTypes, HidDevices
  <1>2. /\ W \in Seq({0, 1}) /\ p \in Seq({0, 1}) /\ b \in {0, 1}
    BY <1>1, WaitingIs DEF HidTypes
  <1>3. p2 \in Seq({0, 1}) /\ p2 \in Seq(Reports \cup {0, 1})
    <2>1. p \in Seq(Reports \cup {0, 1}) /\ b \in Reports \cup {0, 1}
      BY <1>1, <1>2 DEF HidDevices, HidDevs
    <2> HIDE DEF p, b
    <2> QED  BY <1>2, <2>1, AppendProperties
  <1>4. hw' = [hw EXCEPT !.n.mou = @ + 1, !.btn = b, !.pend["mou"] = p2] /\ UNCHANGED <<k, call, faults>>
    BY DEF UsbButton
  <1> HIDE DEF p2, b
  <1>5. /\ hw' \in HidDevices /\ hw'.pend["mou"] = p2 /\ hw'.pend["kbd"] = hw.pend["kbd"] /\ hw'.down = hw.down
        /\ hw'.n.usb = hw.n.usb /\ hw'.n.ps2 = hw.n.ps2 /\ hw'.td = hw.td /\ hw'.tog = hw.tog /\ hw'.btn = b
    <2>1. hw.n \in [ps2 : Nat, usb : Nat, mou : Nat] /\ hw.pend \in [HidDevs -> Seq(Reports \cup {0, 1})]
      BY <1>1 DEF HidDevices
    <2> DEFINE n2 == [hw.n EXCEPT !.mou = @ + 1]
               pend2 == [hw.pend EXCEPT !["mou"] = p2]
    <2>2. n2 \in [ps2 : Nat, usb : Nat, mou : Nat] /\ n2.usb = hw.n.usb /\ n2.ps2 = hw.n.ps2
      BY <2>1
    <2>3. pend2 \in [HidDevs -> Seq(Reports \cup {0, 1})] /\ pend2["mou"] = p2 /\ pend2["kbd"] = hw.pend["kbd"]
      BY <1>3, <2>1 DEF HidDevs
    <2>4. hw' = [hw EXCEPT !.n = n2, !.btn = b, !.pend = pend2]
      BY <1>4
    <2> HIDE DEF n2, pend2
    <2> QED  BY <1>1, <1>2, <2>2, <2>3, <2>4 DEF HidDevices
  <1>6. Waiting("mou")' = Append(W, b)
    <2>1. CASE InTd("mou")
      <3>1. hw.td.rep[1] \in {0, 1}
        BY <1>1, <2>1 DEF HidTypes, InTd
      <3>2. Append(Cons(hw.td.rep[1], p), b) = Cons(hw.td.rep[1], Append(p, b))
        <4> DEFINE x == hw.td.rep[1]
        <4> DEFINE S == {0, 1}
        <4> HIDE DEF x, p
        <4>1. x \in S /\ p \in Seq(S) /\ b \in S
          BY <1>2, <3>1 DEF x
        <4> HIDE DEF S
        <4>2. Append(Cons(x, p), b) = Cons(x, Append(p, b))
          BY <4>1, ConsAppend
        <4> QED  BY <4>2 DEF x
      <3> QED  BY <1>5, <2>1, <3>2 DEF Waiting, InTd, p2
    <2>2. CASE ~InTd("mou")
      BY <1>5, <2>2 DEF Waiting, InTd, p2
    <2> QED  BY <2>1, <2>2
  <1>7. SameReports /\ (\A x : Toggle(x)' = Toggle(x)) /\ Clean' = Clean /\ SameKeys
    BY <1>4, <1>5 DEF SameReports, SameKeys, Waiting, InTd, Toggle, Clean
  <1>8. HidOrder' /\ Emitted' = Emitted /\ (\A i \in DOMAIN Unread' : Unread'[i] \in Keys)
    BY <1>1, <1>7, KeysSame
  <1>9. HidTypes' /\ HidControl'
    BY <1>1, <1>3, <1>4, <1>5, <1>7, <1>8, ControlSame DEF HidTypes
  <1>10. HidReports'
    BY <1>1, <1>7, <1>8, ReportsSame
  <1>11. LET Q == Waiting("mou")' IN hw'.btn = IF Q = <<>> THEN k'.btn ELSE Q[Len(Q)]
    <2>1. Append(W, b) \in Seq({0, 1}) /\ Append(W, b)[Len(W) + 1] = b /\ Len(Append(W, b)) = Len(W) + 1
          /\ Append(W, b) # <<>>
      BY <1>2, AppendProperties, LenProperties
    <2> HIDE DEF W
    <2> QED  BY <1>5, <1>6, <2>1
  <1>12. HidComplete'
    BY <1>1, <1>4, <1>7, <1>11, CompleteSame DEF HidComplete
  <1> QED  BY <1>8, <1>9, <1>10, <1>12 DEF HidInv

-----------------------------------------------------------------------------
(* uhci.c, usbkbd.c and usbmouse.c: transfers *)

LEMMA HeadTail ==
  ASSUME NEW S, NEW s \in Seq(S), s # <<>>
  PROVE  Head(s) \in S /\ Tail(s) \in Seq(S) /\ s = Cons(Head(s), Tail(s))
  <1>1. /\ Head(s) \in S /\ Tail(s) \in Seq(S) /\ Len(s) \in Nat \ {0} /\ Head(s) = s[1]
        /\ Len(Tail(s)) = Len(s) - 1 /\ \A i \in 1 .. Len(s) - 1 : Tail(s)[i] = s[i + 1]
    BY HeadTailProperties, EmptySeq, LenProperties
  <1> DEFINE h == Head(s)
             t == Tail(s)
  <1> HIDE DEF h, t
  <1>2. h \in S /\ t \in Seq(S) /\ Len(t) = Len(s) - 1
    BY <1>1 DEF h, t
  <1>3. InFront(Cons(h, t), h, t, S)
    BY <1>2, ConsIs
  <1>4. Cons(h, t) \in Seq(S) /\ Len(Cons(h, t)) = Len(s)
    BY <1>1, <1>2, <1>3 DEF InFront
  <1>5. ASSUME NEW i \in 1 .. Len(s) PROVE s[i] = Cons(h, t)[i]
    <2>1. CASE i = 1
      BY <1>1, <1>3, <2>1 DEF InFront, h
    <2>2. CASE i # 1
      <3>1. i \in 2 .. Len(t) + 1 /\ i - 1 \in 1 .. Len(s) - 1 /\ (i - 1) + 1 = i
        BY <1>1, <1>2, <2>2
      <3>2. Cons(h, t)[i] = t[i - 1]
        BY <1>3, <3>1 DEF InFront
      <3>3. t[i - 1] = s[i]
        BY <1>1, <3>1 DEF t
      <3> QED  BY <3>2, <3>3
    <2> QED  BY <2>1, <2>2
  <1>6. s = Cons(h, t)
    BY <1>4, <1>5, SeqEqual
  <1> QED  BY <1>1, <1>6 DEF h, t

\* A report of the keyboard is sent again, or lost.
LEMMA KbdWaits ==
  ASSUME HidTypes, HidReports, Emitted' \subseteq Emitted, k'.prev = k.prev, hw'.down = hw.down,
         hw'.n.usb = hw.n.usb, NEW r \in Reports, NEW p \in Seq(Reports), Waiting("kbd") = Cons(r, p),
         Waiting("kbd")' \in {p, Cons(r, Waiting("kbd"))}
  PROVE  HidReports'
  <1> DEFINE W == Waiting("kbd")
             W2 == Waiting("kbd")'
             d == hw.down
             E == Emitted
             pd == Append(p, d)
  <1>1. W \in Seq(Reports) /\ d \in Reports
    BY WaitingIs
  <1>2. pd \in Seq(Reports)
    BY <1>1, AppendProperties
  <1>3. W = Cons(r, p) /\ W2 \in {p, Cons(r, W)}
    OBVIOUS
  <1>4. ReportsOK(k.prev, E, Append(W, d)) /\ UpTo(E, Append(W, d), hw.n.usb)
    BY DEF HidReports
  <1> HIDE DEF W, W2, d, E, pd
  <1>5. Append(W, d) = Cons(r, pd)
    BY <1>1, <1>3, ConsAppend DEF pd
  <1>6. CASE W2 = p
    <2>1. ReportsOK(k.prev, E, pd) /\ UpTo(E, pd, hw.n.usb)
      BY <1>2, <1>4, <1>5, ReportLost
    <2> QED  BY <1>6, <2>1, FewerEmitted DEF HidReports, W2, d, E, pd
  <1>7. CASE W2 = Cons(r, W)
    <2>1. Append(W2, d) = Cons(r, Cons(r, pd))
      <3>1. Append(Cons(r, W), d) = Cons(r, Append(W, d))
        BY <1>1, ConsAppend
      <3> QED  BY <1>5, <1>7, <3>1
    <2>2. ReportsOK(k.prev, E, Append(W2, d)) /\ UpTo(E, Append(W2, d), hw.n.usb)
      BY <1>2, <1>4, <1>5, <2>1, ReportAgain
    <2> QED  BY <2>2, FewerEmitted DEF HidReports, W2, d, E
  <1> QED  BY <1>3, <1>6, <1>7

LEMMA CompleteUnclean ==
  ASSUME HidTypes, HidOrder, HidComplete, SameKeys, k.full => k'.full, ~Clean'
  PROVE  HidComplete'
  <1>1. Unread' = Unread /\ Of("ps2")' = Of("ps2")
    BY KeysSame
  <1> QED  BY <1>1 DEF HidComplete, SameKeys

\* What the controller and the devices change.
LEMMA HwIs ==
  ASSUME hw \in HidDevices, NEW td2 \in HidTds, NEW pend2 \in [HidDevs -> Seq(Reports \cup {0, 1})],
         NEW tog2 \in [HidDevs -> {0, 1}], hw' = [hw EXCEPT !.td = td2, !.pend = pend2, !.tog = tog2]
  PROVE  /\ hw' \in HidDevices /\ hw'.td = td2 /\ hw'.pend = pend2 /\ hw'.tog = tog2
         /\ hw'.down = hw.down /\ hw'.btn = hw.btn /\ hw'.n = hw.n
  BY DEF HidDevices

\* A descriptor is linked or unlinked.
LEMMA TdIs ==
  ASSUME hw \in HidDevices, NEW td2 \in HidTds, hw' = [hw EXCEPT !.td = td2]
  PROVE  /\ hw' \in HidDevices /\ hw'.td = td2 /\ hw'.pend = hw.pend /\ hw'.tog = hw.tog
         /\ hw'.down = hw.down /\ hw'.btn = hw.btn /\ hw'.n = hw.n
  BY DEF HidDevices

LEMMA HidAnswerStep ==
  ASSUME HidInv, HidAnswer
  PROVE  HidInv'
  <1>0. PICK x \in HidDevs : x = hw.td.dev
    BY DEF HidInv, HidTypes, HidDevices, HidTds
  <1> DEFINE P == hw.pend[x]
             r == Head(P)
             q == Tail(P)
             hit == hw.td.tog = hw.tog[x]
             td2 == IF hit THEN [hw.td EXCEPT !.done = TRUE, !.rep = <<r>>] ELSE hw.td
             tog2 == [hw.tog EXCEPT ![x] = 1 - @]
             pend2 == [hw.pend EXCEPT ![x] = q]
             taken == IF hit THEN [hw EXCEPT !.td.done = TRUE, !.td.rep = <<r>>] ELSE hw
             acked == hw' = [taken EXCEPT !.tog[x] = 1 - @, !.pend[x] = Tail(@)]
  <1>1. /\ HidTypes /\ HidControl /\ HidOrder /\ HidReports /\ HidComplete /\ hw \in HidDevices /\ k \in HidKernels
        /\ hw.td \in HidTds /\ x = hw.td.dev /\ hw.tog \in [HidDevs -> {0, 1}] /\ hw.td.on /\ ~hw.td.done
        /\ hw.pend \in [HidDevs -> Seq(Reports \cup {0, 1})] /\ P # <<>> /\ call' = call /\ faults \in Nat
    BY <1>0 DEF HidInv, HidTypes, HidDevices, HidTds, HidAnswer
  <1>2. /\ r \in Reports \cup {0, 1} /\ q \in Seq(Reports \cup {0, 1}) /\ P = Cons(r, q)
        /\ x = "kbd" => r \in Reports /\ q \in Seq(Reports)
        /\ x = "mou" => r \in {0, 1} /\ q \in Seq({0, 1})
    <2>1. /\ P \in Seq(Reports \cup {0, 1}) /\ x = "kbd" => P \in Seq(Reports)
      BY <1>1 DEF HidTypes
    <2>2. x = "mou" => P \in Seq({0, 1})
      BY <1>1 DEF HidTypes
    <2>3. P \in Seq(Reports \cup {0, 1}) /\ P # <<>>
      BY <1>1
    <2> HIDE DEF P
    <2> QED  BY <2>1, <2>2, <2>3, HeadTail
  <1>3. \/ acked /\ k' = [k EXCEPT !.lost = @ \/ hw.td.tog # hw.tog[x]] /\ faults' = faults
        \/ hw' = taken /\ faults' = faults + 1 /\ k' = k
    BY <1>0 DEF HidAnswer, Fault
  <1> HIDE DEF r, q, P
  <1>4. /\ td2 \in HidTds /\ td2.on = hw.td.on /\ td2.dev = x /\ td2.tog = hw.td.tog /\ td2.done = hit
        /\ hit => td2.rep = <<r>>
    <2>1. <<r>> \in Seq(Reports \cup {0, 1})
      BY <1>2
    <2> DEFINE rep2 == <<r>>
    <2> HIDE DEF rep2
    <2>2. rep2 \in Seq(Reports \cup {0, 1})
      BY <2>1 DEF rep2
    <2>3. td2 = IF hit THEN [hw.td EXCEPT !.done = TRUE, !.rep = rep2] ELSE hw.td
      BY DEF rep2
    <2> QED  BY <1>1, <2>2, <2>3 DEF HidTds, rep2
  <1>5. /\ pend2 \in [HidDevs -> Seq(Reports \cup {0, 1})] /\ pend2[x] = q /\ \A y \in HidDevs : y # x => pend2[y] = hw.pend[y]
        /\ tog2 \in [HidDevs -> {0, 1}] /\ tog2[x] = 1 - hw.tog[x] /\ \A y \in HidDevs : y # x => tog2[y] = hw.tog[y]
    <2>1. pend2 \in [HidDevs -> Seq(Reports \cup {0, 1})] /\ pend2[x] = q
      <3> DEFINE S == Seq(Reports \cup {0, 1})
      <3>1. hw.pend \in [HidDevs -> S] /\ q \in S
        BY <1>1, <1>2
      <3> HIDE DEF S
      <3>2. pend2 \in [HidDevs -> S] /\ pend2[x] = q
        BY <3>1
      <3> QED  BY <3>2 DEF S
    <2>2. \A y \in HidDevs : y # x => pend2[y] = hw.pend[y]
      BY <1>1
    <2>3. tog2 \in [HidDevs -> {0, 1}] /\ tog2[x] = 1 - hw.tog[x]
      <3>1. hw.tog[x] \in {0, 1}
        BY <1>1
      <3> QED  BY <1>1, <3>1
    <2>4. \A y \in HidDevs : y # x => tog2[y] = hw.tog[y]
      BY <1>1
    <2> QED  BY <2>1, <2>2, <2>3, <2>4
  <1>6. taken = [hw EXCEPT !.td = td2]
    BY <1>1 DEF HidDevices
  <1>7. acked => hw' = [hw EXCEPT !.td = td2, !.pend = pend2, !.tog = tog2]
    <2> HIDE DEF td2
    <2>1. taken = [hw EXCEPT !.td = td2]
      BY <1>6
    <2> HIDE DEF taken
    <2>2. taken.tog = hw.tog /\ taken.pend = hw.pend
      BY <1>1, <2>1 DEF HidDevices
    <2>3. ASSUME acked PROVE hw' = [taken EXCEPT !.pend = pend2, !.tog = tog2]
      BY <2>2, <2>3 DEF P, q
    <2>4. [taken EXCEPT !.pend = pend2, !.tog = tog2] = [hw EXCEPT !.td = td2, !.pend = pend2, !.tog = tog2]
      <3> HIDE DEF pend2, tog2
      <3> QED  BY <1>1, <2>1 DEF HidDevices
    <2> QED  BY <2>3, <2>4
  <1> HIDE DEF td2, pend2, tog2, taken, acked
  <1>20. td2 \in HidTds
    BY <1>4
  <1>21. pend2 \in [HidDevs -> Seq(Reports \cup {0, 1})] /\ tog2 \in [HidDevs -> {0, 1}]
    BY <1>5
  <1>22. hw \in HidDevices
    BY <1>1
  <1>8. \/ /\ hw' = [hw EXCEPT !.td = td2, !.pend = pend2, !.tog = tog2]
           /\ hw'.pend = pend2 /\ hw'.tog = tog2 /\ (~hit => ~Clean')
        \/ /\ hw' = [hw EXCEPT !.td = td2] /\ hw'.pend = hw.pend /\ hw'.tog = hw.tog /\ ~Clean'
    <2>1. CASE acked /\ k' = [k EXCEPT !.lost = @ \/ hw.td.tog # hw.tog[x]] /\ faults' = faults
      <3>1. hw' = [hw EXCEPT !.td = td2, !.pend = pend2, !.tog = tog2]
        BY <1>7, <2>1
      <3>2. hw'.pend = pend2 /\ hw'.tog = tog2
        BY <1>20, <1>21, <1>22, <3>1, HwIs
      <3>3. ~hit => ~Clean'
        BY <1>1, <2>1 DEF Clean, HidKernels
      <3> QED  BY <3>1, <3>2, <3>3
    <2>2. CASE hw' = taken /\ faults' = faults + 1 /\ k' = k
      <3>1. hw' = [hw EXCEPT !.td = td2]
        BY <1>6, <2>2
      <3>2. ~Clean'
        BY <1>1, <2>2 DEF Clean
      <3> QED  BY <1>20, <1>22, <3>1, <3>2, TdIs
    <2> QED  BY <1>3, <2>1, <2>2
  <1>9. /\ hw' \in HidDevices /\ hw'.td = td2 /\ hw'.down = hw.down /\ hw'.btn = hw.btn /\ hw'.n = hw.n
    <2>1. CASE hw' = [hw EXCEPT !.td = td2, !.pend = pend2, !.tog = tog2]
      BY <1>20, <1>21, <1>22, <2>1, HwIs
    <2>2. CASE hw' = [hw EXCEPT !.td = td2]
      BY <1>20, <1>22, <2>2, TdIs
    <2> QED  BY <1>8, <2>1, <2>2
  <1>10. /\ k' \in HidKernels /\ SameKeys /\ k'.prev = k.prev /\ k'.tog = k.tog /\ k'.btn = k.btn
         /\ k'.last_btn = k.last_btn /\ k'.full = k.full /\ faults' \in Nat /\ (Clean' => Clean)
    <2>1. CASE k' = [k EXCEPT !.lost = @ \/ hw.td.tog # hw.tog[x]] /\ faults' = faults
      <3> DEFINE l == k.lost \/ hw.td.tog # hw.tog[x]
      <3>1. l \in BOOLEAN /\ (k.lost => l) /\ k' = [k EXCEPT !.lost = l]
        BY <2>1
      <3> HIDE DEF l
      <3>2. /\ k' \in HidKernels /\ k'.lost = l /\ k'.full = k.full
            /\ k'.ring = k.ring /\ k'.s = k.s /\ k'.e = k.e /\ k'.todo = k.todo /\ k'.read = k.read
        BY <1>1, <3>1 DEF HidKernels
      <3>3. /\ k'.prev = k.prev /\ k'.tog = k.tog /\ k'.btn = k.btn /\ k'.last_btn = k.last_btn
        BY <1>1, <3>1 DEF HidKernels
      <3> QED  BY <1>1, <1>9, <2>1, <3>1, <3>2, <3>3 DEF SameKeys, Clean
    <2>2. CASE faults' = faults + 1 /\ k' = k
      BY <1>1, <1>9, <2>2 DEF SameKeys, Clean
    <2> QED  BY <1>3, <2>1, <2>2
  <1>11. /\ Unread' = Unread /\ Emitted' = Emitted /\ HidOrder'
         /\ \A i \in DOMAIN Unread' : Unread'[i] \in Keys
         /\ \A i \in DOMAIN k'.todo : k'.todo[i].src = "usb"
    BY <1>1, <1>10, KeysSame
  <1>12. HidTypes'
    <2>1. hw'.pend["kbd"] \in Seq(Reports) /\ hw'.pend["mou"] \in Seq({0, 1})
      BY <1>1, <1>2, <1>5, <1>8 DEF HidTypes, HidDevs
    <2>2. ASSUME hit PROVE td2.rep # <<>> /\ td2.rep[1] = r
      <3>1. <<r>> # <<>> /\ <<r>>[1] = r
        OBVIOUS
      <3> QED  BY <1>4, <2>2, <3>1
    <2> HIDE DEF hit
    <2>3. hw'.td.done => /\ hw'.td.on /\ hw'.td.rep # <<>>
                         /\ hw'.td.dev = "kbd" => hw'.td.rep[1] \in Reports
                         /\ hw'.td.dev = "mou" => hw'.td.rep[1] \in {0, 1}
      BY <1>1, <1>2, <1>4, <1>9, <2>2
    <2> QED  BY <1>9, <1>10, <1>11, <2>1, <2>3 DEF HidTypes
  <1>13. HidControl'
    BY <1>1, <1>4, <1>9, <1>10, ControlSame
  <1>14. \A y \in HidDevs : y # x => Waiting(y)' = Waiting(y) /\ Toggle(y)' = Toggle(y)
    <2>1. ASSUME NEW y \in HidDevs, y # x PROVE Waiting(y)' = Waiting(y) /\ Toggle(y)' = Toggle(y)
      <3>1. hw'.pend[y] = hw.pend[y] /\ hw'.tog[y] = hw.tog[y]
        BY <1>5, <1>8, <2>1
      <3>2. ~InTd(y) /\ ~InTd(y)'
        BY <1>1, <1>4, <1>9, <2>1 DEF InTd
      <3> QED  BY <3>1, <3>2 DEF Waiting, Toggle
    <2> QED  BY <2>1
  <1>15. Waiting(x) = P /\ Toggle(x) = hw.tog[x] /\ (InTd(x)' <=> hit)
    BY <1>1, <1>4, <1>9 DEF Waiting, InTd, Toggle, P
  <1>16. hit => td2.rep[1] = r
    BY <1>4
  <1>17. \/ /\ hw'.pend = pend2 /\ hw'.tog = tog2 /\ hit /\ Waiting(x)' = Waiting(x) /\ Toggle(x)' = Toggle(x)
         \/ /\ ~Clean' /\ Waiting(x)' \in {P, q, Cons(r, P)}
    <2>1. CASE hit /\ hw'.pend = pend2 /\ hw'.tog = tog2
      <3>1. Waiting(x)' = Cons(r, q)
        BY <1>5, <1>9, <1>15, <1>16, <2>1 DEF Waiting
      <3>2. Toggle(x)' = 1 - (1 - hw.tog[x]) /\ hw.tog[x] \in {0, 1}
        BY <1>1, <1>5, <1>15, <2>1 DEF Toggle
      <3>3. Toggle(x)' = hw.tog[x]
        BY <3>2
      <3> QED  BY <1>2, <1>15, <2>1, <3>1, <3>3
    <2>2. CASE ~hit /\ hw'.pend = pend2 /\ ~Clean'
      BY <1>5, <1>9, <1>15, <2>2 DEF Waiting
    <2>3. CASE hw'.pend = hw.pend /\ ~Clean'
      BY <1>9, <1>15, <1>16, <2>3 DEF Waiting, P
    <2> QED  BY <1>8, <2>1, <2>2, <2>3
  <1> HIDE DEF hit
  <1>18. HidReports'
    <2>1. CASE Waiting("kbd")' = Waiting("kbd")
      BY <1>1, <1>9, <1>10, <1>11, <2>1, ReportsSame DEF SameReports
    <2>2. CASE x = "kbd" /\ Waiting(x)' \in {q, Cons(r, P)}
      <3>1. Waiting("kbd") = Cons(r, q) /\ Waiting("kbd")' \in {q, Cons(r, Waiting("kbd"))}
        BY <1>2, <1>15, <2>2
      <3> QED  BY <1>1, <1>2, <1>9, <1>10, <1>11, <2>2, <3>1, KbdWaits
    <2> QED  BY <1>1, <1>14, <1>15, <1>17, <2>1, <2>2 DEF HidDevs
  <1>19. HidComplete'
    <2>1. CASE ~Clean'
      BY <1>1, <1>10, <2>1, CompleteUnclean
    <2>2. CASE Clean'
      <3>1. \A y \in HidDevs : Waiting(y)' = Waiting(y) /\ Toggle(y)' = Toggle(y)
        BY <1>14, <1>17, <2>2
      <3>2. SameReports /\ Waiting("mou")' = Waiting("mou") /\ Clean
        BY <1>9, <1>10, <2>2, <3>1 DEF SameReports, HidDevs
      <3> QED  BY <1>1, <1>9, <1>10, <3>1, <3>2, CompleteSame DEF HidComplete
    <2> QED  BY <2>1, <2>2
  <1> QED  BY <1>11, <1>12, <1>13, <1>18, <1>19 DEF HidInv

\* A poll links a descriptor with the toggle of its device.
LEMMA PollStep ==
  ASSUME HidInv, NEW x \in HidDevs, NEW where \in {"hid_kbd", "hid_mou"}, Poll(x, where)
  PROVE  HidInv'
  <1>1. /\ HidTypes /\ HidControl /\ HidOrder /\ HidReports /\ HidComplete /\ hw \in HidDevices /\ k \in HidKernels
        /\ call.pc = where /\ UNCHANGED <<k, faults>>
    BY DEF HidInv, HidTypes, Poll, At, Rest
  <1>2. ~hw.td.on /\ ~hw.td.done /\ k.todo = <<>>
    BY <1>1 DEF HidControl, HidTypes
  <1>3. CASE Goto(NextPoll(x)) /\ UNCHANGED hw
    <2>1. call'.pc \in {"hid_mou", "hid_read"}
      BY <1>3 DEF Goto, NextPoll, HidInv, HidControl
    <2> QED  BY <1>1, <1>2, <1>3, <2>1, CallOnly DEF HidControl
  <1>4. CASE Submit(x) /\ Goto("hid_wait")
    <2> DEFINE td2 == [NoTd EXCEPT !.on = TRUE, !.dev = x, !.tog = k.tog[x]]
    <2>1. /\ td2 \in HidTds /\ td2.on /\ ~td2.done /\ td2.dev = x /\ td2.tog = k.tog[x]
      <3>1. k.tog[x] \in {0, 1}
        BY <1>1 DEF HidKernels
      <3>2. <<>> \in Seq(Reports \cup {0, 1})
        OBVIOUS
      <3> QED  BY <3>1, <3>2 DEF NoTd, HidTds, HidDevs
    <2>2. hw' = [hw EXCEPT !.td = td2] /\ call'.pc = "hid_wait"
      BY <1>1, <1>4 DEF Submit, Goto, HidControl
    <2> HIDE DEF td2
    <2>3. /\ hw' \in HidDevices /\ hw'.td = td2 /\ hw'.pend = hw.pend /\ hw'.tog = hw.tog
          /\ hw'.down = hw.down /\ hw'.btn = hw.btn /\ hw'.n = hw.n
      BY <1>1, <2>1, <2>2, TdIs
    <2>4. SameKeys
      BY <1>1, <2>3 DEF SameKeys
    <2>5. /\ Emitted' = Emitted /\ HidOrder'
          /\ \A i \in DOMAIN Unread' : Unread'[i] \in Keys
          /\ \A i \in DOMAIN k'.todo : k'.todo[i].src = "usb"
      BY <1>1, <2>4, KeysSame
    <2>6. \A y \in HidDevs : Waiting(y)' = Waiting(y) /\ Toggle(y)' = Toggle(y)
      BY <1>2, <2>1, <2>3 DEF Waiting, InTd, Toggle
    <2>7. SameReports /\ Clean' = Clean
      BY <1>1, <2>3, <2>6 DEF SameReports, Clean, HidDevs
    <2>8. HidTypes'
      BY <1>1, <2>1, <2>3, <2>5 DEF HidTypes
    <2>9. HidControl'
      BY <1>1, <1>2, <2>1, <2>2, <2>3 DEF HidControl
    <2>10. HidReports'
      BY <1>1, <2>5, <2>7, ReportsSame
    <2>11. HidComplete'
      <3>1. Waiting("mou")' = Waiting("mou")
        BY <2>6 DEF HidDevs
      <3> QED  BY <1>1, <2>3, <2>4, <2>6, <2>7, <3>1, CompleteSame DEF HidComplete
    <2> QED  BY <2>5, <2>8, <2>9, <2>10, <2>11 DEF HidInv
  <1> QED  BY <1>3, <1>4 DEF Poll

\* The descriptor is unlinked: the reports that wait are those of the devices.
LEMMA UnlinkedIs ==
  ASSUME HidTypes, Unlinked
  PROVE  /\ hw' \in HidDevices /\ hw'.td = NoTd /\ hw'.pend = hw.pend /\ hw'.tog = hw.tog
         /\ hw'.down = hw.down /\ hw'.btn = hw.btn /\ hw'.n = hw.n
         /\ \A x : Waiting(x)' = hw.pend[x] /\ Toggle(x)' = hw.tog[x]
         /\ ~hw'.td.on /\ ~hw'.td.done
  <1>1. NoTd \in HidTds /\ ~NoTd.on /\ ~NoTd.done
    <2>1. <<>> \in Seq(Reports \cup {0, 1})
      OBVIOUS
    <2> QED  BY <2>1 DEF NoTd, HidTds, HidDevs
  <1>2. hw \in HidDevices /\ hw' = [hw EXCEPT !.td = NoTd]
    BY DEF HidTypes, Unlinked
  <1>3. /\ hw' \in HidDevices /\ hw'.td = NoTd /\ hw'.pend = hw.pend /\ hw'.tog = hw.tog
        /\ hw'.down = hw.down /\ hw'.btn = hw.btn /\ hw'.n = hw.n
    BY <1>1, <1>2, TdIs
  <1> QED  BY <1>1, <1>3 DEF Waiting, Toggle, InTd

\* The limit: a report that came in between is lost.
LEMMA intr_unlinkStep ==
  ASSUME HidInv, intr_unlink
  PROVE  HidInv'
  <1> DEFINE l == k.lost \/ hw.td.done
  <1>1. /\ HidTypes /\ HidControl /\ HidOrder /\ HidReports /\ HidComplete /\ hw \in HidDevices /\ k \in HidKernels
        /\ call.pc = "hid_unlink" /\ faults' = faults /\ Unlinked /\ call' = [call EXCEPT !.pc = NextPoll(hw.td.dev)]
        /\ hw.td.dev \in HidDevs /\ hw.td.done \in BOOLEAN
    BY DEF HidInv, HidTypes, HidDevices, HidTds, intr_unlink, At, Goto
  <1>2. k' = [k EXCEPT !.lost = l] /\ l \in BOOLEAN
    BY <1>1 DEF intr_unlink, TogAfterNak, HidKernels
  <1> HIDE DEF l
  <1>3. /\ k' \in HidKernels /\ k'.lost = l /\ k'.full = k.full
        /\ k'.ring = k.ring /\ k'.s = k.s /\ k'.e = k.e /\ k'.todo = k.todo /\ k'.read = k.read
    BY <1>1, <1>2 DEF HidKernels
  <1>4. /\ k'.prev = k.prev /\ k'.tog = k.tog /\ k'.btn = k.btn /\ k'.last_btn = k.last_btn
    BY <1>1, <1>2 DEF HidKernels
  <1>5. /\ hw' \in HidDevices /\ hw'.td = NoTd /\ hw'.pend = hw.pend /\ hw'.tog = hw.tog
        /\ hw'.down = hw.down /\ hw'.btn = hw.btn /\ hw'.n = hw.n
        /\ \A x : Waiting(x)' = hw.pend[x] /\ Toggle(x)' = hw.tog[x]
        /\ ~hw'.td.on /\ ~hw'.td.done
    BY <1>1, UnlinkedIs
  <1>6. SameKeys
    BY <1>3, <1>5 DEF SameKeys
  <1>7. /\ Emitted' = Emitted /\ HidOrder'
        /\ \A i \in DOMAIN Unread' : Unread'[i] \in Keys
        /\ \A i \in DOMAIN k'.todo : k'.todo[i].src = "usb"
    BY <1>1, <1>6, KeysSame
  <1>8. HidTypes'
    BY <1>1, <1>3, <1>5, <1>7 DEF HidTypes
  <1>9. HidControl'
    <2>1. call'.pc \in {"hid_mou", "hid_read"}
      BY <1>1 DEF NextPoll, HidControl
    <2> QED  BY <1>1, <1>3, <1>4, <1>5, <2>1 DEF HidControl
  <1>10. CASE hw.td.done
    <2>1. ~Clean'
      BY <1>3, <1>10 DEF Clean, l
    <2>2. HidComplete'
      BY <1>1, <1>3, <1>6, <2>1, CompleteUnclean
    <2>3. CASE hw.td.dev = "kbd"
      <3> DEFINE r == hw.td.rep[1]
                 p == hw.pend["kbd"]
      <3>1. r \in Reports /\ p \in Seq(Reports) /\ Waiting("kbd") = Cons(r, p) /\ Waiting("kbd")' = p
        BY <1>1, <1>5, <1>10, <2>3 DEF HidTypes, Waiting, InTd
      <3> HIDE DEF r, p
      <3>2. HidReports'
        BY <1>1, <1>4, <1>5, <1>7, <3>1, KbdWaits
      <3> QED  BY <1>7, <1>8, <1>9, <2>2, <3>2 DEF HidInv
    <2>4. CASE hw.td.dev # "kbd"
      <3>1. SameReports
        BY <1>4, <1>5, <2>4 DEF SameReports, Waiting, InTd
      <3> QED  BY <1>1, <1>7, <1>8, <1>9, <2>2, <3>1, ReportsSame DEF HidInv
    <2> QED  BY <2>3, <2>4
  <1>11. CASE ~hw.td.done
    <2>1. \A x : Waiting(x) = hw.pend[x] /\ Toggle(x) = hw.tog[x]
      BY <1>11 DEF Waiting, Toggle, InTd
    <2>2. SameReports /\ (Clean' => Clean)
      BY <1>1, <1>3, <1>4, <1>5, <2>1 DEF SameReports, Clean, l
    <2>3. HidReports'
      BY <1>1, <1>7, <2>2, ReportsSame
    <2>4. HidComplete'
      BY <1>1, <1>3, <1>4, <1>5, <1>6, <2>1, <2>2, CompleteSame DEF HidComplete
    <2> QED  BY <1>7, <1>8, <1>9, <2>3, <2>4 DEF HidInv
  <1> QED  BY <1>10, <1>11

\* A report of the mouse.
LEMMA mou_reportStep ==
  ASSUME HidInv, mou_report
  PROVE  HidInv'
  <1> DEFINE b == hw.td.rep[1]
             t2 == [k.tog EXCEPT !["mou"] = 1 - @]
             p == hw.pend["mou"]
  <1>1. /\ HidTypes /\ HidControl /\ HidOrder /\ HidReports /\ HidComplete /\ hw \in HidDevices /\ k \in HidKernels
        /\ call.pc = "hid_wait" /\ hw.td.done /\ hw.td.dev = "mou" /\ faults' = faults /\ Unlinked
        /\ call' = [call EXCEPT !.pc = "hid_read"] /\ k.todo = <<>> /\ k.last_btn = k.btn
    BY DEF HidInv, HidTypes, HidControl, mou_report, At, Goto
  <1>2. b \in {0, 1} /\ p \in Seq({0, 1}) /\ Waiting("mou") = Cons(b, p)
    BY <1>1 DEF HidTypes, Waiting, InTd
  <1>3. /\ t2 \in [HidDevs -> {0, 1}] /\ t2["kbd"] = k.tog["kbd"] /\ t2["mou"] = 1 - k.tog["mou"]
        /\ k.tog["mou"] \in {0, 1}
    <2>1. k.tog \in [HidDevs -> {0, 1}] /\ k.tog["mou"] \in {0, 1} /\ 1 - k.tog["mou"] \in {0, 1}
      BY <1>1 DEF HidKernels, HidDevs
    <2> QED  BY <2>1 DEF HidDevs
  <1>4. k' = IF b = k.last_btn THEN [k EXCEPT !.tog = t2] ELSE [k EXCEPT !.tog = t2, !.last_btn = b, !.btn = b]
    BY DEF mou_report
  <1> HIDE DEF b, t2, p
  <1>5. k' \in HidKernels /\ k'.tog = t2 /\ k'.btn = b /\ k'.last_btn = b
    BY <1>1, <1>2, <1>3, <1>4 DEF HidKernels
  <1>6. /\ k'.ring = k.ring /\ k'.s = k.s /\ k'.e = k.e /\ k'.todo = k.todo /\ k'.read = k.read
        /\ k'.prev = k.prev /\ k'.lost = k.lost /\ k'.full = k.full
    BY <1>1, <1>4 DEF HidKernels
  <1>7. /\ hw' \in HidDevices /\ hw'.td = NoTd /\ hw'.pend = hw.pend /\ hw'.tog = hw.tog
        /\ hw'.down = hw.down /\ hw'.btn = hw.btn /\ hw'.n = hw.n
        /\ \A x : Waiting(x)' = hw.pend[x] /\ Toggle(x)' = hw.tog[x]
        /\ ~hw'.td.on /\ ~hw'.td.done
    BY <1>1, UnlinkedIs
  <1>8. SameKeys /\ Clean' = Clean
    BY <1>1, <1>6, <1>7 DEF SameKeys, Clean
  <1>9. /\ Emitted' = Emitted /\ HidOrder'
        /\ \A i \in DOMAIN Unread' : Unread'[i] \in Keys
        /\ \A i \in DOMAIN k'.todo : k'.todo[i].src = "usb"
    BY <1>1, <1>8, KeysSame
  <1>10. HidTypes'
    BY <1>1, <1>5, <1>7, <1>9 DEF HidTypes
  <1>11. HidControl'
    <2>1. call'.pc = "hid_read"
      BY <1>1 DEF HidControl
    <2> QED  BY <1>1, <1>5, <1>6, <1>7, <2>1 DEF HidControl
  <1>12. SameReports
    BY <1>1, <1>6, <1>7 DEF SameReports, Waiting, InTd
  <1>13. HidReports'
    BY <1>1, <1>9, <1>12, ReportsSame
  <1>14. ASSUME Clean PROVE LET Q == Waiting("mou")' IN hw'.btn = IF Q = <<>> THEN k'.btn ELSE Q[Len(Q)]
    <2> DEFINE W == Waiting("mou")
    <2>1. hw.btn = IF W = <<>> THEN k.btn ELSE W[Len(W)]
      BY <1>1, <1>14 DEF HidComplete
    <2>2. /\ Len(p) \in Nat /\ Len(W) = Len(p) + 1 /\ W # <<>> /\ W[1] = b
          /\ \A i \in 2 .. Len(p) + 1 : W[i] = p[i - 1]
      <3> DEFINE S == {0, 1}
      <3>1. b \in S /\ p \in Seq(S)
        BY <1>2
      <3> HIDE DEF S
      <3>2. InFront(Cons(b, p), b, p, S)
        BY <3>1, ConsIs
      <3>3. Len(p) \in Nat
        BY <3>1, LenProperties
      <3> HIDE DEF W
      <3>4. W = Cons(b, p)
        BY <1>2 DEF W
      <3> QED  BY <3>2, <3>3, <3>4 DEF InFront
    <2> HIDE DEF W
    <2>3. hw.btn = IF p = <<>> THEN b ELSE p[Len(p)]
      <3>1. CASE p = <<>>
        BY <2>1, <2>2, <3>1
      <3>2. CASE p # <<>>
        <4>1. Len(p) # 0
          BY <1>2, <3>2, EmptySeq
        <4>2. Len(p) + 1 \in 2 .. Len(p) + 1 /\ (Len(p) + 1) - 1 = Len(p)
          BY <2>2, <4>1
        <4> QED  BY <2>1, <2>2, <3>2, <4>2
      <3> QED  BY <3>1, <3>2
    <2> QED  BY <1>5, <1>7, <2>3 DEF p
  <1>15. ASSUME Clean PROVE \A x \in HidDevs : k'.tog[x] = Toggle(x)'
    <2>1. k.tog["mou"] = 1 - hw.tog["mou"] /\ k.tog["kbd"] = hw.tog["kbd"]
      BY <1>1, <1>15 DEF HidComplete, Toggle, InTd, HidDevs
    <2>2. hw.tog["mou"] \in {0, 1}
      BY <1>1 DEF HidDevices, HidDevs
    <2>3. t2["mou"] = hw.tog["mou"]
      BY <1>3, <2>1, <2>2
    <2> QED  BY <1>3, <1>5, <1>7, <2>1, <2>3 DEF HidDevs
  <1>16. HidComplete'
    BY <1>1, <1>6, <1>8, <1>12, <1>14, <1>15, CompleteSame
  <1> QED  BY <1>9, <1>10, <1>11, <1>13, <1>16 DEF HidInv

\* Steps of the call alone.
LEMMA CallSteps ==
  ASSUME HidInv, intr_limit \/ keyboard_getchar \/ ring_empty \/ ring_read
  PROVE  HidInv'
  <1>1. UNCHANGED <<k, hw, faults>> /\ HidControl
    BY DEF HidInv, Rest, intr_limit, keyboard_getchar, ring_empty, ring_read
  <1>2. CASE intr_limit
    <2>1. call.pc = "hid_wait" /\ call'.pc = "hid_unlink"
      BY <1>1, <1>2 DEF intr_limit, At, Goto, HidControl
    <2> QED  BY <1>1, <2>1, CallOnly DEF HidControl
  <1>3. CASE keyboard_getchar
    <2>1. call.pc = "idle" /\ call'.pc \in {"hid_kbd", "hid_read"}
      BY <1>3 DEF keyboard_getchar, At, Idle
    <2> QED  BY <1>1, <2>1, CallOnly DEF HidControl
  <1>4. CASE ring_empty
    <2>1. call.pc = "hid_read" /\ call'.pc = "idle"
      BY <1>4 DEF ring_empty, At, Idle
    <2> QED  BY <1>1, <2>1, CallOnly DEF HidControl
  <1>5. CASE ring_read
    <2>1. call.pc = "hid_read" /\ call' = [call EXCEPT !.pc = "hid_take", !.buf = k.ring[k.s]] /\ k.s # k.e
      BY <1>5 DEF ring_read, At
    <2>2. call'.pc = "hid_take" /\ call'.buf = k.ring[k.s]
      BY <2>1
    <2> QED  BY <1>1, <2>1, <2>2, CallOnly DEF HidControl
  <1> QED  BY <1>2, <1>3, <1>4, <1>5

-----------------------------------------------------------------------------
(* keyboard.c and usbkbd.c: the steps that move keys *)

\* A key that found room is read last.
LEMMA PushUnread ==
  ASSUME k \in HidKernels, NEW kk \in HidKernels, kk.ring = k.ring, kk.s = k.s, kk.e = k.e,
         NEW key \in Keys, HasRoom(kk), k' = Push(kk, key)
  PROVE  /\ k' \in HidKernels /\ k' = [kk EXCEPT !.ring = k'.ring, !.e = k'.e] /\ k'.s # k'.e
         /\ k.s # k.e => k'.ring[k.s] = k.ring[k.s]
         /\ Used(k) \in Nat /\ DOMAIN Unread = 1 .. Used(k) /\ DOMAIN Unread' = 1 .. Used(k) + 1
         /\ \A i \in 1 .. Used(k) : Unread'[i] = Unread[i]
         /\ Unread'[Used(k) + 1] = key
         /\ \A src : Of(src)' = Of(src) \cup {i \in {Used(k) + 1} : key.src = src}
  <1>1. Used(kk) = Used(k) /\ UnreadOf(kk) = Unread
    BY DEF Used, UnreadOf, Unread
  <1>2. /\ k' \in HidKernels /\ k' = [kk EXCEPT !.ring = k'.ring, !.e = k'.e]
        /\ Used(kk) \in Nat /\ Used(k') = Used(kk) + 1
        /\ \A i \in 1 .. Used(kk) : UnreadOf(k')[i] = UnreadOf(kk)[i]
        /\ UnreadOf(k')[Used(kk) + 1] = key
        /\ k'.s # k'.e /\ \A i \in Places : i # kk.e => k'.ring[i] = kk.ring[i]
    <2> DEFINE q == Push(kk, key)
    <2>1. /\ q \in HidKernels /\ q = [kk EXCEPT !.ring = q.ring, !.e = q.e]
          /\ Used(kk) \in Nat /\ Used(q) = Used(kk) + 1
          /\ \A i \in 1 .. Used(kk) : UnreadOf(q)[i] = UnreadOf(kk)[i]
          /\ UnreadOf(q)[Used(kk) + 1] = key
          /\ q.s # q.e /\ \A i \in Places : i # kk.e => q.ring[i] = kk.ring[i]
      BY PushRoom
    <2>2. k' = q
      OBVIOUS
    <2> HIDE DEF q
    <2> QED  BY <2>1, <2>2
  <1>3. Unread' = UnreadOf(k') /\ DOMAIN UnreadOf(k') = 1 .. Used(k')
    BY DEF Unread, UnreadOf, Used
  <1>4. k.s \in Places /\ k.e \in Places
    BY DEF HidKernels, Places
  <1>5. /\ DOMAIN Unread = 1 .. Used(k) /\ DOMAIN Unread' = 1 .. Used(k) + 1 /\ Used(k) \in Nat
        /\ \A i \in 1 .. Used(k) : Unread'[i] = Unread[i]
        /\ Unread'[Used(k) + 1] = key
    BY <1>1, <1>2, <1>3, UnreadIs
  <1>6. ASSUME NEW src PROVE Of(src)' = Of(src) \cup {i \in {Used(k) + 1} : key.src = src}
    <2>1. 1 .. Used(k) + 1 = (1 .. Used(k)) \cup {Used(k) + 1}
      BY <1>5
    <2>2. Of(src)' = {i \in 1 .. Used(k) + 1 : Unread'[i].src = src} /\ Of(src) = {i \in 1 .. Used(k) : Unread[i].src = src}
      BY <1>5 DEF Of
    <2> QED  BY <1>5, <2>1, <2>2
  <1> QED  BY <1>2, <1>4, <1>5, <1>6

LEMMA keyboard_handlerStep ==
  ASSUME HidInv, keyboard_handler
  PROVE  HidInv'
  <1> DEFINE m == hw.n.ps2 + 1
             key == [src |-> "ps2", n |-> m]
             n2 == [hw.n EXCEPT !.ps2 = m]
  <1>1. /\ HidTypes /\ HidControl /\ HidOrder /\ HidReports /\ HidComplete /\ hw \in HidDevices /\ k \in HidKernels
        /\ call' = call /\ faults' = faults /\ k' = Push(k, key) /\ hw.n.ps2 \in Nat
    BY DEF HidInv, HidTypes, HidDevices, keyboard_handler
  <1>2. hw' = [hw EXCEPT !.n = n2]
    BY DEF keyboard_handler
  <1>3. n2 \in [ps2 : Nat, usb : Nat, mou : Nat] /\ n2.ps2 = m /\ n2.usb = hw.n.usb /\ m \in Nat /\ hw.n.ps2 < m
    BY <1>1 DEF HidDevices
  <1>4. key \in Keys /\ key.src = "ps2" /\ key.n = m
    BY <1>3 DEF Keys
  <1> HIDE DEF key, n2, m
  <1>5. /\ hw' \in HidDevices /\ hw'.td = hw.td /\ hw'.pend = hw.pend /\ hw'.tog = hw.tog
        /\ hw'.down = hw.down /\ hw'.btn = hw.btn /\ hw'.n = n2
    BY <1>1, <1>2, <1>3 DEF HidDevices
  <1>6. \A x : Waiting(x)' = Waiting(x) /\ Toggle(x)' = Toggle(x)
    BY <1>5 DEF Waiting, InTd, Toggle
  <1>7. CASE ~HasRoom(k)
    <2>1. k' = [k EXCEPT !.full = TRUE] /\ k' \in HidKernels
      BY <1>1, <1>7, PushFull
    <2>2. /\ k'.ring = k.ring /\ k'.s = k.s /\ k'.e = k.e /\ k'.todo = k.todo /\ k'.read = k.read /\ k'.full
      BY <1>1, <2>1 DEF HidKernels
    <2>3. k'.prev = k.prev /\ k'.tog = k.tog /\ k'.btn = k.btn /\ k'.last_btn = k.last_btn
      BY <1>1, <2>1 DEF HidKernels
    <2>4. Unread' = Unread /\ \A src : Of(src)' = Of(src)
      BY <2>2 DEF Unread, Of
    <2>5. Emitted' = Emitted
      BY <2>2, <2>4 DEF Emitted
    <2>6. HidTypes'
      BY <1>1, <1>5, <2>1, <2>2, <2>4 DEF HidTypes
    <2>7. HidControl'
      BY <1>1, <1>5, <2>2, <2>3 DEF HidControl
    <2>8. HidOrder'
      <3>1. InOrder("ps2")' /\ InOrder("usb")'
        BY <1>1, <2>2, <2>4 DEF HidOrder, InOrder
      <3>2. k'.read["ps2"] <= hw'.n.ps2 /\ \A i \in Of("ps2")' : Unread'[i].n <= hw'.n.ps2
        <4>1. k.read["ps2"] \in Nat /\ \A i \in Of("ps2") : Unread[i].n \in Nat
          BY <1>1, UnreadIs, EmittedIs DEF Of
        <4>2. k.read["ps2"] <= hw.n.ps2 /\ \A i \in Of("ps2") : Unread[i].n <= hw.n.ps2
          BY <1>1 DEF HidOrder
        <4> QED  BY <1>1, <1>3, <1>5, <2>2, <2>4, <4>1, <4>2
      <3> QED  BY <1>1, <2>2, <2>4, <3>1, <3>2 DEF HidOrder
    <2>9. HidReports'
      BY <1>1, <1>3, <1>5, <1>6, <2>3, <2>5, ReportsSame DEF SameReports
    <2>10. HidComplete'
      BY <2>2 DEF HidComplete, Clean
    <2> QED  BY <2>6, <2>7, <2>8, <2>9, <2>10 DEF HidInv
  <1>8. CASE HasRoom(k)
    <2> DEFINE u == Used(k)
    <2>1. /\ k' \in HidKernels /\ k' = [k EXCEPT !.ring = k'.ring, !.e = k'.e] /\ k'.s # k'.e
          /\ k.s # k.e => k'.ring[k.s] = k.ring[k.s]
          /\ u \in Nat /\ DOMAIN Unread = 1 .. u /\ DOMAIN Unread' = 1 .. u + 1
          /\ \A i \in 1 .. u : Unread'[i] = Unread[i]
          /\ Unread'[u + 1] = key
          /\ \A src : Of(src)' = Of(src) \cup {i \in {u + 1} : key.src = src}
      BY <1>1, <1>4, <1>8, PushUnread
    <2> HIDE DEF u
    <2>2. /\ k'.s = k.s /\ k'.todo = k.todo /\ k'.read = k.read /\ k'.full = k.full /\ k'.lost = k.lost
          /\ k'.prev = k.prev /\ k'.tog = k.tog /\ k'.btn = k.btn /\ k'.last_btn = k.last_btn
      <3> DEFINE ring2 == k'.ring
                 e2 == k'.e
      <3>1. k' = [k EXCEPT !.ring = ring2, !.e = e2]
        BY <2>1
      <3> HIDE DEF ring2, e2
      <3> QED  BY <1>1, <3>1 DEF HidKernels
    <2>3. Of("usb")' = Of("usb") /\ Of("ps2")' = Of("ps2") \cup {u + 1} /\ Of("ps2") \subseteq 1 .. u /\ Of("usb") \subseteq 1 .. u
      BY <1>4, <2>1 DEF Of
    <2>4. Emitted' = Emitted
      BY <2>1, <2>2, <2>3 DEF Emitted
    <2>5. HidTypes'
      <3>1. \A i \in 1 .. u + 1 : Unread'[i] \in Keys
        BY <1>1, <1>4, <2>1 DEF HidTypes
      <3> QED  BY <1>1, <1>5, <2>1, <2>2, <3>1 DEF HidTypes
    <2>6. HidControl'
      BY <1>1, <1>5, <2>1, <2>2 DEF HidControl
    <2>7. k.read["ps2"] \in Nat /\ \A i \in 1 .. u : Unread[i].n \in Nat
      BY <1>1, <2>1, UnreadIs, EmittedIs
    <2>8. k.read["ps2"] <= hw.n.ps2 /\ \A i \in Of("ps2") : Unread[i].n <= hw.n.ps2
      BY <1>1 DEF HidOrder
    <2>9. k.read["ps2"] < m /\ \A i \in Of("ps2") : Unread[i].n < m
      BY <1>1, <1>3, <2>3, <2>7, <2>8
    <2>10. HidOrder'
      <3>1. InOrder("usb")'
        BY <1>1, <2>1, <2>2, <2>3 DEF HidOrder, InOrder
      <3>2. InOrder("ps2")'
        <4>1. ASSUME NEW i \in Of("ps2")' PROVE k'.read["ps2"] < Unread'[i].n
          BY <1>1, <1>4, <2>1, <2>2, <2>3, <2>9, <4>1 DEF HidOrder, InOrder
        <4>2. ASSUME NEW i \in Of("ps2")', NEW j \in Of("ps2")', i < j PROVE Unread'[i].n < Unread'[j].n
          <5>1. CASE j = u + 1
            <6>1. i \in Of("ps2")
              BY <2>1, <2>3, <4>2, <5>1
            <6> QED  BY <1>4, <2>1, <2>3, <2>9, <5>1, <6>1
          <5>2. CASE j # u + 1
            <6>1. j \in Of("ps2") /\ i \in Of("ps2")
              BY <2>1, <2>3, <4>2, <5>2
            <6> QED  BY <1>1, <2>1, <2>3, <4>2, <6>1 DEF HidOrder, InOrder
          <5> QED  BY <5>1, <5>2
        <4> QED  BY <4>1, <4>2 DEF InOrder
      <3>3. k'.read["ps2"] <= hw'.n.ps2 /\ \A i \in Of("ps2")' : Unread'[i].n <= hw'.n.ps2
        <4>1. k.read["ps2"] <= m /\ \A i \in Of("ps2") : Unread[i].n <= m
          BY <1>3, <2>3, <2>7, <2>9
        <4> QED  BY <1>3, <1>4, <1>5, <2>1, <2>2, <2>3, <4>1
      <3> QED  BY <1>1, <2>1, <2>2, <2>3, <3>1, <3>2, <3>3 DEF HidOrder
    <2>11. HidReports'
      BY <1>1, <1>3, <1>5, <1>6, <2>2, <2>4, ReportsSame DEF SameReports
    <2>12. HidComplete'
      <3>1. Clean' = Clean
        BY <1>1, <2>2 DEF Clean
      <3>2. \E i \in Of("ps2")' : Unread'[i].n = hw'.n.ps2
        BY <1>3, <1>4, <1>5, <2>1, <2>3
      <3> QED  BY <1>1, <1>3, <1>5, <1>6, <2>2, <2>4, <3>1, <3>2 DEF HidComplete
    <2> QED  BY <2>5, <2>6, <2>10, <2>11, <2>12 DEF HidInv
  <1> QED  BY <1>7, <1>8

\* The new keys of a report, in the order they were pressed.
LEMMA SortedIs ==
  ASSUME NEW R \in Reports, NEW keys \in Sorted(NewKeys(R))
  PROVE  /\ keys \in Seq(Keys)
         /\ \A i \in DOMAIN keys : keys[i].src = "usb" /\ \E c \in DOMAIN R \ k.prev : keys[i].n = R[c]
         /\ \A c \in DOMAIN R \ k.prev : \E i \in DOMAIN keys : keys[i].n = R[c]
         /\ \A i, j \in DOMAIN keys : i < j => keys[i].n < keys[j].n
  <1> DEFINE D == DOMAIN R \ k.prev
             N == NewKeys(R)
             Of1(c) == [src |-> "usb", n |-> R[c]]
  <1>1. DOMAIN R \in SUBSET Codes /\ \A c \in DOMAIN R : R[c] \in Nat
    BY ReportIs
  <1>2. N = {Of1(c) : c \in D}
    BY DEF NewKeys
  <1>3. IsFiniteSet(D)
    BY <1>1, HidAssumption, FS_Subset
  <1>4. IsFiniteSet(N)
    <2> DEFINE f == [c \in D |-> Of1(c)]
    <2>1. f \in Surjection(D, N)
      BY <1>2 DEF Surjection
    <2> HIDE DEF f, D, N
    <2> QED  BY <1>3, <2>1, FS_Surjection
  <1>5. N \subseteq Keys
    BY <1>1, <1>2 DEF Keys
  <1>6. ASSUME NEW key \in N PROVE key.src = "usb" /\ \E c \in D : key.n = R[c]
    BY <1>2
  <1>7. Cardinality(N) \in Nat
    BY <1>4, FS_CardinalityType
  <1>8. /\ keys \in [1 .. Cardinality(N) -> N] /\ Range(keys) = N
        /\ \A i, j \in DOMAIN keys : i < j => keys[i].n < keys[j].n
    BY DEF Sorted
  <1>9. \A c \in D : Of1(c) \in N /\ Of1(c).n = R[c]
    BY <1>2
  <1> HIDE DEF N, D, Of1
  <1>10. keys \in Seq(Keys)
    <2>1. keys \in [1 .. Cardinality(N) -> Keys]
      BY <1>5, <1>8
    <2> QED  BY <1>7, <2>1, SeqDef
  <1>11. ASSUME NEW i \in DOMAIN keys PROVE keys[i].src = "usb" /\ \E c \in D : keys[i].n = R[c]
    BY <1>6, <1>8
  <1>12. ASSUME NEW c \in D PROVE \E i \in DOMAIN keys : keys[i].n = R[c]
    <2>1. PICK i \in DOMAIN keys : keys[i] = Of1(c)
      BY <1>8, <1>9 DEF Range
    <2> QED  BY <1>9, <2>1
  <1> QED  BY <1>8, <1>10, <1>11, <1>12 DEF D

\* A report of the keyboard: its new keys are later than all before.
LEMMA kbd_reportStep ==
  ASSUME HidInv, kbd_report
  PROVE  HidInv'
  <1> DEFINE R == hw.td.rep[1]
             p == hw.pend["kbd"]
             t2 == [k.tog EXCEPT !["kbd"] = 1 - @]
             E == Emitted
             d == hw.down
             New == DOMAIN R \ k.prev
  <1>1. /\ HidTypes /\ HidControl /\ HidOrder /\ HidReports /\ HidComplete /\ hw \in HidDevices /\ k \in HidKernels
        /\ call.pc = "hid_wait" /\ hw.td.done /\ hw.td.dev = "kbd" /\ faults' = faults /\ Unlinked
        /\ call' = [call EXCEPT !.pc = "hid_inject"] /\ k.todo = <<>> /\ k.last_btn = k.btn
    BY DEF HidInv, HidTypes, HidControl, kbd_report, At, Goto
  <1>2. R \in Reports /\ p \in Seq(Reports) /\ Waiting("kbd") = Cons(R, p) /\ d \in Reports
    BY <1>1 DEF HidTypes, HidDevices, Waiting, InTd
  <1>3. PICK keys \in Sorted(NewKeys(R)) : k' = [k EXCEPT !.tog["kbd"] = 1 - @, !.todo = keys, !.prev = DOMAIN R]
    BY DEF kbd_report
  <1>4. /\ keys \in Seq(Keys)
        /\ \A i \in DOMAIN keys : keys[i].src = "usb" /\ \E c \in New : keys[i].n = R[c]
        /\ \A c \in New : \E i \in DOMAIN keys : keys[i].n = R[c]
        /\ \A i, j \in DOMAIN keys : i < j => keys[i].n < keys[j].n
    BY <1>2, SortedIs
  <1>5. DOMAIN R \in SUBSET Codes /\ \A c \in DOMAIN R : R[c] \in Nat
    BY <1>2, ReportIs
  <1>6. /\ t2 \in [HidDevs -> {0, 1}] /\ t2["mou"] = k.tog["mou"] /\ t2["kbd"] = 1 - k.tog["kbd"]
        /\ k.tog["kbd"] \in {0, 1}
    <2>1. k.tog \in [HidDevs -> {0, 1}] /\ k.tog["kbd"] \in {0, 1} /\ 1 - k.tog["kbd"] \in {0, 1}
      BY <1>1 DEF HidKernels, HidDevs
    <2> QED  BY <2>1 DEF HidDevs
  <1>7. k' = [k EXCEPT !.tog = t2, !.todo = keys, !.prev = DOMAIN R]
    BY <1>3
  <1> HIDE DEF R, t2, p, d
  <1>8. /\ k' \in HidKernels /\ k'.tog = t2 /\ k'.todo = keys /\ k'.prev = DOMAIN R
    BY <1>1, <1>4, <1>5, <1>6, <1>7 DEF HidKernels
  <1>9. /\ k'.ring = k.ring /\ k'.s = k.s /\ k'.e = k.e /\ k'.read = k.read
        /\ k'.btn = k.btn /\ k'.last_btn = k.last_btn /\ k'.lost = k.lost /\ k'.full = k.full
    BY <1>1, <1>7 DEF HidKernels
  <1>10. /\ hw' \in HidDevices /\ hw'.td = NoTd /\ hw'.pend = hw.pend /\ hw'.tog = hw.tog
         /\ hw'.down = hw.down /\ hw'.btn = hw.btn /\ hw'.n = hw.n
         /\ \A x : Waiting(x)' = hw.pend[x] /\ Toggle(x)' = hw.tog[x]
         /\ ~hw'.td.on /\ ~hw'.td.done
    BY <1>1, UnlinkedIs
  <1>11. Unread' = Unread /\ (\A src : Of(src)' = Of(src)) /\ Clean' = Clean
    BY <1>1, <1>9 DEF Unread, Of, Clean
  <1>12. HidTypes'
    BY <1>1, <1>4, <1>8, <1>10, <1>11 DEF HidTypes
  <1>13. HidControl'
    <2>1. call'.pc = "hid_inject"
      BY <1>1
    <2> QED  BY <1>1, <1>8, <1>9, <1>10, <2>1 DEF HidControl
  <1>14. /\ E \in SUBSET Nat /\ k.read["usb"] \in E /\ \A i \in Of("usb") : Unread[i].n \in E
         /\ \A x \in E : x = k.read["usb"] \/ \E i \in Of("usb") : x = Unread[i].n
    <2>1. DOMAIN k.todo = {}
      BY <1>1
    <2> QED  BY <1>1, <2>1, EmittedIs DEF Emitted
  <1>15. Append(Waiting("kbd"), d) = Cons(R, Append(p, d)) /\ Append(p, d) \in Seq(Reports)
    BY <1>2, ConsAppend, AppendProperties
  <1> DEFINE pd == Append(p, d)
  <1>16. ReportsOK(k.prev, E, Cons(R, pd)) /\ UpTo(E, Cons(R, pd), hw.n.usb)
    BY <1>1, <1>15 DEF HidReports, d
  <1> HIDE DEF pd, E
  <1>17. pd \in Seq(Reports)
    BY <1>15 DEF pd
  <1>18. \A c \in New : \A x \in E : x < R[c]
    <2>1. InFront(Cons(R, pd), R, pd, Reports)
      BY <1>2, <1>17, ConsIs
    <2>2. Len(pd) \in Nat
      BY <1>17, LenProperties
    <2>3. 1 \in DOMAIN Cons(R, pd) /\ Cons(R, pd)[1] = R
      BY <2>1, <2>2 DEF InFront
    <2> QED  BY <1>16, <2>3 DEF ReportsOK
  <1>19. Emitted' = E \cup {R[c] : c \in New}
    <2>1. {k'.todo[i].n : i \in DOMAIN k'.todo} = {R[c] : c \in New}
      BY <1>4, <1>8
    <2>2. E = {k.read["usb"]} \cup {Unread[i].n : i \in Of("usb")}
      BY <1>14
    <2>3. Emitted' = {k'.read["usb"]} \cup {Unread'[i].n : i \in Of("usb")'} \cup {k'.todo[i].n : i \in DOMAIN k'.todo}
      BY DEF Emitted
    <2> QED  BY <1>9, <1>11, <2>1, <2>2, <2>3
  <1>20. HidOrder'
    <2>1. InOrder("ps2")' /\ InOrder("usb")'
      BY <1>1, <1>9, <1>11 DEF HidOrder, InOrder
    <2>2. k'.read["ps2"] <= hw'.n.ps2 /\ \A i \in Of("ps2")' : Unread'[i].n <= hw'.n.ps2
      BY <1>1, <1>9, <1>10, <1>11 DEF HidOrder
    <2>3. ASSUME NEW i \in DOMAIN keys
          PROVE  /\ k.read["usb"] < keys[i].n
                 /\ \A j \in Of("usb") : Unread[j].n < keys[i].n
                 /\ \A j \in DOMAIN keys : j < i => keys[j].n < keys[i].n
      <3>1. PICK c \in New : keys[i].n = R[c]
        BY <1>4
      <3> QED  BY <1>4, <1>14, <1>18, <3>1
    <2> QED  BY <1>8, <1>9, <1>11, <2>1, <2>2, <2>3 DEF HidOrder
  <1>21. HidReports'
    <2>1. \A x \in Emitted' : x \in E \/ \E c \in DOMAIN R : x = R[c]
      BY <1>19
    <2>2. ReportsOK(DOMAIN R, Emitted', pd) /\ UpTo(Emitted', pd, hw.n.usb)
      <3> DEFINE F == Emitted'
                 prev == k.prev
                 n == hw.n.usb
      <3>0. ReportsOK(prev, E, Cons(R, pd)) /\ UpTo(E, Cons(R, pd), n)
        BY <1>16
      <3> HIDE DEF F, prev, n
      <3>1. \A x \in F : x \in E \/ \E c \in DOMAIN R : x = R[c]
        BY <2>1 DEF F
      <3>2. ReportsOK(DOMAIN R, F, pd) /\ UpTo(F, pd, n)
        <4>1. R \in Reports /\ pd \in Seq(Reports)
          BY <1>2, <1>17
        <4> QED  BY <3>0, <3>1, <4>1, ReportTaken
      <3> QED  BY <3>2 DEF F, n
    <2> QED  BY <1>8, <1>10, <2>2 DEF HidReports, pd, p, d
  <1>22. HidComplete'
    <2>1. ~k'.full => hw'.n.ps2 = k'.read["ps2"] \/ \E i \in Of("ps2")' : Unread'[i].n = hw'.n.ps2
      BY <1>1, <1>9, <1>10, <1>11 DEF HidComplete
    <2>2. ASSUME Clean
          PROVE  /\ Pressed(k'.prev, Emitted', Waiting("kbd")', hw'.n.usb)
                 /\ Shown(k'.prev, Waiting("kbd")', DOMAIN hw'.down)
      <3> DEFINE F == Emitted'
                 n == hw.n.usb
                 S == DOMAIN hw.down
      <3>1. Pressed(k.prev, E, Cons(R, p), n) /\ Shown(k.prev, Cons(R, p), S)
        BY <1>1, <1>2, <2>2 DEF HidComplete, E
      <3>2. E \subseteq F /\ \A c \in DOMAIN R \ k.prev : R[c] \in F
        BY <1>19
      <3> HIDE DEF F, n, S
      <3>3. Pressed(DOMAIN R, F, p, n) /\ Shown(DOMAIN R, p, S)
        BY <1>2, <3>1, <3>2, PressTaken
      <3> QED  BY <1>8, <1>10, <3>3 DEF F, n, S, p
    <2>3. ASSUME Clean PROVE LET Q == Waiting("mou")' IN hw'.btn = IF Q = <<>> THEN k'.btn ELSE Q[Len(Q)]
      <3>1. Waiting("mou")' = Waiting("mou")
        BY <1>1, <1>10 DEF Waiting, InTd
      <3> QED  BY <1>1, <1>9, <1>10, <2>3, <3>1 DEF HidComplete
    <2>4. ASSUME Clean PROVE \A x \in HidDevs : k'.tog[x] = Toggle(x)'
      <3>1. k.tog["kbd"] = 1 - hw.tog["kbd"] /\ k.tog["mou"] = hw.tog["mou"]
        BY <1>1, <2>4 DEF HidComplete, Toggle, InTd, HidDevs
      <3>2. hw.tog["kbd"] \in {0, 1}
        BY <1>1 DEF HidDevices, HidDevs
      <3>3. t2["kbd"] = hw.tog["kbd"]
        BY <1>6, <3>1, <3>2
      <3> QED  BY <1>6, <1>8, <1>10, <3>1, <3>3 DEF HidDevs
    <2> QED  BY <1>11, <2>1, <2>2, <2>3, <2>4 DEF HidComplete
  <1> QED  BY <1>12, <1>13, <1>20, <1>21, <1>22 DEF HidInv

\* What is left of a sequence, in its order.
LEMMA TailIs ==
  ASSUME NEW S, NEW s \in Seq(S), s # <<>>
  PROVE  /\ Head(s) \in S /\ Head(s) = s[1] /\ Tail(s) \in Seq(S) /\ 1 \in DOMAIN s
         /\ \A i \in DOMAIN Tail(s) : i + 1 \in DOMAIN s /\ Tail(s)[i] = s[i + 1] /\ i \in Nat
         /\ \A i \in DOMAIN s : i = 1 \/ (i - 1 \in DOMAIN Tail(s) /\ Tail(s)[i - 1] = s[i])
  <1>1. Len(s) \in Nat \ {0} /\ DOMAIN s = 1 .. Len(s)
    BY EmptySeq, LenProperties
  <1>2. /\ Head(s) \in S /\ Tail(s) \in Seq(S) /\ Len(Tail(s)) = Len(s) - 1 /\ Head(s) = s[1]
        /\ \A i \in 1 .. Len(Tail(s)) : Tail(s)[i] = s[i + 1]
    BY HeadTailProperties, ElementOfSeq, <1>1
  <1>3. DOMAIN Tail(s) = 1 .. Len(s) - 1
    BY <1>2, LenProperties
  <1> QED  BY <1>1, <1>2, <1>3

\* The loop over the new keys: one goes to the ring, or the ring is full.
LEMMA inject_nextStep ==
  ASSUME HidInv, inject_next
  PROVE  HidInv'
  <1>1. /\ HidTypes /\ HidControl /\ HidOrder /\ HidReports /\ HidComplete /\ hw \in HidDevices /\ k \in HidKernels
        /\ call.pc = "hid_inject" /\ hw' = hw /\ faults' = faults
    BY DEF HidInv, HidTypes, inject_next, At
  <1>2. CASE k.todo = <<>>
    <2>0. Goto("hid_mou") /\ k' = k
      BY <1>2 DEF inject_next
    <2>1. call'.pc = "hid_mou" /\ k' = k
      BY <1>1, <2>0 DEF Goto
    <2> QED  BY <1>1, <1>2, <2>1, CallOnly DEF HidControl
  <1>3. CASE k.todo # <<>>
    <2> DEFINE todo == k.todo
               rest == Tail(todo)
               key == Head(todo)
               kk == [k EXCEPT !.todo = rest]
    <2>1. /\ key \in Keys /\ key = todo[1] /\ rest \in Seq(Keys) /\ 1 \in DOMAIN todo
          /\ \A i \in DOMAIN rest : i + 1 \in DOMAIN todo /\ rest[i] = todo[i + 1] /\ i \in Nat
          /\ \A i \in DOMAIN todo : i = 1 \/ (i - 1 \in DOMAIN rest /\ rest[i - 1] = todo[i])
      <3>1. todo \in Seq(Keys) /\ todo # <<>>
        BY <1>1, <1>3 DEF HidKernels
      <3> HIDE DEF todo
      <3> QED  BY <3>1, TailIs
    <2>2. k' = Push(kk, key) /\ call' = call
      BY <1>3 DEF inject_next, keyboard_inject
    <2> HIDE DEF rest, key
    <2>3. kk \in HidKernels /\ kk.ring = k.ring /\ kk.s = k.s /\ kk.e = k.e
      BY <1>1, <2>1 DEF HidKernels
    <2>4. /\ kk.prev = k.prev /\ kk.todo = rest /\ kk.tog = k.tog /\ kk.btn = k.btn /\ kk.last_btn = k.last_btn
          /\ kk.read = k.read /\ kk.lost = k.lost /\ kk.full = k.full
      BY <1>1, <2>1 DEF HidKernels
    <2>5. \A i \in DOMAIN todo : todo[i].src = "usb" /\ todo[i].n \in Nat
      BY <1>1, EmittedIs DEF HidTypes
    <2>6. /\ InOrder("ps2") /\ InOrder("usb") /\ k.read["ps2"] <= hw.n.ps2
          /\ \A i \in Of("ps2") : Unread[i].n <= hw.n.ps2
          /\ \A i \in DOMAIN todo :
               /\ k.read["usb"] < todo[i].n
               /\ \A j \in Of("usb") : Unread[j].n < todo[i].n
               /\ \A j \in DOMAIN todo : j < i => todo[j].n < todo[i].n
      BY <1>1 DEF HidOrder
    <2>7. Emitted = {k.read["usb"]} \cup {Unread[i].n : i \in Of("usb")} \cup {todo[i].n : i \in DOMAIN todo}
      BY DEF Emitted
    <2>8. \A x : Waiting(x)' = Waiting(x) /\ Toggle(x)' = Toggle(x)
      BY <1>1 DEF Waiting, InTd, Toggle
    <2>9. /\ \A i \in DOMAIN rest : rest[i].src = "usb" /\ key.n < rest[i].n
          /\ key.src = "usb"
          /\ \A i \in DOMAIN rest : \A j \in DOMAIN rest : j < i => rest[j].n < rest[i].n
          /\ \A i \in DOMAIN rest : /\ k.read["usb"] < rest[i].n
                                    /\ \A j \in Of("usb") : Unread[j].n < rest[i].n
          /\ k.read["usb"] < key.n /\ \A j \in Of("usb") : Unread[j].n < key.n
      BY <2>1, <2>5, <2>6
    <2>10. /\ {rest[i].n : i \in DOMAIN rest} \subseteq {todo[i].n : i \in DOMAIN todo}
           /\ {todo[i].n : i \in DOMAIN todo} = {key.n} \cup {rest[i].n : i \in DOMAIN rest}
      BY <2>1
    <2> HIDE DEF todo, kk
    <2>11. CASE ~HasRoom(kk)
      <3>1. k' = [kk EXCEPT !.full = TRUE] /\ k' \in HidKernels
        BY <2>2, <2>3, <2>11, PushFull
      <3>2. /\ k'.ring = k.ring /\ k'.s = k.s /\ k'.e = k.e /\ k'.todo = rest /\ k'.read = k.read /\ k'.full
            /\ k'.prev = k.prev /\ k'.tog = k.tog /\ k'.btn = k.btn /\ k'.last_btn = k.last_btn
        BY <2>3, <2>4, <3>1 DEF HidKernels
      <3>3. Unread' = Unread /\ \A src : Of(src)' = Of(src)
        BY <3>2 DEF Unread, Of
      <3>4. Emitted' \subseteq Emitted
        BY <2>7, <2>10, <3>2, <3>3 DEF Emitted
      <3>5. HidTypes'
        BY <1>1, <2>9, <3>1, <3>2, <3>3 DEF HidTypes
      <3>6. HidControl'
        BY <1>1, <2>2, <3>2 DEF HidControl
      <3>7. HidOrder'
        <4>1. InOrder("ps2")' /\ InOrder("usb")'
          BY <2>6, <3>2, <3>3 DEF InOrder
        <4> QED  BY <1>1, <2>6, <2>9, <3>2, <3>3, <4>1 DEF HidOrder
      <3>8. HidReports'
        BY <1>1, <2>8, <3>2, <3>4, ReportsSame DEF SameReports
      <3>9. HidComplete'
        BY <3>2 DEF HidComplete, Clean
      <3> QED  BY <3>5, <3>6, <3>7, <3>8, <3>9 DEF HidInv
    <2>12. CASE HasRoom(kk)
      <3> DEFINE u == Used(k)
      <3>1. /\ k' \in HidKernels /\ k' = [kk EXCEPT !.ring = k'.ring, !.e = k'.e] /\ k'.s # k'.e
            /\ u \in Nat /\ DOMAIN Unread = 1 .. u /\ DOMAIN Unread' = 1 .. u + 1
            /\ \A i \in 1 .. u : Unread'[i] = Unread[i]
            /\ Unread'[u + 1] = key
            /\ \A src : Of(src)' = Of(src) \cup {i \in {u + 1} : key.src = src}
        BY <1>1, <2>1, <2>2, <2>3, <2>12, PushUnread
      <3> HIDE DEF u
      <3>2. /\ k'.s = k.s /\ k'.todo = rest /\ k'.read = k.read /\ k'.full = k.full /\ k'.lost = k.lost
            /\ k'.prev = k.prev /\ k'.tog = k.tog /\ k'.btn = k.btn /\ k'.last_btn = k.last_btn
        <4> DEFINE ring2 == k'.ring
                   e2 == k'.e
        <4>1. k' = [kk EXCEPT !.ring = ring2, !.e = e2]
          BY <3>1
        <4> HIDE DEF ring2, e2
        <4> QED  BY <2>3, <2>4, <4>1 DEF HidKernels
      <3>3. /\ Of("ps2")' = Of("ps2") /\ Of("usb")' = Of("usb") \cup {u + 1}
            /\ Of("ps2") \subseteq 1 .. u /\ Of("usb") \subseteq 1 .. u
        BY <2>9, <3>1 DEF Of
      <3>4. Emitted' = Emitted
        <4>1. {Unread'[i].n : i \in Of("usb")'} = {Unread[i].n : i \in Of("usb")} \cup {key.n}
          BY <3>1, <3>3
        <4>2. Emitted' = {k'.read["usb"]} \cup {Unread'[i].n : i \in Of("usb")'} \cup {k'.todo[i].n : i \in DOMAIN k'.todo}
          BY DEF Emitted
        <4> QED  BY <2>7, <2>10, <3>2, <4>1, <4>2
      <3>5. HidTypes'
        <4>1. \A i \in 1 .. u + 1 : Unread'[i] \in Keys
          BY <1>1, <2>1, <3>1 DEF HidTypes
        <4> QED  BY <1>1, <2>9, <3>1, <3>2, <4>1 DEF HidTypes
      <3>6. HidControl'
        BY <1>1, <2>2, <3>2 DEF HidControl
      <3>7. HidOrder'
        <4>1. InOrder("ps2")'
          BY <2>6, <3>1, <3>2, <3>3 DEF InOrder
        <4>2. InOrder("usb")'
          <5>1. ASSUME NEW i \in Of("usb")' PROVE k'.read["usb"] < Unread'[i].n
            BY <2>6, <2>9, <3>1, <3>2, <3>3, <5>1 DEF InOrder
          <5>2. ASSUME NEW i \in Of("usb")', NEW j \in Of("usb")', i < j PROVE Unread'[i].n < Unread'[j].n
            <6>1. i \in Of("usb")
              BY <3>1, <3>3, <5>2
            <6>2. CASE j = u + 1
              BY <2>9, <3>1, <3>3, <6>1, <6>2
            <6>3. CASE j # u + 1
              <7>1. j \in Of("usb")
                BY <3>3, <5>2, <6>3
              <7> QED  BY <2>6, <3>1, <3>3, <5>2, <6>1, <7>1 DEF InOrder
            <6> QED  BY <6>2, <6>3
          <5> QED  BY <5>1, <5>2 DEF InOrder
        <4>3. \A i \in DOMAIN rest : \A j \in Of("usb")' : Unread'[j].n < rest[i].n
          BY <2>9, <3>1, <3>3
        <4>4. k'.read["ps2"] <= hw'.n.ps2 /\ \A i \in Of("ps2")' : Unread'[i].n <= hw'.n.ps2
          BY <1>1, <2>6, <3>1, <3>2, <3>3
        <4> QED  BY <2>9, <3>2, <4>1, <4>2, <4>3, <4>4 DEF HidOrder
      <3>8. HidReports'
        BY <1>1, <2>8, <3>2, <3>4, ReportsSame DEF SameReports
      <3>9. HidComplete'
        <4>1. Clean' = Clean
          BY <1>1, <3>2 DEF Clean
        <4>2. ~k'.full => hw'.n.ps2 = k'.read["ps2"] \/ \E i \in Of("ps2")' : Unread'[i].n = hw'.n.ps2
          BY <1>1, <3>1, <3>2, <3>3 DEF HidComplete
        <4> QED  BY <1>1, <2>8, <3>2, <3>4, <4>1, <4>2 DEF HidComplete
      <3> QED  BY <3>5, <3>6, <3>7, <3>8, <3>9 DEF HidInv
    <2> QED  BY <2>11, <2>12
  <1> QED  BY <1>2, <1>3

\* The oldest key of the ring is read.
LEMMA ring_takeStep ==
  ASSUME HidInv, ring_take
  PROVE  HidInv'
  <1> DEFINE old == k.ring[k.s]
             src == old.src
             read2 == [k.read EXCEPT ![src] = old.n]
             s2 == (k.s + 1) % RingSize
             u == Used(k')
  <1>1. /\ HidTypes /\ HidControl /\ HidOrder /\ HidReports /\ HidComplete /\ hw \in HidDevices /\ k \in HidKernels
        /\ k.s # k.e /\ k.todo = <<>> /\ call.buf = old /\ hw' = hw /\ faults' = faults /\ call'.pc = "idle"
        /\ ~hw.td.on
    BY DEF HidInv, HidTypes, HidControl, ring_take, At, Idle
  <1>2. k' = [k EXCEPT !.s = s2, !.read = read2]
    BY <1>1 DEF ring_take
  <1>3. Used(k) \in Nat /\ DOMAIN Unread = 1 .. Used(k) /\ Unread = UnreadOf(k)
    BY <1>1, UnreadIs
  <1>4. k.s \in Places /\ k.e \in Places /\ s2 \in Places
    <2>1. k.s \in Places /\ k.e \in Places
      BY <1>1 DEF HidKernels, Places
    <2> QED  BY <2>1, RingIs
  <1>5. Used(k) # 0
    <2>1. Used(k) = IF k.e >= k.s THEN k.e - k.s ELSE k.e - k.s + RingSize
      BY <1>4, RingIs DEF Used
    <2> QED  BY <1>1, <1>4, <2>1, HidAssumption DEF Places
  <1>6. 1 \in DOMAIN Unread /\ Unread[1] = old
    <2>1. (k.s + 1 - 1) % RingSize = k.s
      <3>1. k.s + 1 - 1 = k.s /\ 0 <= k.s /\ k.s < RingSize /\ k.s \in Int
        BY <1>4, HidAssumption DEF Places
      <3> QED  BY <3>1, HidMod
    <2> QED  BY <1>3, <1>5, <2>1 DEF UnreadOf
  <1>7. old \in Keys /\ src \in {"ps2", "usb"} /\ old.n \in Nat
    BY <1>1, <1>6 DEF HidTypes, Keys
  <1>8. read2 \in Presses /\ read2[src] = old.n /\ \A x \in {"ps2", "usb"} \ {src} : read2[x] = k.read[x]
    BY <1>1, <1>7 DEF HidKernels, Presses
  <1> HIDE DEF read2, s2, old
  <1>9. /\ k' \in HidKernels /\ k'.s = s2 /\ k'.read = read2
    BY <1>1, <1>2, <1>4, <1>8 DEF HidKernels, Places
  <1>10. /\ k'.ring = k.ring /\ k'.e = k.e /\ k'.prev = k.prev /\ k'.todo = k.todo /\ k'.tog = k.tog
         /\ k'.btn = k.btn /\ k'.last_btn = k.last_btn /\ k'.lost = k.lost /\ k'.full = k.full
    BY <1>1, <1>2 DEF HidKernels
  <1>11. /\ u \in Nat /\ DOMAIN Unread' = 1 .. u /\ DOMAIN Unread = 1 .. u + 1
         /\ \A i \in 1 .. u : Unread'[i] = Unread[i + 1]
    <2>1. Used(k') = Used(k) - 1 /\ \A i \in 1 .. Used(k') : UnreadOf(k')[i] = UnreadOf(k)[i + 1]
      <3> DEFINE q == k'
      <3>1. q \in HidKernels /\ q.ring = k.ring /\ q.e = k.e /\ q.s = (k.s + 1) % RingSize
        BY <1>9, <1>10 DEF s2
      <3> HIDE DEF q
      <3>2. Used(q) = Used(k) - 1 /\ \A i \in 1 .. Used(q) : UnreadOf(q)[i] = UnreadOf(k)[i + 1]
        BY <1>1, <3>1, TakeRing
      <3> QED  BY <3>2 DEF q
    <2>2. Unread' = UnreadOf(k') /\ DOMAIN UnreadOf(k') = 1 .. Used(k')
      BY DEF Unread, UnreadOf, Used
    <2> QED  BY <1>3, <1>5, <2>1, <2>2
  <1> HIDE DEF u
  <1>12. \A x : /\ \A i \in Of(x)' : i \in 1 .. u /\ i + 1 \in Of(x)
                /\ \A i \in Of(x) : i = 1 \/ i - 1 \in Of(x)'
    BY <1>11 DEF Of
  <1>13. /\ 1 \in Of(src) /\ old.n = Unread[1].n
         /\ k.read[src] < old.n /\ \A j \in Of(src) : 1 < j => old.n < Unread[j].n
    <2>1. 1 \in Of(src)
      BY <1>6, <1>7 DEF Of
    <2>2. InOrder(src)
      BY <1>1, <1>7 DEF HidOrder
    <2> QED  BY <1>6, <2>1, <2>2 DEF InOrder
  <1>14. \A i \in DOMAIN Unread : Unread[i].n \in Nat
    BY <1>1, EmittedIs
  <1>15. ASSUME NEW x \in {"ps2", "usb"} PROVE InOrder(x)'
    <2>1. InOrder(x)
      BY <1>1 DEF HidOrder
    <2>2. ASSUME NEW i \in Of(x)' PROVE read2[x] < Unread'[i].n
      <3>1. i \in 1 .. u /\ i + 1 \in Of(x) /\ Unread'[i] = Unread[i + 1]
        BY <1>11, <1>12
      <3>2. CASE x = src
        BY <1>8, <1>13, <3>1, <3>2
      <3>3. CASE x # src
        BY <1>8, <2>1, <3>1, <3>3 DEF InOrder
      <3> QED  BY <3>2, <3>3
    <2>3. ASSUME NEW i \in Of(x)', NEW j \in Of(x)', i < j PROVE Unread'[i].n < Unread'[j].n
      <3>1. i \in 1 .. u /\ j \in 1 .. u /\ i + 1 \in Of(x) /\ j + 1 \in Of(x) /\ i + 1 < j + 1
        BY <1>11, <1>12, <2>3
      <3> QED  BY <1>11, <2>1, <3>1 DEF InOrder
    <2> QED  BY <1>9, <2>2, <2>3 DEF InOrder
  <1>16. \A i \in Of("ps2")' : Unread'[i].n <= hw'.n.ps2
    <2>1. \A i \in Of("ps2") : Unread[i].n <= hw.n.ps2
      BY <1>1 DEF HidOrder
    <2> QED  BY <1>1, <1>11, <1>12, <2>1
  <1>17. k'.read["ps2"] <= hw'.n.ps2
    <2>1. k.read["ps2"] <= hw.n.ps2 /\ \A i \in Of("ps2") : Unread[i].n <= hw.n.ps2
      BY <1>1 DEF HidOrder
    <2>2. CASE src = "ps2"
      BY <1>1, <1>8, <1>9, <1>13, <2>1, <2>2
    <2>3. CASE src # "ps2"
      BY <1>1, <1>8, <1>9, <2>1, <2>3
    <2> QED  BY <2>2, <2>3
  <1>18. HidTypes'
    <2>1. \A i \in 1 .. u : Unread'[i] \in Keys
      <3>1. \A i \in 1 .. u : i + 1 \in 1 .. u + 1
        BY <1>11
      <3> QED  BY <1>1, <1>11, <3>1 DEF HidTypes
    <2> QED  BY <1>1, <1>9, <1>10, <1>11, <2>1 DEF HidTypes
  <1>19. HidControl'
    BY <1>1, <1>10 DEF HidControl
  <1>20. DOMAIN k.todo = {}
    BY <1>1
  <1>21. HidOrder'
    BY <1>10, <1>15, <1>16, <1>17, <1>20 DEF HidOrder
  <1>22. /\ Emitted = {k.read["usb"]} \cup {Unread[i].n : i \in Of("usb")}
         /\ Emitted' = {read2["usb"]} \cup {Unread'[i].n : i \in Of("usb")'}
    BY <1>9, <1>10, <1>20 DEF Emitted
  <1>23. \A i \in Of("usb")' : Unread'[i].n \in {Unread[j].n : j \in Of("usb")}
    BY <1>11, <1>12
  <1>24. read2["usb"] \in Emitted
    <2>1. CASE src = "usb"
      BY <1>8, <1>13, <1>22, <2>1
    <2>2. CASE src # "usb"
      BY <1>8, <1>22, <2>2
    <2> QED  BY <2>1, <2>2
  <1>25. Emitted' \subseteq Emitted
    BY <1>22, <1>23, <1>24
  <1>26. \A x : Waiting(x)' = Waiting(x) /\ Toggle(x)' = Toggle(x)
    BY <1>1 DEF Waiting, InTd, Toggle
  <1>27. HidReports'
    BY <1>1, <1>10, <1>25, <1>26, ReportsSame DEF SameReports
  <1>28. \* what is still in the ring, or the key that is read now
         \A x \in {"ps2", "usb"} : \A i \in Of(x) :
           Unread[i].n = k'.read[x] \/ \E j \in Of(x)' : Unread'[j].n = Unread[i].n
    <2> SUFFICES ASSUME NEW x \in {"ps2", "usb"}, NEW i \in Of(x)
                 PROVE  Unread[i].n = k'.read[x] \/ \E j \in Of(x)' : Unread'[j].n = Unread[i].n
      OBVIOUS
    <2>1. CASE i = 1
      <3>1. x = src
        BY <1>6, <2>1 DEF Of
      <3> QED  BY <1>8, <1>9, <1>13, <2>1, <3>1
    <2>2. CASE i # 1
      <3>1. i - 1 \in Of(x)' /\ i \in 1 .. u + 1
        BY <1>11, <1>12, <2>2 DEF Of
      <3>2. i - 1 \in 1 .. u /\ (i - 1) + 1 = i
        BY <1>11, <2>2, <3>1
      <3>3. Unread'[i - 1] = Unread[i]
        BY <1>11, <3>2
      <3> QED  BY <3>1, <3>3
    <2> QED  BY <2>1, <2>2
  <1>29. HidComplete'
    <2>1. ~k'.full => hw'.n.ps2 = k'.read["ps2"] \/ \E i \in Of("ps2")' : Unread'[i].n = hw'.n.ps2
      <3> SUFFICES ASSUME ~k'.full
                   PROVE  hw'.n.ps2 = k'.read["ps2"] \/ \E i \in Of("ps2")' : Unread'[i].n = hw'.n.ps2
        OBVIOUS
      <3>1. CASE \E i \in Of("ps2") : Unread[i].n = hw.n.ps2
        BY <1>1, <1>28, <3>1
      <3>2. CASE hw.n.ps2 = k.read["ps2"]
        <4>1. src # "ps2"
          <5>1. \A i \in Of("ps2") : Unread[i].n <= hw.n.ps2
            BY <1>1 DEF HidOrder
          <5>2. hw.n.ps2 \in Nat
            BY <1>1 DEF HidDevices
          <5> QED  BY <1>7, <1>13, <3>2, <5>1, <5>2
        <4> QED  BY <1>1, <1>7, <1>8, <1>9, <3>2, <4>1
      <3> QED  BY <1>1, <1>10, <3>1, <3>2 DEF HidComplete
    <2>2. Clean' = Clean
      BY <1>1, <1>10 DEF Clean
    <2>3. ASSUME Clean PROVE Pressed(k.prev, Emitted', Waiting("kbd"), hw.n.usb)
      <3> DEFINE n == hw.n.usb
      <3>1. Pressed(k.prev, Emitted, Waiting("kbd"), n)
        BY <1>1, <2>3 DEF HidComplete
      <3>2. \A x \in Emitted : x <= n
        BY <1>1 DEF HidReports, UpTo
      <3>3. ASSUME n \in Emitted PROVE n \in Emitted'
        <4>1. CASE \E i \in Of("usb") : Unread[i].n = n
          <5>1. PICK i \in Of("usb") : Unread[i].n = n
            BY <4>1
          <5>2. n = read2["usb"] \/ \E j \in Of("usb")' : Unread'[j].n = n
            BY <1>9, <1>28, <5>1
          <5> HIDE DEF n
          <5> QED  BY <1>22, <5>2
        <4>2. CASE n = k.read["usb"]
          <5>1. src # "usb"
            <6>1. n \in Nat
              BY <1>1 DEF HidDevices
            <6>2. Unread[1].n \in Emitted \/ src # "usb"
              BY <1>13, <1>22
            <6> HIDE DEF n
            <6> QED  BY <1>7, <1>13, <3>2, <4>2, <6>1, <6>2
          <5> HIDE DEF n
          <5> QED  BY <1>7, <1>8, <1>22, <4>2, <5>1
        <4> HIDE DEF n
        <4> QED  BY <1>22, <3>3, <4>1, <4>2
      <3> DEFINE prev == k.prev
                 E == Emitted
                 F == Emitted'
                 Q == Waiting("kbd")
      <3>4. Pressed(prev, E, Q, n) /\ (n \in E => n \in F)
        BY <3>1, <3>3
      <3> HIDE DEF n, prev, E, F, Q
      <3>5. Pressed(prev, F, Q, n)
        BY <3>4, PressKept
      <3> QED  BY <3>5 DEF n, prev, F, Q
    <2> QED  BY <1>1, <1>10, <1>26, <2>1, <2>2, <2>3 DEF HidComplete
  <1> QED  BY <1>18, <1>19, <1>21, <1>27, <1>29 DEF HidInv

-----------------------------------------------------------------------------
(* Keyboard and mouse: all steps, and what they leave true *)

LEMMA HidInit ==
  ASSUME k = HidKernel, hw = HidHw, call.pc = "idle", faults = 0
  PROVE  HidInv
  <1> DEFINE down0 == [c \in {} |-> 0]
             zero == [d \in HidDevs |-> 0]
             pend0 == [d \in HidDevs |-> <<>>]
             read0 == [ps2 |-> 0, usb |-> 0]
             n0 == [ps2 |-> 0, usb |-> 0, mou |-> 0]
             ring0 == [i \in 0 .. RingSize - 1 |-> None]
             any == Reports \cup {0, 1}
  <1>1. down0 \in Reports /\ DOMAIN down0 = {}
    <2>1. down0 \in [{} -> Nat] /\ {} \in SUBSET Codes
      OBVIOUS
    <2> QED  BY <2>1 DEF Reports
  <1>2. zero \in [HidDevs -> {0, 1}] /\ \A x \in HidDevs : zero[x] = 0
    OBVIOUS
  <1>3. pend0 \in [HidDevs -> Seq(any)] /\ pend0["kbd"] = <<>> /\ pend0["mou"] = <<>>
    BY DEF HidDevs
  <1>4. read0 \in Presses /\ n0 \in [ps2 : Nat, usb : Nat, mou : Nat]
    BY DEF Presses
  <1>5. 0 \in 0 .. RingSize - 1
    BY HidAssumption
  <1>6. NoTd \in HidTds /\ ~NoTd.on /\ ~NoTd.done
    <2>1. <<>> \in Seq(any)
      OBVIOUS
    <2> QED  BY <2>1 DEF NoTd, HidTds, HidDevs
  <1>7. ring0 \in [0 .. RingSize - 1 -> Keys \cup {None}]
    OBVIOUS
  <1>8. k = [ring |-> ring0, s |-> 0, e |-> 0, prev |-> {}, todo |-> <<>>, tog |-> zero, btn |-> 0, last_btn |-> 0,
             read |-> read0, lost |-> FALSE, full |-> FALSE]
    BY DEF HidKernel
  <1>9. hw = [down |-> down0, btn |-> 0, pend |-> pend0, tog |-> zero, n |-> n0, td |-> NoTd]
    BY DEF HidHw
  <1>10. read0.ps2 = 0 /\ read0.usb = 0 /\ read0["ps2"] = 0 /\ read0["usb"] = 0 /\ n0.ps2 = 0 /\ n0.usb = 0
    OBVIOUS
  <1>11. <<>> \in Seq(Keys) /\ <<>> \in Seq(Reports) /\ <<>> \in Seq({0, 1}) /\ DOMAIN <<>> = {} /\ Len(<<>>) = 0
    BY EmptySeq
  <1> HIDE DEF down0, zero, pend0, read0, n0, ring0
  <1>12. k \in HidKernels
    BY <1>2, <1>4, <1>5, <1>7, <1>8, <1>11 DEF HidKernels
  <1>13. hw \in HidDevices
    BY <1>1, <1>2, <1>3, <1>4, <1>6, <1>9 DEF HidDevices
  <1>14. Used(k) = 0
    <2>1. 0 % RingSize = 0
      BY HidAssumption, HidMod
    <2>2. k.s = 0 /\ k.e = 0 /\ 0 - 0 = 0
      BY <1>8
    <2> QED  BY <2>1, <2>2 DEF Used
  <1>15. DOMAIN Unread = {}
    BY <1>12, <1>14, UnreadIs
  <1>16. \A src : Of(src) = {}
    BY <1>15 DEF Of
  <1>17. k.todo = <<>> /\ k.read = read0 /\ k.prev = {} /\ k.btn = 0 /\ k.last_btn = 0 /\ k.tog = zero
    BY <1>8
  <1>18. hw.n = n0 /\ hw.pend = pend0 /\ hw.down = down0 /\ hw.btn = 0 /\ hw.tog = zero /\ hw.td = NoTd
    BY <1>9
  <1>19. Emitted = {0}
    BY <1>10, <1>11, <1>16, <1>17 DEF Emitted
  <1>20. Waiting("kbd") = <<>> /\ Waiting("mou") = <<>> /\ \A x : Toggle(x) = zero[x]
    BY <1>3, <1>6, <1>18 DEF Waiting, InTd, Toggle
  <1>21. HidTypes
    BY <1>3, <1>6, <1>11, <1>12, <1>13, <1>15, <1>17, <1>18 DEF HidTypes
  <1>22. HidControl
    BY <1>6, <1>17, <1>18 DEF HidControl
  <1>23. HidOrder
    BY <1>10, <1>11, <1>16, <1>17, <1>18 DEF HidOrder, InOrder
  <1>24. HidReports
    <2> DEFINE Q == Append(<<>>, down0)
    <2>1. DOMAIN Q = {1} /\ Q[1] = down0
      OBVIOUS
    <2> HIDE DEF Q
    <2>2. ReportsOK({}, {0}, Q) /\ UpTo({0}, Q, 0)
      BY <1>1, <2>1 DEF ReportsOK, UpTo
    <2> QED  BY <1>10, <1>17, <1>18, <1>19, <1>20, <2>2 DEF HidReports, Q
  <1>25. HidComplete
    <2>1. Pressed({}, {0}, <<>>, 0) /\ Shown({}, <<>>, {})
      BY <1>11 DEF Pressed, Shown, Before
    <2> QED  BY <1>1, <1>2, <1>10, <1>17, <1>18, <1>19, <1>20, <2>1 DEF HidComplete
  <1> QED  BY <1>21, <1>22, <1>23, <1>24, <1>25 DEF HidInv

LEMMA HidSame == ASSUME HidInv, UNCHANGED <<k, hw, faults, call>> PROVE HidInv'
  BY CallOnly DEF HidInv, HidControl

LEMMA HidStep ==
  ASSUME HidInv, HidCpu \/ HidHwSteps
  PROVE  HidInv'
  <1>1. CASE HidCpu
    BY <1>1, PollStep, kbd_reportStep, inject_nextStep, mou_reportStep, intr_unlinkStep, CallSteps, ring_takeStep
      DEF HidCpu, usbkbd_poll, usbmouse_poll, HidDevs
  <1>2. CASE HidHwSteps
    BY <1>2, keyboard_handlerStep, UsbPressStep, UsbReleaseStep, UsbButtonStep, HidAnswerStep DEF HidHwSteps
  <1> QED  BY <1>1, <1>2

\* The last press of a set of presses.
LEMMA LastIs == ASSUME NEW n \in Nat, NEW S \in SUBSET Nat, n \in S, \A x \in S : x <= n PROVE Max(S) = n
  <1>1. \A y \in S : n >= y
    OBVIOUS
  <1>2. Max(S) \in S /\ \A y \in S : Max(S) >= y
    <2> DEFINE P(x) == \A y \in S : x >= y
    <2>1. \E x \in S : P(x)
      BY <1>1
    <2>2. Max(S) = CHOOSE x \in S : P(x)
      BY DEF Max
    <2> QED  BY <2>1, <2>2
  <1> DEFINE m == Max(S)
  <1>3. m \in Nat /\ m >= n /\ m <= n
    BY <1>2
  <1> HIDE DEF m
  <1>4. m = n
    BY <1>3
  <1> QED  BY <1>4 DEF m

LEMMA HidArrives == ASSUME HidInv PROVE InputArrives
  <1>1. HidTypes /\ HidControl /\ HidOrder /\ HidReports /\ HidComplete /\ hw \in HidDevices /\ k \in HidKernels
    BY DEF HidInv, HidTypes
  <1>2. InOrder("ps2") /\ InOrder("usb")
    BY <1>1 DEF HidOrder
  <1>3. /\ \A i \in DOMAIN Unread : Unread[i].n \in Nat
        /\ k.read["ps2"] \in Nat /\ k.read["usb"] \in Nat /\ hw.n.ps2 \in Nat /\ hw.n.usb \in Nat
        /\ Emitted \in SUBSET Nat
    <2>1. hw.n.ps2 \in Nat /\ hw.n.usb \in Nat
      BY <1>1 DEF HidDevices
    <2> QED  BY <1>1, <2>1, UnreadIs, EmittedIs
  <1>4. ASSUME Quiet
        PROVE  /\ Newest("ps2") = hw.n.ps2 /\ Newest("usb") = hw.n.usb
               /\ k.btn = hw.btn
               /\ k.tog = hw.tog
    <2>1. Clean /\ call.pc = "idle" /\ \A x \in HidDevs : hw.pend[x] = <<>>
      BY <1>4 DEF Quiet, Clean
    <2>2. ~hw.td.done /\ k.todo = <<>>
      BY <1>1, <2>1 DEF HidControl, HidTypes
    <2>3. Waiting("kbd") = <<>> /\ Waiting("mou") = <<>> /\ \A x : Toggle(x) = hw.tog[x]
      BY <2>1, <2>2 DEF Waiting, InTd, Toggle, HidDevs
    <2>4. Newest("ps2") = hw.n.ps2
      <3> DEFINE S == {k.read["ps2"]} \cup {Unread[i].n : i \in Of("ps2")}
      <3>1. \A i \in Of("ps2") : i \in DOMAIN Unread
        BY DEF Of
      <3>2. S \in SUBSET Nat
        BY <1>3, <3>1
      <3>3. k.read["ps2"] <= hw.n.ps2 /\ \A i \in Of("ps2") : Unread[i].n <= hw.n.ps2
        BY <1>1 DEF HidOrder
      <3>4. hw.n.ps2 = k.read["ps2"] \/ \E i \in Of("ps2") : Unread[i].n = hw.n.ps2
        BY <1>1, <2>1 DEF HidComplete, Clean
      <3>5. hw.n.ps2 \in S /\ \A x \in S : x <= hw.n.ps2
        BY <3>3, <3>4
      <3> DEFINE m == hw.n.ps2
      <3>6. m \in Nat /\ m \in S /\ \A x \in S : x <= m
        BY <1>3, <3>5
      <3> HIDE DEF S, m
      <3>7. Max(S) = m
        BY <3>2, <3>6, LastIs
      <3> QED  BY <3>7 DEF Newest, S, m
    <2>5. Newest("usb") = hw.n.usb
      <3> DEFINE S == {k.read["usb"]} \cup {Unread[i].n : i \in Of("usb")}
                 m == hw.n.usb
      <3>1. Emitted = S
        <4>1. DOMAIN k.todo = {}
          BY <2>2
        <4> QED  BY <4>1 DEF Emitted
      <3>2. Pressed(k.prev, Emitted, <<>>, m)
        BY <1>1, <2>1, <2>3 DEF HidComplete
      <3>3. \A x \in Emitted : x <= m
        BY <1>1 DEF HidReports, UpTo
      <3>4. m \in Nat
        BY <1>3
      <3> HIDE DEF S, m
      <3>5. m \in S /\ S \in SUBSET Nat /\ \A x \in S : x <= m
        BY <1>3, <3>1, <3>2, <3>3 DEF Pressed
      <3>6. Max(S) = m
        BY <3>4, <3>5, LastIs
      <3> QED  BY <3>6 DEF Newest, S, m
    <2>6. k.btn = hw.btn
      BY <1>1, <2>1, <2>3 DEF HidComplete
    <2>7. k.tog = hw.tog
      <3>1. \A x \in HidDevs : k.tog[x] = hw.tog[x]
        BY <1>1, <2>1, <2>3 DEF HidComplete
      <3>2. k.tog \in [HidDevs -> {0, 1}] /\ hw.tog \in [HidDevs -> {0, 1}]
        BY <1>1 DEF HidKernels, HidDevices
      <3> QED  BY <3>1, <3>2
    <2> QED  BY <2>4, <2>5, <2>6, <2>7
  <1> QED  BY <1>2, <1>4 DEF InputArrives

-----------------------------------------------------------------------------
(* All drivers *)

Parts == {"nvme", "ahci", "ata", "usb", "hid"}

\* The keyboards and the mouse make no sector calls.
Inv ==
  /\ part \in Parts
  /\ part = "hid" => last.rc = -1
  /\ part # "hid" => BaseInv
  /\ part = "nvme" => NvmeInv
  /\ part = "ahci" => AhciInv
  /\ part = "ata" => AtaInv
  /\ part = "usb" => UsbInv
  /\ part = "hid" => HidInv

\* A step belongs to the driver of the drive.
LEMMA NvPart == ASSUME NvCpu \/ NvHw PROVE part = "nvme" /\ part' = part
  BY DEF NvCpu, NvHw, Enter, At, n_io_sector, nv_done, nv_limit, nv_ready, nv_admin, nv_admin_done,
         nv_admin_limit, NvExecute

LEMMA AhPart == ASSUME AhCpu \/ AhHw PROVE part = "ahci" /\ part' = part
  BY DEF AhCpu, AhHw, Enter, At, ahci_submit, ahci_issue, ahci_done, ahci_limit, ahci_init,
         ahci_probe_port, ahci_online, AhFetch, AhExecute

LEMMA AtPart == ASSUME AtCpu \/ AtExecute PROVE part = "ata" /\ part' = part
  BY DEF AtCpu, Enter, At, ata_command, ata_wait, ata_transfer, ata_flush, ata_identify,
         ata_drive_present, AtExecute

LEMMA UsbPart == ASSUME UsbCpu \/ MscFails PROVE part = "usb" /\ part' = part
  <1>1. CASE EnCpu
    BY <1>1 DEF EnCpu, At, MorePorts, uhci_setup_one, uhci_control_probe, ehci_setup_one, ehci_control_probe,
       usbhc_scan, enum_reset, enum_one, enum_report, usbkbd_init, usbmouse_init
  <1>2. CASE Enter("usb", "us_sector") \/ usbmsc_init \/ usbmsc_sector \/ bot_again
    BY <1>2 DEF Enter, At, usbmsc_init, usbmsc_sector, bot_again
  <1>3. CASE recover_reset \/ recover_in \/ recover_out
    BY <1>3 DEF Recover, At, recover_reset, recover_in, recover_out
  <1>4. CASE bulk_out \/ bulk_in \/ bulk_fails \/ bulk_error \/ MscFails
    BY <1>4 DEF Bulk, bulk_out, bulk_in, bulk_fails, bulk_error, MscFails
  <1> QED  BY <1>1, <1>2, <1>3, <1>4 DEF UsbCpu

LEMMA HidPart == ASSUME HidCpu \/ HidHwSteps PROVE part = "hid" /\ part' = part /\ last' = last
  <1>1. CASE HidCpu
    BY <1>1 DEF HidCpu, At, Rest, Poll, usbkbd_poll, usbmouse_poll, kbd_report, inject_next, mou_report,
       intr_limit, intr_unlink, keyboard_getchar, ring_empty, ring_read, ring_take
  <1>2. CASE HidHwSteps
    BY <1>2 DEF HidHwSteps, Rest, keyboard_handler, UsbPress, UsbRelease, UsbButton, UsbKeys, HidAnswer
  <1> QED  BY <1>1, <1>2

\* Nothing happens.
LEMMA BaseSame == ASSUME BaseInv, UNCHANGED base PROVE BaseInv'
  BY DEF base, BaseInv, SuccessMeansDone, Strays

LEMMA AtaSame == ASSUME AtaInv, UNCHANGED base PROVE AtaInv'
  BY DEF base, AtaInv

LEMMA AhciSame == ASSUME AhciInv, UNCHANGED base PROVE AhciInv'
  BY DEF base, AhciInv, MyTable, Good

LEMMA NvmeSame == ASSUME NvmeInv, UNCHANGED base PROVE NvmeInv'
  BY DEF base, NvmeInv, NvBooting, Good

LEMMA UsbSame == ASSUME UsbInv, UNCHANGED base PROVE UsbInv'
  <1>1. UsbTypes' /\ UsbControl'
    BY DEF base, UsbInv, UsbTypes, UsbControl
  <1>2. PortsOK' /\ Scanned'
    BY DEF base, UsbInv, UsbTable, PortsOK, Scanned, FirstPort, Fresh
  <1>3. Enumerating' /\ Entered'
    BY DEF base, UsbInv, UsbTable, Enumerating, Entered, Port, Fresh, NewAddr, Answering, Target0
  <1>4. UsbTransfer'
    BY DEF base, UsbInv, UsbTransfer, Count, DataPackets, Disk
  <1>5. UsbProgress'
    BY DEF base, UsbInv, UsbProgress, Taken, Progress, Target, Answering, HostTog, Good, Count, DataPackets, Disk
  <1>6. Recovered' /\ InStep'
    BY DEF base, UsbInv, Recovered, InStep, Agree, Target, Answering, Disk
  <1> QED  BY <1>1, <1>2, <1>3, <1>4, <1>5, <1>6 DEF UsbInv, UsbTable

LEMMA HidUnchanged == ASSUME HidInv, UNCHANGED base PROVE HidInv'
  BY HidSame DEF base

LEMMA InvInit == Init => Inv
  <1>1. ASSUME Init PROVE part \in Parts /\ last.rc = -1
    BY <1>1 DEF Init, Start, Parts
  <1>2. ASSUME Init, part = "hid" PROVE HidInv
    <2>1. k = HidKernel /\ hw = HidHw /\ call.pc = "idle" /\ faults = 0
      BY <1>2 DEF Init, Start, Idle
    <2> QED  BY <2>1, HidInit
  <1> QED  BY <1>1, <1>2, BaseInit, NvmeInit, AhciInit, AtaInit, UsbInit DEF Inv

LEMMA InvNext == Inv /\ [Next]_base => Inv'
  <1>1. SUFFICES ASSUME Inv, [Next]_base PROVE Inv'
    OBVIOUS
  <1>2. CASE NvCpu \/ NvHw
    BY <1>1, <1>2, NvPart, NvmeStep DEF Inv, Parts
  <1>3. CASE AhCpu \/ AhHw
    BY <1>1, <1>3, AhPart, AhciStep DEF Inv, Parts
  <1>4. CASE AtCpu \/ AtExecute
    BY <1>1, <1>4, AtPart, AtaStep DEF Inv, Parts
  <1>5. CASE UsbCpu \/ MscFails
    BY <1>1, <1>5, UsbPart, UsbStep DEF Inv, Parts
  <1>6. CASE HidCpu \/ HidHwSteps
    BY <1>1, <1>6, HidPart, HidStep DEF Inv, Parts
  <1>7. CASE UNCHANGED base
    <2>1. part' = part /\ last' = last
      BY <1>7 DEF base
    <2> QED  BY <1>1, <1>7, <2>1, BaseSame, NvmeSame, AhciSame, AtaSame, UsbSame, HidUnchanged DEF Inv
  <1> QED  BY <1>1, <1>2, <1>3, <1>4, <1>5, <1>6, <1>7 DEF Next, Cpu, Device

\* What a step of any driver preserves: with it the four results below follow.
THEOREM Invariant == Spec => []Inv
  BY InvInit, InvNext, PTL DEF Spec

\* No call of nvme.c or usbmsc.c returns 0 without having done what it was asked:
\* they do not take a late completion, the answer of an earlier command or the state
\* of a device that was reset for the success of the call, for any ring depth, bus
\* and number of faults.  Nor does one of ahci.c or ata.c, unless its own command
\* went astray: it was given while the slot still held a command, or the drive the
\* data, that an earlier call had given up, or its sector number was cut (ahci.c 219).
THEOREM SuccessIsDone == Spec => []SuccessMeansDone
  <1>1. Inv => SuccessMeansDone
    BY DEF Inv, BaseInv, SuccessMeansDone
  <1> QED  BY <1>1, Invariant, PTL

\* Host and disk agree on the toggles after a command that succeeded, and after a
\* bot_reset_recovery of which every request took effect (usbmsc.c).
THEOREM TogglesInStep == Spec => []InStep
  <1>1. Inv => InStep
    BY DEF Inv, UsbInv, InStep
  <1> QED  BY <1>1, Invariant, PTL

\* Every entry that enum_one (usbenum.c) put into the table of devices is answered
\* for by a configured device of its model, and has an address of its own, however
\* the resets, probes and requests before it ended.
THEOREM TableAnswered == Spec => []EntriesAnswer
  <1>1. Inv => EntriesAnswer
    <2>1. SUFFICES ASSUME UsbInv PROVE EntriesAnswer
      BY DEF Inv, EntriesAnswer
    <2>2. \A i \in DOMAIN k.dev :
            /\ k.dev[i].addr = i /\ Answering(k.dev[i].hc, k.dev[i].addr) # {}
            /\ hw.dev[Min(Answering(k.dev[i].hc, k.dev[i].addr))].conf
            /\ hw.dev[Min(Answering(k.dev[i].hc, k.dev[i].addr))].kind = k.dev[i].vid
      BY <2>1 DEF UsbInv, UsbTable, Entered, Target0
    <2>3. \A i, j \in DOMAIN k.dev : <<k.dev[j].hc, k.dev[j].addr>> = <<k.dev[i].hc, k.dev[i].addr>> => j = i
      BY <2>2
    <2> QED  BY <2>2, <2>3 DEF EntriesAnswer
  <1> QED  BY <1>1, Invariant, PTL

\* What is pressed arrives: keyboard_inject and keyboard_getchar (keyboard.c) hand
\* the keys of each keyboard out in the order of the presses and none twice, and
\* when nothing was dropped and no report was sent again, usbkbd_poll and
\* usbmouse_poll missed nothing and uhci_interrupt_in holds the toggles of the
\* devices.
THEOREM InputIsKept == Spec => []InputArrives
  <1>1. Inv => InputArrives
    BY HidArrives DEF Inv, InputArrives
  <1> QED  BY <1>1, Invariant, PTL

=============================================================================
