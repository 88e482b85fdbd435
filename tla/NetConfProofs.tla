--------------------------- MODULE NetConfProofs ---------------------------
(***************************************************************************)
(* DHCP leases, names and echo requests, proved for every set of servers,  *)
(* names, processes and hosts, every lease time the code schedules and     *)
(* every size of the caches.                                               *)
(***************************************************************************)
EXTENDS NetConf, SequenceTheorems, WellFoundedInduction, TLAPS

-----------------------------------------------------------------------------
(* What a caller is in the middle of *)

IsCall(c) ==
    c \in [k : {c.k}, msg : {c.msg}, hop : {c.hop}, att : {c.att}, s : {c.s}, name : {c.name},
           ip : {c.ip}, server : {c.server}]

CallShape == call = [p \in Callers |-> call[p]] /\ \A p \in Callers : IsCall(call[p])

LEMMA BusyCall ==
    ASSUME CallShape, NEW p \in Callers, NEW c, IsCall(c), Busy(p, c)
    PROVE  /\ CallShape' /\ call'[p] = c
           /\ \A q \in Callers : q # p => call'[q] = call[q]
  <1>1. call' = [call EXCEPT ![p] = c] /\ DOMAIN call = Callers
    BY DEF Busy, CallShape
  <1>2. call'[p] = c /\ \A q \in Callers : q # p => call'[q] = call[q]
    BY <1>1
  <1>3. call' = [q \in Callers |-> call'[q]]
    BY <1>1
  <1>4. \A q \in Callers : IsCall(call'[q])
    BY <1>2 DEF CallShape
  <1> QED  BY <1>2, <1>3, <1>4 DEF CallShape, IsCall

LEMMA IdleCall == IsCall(Idle) /\ Idle.k = "idle"
  BY DEF IsCall, Idle

\* What the updates of a call change.
LEMMA CallKind ==
    ASSUME NEW c, IsCall(c), NEW k
    PROVE  LET f == [c EXCEPT !.k = k]
           IN /\ IsCall(f) /\ f.k = k /\ f.msg = c.msg /\ f.name = c.name /\ f.ip = c.ip
              /\ f.server = c.server
  BY DEF IsCall

-----------------------------------------------------------------------------
(* The clock of a lease *)

Time == 0..(Wrap - 1)
Half == Wrap \div 2

LEMMA HalfFacts == Half \in Nat /\ 2 * Half <= Wrap /\ Wrap <= 2 * Half + 1
  BY NetConfAssumption DEF Half

LEMMA MinusIs ==
    ASSUME NEW a \in Time, NEW b \in Time
    PROVE  Minus(a, b) = IF a >= b THEN a - b ELSE a - b + Wrap
  <1>1. Wrap \in Nat \ {0} /\ a \in 0..(Wrap - 1) /\ b \in 0..(Wrap - 1)
    BY NetConfAssumption DEF Time
  <1>2. CASE a >= b
    BY <1>1, <1>2 DEF Minus
  <1>3. CASE a < b
    BY <1>1, <1>3 DEF Minus
  <1> QED  BY <1>1, <1>2, <1>3

LEMMA PlusIs ==
    ASSUME NEW a \in Time, NEW n \in 0..Wrap
    PROVE  (a + n) % Wrap = (IF a + n < Wrap THEN a + n ELSE a + n - Wrap) /\ (a + n) % Wrap \in Time
  <1>1. Wrap \in Nat \ {0} /\ a \in 0..(Wrap - 1)
    BY NetConfAssumption DEF Time
  <1>2. CASE a + n < Wrap
    BY <1>1, <1>2 DEF Time
  <1>3. CASE a + n >= Wrap
    BY <1>1, <1>3 DEF Time
  <1> QED  BY <1>1, <1>2, <1>3

\* A deadline x that lies ahead of the time t, by half the number space at most.
Ahead(t, x) == Minus(x, t)
Future(t, x) == x \in Time /\ Ahead(t, x) \in 1..Half

LEMMA FutureNotDue ==
    ASSUME NEW t \in Time, NEW x, Future(t, x)
    PROVE  ~DueAt(t, x)
  <1>1. Wrap \in Nat /\ Wrap > 0 /\ t \in 0..(Wrap - 1) /\ x \in 0..(Wrap - 1) /\ x \in Time
    BY NetConfAssumption DEF Time, Future
  <1>2. /\ Minus(x, t) = (IF x >= t THEN x - t ELSE x - t + Wrap)
        /\ Minus(t, x) = (IF t >= x THEN t - x ELSE t - x + Wrap)
    BY <1>1, MinusIs
  <1>3. Minus(x, t) \in 1..Half
    BY DEF Future, Ahead
  <1>4. ~(Minus(t, x) < Half)
    BY <1>1, <1>2, <1>3, HalfFacts
  <1> QED  BY <1>4 DEF DueAt, Half

\* One tick on, it is due, or lies ahead by one less.
LEMMA FutureTick ==
    ASSUME NEW t \in Time, NEW x, Future(t, x)
    PROVE  LET u == (t + 1) % Wrap
           IN  /\ u \in Time
               /\ ~DueAt(u, x) => Future(u, x)
               /\ Ahead(u, x) = Ahead(t, x) - 1
               /\ DueAt(u, x) <=> Ahead(t, x) = 1
  <1> DEFINE u == (t + 1) % Wrap
  <1>1. Wrap \in Nat /\ Wrap > 0 /\ t \in 0..(Wrap - 1) /\ x \in 0..(Wrap - 1) /\ x \in Time
    BY NetConfAssumption DEF Time, Future
  <1>2. u \in Time /\ u = IF t + 1 < Wrap THEN t + 1 ELSE 0
    BY <1>1, PlusIs
  <1> HIDE DEF u
  <1>3. Minus(x, t) = (IF x >= t THEN x - t ELSE x - t + Wrap) /\ Minus(x, t) \in 1..Half
    BY <1>1, MinusIs DEF Future, Ahead
  <1>4. /\ Minus(x, u) = (IF x >= u THEN x - u ELSE x - u + Wrap)
        /\ Minus(u, x) = (IF u >= x THEN u - x ELSE u - x + Wrap)
    BY <1>1, <1>2, MinusIs
  <1>5. Minus(x, u) = Minus(x, t) - 1
    BY <1>1, <1>2, <1>3, <1>4
  <1>6. DueAt(u, x) <=> Minus(x, t) = 1
    <2>1. DueAt(u, x) <=> Minus(u, x) < Half
      BY DEF DueAt, Half
    <2> QED  BY <1>1, <1>2, <1>3, <1>4, <2>1, HalfFacts
  <1>7. ~DueAt(u, x) => Future(u, x)
    BY <1>1, <1>3, <1>5, <1>6, HalfFacts DEF Future, Ahead
  <1> QED  BY <1>2, <1>5, <1>6, <1>7 DEF u, Ahead

\* A deadline set n ticks from now.
LEMMA FutureSet ==
    ASSUME NEW t \in Time, NEW n \in 1..Half
    PROVE  Future(t, (t + n) % Wrap) /\ Ahead(t, (t + n) % Wrap) = n
  <1> DEFINE x == (t + n) % Wrap
  <1>1. Wrap \in Nat /\ Wrap > 0 /\ t \in 0..(Wrap - 1) /\ n \in 0..Wrap
    BY NetConfAssumption, HalfFacts DEF Time
  <1>2. x \in Time /\ x = IF t + n < Wrap THEN t + n ELSE t + n - Wrap
    BY <1>1, PlusIs
  <1> HIDE DEF x
  <1>3. Minus(x, t) = IF x >= t THEN x - t ELSE x - t + Wrap
    BY <1>2, MinusIs
  <1>4. Minus(x, t) = n
    BY <1>1, <1>2, <1>3, HalfFacts
  <1> QED  BY <1>2, <1>4 DEF x, Future, Ahead

\* T1 before T2 before the end, and the state that the time is in.
ClockAt(t, state, t1, t2, expire) ==
    /\ state \in {0, 1, 2} /\ Future(t, expire)
    /\ state = 0 => Future(t, t1) /\ Ahead(t, t1) < Ahead(t, t2)
    /\ state \in {0, 1} => Future(t, t2) /\ Ahead(t, t2) < Ahead(t, expire)
Clock(t, r) == ClockAt(t, r.state, r.t1, r.t2, r.expire)

LEMMA ClockSet ==
    ASSUME NEW t \in Time, NEW l \in 1..Half, l % 8 = 0
    PROVE  ClockAt(t, 0, (t + l \div 2) % Wrap, (t + (l \div 8) * 7) % Wrap, (t + l) % Wrap)
  <1> DEFINE a == l \div 2
             b == (l \div 8) * 7
  <1>1. a \in 1..Half /\ b \in 1..Half /\ a < b /\ b < l /\ l \in 1..Half
    <2>1. Half \in Nat /\ l \in Int /\ 1 <= l /\ l <= Half
      BY HalfFacts
    <2>2. l = 8 * (l \div 8) /\ l \div 8 \in Int
      BY <2>1
    <2>3. a = 4 * (l \div 8)
      BY <2>1, <2>2
    <2> QED  BY <2>1, <2>2, <2>3
  <1> HIDE DEF a, b
  <1>2. /\ Future(t, (t + a) % Wrap) /\ Ahead(t, (t + a) % Wrap) = a
        /\ Future(t, (t + b) % Wrap) /\ Ahead(t, (t + b) % Wrap) = b
        /\ Future(t, (t + l) % Wrap) /\ Ahead(t, (t + l) % Wrap) = l
    BY <1>1, FutureSet
  <1>3. ClockAt(t, 0, (t + a) % Wrap, (t + b) % Wrap, (t + l) % Wrap)
    BY <1>1, <1>2 DEF ClockAt
  <1> QED  BY <1>3 DEF a, b

LEMMA ClockTick ==
    ASSUME NEW t \in Time, Clock(t, renew)
    PROVE  LET u  == (t + 1) % Wrap
               st == NextState(renew.state, u)
           IN  st # 3 => ClockAt(u, st, renew.t1, renew.t2, renew.expire)
  <1> DEFINE u  == (t + 1) % Wrap
             s  == renew.state
             st == NextState(s, u)
             A(x) == Ahead(t, x)
             B(x) == Ahead(u, x)
             a == renew.t1
             b == renew.t2
             e == renew.expire
  <1>1. /\ s \in {0, 1, 2} /\ Future(t, e)
        /\ s = 0 => Future(t, a) /\ A(a) < A(b)
        /\ s \in {0, 1} => Future(t, b) /\ A(b) < A(e)
    BY DEF Clock, ClockAt
  <1>2. \A x : Future(t, x) =>
                 /\ ~DueAt(u, x) => Future(u, x)
                 /\ B(x) = A(x) - 1
                 /\ DueAt(u, x) <=> A(x) = 1
                 /\ A(x) \in 1..Half
    BY FutureTick DEF Future
  <1>3. s = 0 => st = IF DueAt(u, a) THEN 1 ELSE 0
    BY DEF NextState
  <1>4. s = 1 => st = IF DueAt(u, b) THEN 2 ELSE 1
    BY DEF NextState
  <1>5. s = 2 => st = IF DueAt(u, e) THEN 3 ELSE 2
    BY DEF NextState
  <1> HIDE DEF u, s, st, A, B, a, b, e
  <1>6. Half \in Nat
    BY HalfFacts
  <1>7. st # 3 => /\ st \in {0, 1, 2} /\ Future(u, e)
                  /\ st = 0 => Future(u, a) /\ B(a) < B(b)
                  /\ st \in {0, 1} => Future(u, b) /\ B(b) < B(e)
    <2>1. CASE s = 0
      <3>1. A(a) \in 1..Half /\ A(b) \in 1..Half /\ A(e) \in 1..Half /\ A(a) < A(b) /\ A(b) < A(e)
        BY <1>1, <1>2, <2>1
      <3>2. ~DueAt(u, b) /\ ~DueAt(u, e)
        BY <1>1, <1>2, <1>6, <2>1, <3>1
      <3> QED  BY <1>1, <1>2, <1>3, <1>6, <2>1, <3>1, <3>2
    <2>2. CASE s = 1
      <3>1. A(b) \in 1..Half /\ A(e) \in 1..Half /\ A(b) < A(e)
        BY <1>1, <1>2, <2>2
      <3>2. ~DueAt(u, e)
        BY <1>1, <1>2, <1>6, <2>2, <3>1
      <3> QED  BY <1>1, <1>2, <1>4, <1>6, <2>2, <3>1, <3>2
    <2>3. CASE s = 2
      BY <1>1, <1>2, <1>5, <2>3
    <2> QED  BY <1>1, <2>1, <2>2, <2>3
  <1> QED  BY <1>7 DEF ClockAt, u, s, st, A, B, a, b, e

-----------------------------------------------------------------------------
(* The invariant of DHCP *)

Dhcp == {"offer", "offered", "ack", "acked", "apply"}

IsW(x) ==
    x \in [active : {x.active}, got : {x.got}, renewing : {x.renewing}, xid : {x.xid}, msg : {x.msg}]

Shapes ==
    /\ lease = [valid |-> lease.valid, ip |-> lease.ip, server |-> lease.server, opt |-> lease.opt]
    /\ renew = [active |-> renew.active, state |-> renew.state, t1 |-> renew.t1, t2 |-> renew.t2,
                expire |-> renew.expire, next |-> renew.next]
    /\ IsW(w)

LeaseOK == lease.valid => lease.ip = Grant[lease.opt] /\ ip = lease.ip
ClockOK == lease.valid /\ renew.active => Clock(now, renew)
\* What the shell is in the middle of: no lease until it is done; what it will
\* apply has come from a server; the door is shut once the address is read.
TransactionOK ==
    /\ call[Shell].k \in Dhcp => ~lease.valid
    /\ w.got \/ call[Shell].k \in {"offered", "acked", "apply"} => w.msg.server \in DhcpServers
    /\ call[Shell].k = "apply" => ~w.active /\ call[Shell].ip = Grant[w.msg.server]

DhcpInv == CallShape /\ now \in Time /\ Shapes /\ LeaseOK /\ ClockOK /\ TransactionOK

ShellKept == call'[Shell] = call[Shell] \/ call'[Shell].k \notin Dhcp

LEMMA ShellCalls == Shell \in Callers
  BY DEF Callers

\* Steps of the other commands.
LEMMA DhcpAlone ==
    ASSUME DhcpInv, UNCHANGED <<now, lease, renew, w, ip>>, CallShape', ShellKept
    PROVE  DhcpInv'
  <1>1. Shapes' /\ LeaseOK' /\ ClockOK' /\ now' \in Time
    BY DEF DhcpInv, Shapes, LeaseOK, ClockOK, Clock, ClockAt, Future, Ahead, Minus
  <1>2. TransactionOK'
    BY DEF DhcpInv, TransactionOK, ShellKept, Dhcp
  <1> QED  BY <1>1, <1>2 DEF DhcpInv

LEMMA DhcpInit == Init => DhcpInv
  <1> SUFFICES ASSUME Init PROVE DhcpInv
    OBVIOUS
  <1>1. CallShape /\ call[Shell].k = "idle"
    BY IdleCall, ShellCalls DEF Init, CallShape
  <1>2. Shapes /\ ~lease.valid /\ ~w.got
    BY DEF Init, Shapes, IsW
  <1>3. now \in Time
    BY NetConfAssumption DEF Init, Time
  <1> QED  BY <1>1, <1>2, <1>3 DEF DhcpInv, LeaseOK, ClockOK, TransactionOK, Dhcp

\* dhcp_apply with the address that came with the options.
LEMMA Applies ==
    ASSUME DhcpInv, NEW addr, NEW t \in Time, dhcp_apply(addr, w.msg, t), now' = t,
           w.msg.server \in DhcpServers, addr = Grant[w.msg.server],
           CallShape', call'[Shell].k \notin Dhcp
    PROVE  DhcpInv'
  <1> DEFINE l == Lease[w.msg.server]
  <1>1. l \in 0..Half /\ l % 8 = 0
    BY NetConfAssumption DEF Half
  <1>2. /\ lease' = [valid |-> TRUE, ip |-> addr, server |-> w.msg.server, opt |-> w.msg.server]
        /\ renew' = [active |-> l # 0, state |-> 0, t1 |-> (t + l \div 2) % Wrap,
                     t2 |-> (t + (l \div 8) * 7) % Wrap, expire |-> (t + l) % Wrap, next |-> 0]
        /\ w' = [w EXCEPT !.active = FALSE, !.got = FALSE, !.renewing = FALSE]
        /\ ip' = addr
    BY DEF dhcp_apply
  <1> HIDE DEF l
  <1>3. Shapes' /\ ~w'.got
    BY <1>2 DEF DhcpInv, Shapes, IsW
  <1>4. LeaseOK'
    BY <1>2 DEF LeaseOK
  <1>5. ClockOK'
    <2>1. ASSUME l # 0 PROVE ClockAt(t, 0, (t + l \div 2) % Wrap, (t + (l \div 8) * 7) % Wrap, (t + l) % Wrap)
      BY <1>1, <2>1, ClockSet, HalfFacts
    <2>2. l # 0 => Clock(t, renew')
      BY <1>2, <2>1 DEF Clock
    <2>3. renew'.active = (l # 0)
      BY <1>2
    <2> QED  BY <2>2, <2>3 DEF ClockOK, Clock, ClockAt, Future, Ahead, Minus
  <1>6. TransactionOK'
    BY <1>3 DEF TransactionOK, Dhcp
  <1> QED  BY <1>3, <1>4, <1>5, <1>6 DEF DhcpInv

LEMMA TickStep ==
    ASSUME DhcpInv, net_tick
    PROVE  DhcpInv'
  <1> DEFINE t == (now + 1) % Wrap
  <1>1. now' = t /\ dhcp_renew_check(t) /\ call' = call
    BY DEF net_tick, Later
  <1>2. now \in Time /\ t \in Time
    <2>1. 1 \in 0..Wrap
      BY NetConfAssumption
    <2> QED  BY <2>1, PlusIs DEF DhcpInv
  <1>3. CallShape'
    BY <1>1 DEF DhcpInv, CallShape, IsCall
  <1> DEFINE heard == w.renewing /\ w.got
             nak == heard /\ w.msg.t = "nak"
             was == IF nak THEN 3 ELSE renew.state
             st == NextState(was, t)
             next  == IF st # was THEN 0 ELSE renew.next
             gap   == IF renew.t2 > renew.t1 THEN (renew.t2 - renew.t1) \div 2 ELSE 0
  <1>4. CASE (~renew.active \/ ~lease.valid) /\ UNCHANGED <<lease, renew, w, ip>>
    BY <1>1, <1>2, <1>3, <1>4 DEF DhcpInv, Shapes, LeaseOK, ClockOK, TransactionOK
  <1>5. CASE renew.active /\ lease.valid /\ heard /\ dhcp_apply(Grant[w.msg.server], w.msg, t)
    <2>1. w.msg.server \in DhcpServers /\ call'[Shell].k \notin Dhcp
      BY <1>1, <1>5 DEF DhcpInv, TransactionOK
    <2> HIDE DEF t
    <2> QED  BY <1>1, <1>2, <1>3, <1>5, <2>1, Applies
  <1>6. CASE /\ renew.active /\ lease.valid
             /\ lease' = [lease EXCEPT !.valid = st # 3] /\ UNCHANGED ip
             /\ \E n : renew' = [renew EXCEPT !.state = st, !.next = n]
             /\ \/ w' = [w EXCEPT !.got = @ /\ ~heard]
                \/ w' = Opened(t)
                \/ w' = [Opened(t) EXCEPT !.active = FALSE, !.renewing = FALSE]
    <2>1. call'[Shell].k \notin Dhcp
      BY <1>1, <1>6 DEF DhcpInv, TransactionOK
    <2>2. Shapes' /\ (w'.got => w.got /\ w'.msg = w.msg)
      <3>1. ASSUME w' = [w EXCEPT !.got = w.got /\ ~heard] PROVE IsW(w') /\ (w'.got => w.got /\ w'.msg = w.msg)
        BY <3>1 DEF DhcpInv, Shapes, IsW
      <3>2. ASSUME w' = Opened(t) PROVE IsW(w') /\ ~w'.got
        BY <3>2 DEF Opened, IsW
      <3>3. ASSUME w' = [Opened(t) EXCEPT !.active = FALSE, !.renewing = FALSE]
            PROVE  IsW(w') /\ ~w'.got
        BY <3>3 DEF Opened, IsW
      <3>4. IsW(w') /\ (w'.got => w.got /\ w'.msg = w.msg)
        BY <1>6, <3>1, <3>2, <3>3
      <3>5. PICK n : renew' = [renew EXCEPT !.state = st, !.next = n]
        BY <1>6
      <3> HIDE DEF st, heard, t
      <3>6. renew' = [active |-> renew'.active, state |-> renew'.state, t1 |-> renew'.t1,
                      t2 |-> renew'.t2, expire |-> renew'.expire, next |-> renew'.next]
        BY <3>5 DEF DhcpInv, Shapes
      <3>7. lease' = [valid |-> lease'.valid, ip |-> lease'.ip, server |-> lease'.server,
                      opt |-> lease'.opt]
        BY <1>6 DEF DhcpInv, Shapes
      <3> QED  BY <3>4, <3>6, <3>7 DEF Shapes
    <2>3. /\ lease'.valid = (st # 3) /\ lease'.ip = lease.ip /\ lease'.opt = lease.opt
          /\ renew'.state = st /\ renew'.t1 = renew.t1 /\ renew'.t2 = renew.t2
          /\ renew'.expire = renew.expire
      BY <1>6 DEF DhcpInv, Shapes
    <2>4. LeaseOK'
      BY <1>6, <2>3 DEF DhcpInv, LeaseOK
    <2>5. st # 3 => st = NextState(renew.state, t)
      BY DEF NextState
    <2>6. st # 3 => ClockAt(t, st, renew.t1, renew.t2, renew.expire)
      <3>1. Clock(now, renew)
        BY <1>6 DEF DhcpInv, ClockOK
      <3>2. NextState(renew.state, t) # 3
              => ClockAt(t, NextState(renew.state, t), renew.t1, renew.t2, renew.expire)
        BY <1>2, <3>1, ClockTick
      <3> QED  BY <2>5, <3>2
    <2> HIDE DEF t, st
    <2>7. ClockOK'
      <3>1. st # 3 => Clock(t, renew')
        BY <2>3, <2>6 DEF Clock
      <3> QED  BY <1>1, <2>3, <3>1 DEF ClockOK, Clock, ClockAt, Future, Ahead, Minus
    <2>8. TransactionOK'
      BY <2>1, <2>2 DEF DhcpInv, TransactionOK, Dhcp
    <2> QED  BY <1>1, <1>2, <1>3, <2>2, <2>4, <2>7, <2>8 DEF DhcpInv
  <1>7. \/ (~renew.active \/ ~lease.valid) /\ UNCHANGED <<lease, renew, w, ip>>
        \/ renew.active /\ lease.valid /\ heard /\ dhcp_apply(Grant[w.msg.server], w.msg, t)
        \/ /\ renew.active /\ lease.valid
           /\ lease' = [lease EXCEPT !.valid = st # 3] /\ UNCHANGED ip
           /\ \E n : renew' = [renew EXCEPT !.state = st, !.next = n]
           /\ \/ w' = [w EXCEPT !.got = @ /\ ~heard]
              \/ w' = Opened(t)
              \/ w' = [Opened(t) EXCEPT !.active = FALSE, !.renewing = FALSE]
    BY <1>1 DEF dhcp_renew_check, dhcpVars
  <1> QED  BY <1>4, <1>5, <1>6, <1>7

\* Steps of a dhcp command, which has no lease.
Unleased ==
    /\ UNCHANGED <<now, renew, ip>>
    /\ lease' = [lease EXCEPT !.valid = FALSE] \/ (lease' = lease /\ ~lease.valid)

LEMMA DhcpCommand ==
    ASSUME DhcpInv, Unleased, CallShape', IsW(w'),
           w'.got \/ call'[Shell].k \in {"offered", "acked", "apply"} => w'.msg.server \in DhcpServers,
           call'[Shell].k = "apply" => ~w'.active /\ call'[Shell].ip = Grant[w'.msg.server]
    PROVE  DhcpInv'
  <1>1. ~lease'.valid /\ lease' = [valid |-> lease'.valid, ip |-> lease'.ip,
                                   server |-> lease'.server, opt |-> lease'.opt]
    BY DEF Unleased, DhcpInv, Shapes
  <1>2. Shapes'
    BY <1>1 DEF Unleased, DhcpInv, Shapes
  <1>3. LeaseOK' /\ ClockOK' /\ TransactionOK' /\ now' \in Time
    BY <1>1 DEF Unleased, DhcpInv, LeaseOK, ClockOK, TransactionOK
  <1> QED  BY <1>2, <1>3 DEF DhcpInv

LEMMA Posted ==
    ASSUME DhcpInv, Unleased, NEW m, NEW tr, IsW(tr), ~tr.got,
           NEW c, IsCall(c), c.k \in {"offer", "ack"}, Post(m, tr, c)
    PROVE  DhcpInv'
  <1>1. CASE w' = tr /\ Busy(Shell, c)
    <2>1. CallShape' /\ call'[Shell] = c
      BY <1>1, BusyCall, ShellCalls DEF DhcpInv
    <2> QED  BY <1>1, <2>1, DhcpCommand
  <1>2. CASE w' = [tr EXCEPT !.active = FALSE] /\ Busy(Shell, Idle)
    <2>1. CallShape' /\ call'[Shell] = Idle
      BY <1>2, BusyCall, ShellCalls, IdleCall DEF DhcpInv
    <2>2. IsW(w') /\ ~w'.got
      BY <1>2 DEF IsW
    <2> QED  BY <2>1, <2>2, DhcpCommand, IdleCall
  <1> QED  BY <1>1, <1>2 DEF Post

LEMMA NetDhcpStep ==
    ASSUME DhcpInv, net_dhcp
    PROVE  DhcpInv'
  <1> DEFINE tr == [w EXCEPT !.active = TRUE, !.got = FALSE, !.xid = now]
             c == [Idle EXCEPT !.k = "offer", !.att = 1]
  <1>1. Unleased /\ Post(Msg("discover", now, <<>>), tr, c)
    BY DEF net_dhcp, Unleased
  <1>2. IsW(tr) /\ ~tr.got
    BY DEF DhcpInv, Shapes, IsW
  <1>3. IsCall(c) /\ c.k = "offer"
    BY DEF IsCall, Idle
  <1> HIDE DEF tr, c
  <1> QED  BY <1>1, <1>2, <1>3, Posted

LEMMA ShellCall == CallShape => IsCall(call[Shell])
  BY ShellCalls DEF CallShape

LEMMA DhcpWaitStep ==
    ASSUME DhcpInv, dhcp_wait
    PROVE  DhcpInv'
  <1> DEFINE c == call[Shell]
  <1>1. Unleased /\ c.k \in {"offer", "ack"} /\ IsCall(c) /\ IsW(w)
    BY ShellCall DEF dhcp_wait, Unleased, DhcpInv, TransactionOK, Shapes, Dhcp
  <1>2. CASE w.got /\ UNCHANGED w
             /\ Busy(Shell, [c EXCEPT !.k = IF @ = "offer" THEN "offered" ELSE "acked"])
    <2> DEFINE f == [c EXCEPT !.k = IF @ = "offer" THEN "offered" ELSE "acked"]
    <2>1. IsCall(f) /\ f.k \in {"offered", "acked"}
      BY <1>1 DEF IsCall
    <2> HIDE DEF f, c
    <2>2. CallShape' /\ call'[Shell] = f
      BY <1>2, <2>1, BusyCall, ShellCalls DEF DhcpInv, f
    <2>3. w.msg.server \in DhcpServers
      BY <1>2 DEF DhcpInv, TransactionOK
    <2> QED  BY <1>1, <1>2, <2>1, <2>2, <2>3, DhcpCommand
  <1>3. CASE w.got /\ w' = [w EXCEPT !.active = FALSE] /\ Busy(Shell, Idle)
    <2>1. CallShape' /\ call'[Shell] = Idle
      BY <1>3, BusyCall, ShellCalls, IdleCall DEF DhcpInv
    <2>2. IsW(w') /\ w'.msg = w.msg /\ w.msg.server \in DhcpServers
      BY <1>1, <1>3 DEF IsW, DhcpInv, TransactionOK
    <2> QED  BY <1>1, <2>1, <2>2, DhcpCommand, IdleCall
  <1>4. CASE Again
    <2> DEFINE tr == [w EXCEPT !.got = FALSE, !.active = TRUE]
               f == [c EXCEPT !.att = @ + 1]
    <2>1. CASE \E m : Post(m, tr, f)
      <3>1. IsW(tr) /\ ~tr.got /\ IsCall(f) /\ f.k \in {"offer", "ack"}
        BY <1>1 DEF IsW, IsCall
      <3> HIDE DEF tr, f
      <3> QED  BY <1>1, <2>1, <3>1, Posted
    <2>2. CASE w' = [w EXCEPT !.active = FALSE] /\ Busy(Shell, Idle)
      <3>1. CallShape' /\ call'[Shell] = Idle
        BY <2>2, BusyCall, ShellCalls, IdleCall DEF DhcpInv
      <3>2. IsW(w') /\ w'.msg = w.msg /\ w'.got = w.got
        BY <1>1, <2>2 DEF IsW
      <3>3. w.got => w.msg.server \in DhcpServers
        BY DEF DhcpInv, TransactionOK
      <3> QED  BY <1>1, <3>1, <3>2, <3>3, DhcpCommand, IdleCall
    <2> QED  BY <1>4, <2>1, <2>2 DEF Again
  <1> QED  BY <1>2, <1>3, <1>4 DEF dhcp_wait

LEMMA DhcpRequestStep ==
    ASSUME DhcpInv, dhcp_request
    PROVE  DhcpInv'
  <1> DEFINE tr == [w EXCEPT !.got = FALSE, !.active = TRUE]
             c == [call[Shell] EXCEPT !.k = "ack", !.att = 1, !.server = w.msg.server]
  <1>1. Unleased /\ Post(Msg("request", w.xid, <<w.msg.server>>), tr, c)
    BY DEF dhcp_request, Unleased, DhcpInv, TransactionOK, Dhcp
  <1>2. IsW(tr) /\ ~tr.got
    BY DEF DhcpInv, Shapes, IsW
  <1>3. IsCall(c) /\ c.k = "ack"
    BY ShellCall DEF IsCall, DhcpInv
  <1> HIDE DEF tr, c
  <1> QED  BY <1>1, <1>2, <1>3, Posted

LEMMA DhcpAckedStep ==
    ASSUME DhcpInv, dhcp_acked
    PROVE  DhcpInv'
  <1> DEFINE c == [call[Shell] EXCEPT !.k = "apply", !.ip = Grant[w.msg.server]]
  <1>1. Unleased /\ Busy(Shell, c) /\ w' = [w EXCEPT !.active = FALSE]
    BY DEF dhcp_acked, Unleased, DhcpInv, TransactionOK, Dhcp
  <1>2. IsCall(c) /\ c.k = "apply" /\ c.ip = Grant[w.msg.server]
    BY ShellCall DEF IsCall, DhcpInv
  <1>3. IsW(w') /\ w'.msg = w.msg /\ ~w'.active
    BY <1>1 DEF DhcpInv, Shapes, IsW
  <1>4. w.msg.server \in DhcpServers
    BY DEF dhcp_acked, DhcpInv, TransactionOK
  <1> HIDE DEF c
  <1>5. CallShape' /\ call'[Shell] = c
    BY <1>1, <1>2, BusyCall, ShellCalls DEF DhcpInv
  <1> QED  BY <1>1, <1>2, <1>3, <1>4, <1>5, DhcpCommand

LEMMA DhcpAppliesStep ==
    ASSUME DhcpInv, dhcp_applies
    PROVE  DhcpInv'
  <1>1. CallShape' /\ call'[Shell] = Idle
    BY BusyCall, ShellCalls, IdleCall DEF DhcpInv, dhcp_applies
  <1>2. /\ dhcp_apply(call[Shell].ip, w.msg, now) /\ now' = now /\ now \in Time
        /\ w.msg.server \in DhcpServers /\ call[Shell].ip = Grant[w.msg.server]
    BY DEF dhcp_applies, DhcpInv, TransactionOK
  <1>3. call'[Shell].k \notin Dhcp
    BY <1>1, IdleCall DEF Dhcp
  <1> QED  BY <1>1, <1>2, <1>3, Applies

LEMMA DhcpInputStep ==
    ASSUME DhcpInv, NEW q, NEW s \in DhcpServers, NEW t, dhcp_input(q, s, t)
    PROVE  DhcpInv'
  <1>1. /\ w' = [w EXCEPT !.got = TRUE, !.msg = [t |-> t, server |-> s]] /\ w.active
        /\ UNCHANGED <<now, lease, renew, ip, call>>
    BY DEF dhcp_input
  <1>2. IsW(w') /\ w'.msg.server = s /\ w'.active = w.active
    BY <1>1 DEF DhcpInv, Shapes, IsW
  <1>3. Shapes' /\ LeaseOK' /\ ClockOK' /\ now' \in Time /\ CallShape'
    BY <1>1, <1>2 DEF DhcpInv, Shapes, LeaseOK, ClockOK, Clock, ClockAt, Future, Ahead, Minus,
                      CallShape, IsCall
  <1>4. TransactionOK'
    BY <1>1, <1>2 DEF DhcpInv, TransactionOK, Dhcp
  <1> QED  BY <1>3, <1>4 DEF DhcpInv

-----------------------------------------------------------------------------
(* The invariant of names and echo requests *)

\* A message that has been made while the last query had the number id, and
\* whether that query, for this name, is still waited for.
MsgFor(q, id, active, name) ==
    /\ q \in [k : {q.k}, n : {q.n}, name : {q.name}]
    /\ q.k = "ping" => q.name = <<>>
    /\ q.k = "dns" => /\ q.n \in Nat /\ q.n <= id /\ q.name \in Names
                      /\ q.n = id /\ active => q.name = name

MsgOK(q) == MsgFor(q, dnsw.id, dnsw.active, call[Shell].name)

MsgsOK ==
    /\ \A q \in asked : MsgOK(q)
    /\ MsgOK(frame)
    /\ \A p \in Callers : MsgOK(call[p].msg)

\* The shell is in the middle of a query.
InDns(c) == c.k = "dns" \/ (c.k = "arp" /\ c.msg.k = "dns")
\* It is not, nor can it be in the middle of one that it never ends.
Elsewhere(c) == ~InDns(c) /\ c.k # "lost"

ShellOK ==
    /\ InDns(call[Shell]) => dnsw.active
    /\ dnsw.active => ~Elsewhere(call[Shell])
    /\ dnsw.active => call[Shell].name \in Names
    /\ dnsw.active /\ dnsw.got /\ dnsw.ip # <<>> => dnsw.ip = call[Shell].name

EntryOK(e) ==
    /\ e \in [used : BOOLEAN, name : Seq(Letters), ip : Seq(Letters), expire : {e.expire}]
    /\ e.used => Prefix(e.ip, e.name)
CacheOK ==
    /\ cache = [i \in 1..CacheSlots |-> cache[i]] /\ rr \in Nat
    /\ \A i \in 1..CacheSlots : EntryOK(cache[i])

WaitShapes ==
    /\ dnsw \in [active : BOOLEAN, got : BOOLEAN, id : Nat, ip : {dnsw.ip}]
    /\ ping \in [active : BOOLEAN, got : BOOLEAN, seq : Nat]

NameInv == WaitShapes /\ MsgsOK /\ ShellOK /\ CacheOK /\ AnswerIsForName /\ PingMeansReply

LEMMA EchoOK == \A id, active, name : MsgFor(Echo, id, active, name)
  BY DEF MsgFor, Echo, Msg

LEMMA IdleMsg == Idle.msg = Echo /\ Elsewhere(Idle)
  BY DEF Idle, InDns, Elsewhere

LEMMA PlainMsg ==
    ASSUME NEW k \in {"udp", "discover", "request"}, NEW n, NEW nm, NEW id, NEW active, NEW name
    PROVE  MsgFor(Msg(k, n, nm), id, active, name)
  BY DEF MsgFor, Msg

\* What stays true of a message.
Keeps == \A q : MsgOK(q) => MsgFor(q, dnsw'.id, dnsw'.active, call'[Shell].name)

LEMMA KeepsSame ==
    ASSUME dnsw'.id = dnsw.id,
           dnsw'.active => dnsw.active /\ call'[Shell].name = call[Shell].name
    PROVE  Keeps
  BY DEF Keeps, MsgOK, MsgFor

LEMMA KeepsNew ==
    ASSUME dnsw.id \in Nat, dnsw'.id = dnsw.id + 1
    PROVE  Keeps
  BY DEF Keeps, MsgOK, MsgFor

LEMMA MsgsNext ==
    ASSUME MsgsOK, Keeps, NEW m, MsgFor(m, dnsw'.id, dnsw'.active, call'[Shell].name),
           \A q \in asked' : q \in asked \/ q \in {m, frame},
           frame' \in {Echo, m, frame},
           \A o \in Callers : call'[o].msg \in {Echo, m, call[o].msg}
    PROVE  MsgsOK'
  <1> DEFINE Ok(q) == MsgFor(q, dnsw'.id, dnsw'.active, call'[Shell].name)
  <1>1. \A q : MsgOK(q) => Ok(q)
    BY DEF Keeps
  <1>2. Ok(Echo) /\ Ok(m)
    BY EchoOK
  <1> HIDE DEF Ok
  <1>3. /\ \A q \in asked' : Ok(q)
        /\ Ok(frame')
        /\ \A p \in Callers : Ok(call'[p].msg)
    BY <1>1, <1>2 DEF MsgsOK
  <1> QED  BY <1>3 DEF MsgsOK, MsgOK, Ok

\* ipv4_send_via
LEMMA Sends ==
    ASSUME CallShape, NEW p \in Callers, NEW m, NEW hop, NEW c, IsCall(c), SendVia(p, m, hop, c)
    PROVE  /\ CallShape' /\ frame' \in {Echo, m}
           /\ asked \subseteq asked' /\ asked' \subseteq asked \cup {m}
           /\ \A o \in Callers : o # p => call'[o] = call[o]
           /\ call'[p].name = c.name
           /\ \/ call'[p].k = c.k /\ call'[p].msg = c.msg
              \/ call'[p].k = "arp" /\ call'[p].msg = m
  <1> DEFINE f == [c EXCEPT !.k = "arp", !.msg = m, !.hop = hop]
  <1>1. frame' \in {Echo, m}
    BY DEF SendVia
  <1>2. IsCall(f) /\ f.k = "arp" /\ f.msg = m /\ f.name = c.name
    BY DEF IsCall
  <1>3. CASE asked' = asked \cup {m} /\ Busy(p, c)
    BY <1>1, <1>3, BusyCall
  <1>4. CASE Busy(p, f) /\ asked' = asked
    <2> HIDE DEF f
    <2> QED  BY <1>1, <1>2, <1>4, BusyCall
  <1> QED  BY <1>3, <1>4 DEF SendVia

LEMMA NameInit == Init => NameInv
  <1> SUFFICES ASSUME Init PROVE NameInv
    OBVIOUS
  <1>1. /\ dnsw = [active |-> FALSE, got |-> FALSE, id |-> 0, ip |-> <<>>]
        /\ ping = [active |-> FALSE, got |-> FALSE, seq |-> 0]
        /\ res = [name |-> <<>>, ip |-> <<>>, cached |-> FALSE]
        /\ asked = {} /\ frame = Echo /\ rr = 0
        /\ call = [p \in Callers |-> Idle]
        /\ cache = [i \in 1..CacheSlots |-> [used |-> FALSE, name |-> <<>>, ip |-> <<>>, expire |-> 0]]
    BY DEF Init
  <1>2. WaitShapes
    BY <1>1 DEF WaitShapes
  <1>3. MsgsOK
    BY <1>1, EchoOK, IdleMsg DEF MsgsOK, MsgOK
  <1>4. ShellOK
    BY <1>1, IdleMsg, ShellCalls DEF ShellOK, Elsewhere
  <1>5. CacheOK
    BY <1>1 DEF CacheOK, EntryOK
  <1>6. AnswerIsForName
    <2>1. SubSeq(<<>>, 1, 0) = <<>> /\ Len(<<>>) = 0
      OBVIOUS
    <2> QED  BY <1>1, <2>1 DEF AnswerIsForName, Prefix
  <1>7. PingMeansReply
    BY <1>1 DEF PingMeansReply
  <1> QED  BY <1>2, <1>3, <1>4, <1>5, <1>6, <1>7 DEF NameInv

\* What has been sent grows by m, or loses what nobody listens to.
Adds(m) ==
    /\ \A q \in asked' : q \in asked \/ q = m
    /\ \A q \in asked : q.k = "ping" => q \in asked'

LEMMA PingKept ==
    ASSUME PingMeansReply, UNCHANGED ping, NEW m, Adds(m)
    PROVE  PingMeansReply'
  <1>1. Msg("ping", ping.seq, <<>>).k = "ping"
    BY DEF Msg
  <1> QED  BY <1>1 DEF PingMeansReply, Adds

\* Steps that have nothing to do with names.
LEMMA NamesAlone ==
    ASSUME NameInv, UNCHANGED <<dnsw, cache, rr, res, ping>>,
           NEW m, \A id, active, name : MsgFor(m, id, active, name), Adds(m),
           frame' \in {Echo, m, frame},
           \A o \in Callers : o # Shell => call'[o] = call[o],
           \/ call'[Shell] = call[Shell]
           \/ /\ Elsewhere(call[Shell]) /\ Elsewhere(call'[Shell])
              /\ call'[Shell].msg \in {Echo, call[Shell].msg}
    PROVE  NameInv'
  <1>1. ShellOK'
    BY DEF NameInv, ShellOK, Elsewhere, InDns
  <1>2. Keeps
    BY KeepsSame DEF NameInv, ShellOK
  <1>3. MsgsOK'
    <2>1. \A o \in Callers : call'[o].msg \in {Echo, m, call[o].msg}
      OBVIOUS
    <2> QED  BY <1>2, <2>1, MsgsNext DEF Adds, NameInv
  <1>4. PingMeansReply'
    BY PingKept DEF NameInv
  <1>5. WaitShapes' /\ CacheOK' /\ AnswerIsForName'
    BY DEF NameInv, WaitShapes, CacheOK, AnswerIsForName, EntryOK
  <1> QED  BY <1>1, <1>3, <1>4, <1>5 DEF NameInv

LEMMA AskedAdds ==
    ASSUME NEW m, Asked(m)
    PROVE  Adds(m)
  BY DEF Asked, Adds

LEMMA SameAdds ==
    ASSUME UNCHANGED asked, NEW m
    PROVE  Adds(m)
  BY DEF Adds

LEMMA TickNames ==
    ASSUME NameInv, net_tick
    PROVE  NameInv'
  <1> DEFINE t == Later(1)
  <1>1. UNCHANGED <<dnsw, cache, rr, res, ping, call>>
    BY DEF net_tick, nameVars
  <1>2. \E k \in {"request", "discover"} : \E nm :
          /\ UNCHANGED asked \/ Asked(Msg(k, t, nm))
          /\ frame' \in {Echo, Msg(k, t, nm), frame}
    <2>1. dhcp_renew_check(t)
      BY DEF net_tick
    <2> DEFINE heard == w.renewing /\ w.got
               nak   == heard /\ w.msg.t = "nak"
               was   == IF nak THEN 3 ELSE renew.state
               st    == NextState(was, t)
               m     == CASE st = 1 -> Msg("request", t, <<lease.server>>)
                          [] st = 2 -> Msg("request", t, <<>>)
                          [] OTHER  -> Msg("discover", t, <<>>)
    <2>2. (UNCHANGED asked \/ Asked(m)) /\ frame' \in {Echo, m, frame}
      BY <2>1 DEF dhcp_renew_check, Framed
    <2>3. m \in {Msg("request", t, <<lease.server>>), Msg("request", t, <<>>), Msg("discover", t, <<>>)}
      <3> HIDE DEF st, t
      <3> QED  OBVIOUS
    <2> HIDE DEF m, t
    <2> QED  BY <2>2, <2>3
  <1> HIDE DEF t
  <1>3. PICK k \in {"request", "discover"} : \E nm :
          /\ UNCHANGED asked \/ Asked(Msg(k, t, nm))
          /\ frame' \in {Echo, Msg(k, t, nm), frame}
    BY <1>2
  <1>4. PICK nm : /\ UNCHANGED asked \/ Asked(Msg(k, t, nm))
                  /\ frame' \in {Echo, Msg(k, t, nm), frame}
    BY <1>3
  <1> DEFINE m == Msg(k, t, nm)
  <1>5. \A id, active, name : MsgFor(m, id, active, name)
    BY PlainMsg
  <1> HIDE DEF m
  <1>6. Adds(m)
    BY <1>4, AskedAdds, SameAdds DEF m
  <1> QED  BY <1>1, <1>4, <1>5, <1>6, NamesAlone DEF m

\* dhcp_send
LEMMA PostNames ==
    ASSUME DhcpInv, NameInv, UNCHANGED <<dnsw, cache, rr, res, ping>>,
           NEW k \in {"request", "discover"}, NEW n, NEW nm,
           NEW tr, NEW c, Post(Msg(k, n, nm), tr, c), IsCall(c),
           Elsewhere(call[Shell]), Elsewhere(c), c.msg \in {Echo, call[Shell].msg}
    PROVE  NameInv'
  <1> DEFINE m == Msg(k, n, nm)
  <1>1. /\ (Asked(m) /\ Busy(Shell, c)) \/ (Busy(Shell, Idle) /\ UNCHANGED asked)
        /\ frame' \in {Echo, m}
    BY DEF Post, Framed
  <1> HIDE DEF m
  <1>2. Adds(m)
    BY <1>1, AskedAdds, SameAdds
  <1>3. PICK e \in {c, Idle} : Busy(Shell, e)
    BY <1>1
  <1>4. IsCall(e) /\ Elsewhere(e) /\ e.msg \in {Echo, call[Shell].msg}
    BY <1>3, IdleCall, IdleMsg
  <1>5. call'[Shell] = e /\ \A o \in Callers : o # Shell => call'[o] = call[o]
    BY <1>3, <1>4, BusyCall, ShellCalls DEF DhcpInv
  <1>6. \A id, active, name : MsgFor(m, id, active, name)
    BY PlainMsg DEF m
  <1> QED  BY <1>1, <1>2, <1>4, <1>5, <1>6, NamesAlone

\* The other steps of a dhcp command.
LEMMA BusyNames ==
    ASSUME DhcpInv, NameInv, UNCHANGED <<frame, dnsw, cache, rr, res, ping, asked>>,
           NEW c, Busy(Shell, c), IsCall(c),
           Elsewhere(call[Shell]), Elsewhere(c), c.msg \in {Echo, call[Shell].msg}
    PROVE  NameInv'
  <1>1. call'[Shell] = c /\ \A o \in Callers : o # Shell => call'[o] = call[o]
    BY BusyCall, ShellCalls DEF DhcpInv
  <1>2. Adds(Echo)
    BY SameAdds
  <1> QED  BY <1>1, <1>2, EchoOK, NamesAlone

LEMMA NetDhcpNames ==
    ASSUME DhcpInv, NameInv, net_dhcp
    PROVE  NameInv'
  <1> DEFINE c == [Idle EXCEPT !.k = "offer", !.att = 1]
  <1>1. UNCHANGED <<dnsw, cache, rr, res, ping>> /\ Elsewhere(call[Shell])
    BY DEF net_dhcp, nameVars, Command, InDns, Elsewhere
  <1>2. IsCall(c) /\ Elsewhere(c) /\ c.msg = Echo
    BY DEF IsCall, Idle, InDns, Elsewhere
  <1>3. \E tr : Post(Msg("discover", now, <<>>), tr, c)
    BY DEF net_dhcp
  <1> HIDE DEF c
  <1> QED  BY <1>1, <1>2, <1>3, PostNames

LEMMA DhcpWaitNames ==
    ASSUME DhcpInv, NameInv, dhcp_wait
    PROVE  NameInv'
  <1> DEFINE c == call[Shell]
             f == [c EXCEPT !.k = IF c.k = "offer" THEN "offered" ELSE "acked"]
             g == [c EXCEPT !.att = c.att + 1]
  <1>1. UNCHANGED <<dnsw, cache, rr, res, ping>> /\ c.k \in {"offer", "ack"} /\ IsCall(c)
    BY ShellCall DEF dhcp_wait, nameVars, DhcpInv
  <1>2. IsCall(f) /\ Elsewhere(f) /\ f.msg = c.msg
    BY <1>1 DEF IsCall, InDns, Elsewhere
  <1>3. IsCall(g) /\ Elsewhere(g) /\ g.msg = c.msg
    BY <1>1 DEF IsCall, InDns, Elsewhere
  <1>4. Elsewhere(c)
    BY <1>1 DEF InDns, Elsewhere
  <1>5. \/ Busy(Shell, f) /\ UNCHANGED <<frame, asked>>
        \/ Busy(Shell, Idle) /\ UNCHANGED <<frame, asked>>
        \/ \E k \in {"request", "discover"} : \E nm, tr : Post(Msg(k, w.xid, nm), tr, g)
    BY DEF dhcp_wait, Again
  <1> HIDE DEF c, f, g
  <1>6. CASE Busy(Shell, f) /\ UNCHANGED <<frame, asked>>
    BY <1>1, <1>2, <1>4, <1>6, BusyNames DEF c
  <1>7. CASE Busy(Shell, Idle) /\ UNCHANGED <<frame, asked>>
    BY <1>1, <1>4, <1>7, BusyNames, IdleCall, IdleMsg DEF c
  <1>8. CASE \E k \in {"request", "discover"} : \E nm, tr : Post(Msg(k, w.xid, nm), tr, g)
    BY <1>1, <1>3, <1>4, <1>8, PostNames DEF c
  <1> QED  BY <1>5, <1>6, <1>7, <1>8

LEMMA DhcpRequestNames ==
    ASSUME DhcpInv, NameInv, dhcp_request
    PROVE  NameInv'
  <1> DEFINE c == call[Shell]
             g == [c EXCEPT !.k = "ack", !.att = 1, !.server = w.msg.server]
  <1>1. UNCHANGED <<dnsw, cache, rr, res, ping>> /\ c.k = "offered" /\ IsCall(c)
    BY ShellCall DEF dhcp_request, nameVars, DhcpInv
  <1>2. IsCall(g) /\ Elsewhere(g) /\ g.msg = c.msg /\ Elsewhere(c)
    BY <1>1 DEF IsCall, InDns, Elsewhere
  <1>3. \E nm, tr : Post(Msg("request", w.xid, nm), tr, g)
    BY DEF dhcp_request
  <1> HIDE DEF c, g
  <1> QED  BY <1>1, <1>2, <1>3, PostNames DEF c

LEMMA DhcpAckedNames ==
    ASSUME DhcpInv, NameInv, dhcp_acked
    PROVE  NameInv'
  <1> DEFINE c == call[Shell]
             g == [c EXCEPT !.k = "apply", !.ip = Grant[w.msg.server]]
  <1>1. UNCHANGED <<frame, dnsw, cache, rr, res, ping, asked>> /\ c.k = "acked" /\ IsCall(c)
    BY ShellCall DEF dhcp_acked, nameVars, DhcpInv
  <1>2. IsCall(g) /\ Elsewhere(g) /\ g.msg = c.msg /\ Elsewhere(c)
    BY <1>1 DEF IsCall, InDns, Elsewhere
  <1>3. Busy(Shell, g)
    BY DEF dhcp_acked
  <1> HIDE DEF c, g
  <1> QED  BY <1>1, <1>2, <1>3, BusyNames DEF c

LEMMA DhcpAppliesNames ==
    ASSUME DhcpInv, NameInv, dhcp_applies
    PROVE  NameInv'
  <1>1. UNCHANGED <<frame, dnsw, cache, rr, res, ping, asked>> /\ Elsewhere(call[Shell])
    BY DEF dhcp_applies, nameVars, InDns, Elsewhere
  <1>2. Busy(Shell, Idle)
    BY DEF dhcp_applies
  <1> QED  BY <1>1, <1>2, BusyNames, IdleCall, IdleMsg

LEMMA DhcpInputNames ==
    ASSUME NameInv, NEW q, NEW s, NEW t, dhcp_input(q, s, t)
    PROVE  NameInv'
  <1>1. UNCHANGED <<frame, dnsw, cache, rr, res, ping, asked, call>>
    BY DEF dhcp_input, nameVars
  <1>2. Adds(Echo)
    BY <1>1, SameAdds
  <1> QED  BY <1>1, <1>2, EchoOK, NamesAlone

-----------------------------------------------------------------------------
(* Frames, datagrams and echo requests *)

LEMMA SameCalls == ASSUME CallShape, UNCHANGED call PROVE CallShape' /\ ShellKept
  BY DEF CallShape, IsCall, ShellKept

LEMMA InputStep ==
    ASSUME DhcpInv, NameInv, NEW h, net_input(h)
    PROVE  DhcpInv' /\ NameInv'
  <1>1. /\ UNCHANGED <<now, lease, renew, w, ip, call>>
        /\ UNCHANGED <<dnsw, cache, rr, res, ping, asked, call>> /\ frame' \in {frame, Echo}
    BY DEF net_input, dhcpVars, nameVars
  <1>2. DhcpInv'
    BY <1>1, SameCalls, DhcpAlone DEF DhcpInv
  <1>3. Keeps
    BY <1>1, KeepsSame
  <1>4. MsgsOK'
    BY <1>1, <1>3, EchoOK, MsgsNext DEF NameInv
  <1>5. WaitShapes' /\ ShellOK' /\ CacheOK' /\ AnswerIsForName' /\ PingMeansReply'
    BY <1>1 DEF NameInv, WaitShapes, ShellOK, CacheOK, EntryOK, AnswerIsForName, PingMeansReply, InDns, Elsewhere
  <1> QED  BY <1>2, <1>4, <1>5 DEF NameInv

LEMMA EchoReplyStep ==
    ASSUME DhcpInv, NameInv, NEW q \in asked, EchoReply(q)
    PROVE  DhcpInv' /\ NameInv'
  <1>1. /\ UNCHANGED <<now, lease, renew, w, ip, call>>
        /\ UNCHANGED <<frame, dnsw, cache, rr, res, asked>>
        /\ ping' = [ping EXCEPT !.got = TRUE] /\ q.k = "ping" /\ q.n = ping.seq
    BY DEF EchoReply, dhcpVars, nameVars
  <1>2. DhcpInv'
    BY <1>1, SameCalls, DhcpAlone DEF DhcpInv
  <1>3. q = Msg("ping", ping.seq, <<>>)
    BY <1>1 DEF NameInv, MsgsOK, MsgOK, MsgFor, Msg
  <1>4. ping' \in [active : BOOLEAN, got : BOOLEAN, seq : Nat] /\ ping'.seq = ping.seq
    BY <1>1 DEF NameInv, WaitShapes
  <1>5. PingMeansReply'
    BY <1>1, <1>3, <1>4 DEF PingMeansReply
  <1>6. WaitShapes' /\ MsgsOK' /\ ShellOK' /\ CacheOK' /\ AnswerIsForName'
    BY <1>1, <1>4 DEF NameInv, WaitShapes, MsgsOK, MsgOK, ShellOK, CacheOK, EntryOK,
                      AnswerIsForName, InDns, Elsewhere
  <1> QED  BY <1>2, <1>5, <1>6 DEF NameInv

LEMMA PingEndsStep ==
    ASSUME DhcpInv, NameInv, ping_ends
    PROVE  DhcpInv' /\ NameInv'
  <1>1. /\ UNCHANGED <<now, lease, renew, w, ip>> /\ UNCHANGED <<frame, dnsw, cache, rr, res, asked>>
        /\ ping' = [ping EXCEPT !.active = FALSE] /\ Busy(Shell, Idle) /\ Elsewhere(call[Shell])
    BY DEF ping_ends, dhcpVars, nameVars, InDns, Elsewhere
  <1>2. /\ CallShape' /\ call'[Shell] = Idle
        /\ \A o \in Callers : o # Shell => call'[o] = call[o]
    BY <1>1, BusyCall, ShellCalls, IdleCall DEF DhcpInv
  <1>3. DhcpInv'
    <2>1. ShellKept
      BY <1>2, IdleCall DEF ShellKept, Dhcp
    <2> QED  BY <1>1, <1>2, <2>1, DhcpAlone
  <1>4. Keeps
    BY <1>1, KeepsSame DEF NameInv, ShellOK
  <1>5. MsgsOK'
    <2>1. \A o \in Callers : call'[o].msg \in {Echo, call[o].msg}
      BY <1>2, IdleMsg
    <2> QED  BY <1>1, <1>4, <2>1, EchoOK, MsgsNext DEF NameInv
  <1>6. /\ ping' \in [active : BOOLEAN, got : BOOLEAN, seq : Nat]
        /\ ping'.seq = ping.seq /\ ping'.got = ping.got
    BY <1>1 DEF NameInv, WaitShapes
  <1>7. WaitShapes' /\ CacheOK' /\ AnswerIsForName' /\ PingMeansReply'
    BY <1>1, <1>6 DEF NameInv, WaitShapes, CacheOK, EntryOK, AnswerIsForName, PingMeansReply
  <1>8. ShellOK'
    BY <1>1, <1>2, IdleMsg DEF NameInv, ShellOK, Elsewhere
  <1> QED  BY <1>3, <1>5, <1>7, <1>8 DEF NameInv

LEMMA PlainSend ==
    ASSUME DhcpInv, NameInv, UNCHANGED <<now, lease, renew, w, ip, dnsw, cache, rr, res>>,
           NEW p \in Callers, NEW m, NEW hop, NEW c, IsCall(c), SendVia(p, m, hop, c),
           \A id, active, name : MsgFor(m, id, active, name), m.k # "dns",
           c.msg = Echo, c.k \notin Dhcp \cup {"dns", "arp"}, p = Shell => Elsewhere(call[Shell])
    PROVE  DhcpInv' /\ WaitShapes!1' /\ MsgsOK' /\ ShellOK' /\ CacheOK' /\ AnswerIsForName'
           /\ asked \subseteq asked'
  <1>1. /\ CallShape' /\ frame' \in {Echo, m}
        /\ asked \subseteq asked' /\ asked' \subseteq asked \cup {m}
        /\ \A o \in Callers : o # p => call'[o] = call[o]
        /\ \/ call'[p].k = c.k /\ call'[p].msg = c.msg
           \/ call'[p].k = "arp" /\ call'[p].msg = m
    BY Sends DEF DhcpInv
  <1>2. ShellKept
    BY <1>1, ShellCalls DEF ShellKept, Dhcp
  <1>3. DhcpInv'
    BY <1>1, <1>2, DhcpAlone
  <1>4. p = Shell => ~InDns(call'[Shell])
    BY <1>1 DEF InDns
  <1>5. ShellOK'
    BY <1>1, <1>4, ShellCalls DEF NameInv, ShellOK, Elsewhere
  <1>6. Keeps
    <2>1. dnsw'.active => dnsw.active /\ call'[Shell].name = call[Shell].name
      BY <1>1, ShellCalls DEF NameInv, ShellOK
    <2> QED  BY <2>1, KeepsSame
  <1>7. MsgsOK'
    <2>1. \A o \in Callers : call'[o].msg \in {Echo, m, call[o].msg}
      BY <1>1
    <2> QED  BY <1>1, <1>6, <2>1, MsgsNext DEF NameInv
  <1>8. WaitShapes!1' /\ CacheOK' /\ AnswerIsForName'
    BY DEF NameInv, WaitShapes, CacheOK, EntryOK, AnswerIsForName
  <1> QED  BY <1>1, <1>3, <1>5, <1>7, <1>8

LEMMA UdpStep ==
    ASSUME DhcpInv, NameInv, NEW p, NEW h, net_udp_send(p, h)
    PROVE  DhcpInv' /\ NameInv'
  <1> DEFINE m == Msg("udp", 0, <<>>)
  <1>1. /\ UNCHANGED <<now, lease, renew, w, ip, dnsw, cache, rr, res>> /\ UNCHANGED ping
        /\ p \in Callers /\ p # Shell /\ SendVia(p, m, h, Idle)
    BY NetConfAssumption DEF net_udp_send, dhcpVars, nameVars, Callers
  <1>2. (\A id, active, name : MsgFor(m, id, active, name)) /\ m.k # "dns"
    BY PlainMsg DEF Msg
  <1>3. Idle.msg = Echo /\ Idle.k \notin Dhcp \cup {"dns", "arp"}
    BY DEF Idle, Dhcp
  <1> HIDE DEF m
  <1>4. DhcpInv' /\ WaitShapes!1' /\ MsgsOK' /\ ShellOK' /\ CacheOK' /\ AnswerIsForName'
          /\ asked \subseteq asked'
    BY <1>1, <1>2, <1>3, IdleCall, PlainSend
  <1>5. WaitShapes' /\ PingMeansReply'
    BY <1>1, <1>4 DEF NameInv, WaitShapes, PingMeansReply
  <1> QED  BY <1>4, <1>5 DEF NameInv

LEMMA PingStep ==
    ASSUME DhcpInv, NameInv, NEW h, net_ping(h)
    PROVE  DhcpInv' /\ NameInv'
  <1> DEFINE m == Msg("ping", ping.seq + 1, <<>>)
             c == [Idle EXCEPT !.k = "ping"]
  <1>1. /\ UNCHANGED <<now, lease, renew, w, ip, dnsw, cache, rr, res>> /\ Elsewhere(call[Shell])
        /\ ping' = [active |-> TRUE, got |-> FALSE, seq |-> ping.seq + 1]
        /\ SendVia(Shell, m, h, c)
    BY DEF net_ping, dhcpVars, nameVars, Command, InDns, Elsewhere
  <1>2. (\A id, active, name : MsgFor(m, id, active, name)) /\ m.k # "dns"
    BY DEF Msg, MsgFor
  <1>3. IsCall(c) /\ c.msg = Echo /\ c.k \notin Dhcp \cup {"dns", "arp"}
    BY DEF Idle, Dhcp, IsCall
  <1> HIDE DEF m, c
  <1>4. DhcpInv' /\ WaitShapes!1' /\ MsgsOK' /\ ShellOK' /\ CacheOK' /\ AnswerIsForName'
    BY <1>1, <1>2, <1>3, ShellCalls, PlainSend
  <1>5. WaitShapes' /\ PingMeansReply'
    BY <1>1, <1>4 DEF NameInv, WaitShapes, PingMeansReply
  <1> QED  BY <1>4, <1>5 DEF NameInv

\* arp_resolve: what goes out may be somebody else's, but it is a message.
LEMMA ArpResolveStep ==
    ASSUME DhcpInv, NameInv, NEW p \in Callers, arp_resolve(p)
    PROVE  DhcpInv' /\ NameInv'
  <1> DEFINE c == call[p]
             f == IF p = Shell THEN After(c) ELSE Idle
  <1>1. /\ c.k = "arp" /\ IsCall(c)
        /\ UNCHANGED <<now, lease, renew, w, ip>> /\ UNCHANGED <<cache, rr, res>>
        /\ frame' \in {frame, Echo}
    BY DEF arp_resolve, dhcpVars, DhcpInv, CallShape
  <1>2. IsCall(After(c)) /\ After(c).msg = Echo /\ After(c).name = c.name
    BY <1>1 DEF After, IsCall
  <1>3. After(c).k \in {"dns", "ping", "idle"} /\ (After(c).k = "dns" <=> c.msg.k = "dns")
    BY <1>1 DEF After, IsCall
  <1>4. CASE asked' = asked \cup {frame} /\ Busy(p, f) /\ UNCHANGED <<dnsw, ping>>
    <2>1. IsCall(f) /\ f.msg = Echo /\ f.k \notin Dhcp \cup {"arp"}
      BY <1>2, <1>3, IdleCall, IdleMsg DEF Dhcp
    <2>2. p = Shell => f = After(c)
      OBVIOUS
    <2> HIDE DEF c, f
    <2>3. CallShape' /\ call'[p] = f /\ \A o \in Callers : o # p => call'[o] = call[o]
      BY <1>4, <2>1, BusyCall DEF DhcpInv
    <2>4. ShellKept
      BY <2>1, <2>3, ShellCalls DEF ShellKept
    <2>5. DhcpInv'
      BY <1>1, <2>3, <2>4, DhcpAlone
    <2>6. /\ call'[Shell].name = call[Shell].name
          /\ InDns(call'[Shell]) <=> InDns(call[Shell])
          /\ Elsewhere(call'[Shell]) <=> Elsewhere(call[Shell])
      <3>1. CASE p = Shell
        BY <1>1, <1>2, <1>3, <2>2, <2>3, <3>1 DEF InDns, Elsewhere, c
      <3>2. CASE p # Shell
        BY <2>3, <3>2, ShellCalls
      <3> QED  BY <3>1, <3>2
    <2>7. ShellOK'
      BY <1>4, <2>6 DEF NameInv, ShellOK
    <2>8. Keeps
      BY <1>4, <2>6, KeepsSame
    <2>9. MsgsOK'
      <3>1. \A o \in Callers : call'[o].msg \in {Echo, call[o].msg}
        BY <2>1, <2>3
      <3> QED  BY <1>1, <1>4, <2>8, <3>1, EchoOK, MsgsNext DEF NameInv
    <2>10. WaitShapes' /\ CacheOK' /\ AnswerIsForName' /\ PingMeansReply'
      BY <1>1, <1>4 DEF NameInv, WaitShapes, CacheOK, EntryOK, AnswerIsForName, PingMeansReply
    <2> QED  BY <2>5, <2>7, <2>9, <2>10 DEF NameInv
  <1>5. CASE Fails(p) /\ UNCHANGED asked
    <2>1. CallShape' /\ call'[p] = Idle /\ \A o \in Callers : o # p => call'[o] = call[o]
      BY <1>5, BusyCall, IdleCall DEF DhcpInv, Fails
    <2>2. ShellKept
      BY <2>1, ShellCalls, IdleCall DEF ShellKept, Dhcp
    <2>3. DhcpInv'
      BY <1>1, <2>1, <2>2, DhcpAlone
    <2>4. /\ dnsw'.id = dnsw.id
          /\ dnsw' \in [active : BOOLEAN, got : BOOLEAN, id : Nat, ip : {dnsw'.ip}]
          /\ p = Shell => ~dnsw'.active
          /\ p # Shell => dnsw' = dnsw
      BY <1>5 DEF Fails, NameInv, WaitShapes
    <2>5. /\ ping' \in [active : BOOLEAN, got : BOOLEAN, seq : Nat]
          /\ ping'.got = ping.got /\ ping'.seq = ping.seq
      BY <1>5 DEF Fails, NameInv, WaitShapes
    <2>6. ShellOK'
      <3>1. CASE p = Shell
        BY <2>1, <2>4, <3>1, IdleMsg DEF ShellOK, Elsewhere
      <3>2. CASE p # Shell
        BY <2>1, <2>4, <3>2, ShellCalls DEF NameInv, ShellOK
      <3> QED  BY <3>1, <3>2
    <2>7. Keeps
      BY <2>1, <2>4, ShellCalls, KeepsSame
    <2>8. MsgsOK'
      <3>1. \A o \in Callers : call'[o].msg \in {Echo, call[o].msg}
        BY <2>1, IdleMsg
      <3> QED  BY <1>1, <1>5, <2>7, <3>1, EchoOK, MsgsNext DEF NameInv
    <2>9. WaitShapes' /\ CacheOK' /\ AnswerIsForName' /\ PingMeansReply'
      BY <1>1, <1>5, <2>4, <2>5
         DEF NameInv, WaitShapes, CacheOK, EntryOK, AnswerIsForName, PingMeansReply
    <2> QED  BY <2>3, <2>6, <2>8, <2>9 DEF NameInv
  <1> QED  BY <1>4, <1>5 DEF arp_resolve

-----------------------------------------------------------------------------
(* DNS *)

LEMMA PrefixSelf ==
    ASSUME NEW s \in Seq(Letters)
    PROVE  Prefix(s, s)
  BY SubSeqFull DEF Prefix

\* The key stands at the start of what the slot shows.
LEMMA NamedPrefix ==
    ASSUME NEW old \in Seq(Letters), NEW key \in Seq(Letters)
    PROVE  Named(old, key) \in Seq(Letters) /\ Prefix(key, Named(old, key))
  <1> DEFINE t == SubSeq(old, Len(key) + 1, Len(old))
             n == key \o t
  <1>1. Len(key) \in Nat /\ Len(old) \in Nat
    OBVIOUS
  <1>2. t \in Seq(Letters)
    <2>1. \A i \in (Len(key) + 1)..Len(old) : old[i] \in Letters
      BY <1>1
    <2> QED  BY <1>1, <2>1, SubSeqProperties
  <1> HIDE DEF t
  <1>3. /\ n \in Seq(Letters) /\ Len(n) = Len(key) + Len(t)
        /\ \A i \in 1..(Len(key) + Len(t)) : n[i] = IF i <= Len(key) THEN key[i] ELSE t[i - Len(key)]
    BY <1>2, ConcatProperties
  <1>4. Len(t) \in Nat
    BY <1>2
  <1> HIDE DEF n
  <1> DEFINE u == SubSeq(n, 1, Len(key))
  <1>5. \A i \in 1..Len(key) : n[i] \in Letters /\ n[i] = key[i]
    BY <1>1, <1>3, <1>4
  <1>6. /\ u \in Seq(Letters) /\ Len(u) = (IF 1 <= Len(key) THEN Len(key) - 1 + 1 ELSE 0)
        /\ \A i \in 1..(Len(key) - 1 + 1) : u[i] = n[1 + i - 1]
    BY <1>1, <1>5, SubSeqProperties
  <1>7. Len(u) = Len(key) /\ \A i \in 1..Len(key) : u[i] = key[i]
    BY <1>1, <1>5, <1>6
  <1>8. u = key
    BY <1>6, <1>7, SeqEqual
  <1> QED  BY <1>3, <1>8 DEF Named, Prefix, n, t, u

LEMMA LeastNat ==
    ASSUME NEW S \in SUBSET Nat, S # {}
    PROVE  \E f \in S : \A g \in S : f <= g
  <1>1. IsWellFoundedOn({ss \in Nat \X Nat : ss[1] < ss[2]}, Nat)
    BY NatLessThanWellFounded DEF OpToRel
  <1>2. PICK f \in S : \A g \in S : ~(<<g, f>> \in {ss \in Nat \X Nat : ss[1] < ss[2]})
    BY <1>1, WFMin, Zenon
  <1>3. \A g \in S : f <= g
    <2>1. ASSUME NEW g \in S PROVE f <= g
      BY <1>2, ~(g < f)
    <2> QED  BY <2>1
  <1> QED  BY <1>3

LEMMA FindIn ==
    ASSUME NEW name, Find(name) # 0
    PROVE  /\ Find(name) \in 1..CacheSlots
           /\ cache[Find(name)].used /\ cache[Find(name)].name = name
  <1> DEFINE S == {i \in 1..CacheSlots : cache[i].used /\ cache[i].name = name}
  <1>1. S # {} /\ Find(name) = CHOOSE i \in S : \A j \in S : i <= j
    BY DEF Find
  <1>2. S \in SUBSET Nat
    BY NetConfAssumption
  <1>3. \E i \in S : \A j \in S : i <= j
    <2> HIDE DEF S
    <2> QED  BY <1>1, <1>2, LeastNat
  <1>4. Find(name) \in S
    BY <1>1, <1>3
  <1> QED  BY <1>4

LEMMA DnsInputStep ==
    ASSUME DhcpInv, NameInv, NEW q \in asked, NEW ok \in BOOLEAN, dns_input(q, ok)
    PROVE  DhcpInv' /\ NameInv'
  <1>1. /\ UNCHANGED <<now, lease, renew, w, ip, call>>
        /\ UNCHANGED <<frame, cache, rr, res, ping, asked>>
        /\ q.k = "dns" /\ dnsw.active /\ q.n = dnsw.id
        /\ dnsw' = [dnsw EXCEPT !.got = TRUE, !.ip = IF ok THEN q.name ELSE <<>>]
    BY DEF dns_input, dhcpVars
  <1>2. DhcpInv'
    BY <1>1, SameCalls, DhcpAlone DEF DhcpInv
  <1>3. q.name = call[Shell].name
    BY <1>1 DEF NameInv, MsgsOK, MsgOK, MsgFor
  <1>4. /\ dnsw' \in [active : BOOLEAN, got : BOOLEAN, id : Nat, ip : {dnsw'.ip}]
        /\ dnsw'.id = dnsw.id /\ dnsw'.active = dnsw.active
        /\ dnsw'.ip = IF ok THEN q.name ELSE <<>>
    BY <1>1 DEF NameInv, WaitShapes
  <1>5. ShellOK'
    BY <1>1, <1>3, <1>4 DEF NameInv, ShellOK, InDns, Elsewhere
  <1>6. MsgsOK'
    BY <1>1, <1>4 DEF NameInv, MsgsOK, MsgOK
  <1>7. WaitShapes' /\ CacheOK' /\ AnswerIsForName' /\ PingMeansReply'
    BY <1>1, <1>4 DEF NameInv, WaitShapes, CacheOK, EntryOK, AnswerIsForName, PingMeansReply
  <1> QED  BY <1>2, <1>5, <1>6, <1>7 DEF NameInv

\* A query for the name the shell resolves.
LEMMA QuerySent ==
    ASSUME DhcpInv, NameInv, UNCHANGED <<now, lease, renew, w, ip, ping>>,
           NEW n \in Nat, NEW name \in Names, NEW hop, NEW c, IsCall(c), c.k = "dns", c.name = name,
           c.msg = Echo \/ c.msg = call[Shell].msg,
           SendVia(Shell, Msg("dns", n, name), hop, c),
           dnsw'.id = n, dnsw'.active, ~dnsw'.got,
           \/ dnsw.id + 1 = n
           \/ dnsw.id = n /\ dnsw.active /\ call[Shell].name = name
    PROVE  DhcpInv' /\ MsgsOK' /\ ShellOK' /\ PingMeansReply'
  <1> DEFINE m == Msg("dns", n, name)
  <1>1. m.k = "dns" /\ \A active : MsgFor(m, n, active, name)
    BY DEF Msg, MsgFor
  <1> HIDE DEF m
  <1>2. /\ CallShape' /\ frame' \in {Echo, m}
        /\ asked \subseteq asked' /\ asked' \subseteq asked \cup {m}
        /\ \A o \in Callers : o # Shell => call'[o] = call[o]
        /\ call'[Shell].name = name
        /\ \/ call'[Shell].k = "dns" /\ call'[Shell].msg = c.msg
           \/ call'[Shell].k = "arp" /\ call'[Shell].msg = m
    BY Sends, ShellCalls DEF DhcpInv, m
  <1>3. DhcpInv'
    <2>1. ShellKept
      BY <1>2 DEF ShellKept, Dhcp
    <2> QED  BY <1>2, <2>1, DhcpAlone
  <1>4. ShellOK'
    BY <1>1, <1>2 DEF ShellOK, InDns, Elsewhere
  <1>5. Keeps
    <2>1. dnsw.id \in Nat
      BY DEF NameInv, WaitShapes
    <2> QED  BY <1>2, <2>1, KeepsSame, KeepsNew
  <1>6. MsgsOK'
    <2>1. \A o \in Callers : call'[o].msg \in {Echo, m, call[o].msg}
      BY <1>2
    <2>2. MsgFor(m, dnsw'.id, dnsw'.active, call'[Shell].name)
      BY <1>1, <1>2
    <2> QED  BY <1>2, <1>5, <2>1, <2>2, MsgsNext DEF NameInv
  <1>7. PingMeansReply'
    BY <1>2 DEF NameInv, PingMeansReply
  <1> QED  BY <1>3, <1>4, <1>6, <1>7

LEMMA ResolveStep ==
    ASSUME DhcpInv, NameInv, NEW name \in Names, net_dns_resolve(name)
    PROVE  DhcpInv' /\ NameInv'
  <1>1. UNCHANGED <<now, lease, renew, w, ip, ping>> /\ call[Shell].k = "idle"
    BY DEF net_dns_resolve, dhcpVars, Command
  <1>2. CASE Fresh(name) /\ res' = [name |-> name, ip |-> cache[Find(name)].ip, cached |-> TRUE]
             /\ UNCHANGED <<cache, rr, dnsw, frame, call, asked>>
    <2>1. DhcpInv'
      BY <1>1, <1>2, SameCalls, DhcpAlone DEF DhcpInv
    <2>2. Prefix(cache[Find(name)].ip, name)
      BY <1>2, FindIn DEF Fresh, NameInv, CacheOK, EntryOK
    <2>3. AnswerIsForName'
      BY <1>2, <2>2 DEF AnswerIsForName
    <2>4. WaitShapes' /\ MsgsOK' /\ ShellOK' /\ CacheOK' /\ PingMeansReply'
      BY <1>1, <1>2 DEF NameInv, WaitShapes, MsgsOK, MsgOK, ShellOK, CacheOK, EntryOK,
                        PingMeansReply, InDns, Elsewhere
    <2> QED  BY <2>1, <2>3, <2>4 DEF NameInv
  <1>3. CASE /\ cache' = IF Find(name) = 0 THEN cache ELSE [cache EXCEPT ![Find(name)].used = FALSE]
             /\ dnsw' = [active |-> TRUE, got |-> FALSE, id |-> dnsw.id + 1, ip |-> dnsw.ip]
             /\ Query(name, dnsw.id + 1, 1) /\ UNCHANGED <<rr, res>>
    <2> DEFINE n == dnsw.id + 1
               c == [Idle EXCEPT !.k = "dns", !.name = name, !.s = 1, !.att = 1]
               hop == Hop(dns.srv[1])
    <2>1. n \in Nat /\ dnsw'.id = n /\ dnsw'.active /\ ~dnsw'.got
      BY <1>3 DEF NameInv, WaitShapes
    <2>2. IsCall(c) /\ c.k = "dns" /\ c.name = name /\ c.msg = Echo
      BY DEF Idle, IsCall
    <2>3. SendVia(Shell, Msg("dns", n, name), hop, c)
      BY <1>3 DEF Query
    <2>4. dnsw.id + 1 = n
      OBVIOUS
    <2> HIDE DEF n, c, hop
    <2>5. DhcpInv' /\ MsgsOK' /\ ShellOK' /\ PingMeansReply'
      BY <1>1, <2>1, <2>2, <2>3, <2>4, QuerySent
    <2>6. CacheOK'
      <3>1. CASE Find(name) = 0
        BY <1>3, <3>1 DEF NameInv, CacheOK, EntryOK
      <3>2. CASE Find(name) # 0
        <4> DEFINE x == Find(name)
                   e == [cache[x] EXCEPT !.used = FALSE]
        <4>1. x \in 1..CacheSlots
          BY <3>2, FindIn
        <4>2. cache' = [cache EXCEPT ![x] = e]
          BY <1>3, <3>2
        <4> HIDE DEF x
        <4>3. EntryOK(cache[x])
          BY <4>1 DEF NameInv, CacheOK
        <4>4. EntryOK(e)
          BY <4>3 DEF EntryOK
        <4> HIDE DEF e
        <4> QED  BY <1>3, <4>1, <4>2, <4>4 DEF NameInv, CacheOK, EntryOK
      <3> QED  BY <3>1, <3>2
    <2>7. WaitShapes' /\ AnswerIsForName'
      BY <1>1, <1>3 DEF NameInv, WaitShapes, AnswerIsForName
    <2> QED  BY <2>5, <2>6, <2>7 DEF NameInv
  <1> QED  BY <1>2, <1>3 DEF net_dns_resolve

\* dns_cache_put, with the address of that name.
LEMMA CachePut ==
    ASSUME CacheOK, NEW name \in Names, dnsw.ip = name, dns_cache_put(name)
    PROVE  CacheOK'
  <1> DEFINE S == {i \in 1..CacheSlots : ~cache[i].used \/ cache[i].name = name}
             slot == IF S = {} THEN (rr % CacheSlots) + 1 ELSE CHOOSE i \in S : \A j \in S : i <= j
             e == [used |-> TRUE, name |-> Named(cache[slot].name, name), ip |-> dnsw.ip,
                   expire |-> Later(Ttl[name])]
  <1>1. CASE UNCHANGED <<cache, rr>>
    BY <1>1 DEF CacheOK, EntryOK
  <1>2. CASE cache' = [cache EXCEPT ![slot] = e] /\ rr' = IF S = {} THEN rr + 1 ELSE rr
    <2>1. slot \in 1..CacheSlots
      <3>1. CASE S = {}
        <4>1. (rr % CacheSlots) \in 0..(CacheSlots - 1)
          BY NetConfAssumption DEF CacheOK
        <4> QED  BY <3>1, <4>1, NetConfAssumption
      <3>2. CASE S # {}
        <4>1. S \in SUBSET Nat /\ S \subseteq 1..CacheSlots
          BY NetConfAssumption
        <4> HIDE DEF S
        <4>2. \E i \in S : \A j \in S : i <= j
          BY <3>2, <4>1, LeastNat
        <4> QED  BY <3>2, <4>1, <4>2
      <3> QED  BY <3>1, <3>2
    <2>2. rr' \in Nat
      <3> HIDE DEF S, e, slot
      <3>1. rr \in Nat
        BY DEF CacheOK
      <3>2. rr' = IF S = {} THEN rr + 1 ELSE rr
        BY <1>2
      <3> QED  BY <3>1, <3>2
    <2> HIDE DEF slot, S
    <2>3. cache[slot].name \in Seq(Letters) /\ name \in Seq(Letters)
      BY <2>1, NetConfAssumption DEF CacheOK, EntryOK
    <2>4. EntryOK(e)
      <3>1. Named(cache[slot].name, name) \in Seq(Letters) /\ Prefix(name, Named(cache[slot].name, name))
        BY <2>3, NamedPrefix
      <3> QED  BY <2>3, <3>1 DEF EntryOK
    <2> HIDE DEF e
    <2> QED  BY <1>2, <2>1, <2>2, <2>4 DEF CacheOK, EntryOK
  <1> QED  BY <1>1, <1>2 DEF dns_cache_put

LEMMA DnsWaitStep ==
    ASSUME DhcpInv, NameInv, dns_wait
    PROVE  DhcpInv' /\ NameInv'
  <1> DEFINE c == call[Shell]
  <1>1. /\ UNCHANGED <<now, lease, renew, w, ip, ping>> /\ c.k = "dns" /\ IsCall(c)
        /\ dnsw.active /\ c.name \in Names
    BY ShellCall DEF dns_wait, dhcpVars, DhcpInv, NameInv, ShellOK, InDns
  \* The command ends, and with it the wait for the answer.
  <1>2. ASSUME dnsw' = [dnsw EXCEPT !.active = FALSE], Busy(Shell, Idle), UNCHANGED <<frame, asked>>
        PROVE  DhcpInv' /\ WaitShapes' /\ MsgsOK' /\ ShellOK' /\ PingMeansReply'
    <2>1. /\ CallShape' /\ call'[Shell] = Idle
          /\ \A o \in Callers : o # Shell => call'[o] = call[o]
      BY <1>2, BusyCall, ShellCalls, IdleCall DEF DhcpInv
    <2>2. DhcpInv'
      <3>1. ShellKept
        BY <2>1, IdleCall DEF ShellKept, Dhcp
      <3> QED  BY <1>1, <2>1, <3>1, DhcpAlone
    <2>3. /\ dnsw' \in [active : BOOLEAN, got : BOOLEAN, id : Nat, ip : {dnsw'.ip}]
          /\ dnsw'.id = dnsw.id /\ ~dnsw'.active
      BY <1>2 DEF NameInv, WaitShapes
    <2>4. Keeps
      BY <2>3, KeepsSame
    <2>5. MsgsOK'
      <3>1. \A o \in Callers : call'[o].msg \in {Echo, call[o].msg}
        BY <2>1, IdleMsg
      <3> QED  BY <1>2, <2>4, <3>1, EchoOK, MsgsNext DEF NameInv
    <2>6. ShellOK'
      BY <2>1, <2>3, IdleMsg DEF ShellOK, Elsewhere
    <2>7. WaitShapes' /\ PingMeansReply'
      BY <1>1, <1>2, <2>3 DEF NameInv, WaitShapes, PingMeansReply
    <2> QED  BY <2>2, <2>5, <2>6, <2>7
  <1>3. CASE /\ dnsw.got /\ dnsw' = [dnsw EXCEPT !.active = FALSE] /\ Busy(Shell, Idle)
             /\ UNCHANGED <<frame, asked>> /\ dnsw.ip # <<>> /\ dns_cache_put(c.name)
             /\ res' = [name |-> c.name, ip |-> dnsw.ip, cached |-> FALSE]
    <2>1. dnsw.ip = c.name
      BY <1>1, <1>3 DEF NameInv, ShellOK
    <2>2. CacheOK'
      BY <1>1, <1>3, <2>1, CachePut DEF NameInv
    <2>3. AnswerIsForName'
      <3>1. Prefix(c.name, c.name)
        BY <1>1, PrefixSelf, NetConfAssumption
      <3> QED  BY <1>3, <2>1, <3>1 DEF AnswerIsForName
    <2> QED  BY <1>2, <1>3, <2>2, <2>3 DEF NameInv
  <1>4. CASE /\ dnsw' = [dnsw EXCEPT !.active = FALSE] /\ Busy(Shell, Idle)
             /\ UNCHANGED <<cache, rr, res, frame, asked>>
    <2>1. CacheOK' /\ AnswerIsForName'
      BY <1>4 DEF NameInv, CacheOK, EntryOK, AnswerIsForName
    <2> QED  BY <1>2, <1>4, <2>1 DEF NameInv
  <1>5. CASE /\ ~dnsw.got /\ UNCHANGED <<cache, rr, dnsw, res>>
             /\ \E hop, s : SendVia(Shell, Msg("dns", dnsw.id, c.name), hop,
                                    [c EXCEPT !.s = s, !.att = IF s = 1 THEN 2 ELSE c.att])
    <2>1. PICK hop, s : SendVia(Shell, Msg("dns", dnsw.id, c.name), hop,
                                [c EXCEPT !.s = s, !.att = IF s = 1 THEN 2 ELSE c.att])
      BY <1>5
    <2> DEFINE f == [c EXCEPT !.s = s, !.att = IF s = 1 THEN 2 ELSE c.att]
    <2>2. IsCall(f) /\ f.k = "dns" /\ f.name = c.name /\ f.msg = c.msg
      BY <1>1 DEF IsCall
    <2>3. dnsw.id \in Nat
      BY DEF NameInv, WaitShapes
    <2> HIDE DEF f
    <2>4. SendVia(Shell, Msg("dns", dnsw.id, c.name), hop, f)
      BY <2>1 DEF f
    <2> HIDE DEF c
    <2>5. DhcpInv' /\ MsgsOK' /\ ShellOK' /\ PingMeansReply'
      <3>1. c = call[Shell]
        BY DEF c
      <3> QED  BY <1>1, <1>5, <2>2, <2>3, <2>4, <3>1, QuerySent
    <2>6. WaitShapes' /\ CacheOK' /\ AnswerIsForName'
      BY <1>1, <1>5 DEF NameInv, WaitShapes, CacheOK, EntryOK, AnswerIsForName
    <2> QED  BY <2>5, <2>6 DEF NameInv
  <1> QED  BY <1>3, <1>4, <1>5 DEF dns_wait, nameVars

LEMMA SetServerStep ==
    ASSUME DhcpInv, NameInv, NEW s, net_dns_set_server(s)
    PROVE  DhcpInv' /\ NameInv'
  <1>1. /\ UNCHANGED <<now, lease, renew, w, ip, call>>
        /\ UNCHANGED <<frame, dnsw, cache, rr, res, ping, asked>>
    BY DEF net_dns_set_server, nameVars
  <1>2. DhcpInv'
    BY <1>1, SameCalls, DhcpAlone DEF DhcpInv
  <1>3. NameInv'
    BY <1>1, SameAdds, EchoOK, NamesAlone
  <1> QED  BY <1>2, <1>3

LEMMA CacheClearStep ==
    ASSUME DhcpInv, NameInv, net_dns_cache_clear
    PROVE  DhcpInv' /\ NameInv'
  <1>1. /\ UNCHANGED <<now, lease, renew, w, ip, call>>
        /\ UNCHANGED <<frame, dnsw, res, ping, asked>> /\ rr' = 0
        /\ cache' = [i \in 1..CacheSlots |-> [cache[i] EXCEPT !.used = FALSE]]
    BY DEF net_dns_cache_clear, dhcpVars
  <1>2. DhcpInv'
    BY <1>1, SameCalls, DhcpAlone DEF DhcpInv
  <1>3. CacheOK'
    <2>1. \A e : EntryOK(e) => EntryOK([e EXCEPT !.used = FALSE])
      BY DEF EntryOK
    <2> QED  BY <1>1, <2>1 DEF NameInv, CacheOK, EntryOK
  <1>4. WaitShapes' /\ MsgsOK' /\ ShellOK' /\ AnswerIsForName' /\ PingMeansReply'
    BY <1>1 DEF NameInv, WaitShapes, MsgsOK, MsgOK, ShellOK, AnswerIsForName, PingMeansReply, InDns, Elsewhere
  <1> QED  BY <1>2, <1>3, <1>4 DEF NameInv

-----------------------------------------------------------------------------
\* A lost sleep leaves everything that the command waited for as it was.
LEMMA SleeperLostStep ==
    ASSUME DhcpInv, NameInv, SleeperLost
    PROVE  DhcpInv' /\ NameInv'
  <1> DEFINE c == [call[Shell] EXCEPT !.k = "lost"]
  <1>1. /\ UNCHANGED <<now, lease, renew, w, ip>> /\ UNCHANGED <<frame, dnsw, cache, rr, res, ping, asked>>
        /\ Busy(Shell, c) /\ IsCall(call[Shell])
    BY ShellCall DEF SleeperLost, dhcpVars, nameVars, DhcpInv
  <1>2. IsCall(c) /\ c.k = "lost" /\ c.name = call[Shell].name /\ c.msg = call[Shell].msg
    BY <1>1 DEF IsCall
  <1> HIDE DEF c
  <1>3. CallShape' /\ call'[Shell] = c /\ \A o \in Callers : o # Shell => call'[o] = call[o]
    BY <1>1, <1>2, BusyCall, ShellCalls DEF DhcpInv
  <1>4. DhcpInv'
    <2>1. ShellKept
      BY <1>2, <1>3 DEF ShellKept, Dhcp
    <2> QED  BY <1>1, <1>3, <2>1, DhcpAlone
  <1>5. Keeps
    BY <1>1, <1>2, <1>3, KeepsSame
  <1>6. MsgsOK'
    <2>1. \A o \in Callers : call'[o].msg \in {Echo, call[o].msg}
      BY <1>2, <1>3
    <2> QED  BY <1>1, <1>5, <2>1, EchoOK, MsgsNext DEF NameInv
  <1>7. ShellOK'
    BY <1>1, <1>2, <1>3 DEF NameInv, ShellOK, InDns, Elsewhere
  <1>8. WaitShapes' /\ CacheOK' /\ AnswerIsForName' /\ PingMeansReply'
    BY <1>1 DEF NameInv, WaitShapes, CacheOK, EntryOK, AnswerIsForName, PingMeansReply
  <1> QED  BY <1>4, <1>6, <1>7, <1>8 DEF NameInv

NetInv == DhcpInv /\ NameInv

LEMMA NetStutter ==
    ASSUME NetInv, UNCHANGED vars
    PROVE  NetInv'
  <1>1. /\ UNCHANGED <<now, lease, renew, w, ip, call>>
        /\ UNCHANGED <<frame, dnsw, cache, rr, res, ping, asked>>
    BY DEF vars, dhcpVars, nameVars
  <1>2. DhcpInv'
    BY <1>1, SameCalls, DhcpAlone DEF DhcpInv, NetInv
  <1>3. NameInv'
    BY <1>1, SameAdds, EchoOK, NamesAlone DEF NetInv
  <1> QED  BY <1>2, <1>3 DEF NetInv

LEMMA NetNext == NetInv /\ [Next]_vars => NetInv'
  <1> SUFFICES ASSUME NetInv, [Next]_vars PROVE NetInv'
    OBVIOUS
  <1>1. CASE net_tick
    BY <1>1, TickStep, TickNames DEF NetInv
  <1>2. CASE Frames
    BY <1>2, InputStep, EchoReplyStep, DhcpInputStep, DhcpInputNames, DnsInputStep DEF Frames, NetInv
  <1>3. CASE Waiting
    <2>1. CASE arp_resolve(Shell) \/ ping_ends \/ dns_wait
      BY <2>1, ArpResolveStep, ShellCalls, PingEndsStep, DnsWaitStep DEF NetInv
    <2>2. CASE dhcp_wait \/ dhcp_request \/ dhcp_acked \/ dhcp_applies
      BY <2>2, DhcpWaitStep, DhcpWaitNames, DhcpRequestStep, DhcpRequestNames, DhcpAckedStep,
         DhcpAckedNames, DhcpAppliesStep, DhcpAppliesNames DEF NetInv
    <2> QED  BY <1>3, <2>1, <2>2 DEF Waiting
  <1>4. CASE \E p \in Procs : arp_resolve(p) \/ \E h \in Hosts : net_udp_send(p, h)
    BY <1>4, ArpResolveStep, UdpStep DEF NetInv, Callers
  <1>5. CASE net_dhcp
    BY <1>5, NetDhcpStep, NetDhcpNames DEF NetInv
  <1>6. CASE net_dns_cache_clear
    BY <1>6, CacheClearStep DEF NetInv
  <1>7. CASE \E h \in Hosts : net_ping(h) \/ net_dns_set_server(h)
    BY <1>7, PingStep, SetServerStep DEF NetInv
  <1>8. CASE \E n \in Names : net_dns_resolve(n)
    BY <1>8, ResolveStep DEF NetInv
  <1>9. CASE UNCHANGED vars
    BY <1>9, NetStutter
  <1>10. CASE SleeperLost
    BY <1>10, SleeperLostStep DEF NetInv
  <1> QED  BY <1>1, <1>2, <1>3, <1>4, <1>5, <1>6, <1>7, <1>8, <1>9, <1>10 DEF Next

\* The invariant of the lease, the queries and the messages holds in every
\* reachable state.
THEOREM NetConfInvariant == Spec => []NetInv
  <1>1. Init => NetInv
    BY DhcpInit, NameInit DEF NetInv
  <1> QED  BY <1>1, NetNext, PTL DEF Spec

\* dhcp_renew_check gives every timed lease up at its last tick, for every lease
\* time that dhcp_apply schedules and across the wrap of g_pit_ticks: T1, T2 and
\* the end are met in this order, one tick at a time.
THEOREM LeasesExpire == Spec => []LeaseExpires
  <1>1. NetInv => LeaseExpires
    <2> SUFFICES ASSUME NetInv, lease.valid, renew.active PROVE ~Due(renew.expire)
      BY DEF LeaseExpires
    <2>1. now \in Time /\ Future(now, renew.expire)
      BY DEF NetInv, DhcpInv, ClockOK, Clock, ClockAt
    <2> QED  BY <2>1, FutureNotDue DEF Due
  <1> QED  BY <1>1, NetConfInvariant, PTL

\* net_dhcp and dhcp_renew_check never mix the address of one answer with the
\* options of another.
THEOREM LeasesAreWhole == Spec => []LeaseIsOneAnswer
  <1>1. NetInv => LeaseIsOneAnswer
    BY DEF NetInv, DhcpInv, LeaseOK, LeaseIsOneAnswer
  <1> QED  BY <1>1, NetConfInvariant, PTL

\* net_dns_resolve answers with the address of the name it was asked for, or,
\* from the cache, of a name that this one begins with.
THEOREM AnswersMatchQueries == Spec => []AnswerIsForName
  <1>1. NetInv => AnswerIsForName
    BY DEF NetInv, NameInv
  <1> QED  BY <1>1, NetConfInvariant, PTL

\* net_ping never takes a late answer to an earlier request for its own.
THEOREM PingsAreAnswered == Spec => []PingMeansReply
  <1>1. NetInv => PingMeansReply
    BY DEF NetInv, NameInv
  <1> QED  BY <1>1, NetConfInvariant, PTL
=============================================================================
