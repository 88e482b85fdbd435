------------------------------ MODULE NetConf -------------------------------
(***************************************************************************)
(* The part of kernel/net.c that configures the network and resolves names:*)
(* ARP, sending an IPv4 packet, echo requests, DHCP with its renewal, and  *)
(* DNS with its cache.  The shell runs one command at a time, with         *)
(* interrupts on, and is interrupted here where it sleeps and between      *)
(* reading the type, the address and the options of a DHCP answer; the     *)
(* processes send datagrams.  Frames come in with IRQ11, the clock is IRQ0.*)
(* What was sent may be answered at any time, any number of times.         *)
(***************************************************************************)
EXTENDS Integers, Sequences, FiniteSets

CONSTANTS
    Shell, Procs,            \* the shell, processes that send datagrams
    Hosts, OnLink, Gateway,  \* addresses that frames come from; those on our network; the router
    ArpSlots,                \* ARP_CACHE
    DhcpServers,             \* DHCP servers, each with the answer it gives:
    Grant, Lease, DnsOf,     \* [server -> address, ticks or 0, name servers]
    Letters, Names, Ttl,     \* names as sequences of letters; their ticks in the cache
    CacheSlots,              \* DNS_CACHE_MAX
    Attempts,                \* DISCOVERs, and REQUESTs, of one dhcp command
    Wrap, Start,             \* size of the number space of g_pit_ticks, its first value
    MaxTicks, Scripts        \* bounds: ticks of a behaviour, what the shell, and the processes, are made to do

\* A lease takes whole seconds of 1000 ticks, DHCP_LEASE_MAX_SEC at most, which is
\* less than half the number space.
ASSUME NetConfAssumption ==
    /\ Wrap \in Nat \ {0} /\ Start \in 0..(Wrap - 1) /\ MaxTicks \in Nat /\ MaxTicks < Wrap
    /\ OnLink \subseteq Hosts /\ Gateway \in OnLink /\ Shell \notin Procs
    /\ CacheSlots \in Nat \ {0}
    /\ Names \subseteq Seq(Letters) /\ Ttl \in [Names -> Nat]
    /\ \A s \in DhcpServers : Lease[s] \in 0..(Wrap \div 2) /\ Lease[s] % 8 = 0

None == "none"
Callers == {Shell} \cup Procs
Msg(k, n, name) == [k |-> k, n |-> n, name |-> name]     \* what a frame carries
Echo == Msg("echo", 0, <<>>)

VARIABLES
    now, script,   \* g_pit_ticks; what they are to do next
    lease, renew,  \* g_lease, g_renew
    w,             \* g_dhcp_w
    ip,            \* the address of the card
    dns,           \* g_dns_srv, g_dns_manual
    arp,           \* g_arp
    frame,         \* the payload in g_frame
    cache, rr,     \* g_dns_cache, g_dns_rr
    dnsw, ping,    \* g_dns_w, g_ping_w
    call,          \* what a caller is in the middle of
    asked,         \* what has been sent
    res, garbled   \* history: the last name resolved; a frame went out with somebody else's payload

dhcpVars == <<lease, renew, w, ip, dns>>
nameVars == <<cache, rr, dnsw, res>>
vars == <<now, script, dhcpVars, arp, frame, nameVars, ping, call, asked, garbled>>

Idle == [k |-> "idle", msg |-> Echo, hop |-> None, att |-> 0, s |-> 0, name |-> <<>>, ip |-> None, server |-> None]
NoAnswer == [t |-> None, server |-> None]

Init ==
    /\ now = Start /\ script \in Scripts
    /\ lease = [valid |-> FALSE, ip |-> None, server |-> None, opt |-> None]
    /\ renew = [active |-> FALSE, state |-> 0, t1 |-> 0, t2 |-> 0, expire |-> 0, next |-> 0]
    /\ w = [active |-> FALSE, got |-> FALSE, renewing |-> FALSE, xid |-> 0, msg |-> NoAnswer]
    /\ ip = "static" /\ dns = [srv |-> <<>>, manual |-> FALSE]
    /\ arp = [i \in 0..(ArpSlots - 1) |-> None] /\ frame = Echo
    /\ cache = [i \in 1..CacheSlots |-> [used |-> FALSE, name |-> <<>>, ip |-> <<>>, expire |-> 0]] /\ rr = 0
    /\ dnsw = [active |-> FALSE, got |-> FALSE, id |-> 0, ip |-> <<>>]
    /\ ping = [active |-> FALSE, got |-> FALSE, seq |-> 0]
    /\ call = [p \in Callers |-> Idle]
    /\ asked = {} /\ res = [name |-> <<>>, ip |-> <<>>, cached |-> FALSE] /\ garbled = FALSE

Later(n) == (now + n) % Wrap
Minus(a, b) == (a - b) % Wrap
DueAt(t, d) == Minus(t, d) < Wrap \div 2               \* (int32_t)(t - d) >= 0
Due(d)   == DueAt(now, d)
Busy(p, c) == call' = [call EXCEPT ![p] = c]

-----------------------------------------------------------------------------
(***************************************************************************)
(* ARP and the IPv4 sender.                                                *)
(***************************************************************************)
\* arp_learn: an entry of its own, else a free slot from 1 on, else slot 0.
Learnt(h) ==
    LET free == {i \in 1..(ArpSlots - 1) : arp[i] = None}
        slot == IF free = {} THEN 0 ELSE CHOOSE i \in free : \A j \in free : i <= j
    IN  IF \E i \in DOMAIN arp : arp[i] = h THEN arp ELSE [arp EXCEPT ![slot] = h]
Known(h, a) == \E i \in DOMAIN a : a[i] = h

\* A payload is put into g_frame.  (What no sleeper is to send is not told apart
\* from an echo.)
Framed(m) == frame' = IF \E o \in Callers : call[o].k = "arp" THEN m ELSE Echo

\* ipv4_send_via: the payload goes to g_frame, and then the caller may sleep
\* until the next hop has answered.  c is what the caller goes on with.
SendVia(p, msg, hop, c) ==
    /\ frame' = IF Known(hop, arp) /\ \A o \in Callers : call[o].k # "arp" THEN Echo ELSE msg
    /\ \/ Known(hop, arp) /\ asked' = asked \cup {msg} /\ Busy(p, c)
       \/ ~Known(hop, arp) /\ Busy(p, [c EXCEPT !.k = "arp", !.msg = msg, !.hop = hop]) /\ UNCHANGED asked
    /\ UNCHANGED <<arp, garbled>>

\* What a command goes on with once its packet is out.
After(c) == [c EXCEPT !.k = CASE c.msg.k = "dns" -> "dns" [] c.msg.k = "ping" -> "ping" [] OTHER -> "idle",
                      !.msg = Echo, !.hop = None]
\* The command fails: nobody waits for its answer any more.
Fails(p) ==
    /\ Busy(p, Idle)
    /\ dnsw' = IF p = Shell THEN [dnsw EXCEPT !.active = FALSE] ELSE dnsw
    /\ ping' = IF p = Shell THEN [ping EXCEPT !.active = FALSE] ELSE ping

\* arp_resolve: the hop is known now and what g_frame holds goes out, or time is up.
arp_resolve(p) ==
    LET c == call[p] IN
    /\ c.k = "arp"
    /\ \/ /\ Known(c.hop, arp)
          /\ asked' = asked \cup {frame} /\ garbled' = (garbled \/ frame # c.msg)
          /\ Busy(p, IF p = Shell THEN After(c) ELSE Idle)
          /\ UNCHANGED <<dnsw, ping>>
       \/ ~Known(c.hop, arp) /\ Fails(p) /\ UNCHANGED <<asked, garbled>>
    /\ frame' = IF \E o \in Callers \ {p} : call[o].k = "arp" THEN frame ELSE Echo
    /\ UNCHANGED <<now, script, dhcpVars, arp, cache, rr, res>>

\* SC_SENDTO on a datagram socket
net_udp_send(p, h) ==
    /\ p \in Procs /\ call[p].k = "idle" /\ script # <<>> /\ Head(script) = "udp" /\ script' = Tail(script)
    /\ SendVia(p, Msg("udp", 0, <<>>), h, Idle)
    /\ UNCHANGED <<now, dhcpVars, nameVars, ping>>

\* Frames that come in: net_input learns the sender of each; an echo request
\* for us is answered at once, through g_frame.  (Nobody looks at the ARP cache
\* unless a packet is about to be sent or its sender sleeps.)
net_input(h) ==
    /\ \/ \E p \in Callers : call[p].k = "arp"
       \/ call[Shell].k \in {"idle", "dns"} /\ script # <<>> /\ Head(script) \in {"udp", "ping", "lookup"}
    /\ arp' = Learnt(h)
    /\ \/ UNCHANGED frame
       \/ frame' = Echo
    /\ UNCHANGED <<now, script, dhcpVars, nameVars, ping, call, asked, garbled>>

-----------------------------------------------------------------------------
(***************************************************************************)
(* ping                                                                    *)
(***************************************************************************)
Command(k) == call[Shell].k = "idle" /\ script # <<>> /\ Head(script) = k /\ script' = Tail(script)

net_ping(h) ==
    /\ Command("ping")
    /\ ping' = [active |-> TRUE, got |-> FALSE, seq |-> ping.seq + 1]
    /\ SendVia(Shell, Msg("ping", ping.seq + 1, <<>>), h, [Idle EXCEPT !.k = "ping"])
    /\ UNCHANGED <<now, dhcpVars, nameVars>>
\* The answer is there, or time is up.
ping_ends ==
    /\ call[Shell].k = "ping"
    /\ ping' = [ping EXCEPT !.active = FALSE] /\ Busy(Shell, Idle)
    /\ UNCHANGED <<now, script, dhcpVars, arp, frame, nameVars, asked, garbled>>
\* Faulty variant: any answer will do.
EchoReplyAny(q) ==
    /\ q.k = "ping" /\ ping.active /\ ~ping.got
    /\ ping' = [ping EXCEPT !.got = TRUE]
    /\ UNCHANGED <<now, script, dhcpVars, arp, frame, nameVars, call, asked, garbled>>

\* icmp_input: the answer to an echo request
EchoReply(q) ==
    /\ q.k = "ping" /\ ping.active /\ ~ping.got /\ q.n = ping.seq
    /\ ping' = [ping EXCEPT !.got = TRUE]
    /\ UNCHANGED <<now, script, dhcpVars, arp, frame, nameVars, call, asked, garbled>>

-----------------------------------------------------------------------------
(***************************************************************************)
(* DHCP.  The transaction number is made of the clock, in a way that       *)
(* different ticks give different numbers.                                 *)
(***************************************************************************)
\* A new transaction, and what it sends.
Opened(t) == [active |-> TRUE, got |-> FALSE, renewing |-> TRUE, xid |-> t, msg |-> NoAnswer]
\* dhcp_send in a command: it builds its frame in g_frame as well, whoever else
\* sleeps with a payload there, and the card takes it, or the command ends.
\* (Nobody listens to answers to earlier transactions.)
Asked(m) == asked' = {q \in asked : q.k \in {"discover", "request"} => q.n = m.n} \cup {m}
Post(m, tr, c) ==
    /\ Framed(m)
    /\ \/ Asked(m) /\ w' = tr /\ Busy(Shell, c)
       \/ w' = [tr EXCEPT !.active = FALSE] /\ Busy(Shell, Idle) /\ UNCHANGED asked

\* dhcp_apply: all options from the buffer, the clocks, the address of the card.
\* o is the answer in the buffer, addr the address read from it.
dhcp_apply(addr, o, t) ==
    LET l == Lease[o.server] IN
    /\ lease' = [valid |-> TRUE, ip |-> addr, server |-> o.server, opt |-> o.server]
    /\ renew' = [active |-> l # 0, state |-> 0, t1 |-> (t + l \div 2) % Wrap, t2 |-> (t + (l \div 8) * 7) % Wrap,
                 expire |-> (t + l) % Wrap, next |-> 0]
    /\ w' = [w EXCEPT !.active = FALSE, !.got = FALSE, !.renewing = FALSE]
    /\ dns' = IF DnsOf[o.server] = <<>> /\ dns.manual THEN dns ELSE [srv |-> DnsOf[o.server], manual |-> FALSE]
    /\ ip' = addr

\* net_dhcp: the old lease is dropped first.
net_dhcp ==
    /\ Command("dhcp")
    /\ lease' = [lease EXCEPT !.valid = FALSE]
    /\ Post(Msg("discover", now, <<>>), [w EXCEPT !.active = TRUE, !.got = FALSE, !.xid = now],
            [Idle EXCEPT !.k = "offer", !.att = 1])
    /\ UNCHANGED <<now, renew, ip, dns, arp, nameVars, ping, garbled>>

\* Faulty variant: the attempts are not counted.
AgainUncounted ==
    LET c == call[Shell] IN
    \/ /\ c.att < Attempts
       /\ Post(IF c.k = "offer" THEN Msg("discover", w.xid, <<>>) ELSE Msg("request", w.xid, <<c.server>>),
               [w EXCEPT !.got = FALSE, !.active = TRUE], c)
    \/ /\ c.att = Attempts
       /\ w' = [w EXCEPT !.active = FALSE] /\ Busy(Shell, Idle) /\ UNCHANGED <<frame, asked>>

\* One more DISCOVER or REQUEST of the same transaction, or none is left.
Again ==
    LET c == call[Shell] IN
    \/ /\ c.att < Attempts
       /\ Post(IF c.k = "offer" THEN Msg("discover", w.xid, <<>>) ELSE Msg("request", w.xid, <<c.server>>),
               [w EXCEPT !.got = FALSE, !.active = TRUE], [c EXCEPT !.att = @ + 1])
    \/ /\ c.att = Attempts
       /\ w' = [w EXCEPT !.active = FALSE] /\ Busy(Shell, Idle) /\ UNCHANGED <<frame, asked>>

\* dhcp_wait returns: an answer, and its type is looked at, or the time is up.
dhcp_wait ==
    LET c == call[Shell] IN
    /\ c.k \in {"offer", "ack"}
    /\ \/ /\ w.got /\ w.msg.t = c.k
          /\ Busy(Shell, [c EXCEPT !.k = IF @ = "offer" THEN "offered" ELSE "acked"]) /\ UNCHANGED <<w, frame, asked>>
       \/ /\ w.got /\ c.k = "ack" /\ w.msg.t = "nak"
          /\ w' = [w EXCEPT !.active = FALSE] /\ Busy(Shell, Idle) /\ UNCHANGED <<frame, asked>>
       \/ /\ ~w.got \/ w.msg.t \notin {c.k, "nak"} \/ (w.msg.t = "nak" /\ c.k = "offer")
          /\ Again
    /\ UNCHANGED <<now, script, lease, renew, ip, dns, arp, nameVars, ping, garbled>>

\* The offer is taken: what it says is read, and asked for.
dhcp_request ==
    LET c == call[Shell] IN
    /\ c.k = "offered"
    /\ Post(Msg("request", w.xid, <<w.msg.server>>), [w EXCEPT !.got = FALSE, !.active = TRUE],
            [c EXCEPT !.k = "ack", !.att = 1, !.server = w.msg.server])
    /\ UNCHANGED <<now, script, lease, renew, ip, dns, arp, nameVars, ping, garbled>>

\* Faulty variant: answers are still let in while the lease is set up.
dhcp_ackedOpen ==
    /\ call[Shell].k = "acked"
    /\ Busy(Shell, [call[Shell] EXCEPT !.k = "apply", !.ip = Grant[w.msg.server]])
    /\ UNCHANGED <<now, script, lease, renew, w, ip, dns, arp, frame, nameVars, ping, asked, garbled>>

\* The acknowledgement is closed to further answers and its address read.
dhcp_acked ==
    /\ call[Shell].k = "acked"
    /\ w' = [w EXCEPT !.active = FALSE]
    /\ Busy(Shell, [call[Shell] EXCEPT !.k = "apply", !.ip = Grant[w.msg.server]])
    /\ UNCHANGED <<now, script, lease, renew, ip, dns, arp, frame, nameVars, ping, asked, garbled>>

dhcp_applies ==
    /\ call[Shell].k = "apply"
    /\ dhcp_apply(call[Shell].ip, w.msg, now) /\ Busy(Shell, Idle)
    /\ UNCHANGED <<now, script, arp, frame, nameVars, ping, asked, garbled>>

\* dhcp_input, behind the door that only an active transaction opens.
dhcp_input(q, s, t) ==
    /\ q.k \in {"discover", "request"} /\ w.active /\ q.n = w.xid
    /\ t = "offer" <=> q.k = "discover"
    /\ q.name \in {<<>>, <<s>>}
    /\ w' = [w EXCEPT !.got = TRUE, !.msg = [t |-> t, server |-> s]]
    /\ UNCHANGED <<now, script, lease, renew, ip, dns, arp, frame, nameVars, ping, call, asked, garbled>>

\* Faulty variant: the end of a lease is not looked at once it is being renewed.
NextStateForever(s, t) ==
    CASE s = 0 -> IF DueAt(t, renew.t1) THEN 1 ELSE 0
      [] s = 1 -> IF DueAt(t, renew.t2) THEN 2 ELSE 1
      [] OTHER -> s

\* T1, T2 and the end of the lease, one at a time.
NextState(s, t) ==
    CASE s = 0 -> IF DueAt(t, renew.t1) THEN 1 ELSE 0
      [] s = 1 -> IF DueAt(t, renew.t2) THEN 2 ELSE 1
      [] s = 2 -> IF DueAt(t, renew.expire) THEN 3 ELSE 2
      [] OTHER -> s

\* dhcp_renew_check: an ACK that came in is applied; else the state moves on, and
\* what it asks for is sent when it is new or due again, through g_frame (dhcp_send
\* in IRQ0), whether the card takes it or not.  State 3 comes with an
\* invalid lease, so that its DISCOVER is sent once and its OFFER never read.
dhcp_renew_check(t) ==
    LET heard == w.renewing /\ w.got
        nak   == heard /\ w.msg.t = "nak"
        was   == IF nak THEN 3 ELSE renew.state
        st    == NextState(was, t)
        next  == IF st # was THEN 0 ELSE renew.next
        gap   == IF renew.t2 > renew.t1 THEN (renew.t2 - renew.t1) \div 2 ELSE 0
        m     == CASE st = 1 -> Msg("request", t, <<lease.server>>)
                   [] st = 2 -> Msg("request", t, <<>>)
                   [] OTHER  -> Msg("discover", t, <<>>)
    IN
    \/ /\ ~renew.active \/ ~lease.valid
       /\ UNCHANGED <<dhcpVars, frame, asked>>
    \/ /\ renew.active /\ lease.valid /\ heard /\ w.msg.t = "ack"
       /\ dhcp_apply(Grant[w.msg.server], w.msg, t) /\ UNCHANGED <<frame, asked>>
    \/ /\ renew.active /\ lease.valid /\ ~(heard /\ w.msg.t = "ack")
       /\ lease' = [lease EXCEPT !.valid = st # 3]
       /\ \/ /\ st = 0 \/ ~DueAt(t, next)
             /\ renew' = [renew EXCEPT !.state = st, !.next = next]
             /\ w' = [w EXCEPT !.got = @ /\ ~heard] /\ UNCHANGED <<frame, asked>>
          \/ /\ st # 0 /\ DueAt(t, next)
             /\ renew' = [renew EXCEPT !.state = st, !.next = (t + IF gap = 0 THEN 1 ELSE gap) % Wrap]
             /\ Framed(m)
             /\ \/ w' = Opened(t) /\ Asked(m)
                \/ w' = [Opened(t) EXCEPT !.active = FALSE, !.renewing = FALSE] /\ UNCHANGED asked
       /\ UNCHANGED <<ip, dns>>

\* IRQ0: the clock, and net_tick.
net_tick ==
    /\ Minus(now, Start) < MaxTicks
    /\ now' = Later(1) /\ dhcp_renew_check(Later(1))
    /\ UNCHANGED <<script, arp, nameVars, ping, call, garbled>>

-----------------------------------------------------------------------------
(***************************************************************************)
(* DNS.  The address of a name is the name itself.                         *)
(***************************************************************************)
\* The first entry of that name, 0 if there is none.
Find(name) ==
    LET S == {i \in 1..CacheSlots : cache[i].used /\ cache[i].name = name}
    IN  IF S = {} THEN 0 ELSE CHOOSE i \in S : \A j \in S : i <= j

\* net_dns_cache_lookup finds it, and its time is not up.
Fresh(name) == Find(name) # 0 /\ ~Due(cache[Find(name)].expire)

\* The copy of the key into a slot does not end with a NUL: what was longer
\* before shows behind it.
Named(old, key) == key \o SubSeq(old, Len(key) + 1, Len(old))

\* dns_cache_put: a free slot or the name's own, whichever comes first, else in turn.
dns_cache_put(name) ==
    LET S    == {i \in 1..CacheSlots : ~cache[i].used \/ cache[i].name = name}
        slot == IF S = {} THEN (rr % CacheSlots) + 1 ELSE CHOOSE i \in S : \A j \in S : i <= j
    IN  IF Ttl[name] = 0 THEN UNCHANGED <<cache, rr>>
        ELSE /\ cache' = [cache EXCEPT ![slot] = [used |-> TRUE, name |-> Named(@.name, name), ip |-> dnsw.ip,
                                                  expire |-> Later(Ttl[name])]]
             /\ rr' = IF S = {} THEN rr + 1 ELSE rr

Hop(s) == IF lease.ip # None /\ s \notin OnLink THEN Gateway ELSE s
Query(name, id, s) == SendVia(Shell, Msg("dns", id, name), Hop(dns.srv[s]), [Idle EXCEPT !.k = "dns", !.name = name, !.s = s, !.att = 1])

\* net_dns_resolve: from the cache, or a query with a number of its own.
net_dns_resolve(name) ==
    /\ Command("lookup") /\ dns.srv # <<>>
    /\ \/ /\ Fresh(name)
          /\ res' = [name |-> name, ip |-> cache[Find(name)].ip, cached |-> TRUE]
          /\ UNCHANGED <<cache, rr, dnsw, arp, frame, call, asked, garbled>>
       \/ /\ ~Fresh(name)
          /\ cache' = IF Find(name) = 0 THEN cache ELSE [cache EXCEPT ![Find(name)].used = FALSE]
          /\ dnsw' = [active |-> TRUE, got |-> FALSE, id |-> dnsw.id + 1, ip |-> dnsw.ip]
          /\ Query(name, dnsw.id + 1, 1)
          /\ UNCHANGED <<rr, res>>
    /\ UNCHANGED <<now, dhcpVars, ping>>

\* Faulty variant: the number of the answer is not compared.
dns_inputAny(q, ok) ==
    /\ q.k = "dns" /\ dnsw.active
    /\ dnsw' = [dnsw EXCEPT !.got = TRUE, !.ip = IF ok THEN q.name ELSE <<>>]
    /\ UNCHANGED <<now, script, dhcpVars, arp, frame, cache, rr, res, ping, call, asked, garbled>>

\* dns_input: an answer to the query that is waited for; with an address or without.
dns_input(q, ok) ==
    /\ q.k = "dns" /\ dnsw.active /\ q.n = dnsw.id
    /\ dnsw' = [dnsw EXCEPT !.got = TRUE, !.ip = IF ok THEN q.name ELSE <<>>]
    /\ UNCHANGED <<now, script, dhcpVars, arp, frame, cache, rr, res, ping, call, asked, garbled>>

\* dns_wait returns: the answer, or the next server, then all of them once more.
dns_wait ==
    LET c == call[Shell] IN
    /\ c.k = "dns"
    /\ \/ /\ dnsw.got
          /\ dnsw' = [dnsw EXCEPT !.active = FALSE] /\ Busy(Shell, Idle)
          /\ \/ dnsw.ip # <<>> /\ dns_cache_put(c.name) /\ res' = [name |-> c.name, ip |-> dnsw.ip, cached |-> FALSE]
             \/ dnsw.ip = <<>> /\ UNCHANGED <<cache, rr, res>>
          /\ UNCHANGED <<arp, frame, asked, garbled>>
       \/ /\ ~dnsw.got /\ (c.s < Len(dns.srv) \/ (c.att = 1 /\ dns.srv # <<>>))
          /\ LET s == IF c.s < Len(dns.srv) THEN c.s + 1 ELSE 1
             IN  SendVia(Shell, Msg("dns", dnsw.id, c.name), Hop(dns.srv[s]),
                         [c EXCEPT !.s = s, !.att = IF s = 1 THEN 2 ELSE @])
          /\ UNCHANGED nameVars
       \/ /\ ~dnsw.got /\ ~(c.s < Len(dns.srv) \/ (c.att = 1 /\ dns.srv # <<>>))
          /\ dnsw' = [dnsw EXCEPT !.active = FALSE] /\ Busy(Shell, Idle)
          /\ UNCHANGED <<cache, rr, res, arp, frame, asked, garbled>>
    /\ UNCHANGED <<now, script, dhcpVars, ping>>

\* dns a.b.c.d, and the command that empties the cache
net_dns_set_server(s) ==
    /\ Command("dns") /\ dns' = [srv |-> <<s>>, manual |-> TRUE]
    /\ UNCHANGED <<now, lease, renew, w, ip, arp, frame, nameVars, ping, call, asked, garbled>>
net_dns_cache_clear ==
    /\ Command("flush")
    /\ cache' = [i \in 1..CacheSlots |-> [cache[i] EXCEPT !.used = FALSE]] /\ rr' = 0
    /\ UNCHANGED <<now, dhcpVars, arp, frame, dnsw, res, ping, call, asked, garbled>>

-----------------------------------------------------------------------------
\* task_sleep: a sleeper that takes itself off its queue while a tick comes is
\* switched out BLOCKED, on no queue and without a deadline, and never runs again
\* (task.c 714; module Scheduler has how).  What it waited for stays as it is.
Sleeps == {"arp", "ping", "offer", "ack", "dns"}
SleeperLost ==
    /\ call[Shell].k \in Sleeps
    /\ Busy(Shell, [call[Shell] EXCEPT !.k = "lost"])
    /\ UNCHANGED <<now, script, dhcpVars, arp, frame, nameVars, ping, asked, garbled>>

Waiting == arp_resolve(Shell) \/ ping_ends \/ dhcp_wait \/ dhcp_request \/ dhcp_acked \/ dhcp_applies \/ dns_wait
Frames ==
    \/ \E h \in Hosts : net_input(h)
    \/ \E q \in asked : \/ EchoReply(q)
                         \/ \E s \in DhcpServers, t \in {"offer", "ack", "nak"} : dhcp_input(q, s, t)
                         \/ \E ok \in BOOLEAN : dns_input(q, ok)
Next ==
    \/ net_tick \/ Frames \/ Waiting \/ SleeperLost
    \/ \E p \in Procs : arp_resolve(p) \/ \E h \in Hosts : net_udp_send(p, h)
    \/ net_dhcp \/ net_dns_cache_clear
    \/ \E h \in Hosts : net_ping(h) \/ net_dns_set_server(h)
    \/ \E n \in Names : net_dns_resolve(n)

\* A command that waits is woken by a frame or by its deadline, and then run, unless
\* its sleep is lost: then no step of Waiting is enabled any more.
Spec == Init /\ [][Next]_vars /\ WF_vars(Waiting)

-----------------------------------------------------------------------------
\* A lease that runs out is given up at that very tick, renewed or not, whatever
\* was lost: no dhcp command, answer or retry leaves a lease that is valid
\* behind its end.
LeaseExpires == lease.valid /\ renew.active => ~Due(renew.expire)

\* The address and the options of a lease come from one answer, although the
\* buffer is filled by an interrupt and read by the shell piece by piece.
LeaseIsOneAnswer == lease.valid => lease.ip = Grant[lease.opt] /\ ip = lease.ip

Prefix(p, s) == SubSeq(s, 1, Len(p)) = p

\* A name is resolved to the address some server gave for this name: no late
\* answer to an earlier query and no repeated one is taken for it.  An address
\* from the cache is that of the name, or of one it begins with: the copy in
\* dns_cache_put does not end the key (CachedUnderItsName).
AnswerIsForName == (~res.cached => res.ip = res.name) /\ Prefix(res.ip, res.name)

\* What a lookup has put into the cache is found there under its name, as the
\* second lookup of tests/test_dns.py expects, and under no other.
CachedUnderItsName == \A i \in 1..CacheSlots : cache[i].used => cache[i].name = cache[i].ip

\* ping reports an answer only if this very request went out and was answered,
\* not an earlier one whose answer is late.
PingMeansReply == ping.got => Msg("ping", ping.seq, <<>>) \in asked

\* Every command of the shell returns, however many answers are lost or wrong, if
\* task_sleep returns: a command whose sleep is lost (finding 1) is the only one
\* that does not.
Returns == call[Shell].k # "idle" ~> call[Shell].k \in {"idle", "lost"}

\* net.c says that nobody touches g_frame while a sender sleeps for the address
\* of the next hop.  If so, every frame carries what its sender put there.
FrameIsMine == ~garbled
=============================================================================
