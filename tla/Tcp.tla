-------------------------------- MODULE Tcp ---------------------------------
(***************************************************************************)
(* The TCP part of kernel/net.c: the socket table, the segment handler     *)
(* tcp_input, the retransmission timer and the calls of a program.  Calls  *)
(* run with interrupts off and are atomic except where they sleep.         *)
(*                                                                         *)
(* The network loses, repeats, delays and reorders.  What we send stays on *)
(* the `wire', and the far end may take it or not, at any time.            *)
(* What the far end sends is not stored at all: any segment its state      *)
(* allows it to have sent may arrive, again and again, cut in any way.     *)
(* A segment the far end has no more use for is taken off the wire.        *)
(* The k-th byte of a stream is the pair <<far end, k>>, or k when it is   *)
(* ours.  Sequence numbers are modulo SeqMod.                              *)
(***************************************************************************)
EXTENDS Integers, Sequences, FiniteSets

CONSTANTS
    MaxSocks,            \* NET_MAX_SOCKS
    Procs,               \* processes that use sockets
    Clients, Servers,    \* far ends that open a connection, or answer one
    PeerIsn, PeerLen,    \* [far end -> initial sequence number, length of its stream]
    SendMax,             \* bytes a program sends on a connection
    Isn0, SeqMod,        \* our first ISN, the size of the number space
    RxBuf, RtxBuf, OooBuf, RtxMax,   \* NET_SOCK_BUF, TCP_RTX_BUF, TCP_OOO_BUF, TCP_RTX_MAX
    MaxOpens             \* bound: sockets created in a behaviour


Peers  == Clients \cup Servers
NoPeer == "none"
Socks  == 0..(MaxSocks - 1)
Srv    == 1                                   \* the port a program listens on

\* Sequence numbers have 32 bits; TCP_RTX_BUF is 1536.  That no stream is longer than
\* the number space bounds a behaviour, in which old segments never die out.
ASSUME TcpAssumption ==
    /\ Clients \cap Servers = {} /\ NoPeer \notin Peers
    /\ MaxSocks \in Nat /\ MaxOpens \in Nat /\ Isn0 \in Nat /\ SeqMod \in Nat
    /\ PeerIsn \in [Peers -> 0..(SeqMod - 1)]
    /\ PeerLen \in [Peers -> Nat] /\ \A c \in Peers : PeerLen[c] + 2 < SeqMod
    /\ SendMax \in Nat /\ SendMax + 2 < SeqMod
    /\ RxBuf \in Nat \ {0} /\ RtxBuf \in Nat /\ OooBuf \in Nat /\ RtxMax \in Nat
    /\ RtxBuf + 1 < SeqMod \div 2

VARIABLES
    socks,     \* g_socks
    wire,      \* every SYN, FIN and data segment sent so far
    peer,      \* the far ends
    call,      \* what a caller is in the middle of
    alive,     \* callers that task_find finds
    opens,     \* sockets created: the ISN, and the ephemeral port, grow with it
    stolen     \* history: a call has freed a slot that was no longer its own

vars == <<socks, wire, peer, call, alive, opens, stolen>>

Idle == [k |-> "idle", s |-> -1, id |-> 0]

\* sock_free.  The fields it leaves alone are read by nobody before the slot is
\* taken again.
Free == [used |-> FALSE, state |-> "unused", port |-> 0, peer |-> NoPeer, parent |-> -1, owner |-> NoPeer,
         fin |-> FALSE, rx |-> <<>>, snd_nxt |-> 0, snd_una |-> 0, rcv_nxt |-> 0,
         rtx |-> <<>>, rto |-> FALSE, tries |-> 0, syn |-> FALSE, ooo |-> <<>>, ooo_seq |-> 0,
         id |-> 0, iss |-> 0, rd |-> 0, sent |-> 0]    \* history: which socket, its ISN, bytes read and sent

Init ==
    /\ socks = [i \in Socks |-> Free]
    /\ wire = {}
    /\ peer = [c \in Peers |-> [st |-> "closed", port |-> Srv, irs |-> 0, rcv |-> 0]]
    /\ call = [p \in Procs |-> Idle]
    /\ alive = Procs
    /\ opens = 0 /\ stolen = FALSE

-----------------------------------------------------------------------------
\* Sequence numbers: (int32_t)(a - b) < 0.
Plus(a, n) == (a + n) % SeqMod
Minus(a, b) == (a - b) % SeqMod
Before(a, b) == Minus(a, b) >= SeqMod \div 2
Least(a, b) == IF a < b THEN a ELSE b

NewIsn == Plus(Isn0, 5 * opens)
\* What far end q may still take of what was sent to it.
Pos(w, q) == Minus(w.seq, Plus(q.irs, 1))
Useful(w, q) ==
    CASE w.k = "syn"  -> q.st = (IF w.p \in Clients THEN "syn" ELSE "closed")
      [] w.k = "data" -> q.st = "open" /\ w.port = q.port /\ q.rcv < Pos(w, q) + Len(w.bytes)
      [] w.k = "fin"  -> q.st = "open" /\ w.port = q.port /\ q.rcv <= Pos(w, q)
Sent(segs) == wire' = wire \cup {w \in segs : w.p # NoPeer /\ Useful(w, peer[w.p])}

Seg(s, k, seq, bytes) == [p |-> s.peer, port |-> s.port, k |-> k, seq |-> seq, bytes |-> bytes, iss |-> s.iss]

(***************************************************************************)
(* The segment handler.                                                    *)
(***************************************************************************)
\* Faulty variant: what is left of a partly acknowledged segment is not moved
\* to the front of the buffer.
AckedKeepsHead(s, a) ==
    LET n == Minus(a, s.snd_una)
        t == [s EXCEPT !.snd_una = a, !.tries = 0]
    IN  IF ~(Before(s.snd_una, a) /\ ~Before(s.snd_nxt, a)) THEN s
        ELSE IF s.syn THEN [t EXCEPT !.syn = FALSE, !.rto = @ /\ s.rtx # <<>>]
        ELSE IF n >= Len(s.rtx) THEN [t EXCEPT !.rtx = <<>>, !.rto = FALSE]
        ELSE [t EXCEPT !.rtx = SubSeq(@, 1, Len(@) - n), !.rto = TRUE]

\* Faulty variant: a partial acknowledgement stops the timer.
AckedStopsTimer(s, a) ==
    LET n == Minus(a, s.snd_una)
        t == [s EXCEPT !.snd_una = a, !.tries = 0]
    IN  IF ~(Before(s.snd_una, a) /\ ~Before(s.snd_nxt, a)) THEN s
        ELSE IF s.syn THEN [t EXCEPT !.syn = FALSE, !.rto = @ /\ s.rtx # <<>>]
        ELSE IF n >= Len(s.rtx) THEN [t EXCEPT !.rtx = <<>>, !.rto = FALSE]
        ELSE [t EXCEPT !.rtx = SubSeq(@, n + 1, Len(@)), !.rto = FALSE]

\* An ACK inside (snd_una, snd_nxt] moves the left edge of what is unacknowledged.
Acked(s, a) ==
    LET n == Minus(a, s.snd_una)
        t == [s EXCEPT !.snd_una = a, !.tries = 0]
    IN  IF ~(Before(s.snd_una, a) /\ ~Before(s.snd_nxt, a)) THEN s
        ELSE IF s.syn THEN [t EXCEPT !.syn = FALSE, !.rto = @ /\ s.rtx # <<>>]
        ELSE IF n >= Len(s.rtx) THEN [t EXCEPT !.rtx = <<>>, !.rto = FALSE]
        ELSE [t EXCEPT !.rtx = SubSeq(@, n + 1, Len(@)), !.rto = TRUE]

\* Faulty variant: bytes the ring has no room for are acknowledged too.
StoredAcksAll(s, data) ==
    LET n == Least(Len(data), RxBuf - 1 - Len(s.rx))
    IN  [s EXCEPT !.rx = @ \o SubSeq(data, 1, n), !.rcv_nxt = Plus(@, Len(data))]

\* Bytes go to the ring as far as there is room; only those are acknowledged.
Stored(s, data) ==
    LET n == Least(Len(data), RxBuf - 1 - Len(s.rx))
    IN  [s EXCEPT !.rx = @ \o SubSeq(data, 1, n), !.rcv_nxt = Plus(@, n)]

\* The string of out-of-order bytes follows once the gap is closed.
Drained(s) ==
    LET n == Least(Len(s.ooo), RxBuf - 1 - Len(s.rx))
        t == Stored(s, s.ooo)
    IN  IF s.ooo = <<>> \/ s.ooo_seq # s.rcv_nxt THEN s
        ELSE [t EXCEPT !.ooo = SubSeq(@, n + 1, Len(@)), !.ooo_seq = IF n = Len(s.ooo) THEN 0 ELSE t.rcv_nxt]

\* Old bytes are dropped, the next ones stored, later ones kept if they are
\* the first or follow the string without a gap.
Received(s, seq, data) ==
    IF data = <<>> \/ Before(seq, s.rcv_nxt) THEN s
    ELSE IF seq = s.rcv_nxt THEN Drained(Stored(s, data))
    ELSE IF Len(s.ooo) + Len(data) <= OooBuf /\ (s.ooo = <<>> \/ seq = Plus(s.ooo_seq, Len(s.ooo)))
         THEN [s EXCEPT !.ooo = @ \o data, !.ooo_seq = IF s.ooo = <<>> THEN seq ELSE @]
    ELSE s

\* Faulty variant: the place of the FIN is not looked at.
FinAnywhere(s, g) ==
    IF "F" \notin g.f THEN s
    ELSE [s EXCEPT !.rcv_nxt = Plus(@, 1), !.fin = TRUE, !.state = IF @ = "established" THEN "close_wait" ELSE @]

\* A FIN counts only behind the last byte that was stored.
Fin(s, g) ==
    IF "F" \notin g.f \/ Plus(g.seq, Len(g.data)) # s.rcv_nxt THEN s
    ELSE [s EXCEPT !.rcv_nxt = Plus(@, 1), !.fin = TRUE, !.state = IF @ = "established" THEN "close_wait" ELSE @]

\* The connection a segment belongs to: the first that matches; the listener
\* is the last on its port.
ConnOf(g)     == {i \in Socks : socks[i].used /\ socks[i].port = g.port /\ socks[i].state # "listen" /\ socks[i].peer = g.p}
ListenerOf(g) == {i \in Socks : socks[i].used /\ socks[i].port = g.port /\ socks[i].state = "listen"}
LowestOf(S)   == CHOOSE i \in S : \A j \in S : i <= j
HighestOf(S)  == CHOOSE i \in S : \A j \in S : j <= i
FreeSocks     == {i \in Socks : ~socks[i].used}

\* tcp_input on a connection: the state after it.
Handled(s0, g) ==
    LET s    == IF "A" \in g.f THEN Acked(s0, g.ack) ELSE s0
        body == Fin(Received(s, g.seq, g.data), g)
        mine == "A" \in g.f /\ g.ack = s.snd_nxt
    IN  CASE "R" \in g.f -> Free
          [] "R" \notin g.f /\ s.state = "syn_sent" ->
               IF {"S", "A"} \subseteq g.f /\ g.ack = s.snd_una
               THEN [s EXCEPT !.rcv_nxt = Plus(g.seq, 1), !.state = "established",
                              !.syn = FALSE, !.rto = FALSE, !.tries = 0]
               ELSE s
          [] "R" \notin g.f /\ s.state = "syn_rcvd" ->
               IF mine THEN Fin(Received([s EXCEPT !.state = "established"], g.seq, g.data), g) ELSE s
          [] "R" \notin g.f /\ s.state \in {"established", "close_wait"} -> body
          [] "R" \notin g.f /\ s.state = "last_ack" -> IF mine THEN Free ELSE s
          [] "R" \notin g.f /\ s.state \in {"fin_wait_1", "fin_wait_2"} ->
               IF "F" \in g.f THEN Free
               ELSE [s EXCEPT !.state = IF mine /\ @ = "fin_wait_1" THEN "fin_wait_2" ELSE @]
          [] OTHER -> s

\* tcp_input: a SYN for a listener takes a free slot and is answered, once.
Accepted(g, i, l) ==
    [Free EXCEPT !.used = TRUE, !.state = "syn_rcvd", !.port = g.port, !.peer = g.p, !.parent = l,
                 !.owner = socks[l].owner, !.snd_nxt = Plus(NewIsn, 1), !.snd_una = NewIsn,
                 !.rcv_nxt = Plus(g.seq, 1), !.id = opens + 1, !.iss = NewIsn]

tcp_input(g) ==
    /\ UNCHANGED <<peer, call, alive, stolen>>
    /\ \/ /\ ConnOf(g) # {}
          /\ LET i == LowestOf(ConnOf(g)) IN socks' = [socks EXCEPT ![i] = Handled(@, g)]
          /\ UNCHANGED <<wire, opens>>
       \/ /\ ConnOf(g) = {} /\ ListenerOf(g) # {} /\ g.f = {"S"} /\ FreeSocks # {}
          /\ opens < MaxOpens
          /\ LET i == LowestOf(FreeSocks)
                 s == Accepted(g, i, HighestOf(ListenerOf(g)))
             IN  socks' = [socks EXCEPT ![i] = s] /\ Sent({Seg(s, "syn", s.iss, <<>>)})
          /\ opens' = opens + 1

-----------------------------------------------------------------------------
(***************************************************************************)
(* The far ends.                                                           *)
(***************************************************************************)
\* Any segment far end c may have sent: pieces of its stream with the FIN behind
\* the last byte, with any acknowledgement it has ever been entitled to.
InSegs(c) ==
    LET q    == peer[c]
        g(f, seq, ack, data) == [p |-> c, port |-> q.port, f |-> f, seq |-> seq % SeqMod, ack |-> ack, data |-> data]
        acks == {Plus(q.irs, 1 + k) : k \in 0..q.rcv}
        cut(i, j) == [k \in 1..(j - i) |-> <<c, i + k>>]
        at(i) == PeerIsn[c] + 1 + i
    IN  CASE q.st = "closed" -> {}
          [] q.st = "syn"    -> {g({"S"}, PeerIsn[c], 0, <<>>)}
          [] q.st = "open"   ->
               {IF c \in Clients THEN g({"S"}, PeerIsn[c], 0, <<>>)
                ELSE g({"S", "A"}, PeerIsn[c], Plus(q.irs, 1), <<>>)}
               \cup {g({"A"}, at(x[1]), x[3], cut(x[1], x[2])) : x \in {y \in (0..PeerLen[c]) \X (0..PeerLen[c]) \X acks : y[1] <= y[2]}}
               \cup {g({"A", "F"}, at(i), a, cut(i, PeerLen[c])) : i \in 0..PeerLen[c], a \in acks}
          [] q.st = "reset"  -> {g({"R"}, at(0), 0, <<>>)}

Arrive == \E c \in Peers : \E g \in InSegs(c) : tcp_input(g)

Opens(c)  == /\ c \in Clients /\ peer[c].st = "closed"
             /\ peer' = [peer EXCEPT ![c].st = "syn"]
             /\ UNCHANGED <<socks, wire, call, alive, opens, stolen>>
Resets(c) == /\ peer[c].st \in {"syn", "open"}
             /\ peer' = [peer EXCEPT ![c] = [st |-> "reset", port |-> @.port, irs |-> 0, rcv |-> 0]]
             /\ wire' = {w \in wire : w.p # c}
             /\ UNCHANGED <<socks, call, alive, opens, stolen>>

\* It takes one of our segments, of data as much as it has room for.
Takes(c) == \E w \in wire :
    LET q == peer[c] IN
    /\ w.p = c /\ Useful(w, q)
    /\ \/ /\ w.k = "syn"
          /\ peer' = [peer EXCEPT ![c] = [st |-> "open", port |-> w.port, irs |-> w.seq, rcv |-> 0]]
       \/ /\ w.k = "data" /\ Pos(w, q) <= q.rcv
          /\ \E n \in (q.rcv + 1)..(Pos(w, q) + Len(w.bytes)) : peer' = [peer EXCEPT ![c].rcv = n]
       \/ /\ w.k = "fin" /\ Pos(w, q) = q.rcv
          /\ peer' = [peer EXCEPT ![c].rcv = @ + 1]
    /\ wire' = {v \in wire : v.p = c => Useful(v, peer'[c])}
    /\ UNCHANGED <<socks, call, alive, opens, stolen>>

-----------------------------------------------------------------------------
(***************************************************************************)
(* The timer.  An armed timer may run out at any moment.                   *)
(***************************************************************************)
\* tcp_retransmit_check: again from snd_una, or RST and give up.
net_tick(i) ==
    LET s    == socks[i]
        t    == [s EXCEPT !.tries = @ + 1]
        send == IF s.syn THEN {Seg(s, "syn", s.snd_una, <<>>)}
                ELSE IF s.rtx = <<>> THEN {} ELSE {Seg(s, "data", s.snd_una, s.rtx)}
    IN
    /\ s.used /\ s.rto
    /\ \/ s.tries >= RtxMax /\ socks' = [socks EXCEPT ![i] = Free] /\ UNCHANGED wire
       \/ /\ s.tries < RtxMax
          /\ socks' = [socks EXCEPT ![i] = IF send = {} THEN [t EXCEPT !.rto = FALSE] ELSE t]
          /\ Sent(send)
    /\ UNCHANGED <<peer, call, alive, opens, stolen>>

-----------------------------------------------------------------------------
(***************************************************************************)
(* Calls.                                                                  *)
(***************************************************************************)
Ready(p) == p \in alive /\ call[p] = Idle
Mine(p)  == {i \in Socks : socks[i].used /\ socks[i].owner = p}

\* sock_alloc first drops what dead owners left behind.
Reclaimed == [i \in Socks |-> IF socks[i].used /\ socks[i].owner \notin alive THEN Free ELSE socks[i]]
Taken(p, s) == [Free EXCEPT !.used = TRUE, !.owner = p, !.id = opens + 1, !.rtx = s.rtx, !.rto = s.rto,
                            !.tries = s.tries, !.syn = s.syn, !.ooo = s.ooo, !.ooo_seq = s.ooo_seq]

\* SC_SOCKET
socket(p) ==
    LET free == {i \in Socks : ~Reclaimed[i].used} IN
    /\ Ready(p) /\ opens < MaxOpens /\ free # {}
    /\ socks' = [Reclaimed EXCEPT ![LowestOf(free)] = Taken(p, @)]
    /\ opens' = opens + 1
    /\ UNCHANGED <<wire, peer, call, alive, stolen>>

\* SC_BIND and SC_LISTEN, on the one port programs serve
listen(p, i) ==
    /\ Ready(p) /\ i \in Mine(p) /\ socks[i].state = "unused" /\ socks[i].port = 0
    /\ \A j \in Socks : socks[j].used => socks[j].port # Srv
    /\ socks' = [socks EXCEPT ![i].port = Srv, ![i].state = "listen"]
    /\ UNCHANGED <<wire, peer, call, alive, opens, stolen>>

\* SC_CONNECT: a fresh port, then the far end's MAC.
connect(p, i, c) ==
    /\ Ready(p) /\ i \in Mine(p) /\ socks[i].state = "unused" /\ socks[i].port = 0
    /\ socks' = [socks EXCEPT ![i].port = Srv + socks[i].id, ![i].peer = c, ![i].state = "syn_sent", ![i].syn = TRUE,
                              ![i].snd_nxt = NewIsn, ![i].snd_una = NewIsn, ![i].iss = NewIsn]
    /\ call' = [call EXCEPT ![p] = [k |-> "arp", s |-> i, id |-> socks[i].id]]
    /\ UNCHANGED <<wire, peer, alive, opens, stolen>>
\* The MAC is there and the SYN goes out with its timer, or it is not.
connect_syn(p) ==
    LET i == call[p].s
        s == socks[i] IN
    /\ call[p].k = "arp"
    /\ \/ /\ socks' = [socks EXCEPT ![i] = Free] /\ call' = [call EXCEPT ![p] = Idle] /\ UNCHANGED wire
       \/ /\ socks' = [socks EXCEPT ![i].snd_nxt = Plus(@, 1), ![i].rto = TRUE, ![i].tries = 0]
          /\ Sent({Seg(s, "syn", s.snd_nxt, <<>>)})
          /\ call' = [call EXCEPT ![p].k = "connect"]
    /\ UNCHANGED <<peer, alive, opens, stolen>>
\* wait_cond(cond_connected): on a timeout the slot is freed, whoever has it.
connect_ends(p) ==
    LET i == call[p].s IN
    /\ call[p].k = "connect"
    /\ socks' = IF socks[i].state = "established" THEN socks ELSE [socks EXCEPT ![i] = Free]
    /\ stolen' = (stolen \/ (socks' # socks /\ socks[i].used /\ socks[i].id # call[p].id))
    /\ call' = [call EXCEPT ![p] = Idle]
    /\ UNCHANGED <<wire, peer, alive, opens>>

\* SC_ACCEPT
Waiting(l) == {i \in Socks : socks[i].used /\ socks[i].parent = l /\ socks[i].state = "established"}
accept(p, l) ==
    /\ Ready(p) /\ l \in Mine(p) /\ socks[l].state = "listen"
    /\ call' = [call EXCEPT ![p] = [k |-> "accept", s |-> l, id |-> socks[l].id]]
    /\ UNCHANGED <<socks, wire, peer, alive, opens, stolen>>
accept_ends(p) ==
    LET got == Waiting(call[p].s) IN
    /\ call[p].k = "accept"
    /\ socks' = IF got = {} THEN socks ELSE [socks EXCEPT ![LowestOf(got)].parent = -1]
    /\ call' = [call EXCEPT ![p] = Idle]
    /\ UNCHANGED <<wire, peer, alive, opens, stolen>>

\* SC_SENDTO: one segment at a time; a frame that cannot be sent is undone.
send(p, i, n) ==
    LET s     == socks[i]
        bytes == [k \in 1..n |-> s.sent + k] IN
    /\ Ready(p) /\ i \in Mine(p) /\ s.state \in {"established", "close_wait"} /\ s.parent = -1
    /\ s.rtx = <<>> /\ n <= RtxBuf /\ s.sent + n <= SendMax
    /\ socks' = [socks EXCEPT ![i].rtx = bytes, ![i].snd_nxt = Plus(@, n), ![i].sent = @ + n,
                              ![i].rto = TRUE, ![i].tries = 0]
    /\ Sent({Seg(s, "data", s.snd_nxt, bytes)})
    /\ UNCHANGED <<peer, call, alive, opens, stolen>>

\* SC_RECVFROM: at least one byte, the end of the stream, or a timeout.
recv(p, i) ==
    /\ Ready(p) /\ i \in Mine(p) /\ socks[i].state # "listen" /\ socks[i].parent = -1
    /\ call' = [call EXCEPT ![p] = [k |-> "recv", s |-> i, id |-> socks[i].id]]
    /\ UNCHANGED <<socks, wire, peer, alive, opens, stolen>>
recv_ends(p) ==
    LET i == call[p].s IN
    /\ call[p].k = "recv"
    /\ \/ /\ socks[i].rx # <<>>
          /\ \E n \in 1..Len(socks[i].rx) :
               socks' = [socks EXCEPT ![i].rx = SubSeq(@, n + 1, Len(@)), ![i].rd = @ + n]
       \/ socks[i].rx = <<>> /\ UNCHANGED socks
    /\ call' = [call EXCEPT ![p] = Idle]
    /\ UNCHANGED <<wire, peer, alive, opens, stolen>>

\* Faulty variant: a listener leaves the connections nobody has accepted.
ClosedAlone(i) == [socks EXCEPT ![i] = Free]

\* tcp_close of a socket that is not connected: a listener takes the
\* connections nobody has accepted with it.
ClosedWithChildren(i) ==
    [j \in Socks |-> IF j = i \/ (socks[i].state = "listen" /\ socks[j].used /\ socks[j].parent = i)
                     THEN Free ELSE socks[j]]

\* SC_CLOSE
close(p, i) ==
    LET s == socks[i] IN
    /\ Ready(p) /\ i \in Mine(p) /\ s.parent = -1
    /\ IF s.state \in {"established", "close_wait"}
       THEN /\ socks' = [socks EXCEPT ![i].snd_nxt = Plus(@, 1),
                                      ![i].state = IF @ = "established" THEN "fin_wait_1" ELSE "last_ack"]
            /\ Sent({Seg(s, "fin", s.snd_nxt, <<>>)})
       ELSE socks' = ClosedWithChildren(i) /\ UNCHANGED wire
    /\ UNCHANGED <<peer, call, alive, opens, stolen>>

\* A process ends; its sockets stay until somebody asks for one.
exit(p) ==
    /\ Ready(p)
    /\ alive' = alive \ {p}
    /\ UNCHANGED <<socks, wire, peer, call, opens, stolen>>

Calls(p) ==
    \/ socket(p) \/ connect_syn(p) \/ connect_ends(p) \/ accept_ends(p) \/ recv_ends(p) \/ exit(p)
    \/ \E i \in Socks : \/ listen(p, i) \/ accept(p, i) \/ recv(p, i) \/ close(p, i)
                        \/ \E c \in Servers : connect(p, i, c)
                        \/ \E n \in 1..RtxBuf : send(p, i, n)

Next ==
    \/ Arrive
    \/ \E c \in Peers : Opens(c) \/ Resets(c) \/ Takes(c)
    \/ \E i \in Socks : net_tick(i)
    \/ \E p \in Procs : Calls(p)

\* The timer interrupt comes again and again and looks at every socket.
Spec == Init /\ [][Next]_vars /\ \A i \in Socks : WF_vars(net_tick(i))

-----------------------------------------------------------------------------
\* The state of a connection that still receives.
Connected(s) == s.used /\ s.state \in {"established", "close_wait"}

\* The buffers of a socket keep their sizes: a ring of RxBuf holds one byte less,
\* because rx_r = rx_w means empty, and the timer gives up in time.
TypeOK ==
    /\ DOMAIN socks = Socks
    /\ \A i \in Socks : /\ socks[i].parent \in Socks \cup {-1}
                        /\ Len(socks[i].rx) < RxBuf /\ Len(socks[i].rtx) <= RtxBuf /\ Len(socks[i].ooo) <= OooBuf
                        /\ socks[i].tries \in 0..RtxMax
    /\ \A p \in Procs : call[p].s \in Socks \cup {-1}

\* What a program has read and what waits in the ring is a prefix of what the
\* far end sent, each byte once and in order, and rcv_nxt, which every segment
\* acknowledges, stands exactly behind it: tcp_input never acknowledges bytes
\* the full ring had no room for, nor joins pieces with a hole between them.
StreamIn ==
    \A i \in Socks : Connected(socks[i]) =>
        LET s == socks[i] IN
        /\ \A k \in 1..Len(s.rx) : s.rx[k] = <<s.peer, s.rd + k>>
        /\ s.rcv_nxt = Plus(PeerIsn[s.peer], 1 + s.rd + Len(s.rx) + (IF s.fin THEN 1 ELSE 0))

\* A program is told the stream has ended only when all of it has been stored.
FinMeansAll ==
    \A i \in Socks : Connected(socks[i]) /\ socks[i].fin => socks[i].rd + Len(socks[i].rx) = PeerLen[socks[i].peer]

\* Every data segment, sent once or again, whole or what a partial ACK left of
\* it, carries the bytes its sequence number stands for.
SegmentsExact ==
    \A w \in wire : \A k \in 1..Len(w.bytes) : w.bytes[k] = Minus(w.seq, Plus(w.iss, 1)) + k

\* The bytes on the wire are the program's, each under its own number, through
\* partial acknowledgements, retransmissions and the wrap, as long as no connect
\* that timed out frees the slot of a call that waits for a MAC: two calls may
\* then each send the SYN of one socket, and its stream skips a number.
StreamOut == ~stolen => SegmentsExact

\* What tcp_close says of itself (net.c:1430): a connection nobody has accepted
\* goes with its listener, so that its parent index is never that of another
\* socket.
ChildHasListener ==
    \A i \in Socks : socks[i].used /\ socks[i].parent # -1 =>
        socks[socks[i].parent].used /\ socks[socks[i].parent].state = "listen"

\* A connection that waits to be accepted always has its listener: no close, no
\* reclaimed owner and no given-up peer leaves one whose parent index another
\* socket may get, as long as no connect that timed out frees a listener in the
\* slot that once was its own (wait_cond keeps the index across the sleep).
ParentListens == ~stolen => ChildHasListener

Unsettled(i) == socks[i].used /\ (socks[i].rtx # <<>> \/ (socks[i].syn /\ socks[i].snd_nxt # socks[i].snd_una))

\* Unacknowledged data, or a SYN, is acknowledged or given up: the timer is
\* never lost on the way, whatever arrives in between.
Settles == \A i \in Socks : Unsettled(i) ~> ~Unsettled(i)

\* net.c says of its callers that the socket table needs no lock.  If so, a call
\* that sleeps wakes up to the socket it went to sleep with, and not to one that
\* took the slot in the meantime.
CallKeepsSocket ==
    \A p \in Procs : call[p].s # -1 /\ socks[call[p].s].used =>
        socks[call[p].s].id = call[p].id
=============================================================================
