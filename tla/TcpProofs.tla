----------------------------- MODULE TcpProofs ------------------------------
(***************************************************************************)
(* TCP, proved for any number of sockets, processes and far ends, every    *)
(* length of the streams and every size of the buffers: what a program     *)
(* reads is what the far end sent, what goes out carries the bytes its     *)
(* number stands for, and nobody waits for a listener that has gone.       *)
(***************************************************************************)
EXTENDS Tcp, SequenceTheorems, WellFoundedInduction, TLAPS

-----------------------------------------------------------------------------
(* Types *)

Num    == 0..(SeqMod - 1)
Half   == SeqMod \div 2
Bytes  == Peers \X Nat
States == {"unused", "listen", "syn_sent", "syn_rcvd", "established", "close_wait",
           "fin_wait_1", "fin_wait_2", "last_ack"}

SockT == [used : BOOLEAN, state : States, port : Nat, peer : Peers \cup {NoPeer},
          parent : Socks \cup {-1}, owner : Procs \cup {NoPeer}, fin : BOOLEAN,
          rx : Seq(Bytes), snd_nxt : Num, snd_una : Num, rcv_nxt : Num, rtx : Seq(Nat),
          rto : BOOLEAN, tries : Nat, syn : BOOLEAN, ooo : Seq(Bytes), ooo_seq : Num,
          id : Nat, iss : Num, rd : Nat, sent : Nat]
SegT  == [p : Peers, port : Nat, k : {"syn", "data", "fin"}, seq : Num, bytes : Seq(Nat), iss : Num]
PeerT == [st : {"closed", "syn", "open", "reset"}, port : Nat, irs : Num, rcv : Nat]
CallT == [k : {"idle", "arp", "connect", "accept", "recv"}, s : Socks \cup {-1}, id : Nat]

Types ==
    /\ socks \in [Socks -> SockT]
    /\ wire \subseteq SegT
    /\ peer \in [Peers -> PeerT]
    /\ call \in [Procs -> CallT]
    /\ alive \subseteq Procs
    /\ opens \in Nat /\ stolen \in BOOLEAN

-----------------------------------------------------------------------------
(* Numbers of a circle *)

LEMMA Constants ==
    /\ SeqMod \in Nat /\ SeqMod > 3 /\ Half \in Nat /\ 2 * Half <= SeqMod /\ SeqMod <= 2 * Half + 1
    /\ RtxBuf + 1 < Half /\ RtxBuf \in Nat /\ RxBuf \in Nat /\ RxBuf > 0 /\ OooBuf \in Nat
    /\ SendMax \in Nat /\ SendMax + 2 < SeqMod
    /\ \A c \in Peers : PeerIsn[c] \in Num /\ PeerLen[c] \in Nat /\ PeerLen[c] + 2 < SeqMod
  BY TcpAssumption DEF Half, Num

LEMMA Parts ==
    ASSUME NEW p \in Nat, NEW l \in Nat, NEW n \in 0..l
    PROVE  p + n \in Nat /\ (p + n) + (l - n) = p + l /\ p + n <= p + l
  OBVIOUS

\* Places of a stream are numbers of the circle.
LEMMA Places ==
    ASSUME NEW p \in Nat, NEW l \in Nat, NEW m \in Nat, NEW M \in Nat, p + l <= m, m + 2 < M
    PROVE  /\ p \in 0..m /\ p + l \in 0..m /\ 1 + p \in Nat /\ (1 + p) + l = 1 + (p + l)
           /\ (1 + p) + l <= M /\ (1 + p) + l \in 0..(M - 1) /\ 1 + p \in 0..(M - 1)
  OBVIOUS

LEMMA PlusIs ==
    ASSUME NEW a \in Num, NEW n \in 0..SeqMod
    PROVE  /\ Plus(a, n) = IF a + n < SeqMod THEN a + n ELSE a + n - SeqMod
           /\ Plus(a, n) \in Num
  BY Constants DEF Plus, Num

LEMMA MinusIs ==
    ASSUME NEW a \in Num, NEW b \in Num
    PROVE  /\ Minus(a, b) = IF a >= b THEN a - b ELSE a - b + SeqMod
           /\ Minus(a, b) \in Num
  BY Constants DEF Minus, Num

LEMMA PlusPlus ==
    ASSUME NEW a \in Num, NEW n \in Nat, NEW m \in Nat, n + m <= SeqMod
    PROVE  Plus(Plus(a, n), m) = Plus(a, n + m)
  <1> DEFINE b == Plus(a, n)
  <1>1. n \in 0..SeqMod /\ m \in 0..SeqMod /\ n + m \in 0..SeqMod
    BY Constants
  <1>2. b \in Num /\ b = IF a + n < SeqMod THEN a + n ELSE a + n - SeqMod
    BY <1>1, PlusIs
  <1> HIDE DEF b
  <1>3. Plus(b, m) = IF b + m < SeqMod THEN b + m ELSE b + m - SeqMod
    BY <1>1, <1>2, PlusIs
  <1>4. Plus(a, n + m) = IF a + (n + m) < SeqMod THEN a + (n + m) ELSE a + (n + m) - SeqMod
    BY <1>1, PlusIs
  <1>5. SeqMod \in Nat /\ a \in 0..(SeqMod - 1) /\ b \in 0..(SeqMod - 1)
    BY <1>2, Constants DEF Num
  <1>6. Plus(b, m) = Plus(a, n + m)
    BY <1>2, <1>3, <1>4, <1>5
  <1> QED  BY <1>6 DEF b

LEMMA PlusInjective ==
    ASSUME NEW a \in Num, NEW n \in 0..(SeqMod - 1), NEW m \in 0..(SeqMod - 1), Plus(a, n) = Plus(a, m)
    PROVE  n = m
  <1> DEFINE x == Plus(a, n)
             y == Plus(a, m)
  <1>1. n \in 0..SeqMod /\ m \in 0..SeqMod /\ SeqMod \in Nat /\ a \in 0..(SeqMod - 1)
    BY Constants DEF Num
  <1>2. x = IF a + n < SeqMod THEN a + n ELSE a + n - SeqMod
    BY <1>1, PlusIs
  <1>3. y = IF a + m < SeqMod THEN a + m ELSE a + m - SeqMod
    BY <1>1, PlusIs
  <1>4. x = y
    OBVIOUS
  <1> HIDE DEF x, y
  <1> QED  BY <1>1, <1>2, <1>3, <1>4

LEMMA MinusPlus ==
    ASSUME NEW a \in Num, NEW m \in Nat, NEW n \in Nat, m <= n, n < SeqMod
    PROVE  Minus(Plus(a, n), Plus(a, m)) = n - m
  <1> DEFINE x == Plus(a, n)
             y == Plus(a, m)
  <1>1. n \in 0..SeqMod /\ m \in 0..SeqMod /\ SeqMod \in Nat /\ a \in 0..(SeqMod - 1)
    BY Constants DEF Num
  <1>2. x \in Num /\ x = IF a + n < SeqMod THEN a + n ELSE a + n - SeqMod
    BY <1>1, PlusIs
  <1>3. y \in Num /\ y = IF a + m < SeqMod THEN a + m ELSE a + m - SeqMod
    BY <1>1, PlusIs
  <1> HIDE DEF x, y
  <1>4. Minus(x, y) = IF x >= y THEN x - y ELSE x - y + SeqMod
    BY <1>2, <1>3, MinusIs
  <1>5. x \in 0..(SeqMod - 1) /\ y \in 0..(SeqMod - 1)
    BY <1>2, <1>3 DEF Num
  <1>6. Minus(x, y) = n - m
    BY <1>1, <1>2, <1>3, <1>4, <1>5
  <1> QED  BY <1>6 DEF x, y

\* A number that is behind the left edge and not behind the right one lies
\* between them, when they are less than half the circle apart.
LEMMA InWindow ==
    ASSUME NEW u \in Num, NEW d \in Nat, d < Half, NEW a \in Num,
           Before(u, a), ~Before(Plus(u, d), a)
    PROVE  /\ Minus(a, u) \in 1..d
           /\ a = Plus(u, Minus(a, u))
  <1> DEFINE v == Plus(u, d)
             n == Minus(a, u)
  <1>1. /\ d \in 0..SeqMod /\ SeqMod \in Nat /\ Half \in Nat /\ 2 * Half <= SeqMod
        /\ SeqMod <= 2 * Half + 1 /\ u \in 0..(SeqMod - 1) /\ a \in 0..(SeqMod - 1)
    BY Constants DEF Num
  <1>2. v \in Num /\ v = IF u + d < SeqMod THEN u + d ELSE u + d - SeqMod
    BY <1>1, PlusIs
  <1>3. Minus(u, a) >= Half /\ Minus(v, a) < Half
    <2>1. Minus(v, a) \in Num
      BY <1>2, MinusIs
    <2> QED  BY <1>1, <2>1 DEF Before, Half, Num
  <1>4. Minus(u, a) = IF u >= a THEN u - a ELSE u - a + SeqMod
    BY <1>1, MinusIs
  <1>5. n = IF a >= u THEN a - u ELSE a - u + SeqMod
    BY <1>1, MinusIs
  <1> HIDE DEF v, n
  <1>6. Minus(v, a) = IF v >= a THEN v - a ELSE v - a + SeqMod
    BY <1>2, MinusIs
  <1>7. v \in 0..(SeqMod - 1)
    BY <1>2 DEF Num
  <1>8. n \in 1..d
    BY <1>1, <1>2, <1>3, <1>4, <1>5, <1>6, <1>7
  <1>9. Plus(u, n) = IF u + n < SeqMod THEN u + n ELSE u + n - SeqMod
    BY <1>1, <1>8, PlusIs
  <1>10. a = Plus(u, n)
    BY <1>1, <1>5, <1>9
  <1> QED  BY <1>8, <1>10 DEF n

-----------------------------------------------------------------------------
(* Pieces of a stream *)

Own     == [k \in Nat |-> k]
From(c) == [k \in Nat |-> <<c, k>>]

\* q is the part of stream f behind its first o bytes.
Piece(q, f, o) == \A k \in 1..Len(q) : q[k] = f[o + k]

LEMMA PieceEmpty == \A f, o : Piece(<<>>, f, o)
  BY DEF Piece

LEMMA PieceJoined ==
    ASSUME NEW T, NEW a \in Seq(T), NEW b \in Seq(T), NEW f, NEW o \in Nat,
           Piece(a, f, o), Piece(b, f, o + Len(a))
    PROVE  /\ a \o b \in Seq(T) /\ Len(a \o b) = Len(a) + Len(b)
           /\ Piece(a \o b, f, o)
  <1>1. /\ a \o b \in Seq(T) /\ Len(a \o b) = Len(a) + Len(b)
        /\ \A i \in 1..Len(a) + Len(b) : (a \o b)[i] = IF i <= Len(a) THEN a[i] ELSE b[i - Len(a)]
    BY ConcatProperties
  <1>2. ASSUME NEW k \in 1..Len(a) + Len(b) PROVE (a \o b)[k] = f[o + k]
    <2>1. CASE k <= Len(a)
      BY <1>1, <2>1 DEF Piece
    <2>2. CASE k > Len(a)
      <3>1. k - Len(a) \in 1..Len(b) /\ (o + Len(a)) + (k - Len(a)) = o + k
        BY <2>2
      <3>2. b[k - Len(a)] = f[(o + Len(a)) + (k - Len(a))]
        BY <3>1 DEF Piece
      <3> QED  BY <1>1, <2>2, <3>1, <3>2
    <2> QED  BY <2>1, <2>2
  <1> QED  BY <1>1, <1>2 DEF Piece

LEMMA PieceCut ==
    ASSUME NEW T, NEW a \in Seq(T), NEW f, NEW o \in Nat, Piece(a, f, o), NEW n \in 0..Len(a)
    PROVE  /\ SubSeq(a, 1, n) \in Seq(T) /\ Len(SubSeq(a, 1, n)) = n /\ Piece(SubSeq(a, 1, n), f, o)
           /\ SubSeq(a, n + 1, Len(a)) \in Seq(T) /\ Len(SubSeq(a, n + 1, Len(a))) = Len(a) - n
           /\ Piece(SubSeq(a, n + 1, Len(a)), f, o + n)
  <1> DEFINE b == SubSeq(a, 1, n)
             e == SubSeq(a, n + 1, Len(a))
  <1>1. /\ b \in Seq(T) /\ Len(b) = n /\ \A k \in 1..n : b[k] = a[k]
    BY SubSeqProperties
  <1>2. /\ e \in Seq(T) /\ Len(e) = Len(a) - n /\ \A k \in 1..Len(a) - n : e[k] = a[n + k]
    BY SubSeqProperties
  <1> HIDE DEF b, e
  <1>3. Piece(b, f, o)
    <2> SUFFICES ASSUME NEW k \in 1..n PROVE b[k] = f[o + k]
      BY <1>1 DEF Piece
    <2>1. k \in 1..Len(a)
      OBVIOUS
    <2> QED  BY <1>1, <2>1 DEF Piece
  <1>4. Piece(e, f, o + n)
    <2> SUFFICES ASSUME NEW k \in 1..Len(a) - n PROVE e[k] = f[(o + n) + k]
      BY <1>2 DEF Piece
    <2>1. n + k \in 1..Len(a) /\ (o + n) + k = o + (n + k)
      OBVIOUS
    <2> QED  BY <1>2, <2>1 DEF Piece
  <1> QED  BY <1>1, <1>2, <1>3, <1>4 DEF b, e

-----------------------------------------------------------------------------
(* The receive side of a socket *)

Sizes(s) ==
    /\ Len(s.rx) < RxBuf /\ Len(s.rtx) <= RtxBuf /\ Len(s.ooo) <= OooBuf
    /\ s.tries <= RtxMax
Sock(s) == s \in SockT /\ Sizes(s)

\* Bytes of the stream that have been stored.
Have(s) == s.rd + Len(s.rx)

\* The bytes kept for later stand in their place of the stream.
OooOK(s) ==
    s.ooo # <<>> =>
        \E o \in 0..PeerLen[s.peer] :
            /\ o + Len(s.ooo) <= PeerLen[s.peer]
            /\ s.ooo_seq = Plus(PeerIsn[s.peer], 1 + o)
            /\ Piece(s.ooo, From(s.peer), o)

\* The ring holds the next bytes of the stream, and rcv_nxt stands behind them.
Recv(s) ==
    /\ s.peer \in Peers
    /\ Have(s) <= PeerLen[s.peer] /\ (s.fin => Have(s) = PeerLen[s.peer])
    /\ s.rcv_nxt = Plus(PeerIsn[s.peer], 1 + Have(s) + (IF s.fin THEN 1 ELSE 0))
    /\ Piece(s.rx, From(s.peer), s.rd)
    /\ OooOK(s)

NoBytes(s) == s.rx = <<>> /\ s.rd = 0 /\ s.ooo = <<>> /\ ~s.fin

RecvOK(s) ==
    /\ s.state \in {"unused", "listen", "syn_sent"} => NoBytes(s)
    /\ s.state \in {"syn_rcvd", "established", "close_wait"} => Recv(s)
    /\ s.state \notin {"unused", "listen"} => s.peer \in Peers

\* What arriving bytes leave alone.
Kept(s, t) ==
    /\ t.used = s.used /\ t.port = s.port /\ t.peer = s.peer /\ t.parent = s.parent
    /\ t.owner = s.owner /\ t.snd_nxt = s.snd_nxt /\ t.snd_una = s.snd_una /\ t.rtx = s.rtx
    /\ t.rto = s.rto /\ t.syn = s.syn /\ t.id = s.id /\ t.iss = s.iss /\ t.rd = s.rd /\ t.sent = s.sent

LEMMA SockFields ==
    ASSUME NEW s, Sock(s)
    PROVE  /\ s \in SockT
           /\ s.rx \in Seq(Bytes) /\ s.ooo \in Seq(Bytes) /\ s.rtx \in Seq(Nat)
           /\ Len(s.rx) \in Nat /\ Len(s.ooo) \in Nat /\ Len(s.rtx) \in Nat
           /\ s.rd \in Nat /\ s.sent \in Nat /\ s.id \in Nat /\ Have(s) \in Nat
           /\ s.rcv_nxt \in Num /\ s.snd_nxt \in Num /\ s.snd_una \in Num /\ s.iss \in Num
           /\ s.ooo_seq \in Num
  <1>1. /\ s \in SockT
        /\ s.rx \in Seq(Bytes) /\ s.ooo \in Seq(Bytes) /\ s.rtx \in Seq(Nat)
        /\ s.rd \in Nat /\ s.sent \in Nat /\ s.id \in Nat
        /\ s.rcv_nxt \in Num /\ s.snd_nxt \in Num /\ s.snd_una \in Num /\ s.iss \in Num
        /\ s.ooo_seq \in Num
    BY DEF Sock, SockT
  <1>2. Len(s.rx) \in Nat /\ Len(s.ooo) \in Nat /\ Len(s.rtx) \in Nat
    BY <1>1
  <1>3. Have(s) \in Nat
    BY <1>1, <1>2 DEF Have
  <1> QED  BY <1>1, <1>2, <1>3

LEMMA PlusNum == ASSUME NEW a \in Num, NEW n \in Nat PROVE Plus(a, n) \in Num
  BY Constants DEF Plus, Num

LEMMA LeastIs ==
    ASSUME NEW a \in Int, NEW b \in Int
    PROVE  Least(a, b) <= a /\ Least(a, b) <= b /\ Least(a, b) \in {a, b}
  BY DEF Least

Took(s, data, t, n) ==
    /\ n \in 0..Len(data) /\ Sock(t) /\ Kept(s, t) /\ t.state = s.state /\ t.fin = s.fin
    /\ t.ooo = s.ooo /\ t.ooo_seq = s.ooo_seq
    /\ t.rx = s.rx \o SubSeq(data, 1, n) /\ Len(t.rx) = Len(s.rx) + n
    /\ t.rcv_nxt = Plus(s.rcv_nxt, n)

LEMMA StoredFacts ==
    ASSUME NEW s, Sock(s), NEW data \in Seq(Bytes)
    PROVE  Took(s, data, Stored(s, data), Least(Len(data), RxBuf - 1 - Len(s.rx)))
  <1> DEFINE n == Least(Len(data), RxBuf - 1 - Len(s.rx))
             b == SubSeq(data, 1, n)
             r == s.rx \o b
             a == Plus(s.rcv_nxt, n)
             t == [s EXCEPT !.rx = r, !.rcv_nxt = a]
  <1>1. s \in SockT /\ s.rx \in Seq(Bytes) /\ Len(s.rx) \in Nat /\ Len(s.rx) < RxBuf /\ s.rcv_nxt \in Num
    BY DEF Sock, Sizes, SockT
  <1>2. n \in 0..Len(data) /\ Len(s.rx) + n < RxBuf
    <2>1. Len(data) \in Nat /\ RxBuf - 1 - Len(s.rx) \in Nat
      BY <1>1, Constants
    <2>2. n <= Len(data) /\ n <= RxBuf - 1 - Len(s.rx) /\ n \in {Len(data), RxBuf - 1 - Len(s.rx)}
      BY <2>1, LeastIs
    <2> HIDE DEF n
    <2>3. Len(s.rx) \in Nat /\ RxBuf \in Nat
      BY <1>1, Constants
    <2>4. n \in 0..Len(data)
      BY <2>1, <2>2
    <2> QED  BY SMTT(30), <2>1, <2>2, <2>3, <2>4
  <1>3. b \in Seq(Bytes) /\ Len(b) = n
    BY <1>2, SubSeqProperties
  <1> HIDE DEF n, b
  <1>4. r \in Seq(Bytes) /\ Len(r) = Len(s.rx) + n
    BY <1>1, <1>3, ConcatProperties
  <1>5. a \in Num
    BY <1>1, <1>2, PlusNum
  <1> HIDE DEF r, a
  <1>6. t \in SockT /\ t.rx = r /\ t.rcv_nxt = a /\ Kept(s, t)
    BY <1>1, <1>4, <1>5 DEF SockT, Kept
  <1>7. /\ t.rtx = s.rtx /\ t.ooo = s.ooo /\ t.ooo_seq = s.ooo_seq /\ t.tries = s.tries
        /\ t.state = s.state /\ t.fin = s.fin
    BY <1>1 DEF SockT
  <1> HIDE DEF t
  <1>8. Sock(t)
    BY <1>2, <1>4, <1>6, <1>7 DEF Sock, Sizes
  <1>9. t = Stored(s, data)
    BY DEF t, Stored, r, a, n, b
  <1> QED  BY <1>2, <1>4, <1>6, <1>7, <1>8, <1>9 DEF Took, r, a, b, n

LEMMA StoredRecv ==
    ASSUME NEW s, Sock(s), Recv(s), ~s.fin, NEW data \in Seq(Bytes),
           Piece(data, From(s.peer), Have(s)), Have(s) + Len(data) <= PeerLen[s.peer],
           NEW t, NEW n, Took(s, data, t, n)
    PROVE  Recv(t) /\ Have(t) = Have(s) + n
  <1>1. /\ s.rx \in Seq(Bytes) /\ s.rd \in Nat /\ Len(s.rx) \in Nat /\ Have(s) \in Nat
        /\ Have(s) = s.rd + Len(s.rx)
    BY SockFields DEF Have
  <1>2. s.peer \in Peers /\ n \in 0..Len(data) /\ Len(data) \in Nat
    BY DEF Recv, Took
  <1>3. /\ t.rd = s.rd /\ t.peer = s.peer /\ ~t.fin /\ Have(t) = Have(s) + n
        /\ Len(t.rx) = Len(s.rx) + n /\ t.rx = s.rx \o SubSeq(data, 1, n)
        /\ t.ooo = s.ooo /\ t.ooo_seq = s.ooo_seq /\ t.rcv_nxt = Plus(s.rcv_nxt, n)
    <2>1. t.rd = s.rd /\ t.peer = s.peer /\ ~t.fin
      BY DEF Took, Kept
    <2>2. /\ Len(t.rx) = Len(s.rx) + n /\ t.rx = s.rx \o SubSeq(data, 1, n)
          /\ t.ooo = s.ooo /\ t.ooo_seq = s.ooo_seq /\ t.rcv_nxt = Plus(s.rcv_nxt, n)
      BY DEF Took
    <2>3. Have(t) = Have(s) + n
      BY <1>1, <1>2, <2>1, <2>2 DEF Have
    <2> QED  BY <2>1, <2>2, <2>3
  <1>4. Piece(t.rx, From(t.peer), t.rd)
    <2>1. SubSeq(data, 1, n) \in Seq(Bytes) /\ Piece(SubSeq(data, 1, n), From(s.peer), Have(s))
      <3>1. n \in 0..Len(data) /\ Have(s) \in Nat
        BY <1>1, <1>2
      <3> QED  BY <3>1, PieceCut
    <2>2. Piece(s.rx, From(s.peer), s.rd)
      BY DEF Recv
    <2>3. Piece(SubSeq(data, 1, n), From(s.peer), s.rd + Len(s.rx))
      BY <1>1, <2>1
    <2>4. Piece(s.rx \o SubSeq(data, 1, n), From(s.peer), s.rd)
      BY <1>1, <2>1, <2>2, <2>3, PieceJoined
    <2> QED  BY <1>3, <2>4
  <1>5. t.rcv_nxt = Plus(PeerIsn[t.peer], 1 + Have(t))
    <2>1. s.rcv_nxt = Plus(PeerIsn[s.peer], 1 + Have(s))
      <3>1. s.rcv_nxt = Plus(PeerIsn[s.peer], 1 + Have(s) + 0)
        BY DEF Recv
      <3>2. 1 + Have(s) + 0 = 1 + Have(s)
        BY <1>1
      <3> QED  BY <3>1, <3>2
    <2>2. /\ PeerIsn[s.peer] \in Num /\ 1 + Have(s) \in Nat /\ n \in Nat
          /\ (1 + Have(s)) + n <= SeqMod
      <3>1. /\ PeerIsn[s.peer] \in Num /\ PeerLen[s.peer] \in Nat /\ PeerLen[s.peer] + 2 < SeqMod
            /\ SeqMod \in Nat
        BY <1>2, Constants
      <3>2. Have(s) + Len(data) <= PeerLen[s.peer]
        OBVIOUS
      <3>3. (1 + Have(s)) + n <= SeqMod
        BY <1>1, <1>2, <3>1, <3>2
      <3> QED  BY SMTT(30), <1>1, <1>2, <3>1, <3>3
    <2>3. Plus(Plus(PeerIsn[s.peer], 1 + Have(s)), n) = Plus(PeerIsn[s.peer], (1 + Have(s)) + n)
      BY <2>2, PlusPlus
    <2>4. (1 + Have(s)) + n = 1 + Have(t)
      BY <1>1, <1>2, <1>3
    <2> QED  BY <1>3, <2>1, <2>3, <2>4
  <1>6. OooOK(t)
    BY <1>3 DEF Recv, OooOK
  <1>7. t.rcv_nxt = Plus(PeerIsn[t.peer], 1 + Have(t) + 0)
    <2>1. 1 + Have(t) = 1 + Have(t) + 0
      BY <1>1, <1>2, <1>3
    <2> QED  BY <1>5, <2>1
  <1>8. Have(t) <= PeerLen[t.peer]
    BY <1>1, <1>2, <1>3, Constants
  <1> QED  BY <1>2, <1>3, <1>4, <1>6, <1>7, <1>8 DEF Recv

\* Fields that no byte is stored in.
LEMMA SameRecv ==
    ASSUME NEW s, NEW t, Recv(s), t.rd = s.rd, t.peer = s.peer, t.fin = s.fin, t.rx = s.rx,
           t.rcv_nxt = s.rcv_nxt, OooOK(t)
    PROVE  Recv(t)
  BY DEF Recv, Have

LEMMA DrainedStep ==
    ASSUME NEW s, Sock(s)
    PROVE  Sock(Drained(s)) /\ Kept(s, Drained(s)) /\ Drained(s).state = s.state
           /\ (Recv(s) /\ ~s.fin => Recv(Drained(s)) /\ ~Drained(s).fin)
  <1> DEFINE n == Least(Len(s.ooo), RxBuf - 1 - Len(s.rx))
             t == Stored(s, s.ooo)
             o == SubSeq(t.ooo, n + 1, Len(t.ooo))
             e == IF n = Len(s.ooo) THEN 0 ELSE t.rcv_nxt
             u == [t EXCEPT !.ooo = o, !.ooo_seq = e]
  <1>1. CASE s.ooo = <<>> \/ s.ooo_seq # s.rcv_nxt
    BY <1>1 DEF Drained, Kept
  <1>2. CASE ~(s.ooo = <<>> \/ s.ooo_seq # s.rcv_nxt)
    <2>1. Took(s, s.ooo, t, n)
      BY SockFields, StoredFacts
    <2> HIDE DEF t, n
    <2>2. n \in 0..Len(s.ooo) /\ t.ooo = s.ooo /\ Sock(t) /\ Kept(s, t) /\ t.state = s.state /\ t.fin = s.fin
      BY <2>1 DEF Took
    <2>3. t \in SockT /\ t.rcv_nxt \in Num /\ s.ooo \in Seq(Bytes) /\ Len(s.ooo) \in Nat
      BY <2>2, SockFields
    <2>4. o \in Seq(Bytes) /\ Len(o) = Len(s.ooo) - n
      BY <2>2, <2>3, SubSeqProperties
    <2>5. e \in Num
      BY <2>3, Constants DEF Num
    <2> HIDE DEF o, e
    <2>6. /\ u \in SockT /\ u.ooo = o /\ u.ooo_seq = e /\ u.rx = t.rx /\ u.rtx = t.rtx
          /\ u.tries = t.tries /\ u.state = t.state /\ u.fin = t.fin /\ u.rcv_nxt = t.rcv_nxt /\ Kept(t, u)
      BY <2>3, <2>4, <2>5 DEF SockT, Kept
    <2> HIDE DEF u
    <2>7. Sock(u)
      BY <2>2, <2>3, <2>4, <2>6, Constants DEF Sock, Sizes
    <2>8. Kept(s, u)
      BY <2>2, <2>6 DEF Kept
    <2>9. ASSUME Recv(s), ~s.fin PROVE Recv(u) /\ ~u.fin
      <3>1. PICK p \in 0..PeerLen[s.peer] : /\ p + Len(s.ooo) <= PeerLen[s.peer]
                                           /\ s.ooo_seq = Plus(PeerIsn[s.peer], 1 + p)
                                           /\ Piece(s.ooo, From(s.peer), p)
        BY <1>2, <2>9 DEF Recv, OooOK
      <3>2. /\ s.peer \in Peers /\ PeerIsn[s.peer] \in Num /\ PeerLen[s.peer] \in Nat
            /\ PeerLen[s.peer] + 2 < SeqMod /\ SeqMod \in Nat /\ Have(s) \in Nat /\ Have(s) <= PeerLen[s.peer]
        BY <2>9, Constants, SockFields DEF Recv
      <3>3. p = Have(s)
        <4>1. s.rcv_nxt = Plus(PeerIsn[s.peer], 1 + Have(s) + 0)
          BY <2>9 DEF Recv
        <4>2. 1 + Have(s) + 0 = 1 + Have(s) /\ 1 + Have(s) \in 0..(SeqMod - 1) /\ 1 + p \in 0..(SeqMod - 1)
          BY <3>2
        <4>3. 1 + p = 1 + Have(s)
          BY <1>2, <3>1, <3>2, <4>1, <4>2, PlusInjective
        <4> QED  BY <3>2, <4>3
      <3>4. Recv(t) /\ Have(t) = Have(s) + n /\ ~t.fin
        BY <2>1, <2>2, <2>3, <2>9, <3>1, <3>3, StoredRecv
      <3>5. OooOK(u)
        <4> SUFFICES ASSUME u.ooo # <<>> PROVE OooOK(u)
          BY DEF OooOK
        <4>1. Piece(o, From(s.peer), p + n)
          <5>1. p \in Nat
            BY <3>2
          <5> QED  BY <2>2, <2>3, <3>1, <5>1, PieceCut DEF o
        <4>2. u.peer = s.peer /\ u.ooo = o /\ Len(u.ooo) = Len(s.ooo) - n
          BY <2>4, <2>6, <2>8 DEF Kept
        <4>3. n # Len(s.ooo)
          BY <2>4, <4>2
        <4>4. u.ooo_seq = Plus(PeerIsn[s.peer], 1 + (p + n))
          <5>1. t.rcv_nxt = Plus(PeerIsn[s.peer], 1 + Have(t) + 0)
            BY <2>2, <3>4 DEF Recv, Kept
          <5>2. 1 + Have(t) + 0 = 1 + (p + n)
            BY <2>2, <2>3, <3>2, <3>3, <3>4
          <5> QED  BY <2>6, <4>3, <5>1, <5>2 DEF e
        <4>5. p + n \in 0..PeerLen[s.peer] /\ (p + n) + Len(u.ooo) <= PeerLen[s.peer]
          <5>1. Len(u.ooo) = Len(s.ooo) - n
            BY <4>2
          <5>2. p + n \in Nat /\ (p + n) + Len(u.ooo) = p + Len(s.ooo) /\ p + n <= p + Len(s.ooo)
            <6>1. p \in Nat /\ n \in Nat /\ Len(s.ooo) \in Nat /\ n <= Len(s.ooo)
              BY <2>2, <2>3, <3>2
            <6>2. n \in 0..Len(s.ooo)
              BY <2>2
            <6>3. (p + n) + (Len(s.ooo) - n) = p + Len(s.ooo) /\ p + n <= p + Len(s.ooo) /\ p + n \in Nat
              BY <6>1, <6>2, Parts
            <6> QED  BY <5>1, <6>3
          <5> QED  BY <3>1, <3>2, <2>3, <5>2
        <4> QED  BY <4>1, <4>2, <4>4, <4>5 DEF OooOK
      <3>6. u.rd = t.rd /\ u.peer = t.peer
        BY <2>6 DEF Kept
      <3> QED  BY <2>6, <3>4, <3>5, <3>6, SameRecv
    <2>10. Drained(s) = u
      BY <1>2 DEF Drained, u, t, o, e, n
    <2> QED  BY <2>2, <2>6, <2>7, <2>8, <2>9, <2>10
  <1> QED  BY <1>1, <1>2

\* A segment of a far end: no bytes, or a piece of its stream, with the FIN
\* behind the last byte.
DataOK(g) ==
    \/ "F" \notin g.f /\ g.data = <<>>
    \/ \E i \in 0..PeerLen[g.p] :
          /\ i + Len(g.data) <= PeerLen[g.p] /\ g.seq = Plus(PeerIsn[g.p], 1 + i)
          /\ Piece(g.data, From(g.p), i)
          /\ "F" \in g.f => i + Len(g.data) = PeerLen[g.p]

SegmentT == [p : Peers, port : Nat, f : SUBSET {"S", "A", "F", "R"}, seq : Num, ack : Num, data : Seq(Bytes)]

\* Where the piece of a segment begins that is the next one.
LEMMA NextPiece ==
    ASSUME NEW s, Sock(s), Recv(s), NEW i \in 0..PeerLen[s.peer], Plus(PeerIsn[s.peer], 1 + i) = s.rcv_nxt
    PROVE  ~s.fin /\ i = Have(s)
  <1> DEFINE f == IF s.fin THEN 1 ELSE 0
  <1>1. /\ s.peer \in Peers /\ Have(s) \in Nat /\ Have(s) <= PeerLen[s.peer] /\ f \in {0, 1}
        /\ (s.fin => Have(s) = PeerLen[s.peer]) /\ (s.fin <=> f = 1)
        /\ s.rcv_nxt = Plus(PeerIsn[s.peer], 1 + Have(s) + f)
    BY SockFields DEF Recv
  <1> HIDE DEF f
  <1>2. /\ PeerIsn[s.peer] \in Num /\ PeerLen[s.peer] \in Nat /\ PeerLen[s.peer] + 2 < SeqMod
        /\ SeqMod \in Nat
    BY <1>1, Constants
  <1>3. 1 + i \in 0..(SeqMod - 1) /\ 1 + Have(s) + f \in 0..(SeqMod - 1)
    BY <1>1, <1>2
  <1>4. 1 + i = 1 + Have(s) + f
    BY <1>1, <1>2, <1>3, PlusInjective
  <1> QED  BY <1>1, <1>2, <1>4

Grown(s, g, t) ==
    /\ Sock(t) /\ Kept(s, t) /\ t.state = s.state
    /\ Recv(s) /\ g.p = s.peer /\ DataOK(g) => Recv(t)

LEMMA ReceivedStep ==
    ASSUME NEW s, Sock(s), NEW g \in SegmentT
    PROVE  Grown(s, g, Received(s, g.seq, g.data))
  <1> DEFINE data == g.data
             seq  == g.seq
             t == Received(s, seq, data)
             keep == [s EXCEPT !.ooo = @ \o data, !.ooo_seq = IF s.ooo = <<>> THEN seq ELSE @]
             fits == Len(s.ooo) + Len(data) <= OooBuf /\ (s.ooo = <<>> \/ seq = Plus(s.ooo_seq, Len(s.ooo)))
  <1>0. data \in Seq(Bytes) /\ seq \in Num /\ Len(data) \in Nat
    BY DEF SegmentT
  <1>00. \/ t = s
         \/ data # <<>> /\ seq = s.rcv_nxt /\ t = Drained(Stored(s, data))
         \/ data # <<>> /\ fits /\ t = keep
    BY DEF Received
  <1> SUFFICES Grown(s, g, t)
    OBVIOUS
  <1> HIDE DEF data, seq, t
  <1>1. CASE t = s
    BY <1>1 DEF Kept, Grown
  <1>2. CASE data # <<>> /\ seq = s.rcv_nxt /\ t = Drained(Stored(s, data))
    <2> DEFINE u == Stored(s, data)
               n == Least(Len(data), RxBuf - 1 - Len(s.rx))
    <2>1. Took(s, data, u, n)
      BY <1>0, StoredFacts
    <2> HIDE DEF u, n
    <2>2. Sock(u) /\ Kept(s, u) /\ u.state = s.state /\ u.fin = s.fin
      BY <2>1 DEF Took
    <2>3. Sock(t) /\ Kept(u, t) /\ t.state = u.state /\ (Recv(u) /\ ~u.fin => Recv(t))
      BY <1>2, <2>2, DrainedStep DEF u
    <2>4. ASSUME Recv(s), g.p = s.peer, DataOK(g) PROVE Recv(u) /\ ~u.fin
      <3>1. PICK i \in 0..PeerLen[s.peer] : /\ i + Len(data) <= PeerLen[s.peer]
                                           /\ seq = Plus(PeerIsn[s.peer], 1 + i)
                                           /\ Piece(data, From(s.peer), i)
        BY <1>2, <2>4 DEF DataOK, data, seq
      <3>2. ~s.fin /\ i = Have(s)
        BY <1>2, <2>4, <3>1, NextPiece
      <3> QED  BY <1>0, <2>1, <2>2, <2>4, <3>1, <3>2, StoredRecv
    <2> QED  BY <2>2, <2>3, <2>4 DEF Kept, Grown
  <1>3. CASE data # <<>> /\ fits /\ t = keep
    <2> DEFINE o == s.ooo \o data
               e == IF s.ooo = <<>> THEN seq ELSE s.ooo_seq
    <2>1. o \in Seq(Bytes) /\ Len(o) = Len(s.ooo) + Len(data) /\ e \in Num
      BY <1>0, SockFields, ConcatProperties
    <2>2. t = [s EXCEPT !.ooo = o, !.ooo_seq = e]
      BY <1>3
    <2> HIDE DEF o, e
    <2>3. /\ t \in SockT /\ t.ooo = o /\ t.ooo_seq = e /\ t.rx = s.rx /\ t.rtx = s.rtx
          /\ t.tries = s.tries /\ t.state = s.state /\ t.fin = s.fin /\ t.rcv_nxt = s.rcv_nxt /\ Kept(s, t)
      <3>1. s \in SockT
        BY SockFields
      <3> QED  BY <2>1, <2>2, <3>1 DEF SockT, Kept
    <2>4. Sock(t)
      BY <1>3, <2>1, <2>3 DEF Sock, Sizes
    <2>5. ASSUME Recv(s), g.p = s.peer, DataOK(g) PROVE Recv(t)
      <3>1. PICK i \in 0..PeerLen[s.peer] : /\ i + Len(data) <= PeerLen[s.peer]
                                           /\ seq = Plus(PeerIsn[s.peer], 1 + i)
                                           /\ Piece(data, From(s.peer), i)
        BY <1>3, <2>5 DEF DataOK, data, seq
      <3>2. /\ s.peer \in Peers /\ PeerIsn[s.peer] \in Num /\ PeerLen[s.peer] \in Nat
            /\ PeerLen[s.peer] + 2 < SeqMod /\ SeqMod \in Nat /\ i \in Nat /\ i <= PeerLen[s.peer]
        BY <2>5, Constants DEF Recv
      <3>3. OooOK(t)
        <4>1. t.peer = s.peer /\ t.ooo = o /\ t.ooo_seq = e
          BY <2>3 DEF Kept
        <4>2. CASE s.ooo = <<>>
          <5>1. o = data /\ e = seq
            BY <1>0, <4>2, ConcatEmptySeq DEF o, e
          <5> QED  BY <3>1, <4>1, <5>1 DEF OooOK
        <4>3. CASE s.ooo # <<>>
          <5>1. PICK p \in 0..PeerLen[s.peer] : /\ p + Len(s.ooo) <= PeerLen[s.peer]
                                               /\ s.ooo_seq = Plus(PeerIsn[s.peer], 1 + p)
                                               /\ Piece(s.ooo, From(s.peer), p)
            BY <2>5, <4>3 DEF Recv, OooOK
          <5>2. p \in Nat /\ Len(s.ooo) \in Nat /\ s.ooo \in Seq(Bytes)
            BY <3>2, SockFields
          <5>3. i = p + Len(s.ooo)
            <6>1. Plus(Plus(PeerIsn[s.peer], 1 + p), Len(s.ooo)) = Plus(PeerIsn[s.peer], (1 + p) + Len(s.ooo))
              <7>1. 1 + p \in Nat /\ (1 + p) + Len(s.ooo) <= SeqMod
                BY <3>2, <5>1, <5>2, Places
              <7> QED  BY <3>2, <5>2, <7>1, PlusPlus
            <6>2. 1 + i \in 0..(SeqMod - 1) /\ (1 + p) + Len(s.ooo) \in 0..(SeqMod - 1)
              <7>1. (1 + p) + Len(s.ooo) \in 0..(SeqMod - 1)
                BY <3>2, <5>1, <5>2, Places
              <7>2. 1 + i \in 0..(SeqMod - 1)
                BY <3>2
              <7> QED  BY <7>1, <7>2
            <6>3. 1 + i = (1 + p) + Len(s.ooo)
              BY <1>3, <3>1, <3>2, <4>3, <5>1, <6>1, <6>2, PlusInjective
            <6>4. (1 + p) + Len(s.ooo) = 1 + (p + Len(s.ooo))
              BY <3>2, <5>1, <5>2, Places
            <6>5. p + Len(s.ooo) \in Int /\ i \in Int
              BY <3>2, <5>2
            <6>6. 1 + i = 1 + (p + Len(s.ooo))
              BY <6>3, <6>4
            <6> QED  BY <6>5, <6>6
          <5>4. Piece(o, From(s.peer), p)
            BY <1>0, <3>1, <5>1, <5>2, <5>3, PieceJoined DEF o
          <5>5. p + Len(o) <= PeerLen[s.peer]
            BY <1>0, <2>1, <3>1, <3>2, <5>2, <5>3
          <5>6. e = s.ooo_seq
            BY <4>3 DEF e
          <5> QED  BY <4>1, <5>1, <5>4, <5>5, <5>6 DEF OooOK
        <4> QED  BY <4>2, <4>3
      <3> QED  BY <2>3, <2>5, <3>3, SameRecv DEF Kept
    <2> QED  BY <2>3, <2>4, <2>5 DEF Grown
  <1> QED  BY <1>00, <1>1, <1>2, <1>3

LEMMA FinStep ==
    ASSUME NEW s, Sock(s), NEW g \in SegmentT
    PROVE  /\ Sock(Fin(s, g)) /\ Kept(s, Fin(s, g))
           /\ Fin(s, g).state = s.state \/ (s.state = "established" /\ Fin(s, g).state = "close_wait")
           /\ Recv(s) /\ g.p = s.peer /\ DataOK(g) => Recv(Fin(s, g))
  <1> DEFINE a == Plus(s.rcv_nxt, 1)
             z == IF s.state = "established" THEN "close_wait" ELSE s.state
             t == [s EXCEPT !.rcv_nxt = a, !.fin = TRUE, !.state = z]
  <1>1. CASE "F" \notin g.f \/ Plus(g.seq, Len(g.data)) # s.rcv_nxt
    BY <1>1 DEF Fin, Kept
  <1>2. CASE "F" \in g.f /\ Plus(g.seq, Len(g.data)) = s.rcv_nxt
    <2>1. Fin(s, g) = t
      BY <1>2 DEF Fin
    <2>2. s \in SockT /\ a \in Num /\ z \in States
      <3>1. s \in SockT /\ s.rcv_nxt \in Num /\ s.state \in States
        BY SockFields DEF SockT
      <3> QED  BY <3>1, PlusNum DEF States
    <2> HIDE DEF a, z
    <2>3. /\ t \in SockT /\ t.rcv_nxt = a /\ t.fin = TRUE /\ t.state = z /\ t.rx = s.rx /\ t.rtx = s.rtx
          /\ t.ooo = s.ooo /\ t.ooo_seq = s.ooo_seq /\ t.tries = s.tries /\ Kept(s, t)
      BY <2>2 DEF SockT, Kept
    <2> HIDE DEF t
    <2>4. Sock(t)
      BY <2>3 DEF Sock, Sizes
    <2>5. ASSUME Recv(s), g.p = s.peer, DataOK(g) PROVE Recv(t)
      <3>1. PICK i \in 0..PeerLen[s.peer] : /\ i + Len(g.data) = PeerLen[s.peer]
                                           /\ g.seq = Plus(PeerIsn[s.peer], 1 + i)
        BY <1>2, <2>5 DEF DataOK
      <3>2. /\ s.peer \in Peers /\ PeerIsn[s.peer] \in Num /\ PeerLen[s.peer] \in Nat
            /\ PeerLen[s.peer] + 2 < SeqMod /\ SeqMod \in Nat /\ i \in Nat /\ Len(g.data) \in Nat
        BY <2>5, Constants DEF Recv, SegmentT
      <3>3. s.rcv_nxt = Plus(PeerIsn[s.peer], 1 + PeerLen[s.peer])
        <4>1. /\ 1 + i \in Nat /\ (1 + i) + Len(g.data) <= SeqMod
              /\ (1 + i) + Len(g.data) = 1 + (i + Len(g.data))
          <5>1. i + Len(g.data) <= PeerLen[s.peer]
            BY <3>1, <3>2
          <5> QED  BY <3>2, <5>1, Places
        <4>2. Plus(Plus(PeerIsn[s.peer], 1 + i), Len(g.data)) = Plus(PeerIsn[s.peer], (1 + i) + Len(g.data))
          BY <3>2, <4>1, PlusPlus
        <4> QED  BY <1>2, <3>1, <4>1, <4>2
      <3>4. ~s.fin /\ PeerLen[s.peer] = Have(s)
        <4>1. PeerLen[s.peer] \in 0..PeerLen[s.peer]
          BY <3>2
        <4> QED  BY <2>5, <3>3, <4>1, NextPiece
      <3>5. a = Plus(PeerIsn[s.peer], 1 + Have(s) + 1)
        <4>1. 1 + PeerLen[s.peer] \in Nat /\ (1 + PeerLen[s.peer]) + 1 <= SeqMod
          BY <3>2
        <4>2. Plus(Plus(PeerIsn[s.peer], 1 + PeerLen[s.peer]), 1) = Plus(PeerIsn[s.peer], (1 + PeerLen[s.peer]) + 1)
          BY <3>2, <4>1, PlusPlus
        <4> QED  BY <3>3, <3>4, <4>2 DEF a
      <3>6. t.rd = s.rd /\ t.peer = s.peer /\ Have(t) = Have(s)
        BY <2>3 DEF Kept, Have
      <3>7. OooOK(t)
        BY <2>3, <2>5, <3>6 DEF Recv, OooOK
      <3>8. t.rcv_nxt = Plus(PeerIsn[t.peer], 1 + Have(t) + (IF t.fin THEN 1 ELSE 0))
        BY <2>3, <3>5, <3>6
      <3>9. Have(t) <= PeerLen[t.peer] /\ Have(t) = PeerLen[t.peer]
        BY <3>2, <3>4, <3>6
      <3> QED  BY <2>3, <2>5, <3>6, <3>7, <3>8, <3>9 DEF Recv
    <2>6. z = s.state \/ (s.state = "established" /\ z = "close_wait")
      BY DEF z
    <2> QED  BY <2>1, <2>3, <2>4, <2>5, <2>6
  <1> QED  BY <1>1, <1>2

\* What the body of tcp_input does to a connection that receives.
LEMMA BodyStep ==
    ASSUME NEW s, Sock(s), NEW g \in SegmentT, NEW t, t = Fin(Received(s, g.seq, g.data), g)
    PROVE  /\ Sock(t) /\ Kept(s, t)
           /\ t.state = s.state \/ (s.state = "established" /\ t.state = "close_wait")
           /\ Recv(s) /\ g.p = s.peer /\ DataOK(g) => Recv(t)
  <1> DEFINE u == Received(s, g.seq, g.data)
  <1>1. Grown(s, g, u)
    BY ReceivedStep
  <1> HIDE DEF u
  <1>2. Sock(u) /\ Kept(s, u) /\ u.state = s.state
    BY <1>1 DEF Grown
  <1>3. t = Fin(u, g)
    BY DEF u
  <1>4. /\ Sock(t) /\ Kept(u, t)
        /\ t.state = u.state \/ (u.state = "established" /\ t.state = "close_wait")
        /\ Recv(u) /\ g.p = u.peer /\ DataOK(g) => Recv(t)
    BY <1>2, <1>3, FinStep
  <1> QED  BY <1>1, <1>2, <1>4 DEF Kept, Grown

-----------------------------------------------------------------------------
(* The send side of a socket *)

\* Bytes that have been acknowledged.
Done(s) == s.sent - Len(s.rtx)

\* What is kept for another try is the end of what was sent, and snd_una stands
\* before it.
RtxOK(s) ==
    /\ Len(s.rtx) <= s.sent /\ s.sent <= SendMax
    /\ s.snd_una = Plus(s.iss, 1 + Done(s))
    /\ Piece(s.rtx, Own, Done(s))

\* The SYN has gone out, and nothing behind it.
Started(s) ==
    /\ s.rtx = <<>> /\ s.sent = 0 /\ s.snd_nxt \in {s.iss, Plus(s.iss, 1)} /\ s.snd_una \in {s.iss, s.snd_nxt}

Quiet(s) == s.rtx = <<>> /\ ~s.syn /\ ~s.rto /\ s.sent = 0

SendOK(s) ==
    /\ s.state \in {"unused", "listen"} => Quiet(s)
    /\ s.state = "unused" => s.port = 0
    /\ s.state = "listen" => s.port = Srv
    /\ s.state # "unused" => s.used /\ s.port \in {Srv, Srv + s.id}
    /\ s.state \in {"unused", "listen", "syn_sent"} => s.parent = -1
    /\ s.state = "syn_sent" =>
          /\ Started(s) /\ s.port = Srv + s.id /\ s.peer \in Servers
          /\ s.snd_nxt = s.iss => ~s.rto
          /\ s.syn => s.snd_una = s.iss
    /\ s.state # "syn_sent" => ~s.syn
    /\ s.state = "syn_rcvd" => Started(s) /\ s.snd_nxt = Plus(s.iss, 1)
    /\ s.state \in {"established", "close_wait"} => RtxOK(s) /\ s.snd_nxt = Plus(s.iss, 1 + s.sent)
    /\ s.state \in {"fin_wait_1", "fin_wait_2", "last_ack"} =>
          (s.rtx # <<>> => RtxOK(s) /\ s.snd_nxt = Plus(s.iss, 2 + s.sent))

LEMMA NothingSent ==
    ASSUME NEW t, t.rtx = <<>>, t.sent = 0, t.snd_una = Plus(t.iss, 1)
    PROVE  RtxOK(t)
  <1>1. Len(t.rtx) = 0
    OBVIOUS
  <1>2. Done(t) = 0
    <2>1. Done(t) = 0 - 0
      BY <1>1 DEF Done
    <2> QED  BY <2>1
  <1>3. Piece(t.rtx, Own, Done(t))
    BY PieceEmpty
  <1>4. t.snd_una = Plus(t.iss, 1 + Done(t))
    BY <1>2
  <1>5. Len(t.rtx) <= t.sent /\ t.sent <= SendMax
    BY <1>1, Constants
  <1> QED  BY <1>3, <1>4, <1>5 DEF RtxOK

LEMMA SameSend ==
    ASSUME NEW s, NEW t, SendOK(s), Kept(s, t),
           t.state = s.state \/ (s.state = "established" /\ t.state = "close_wait")
    PROVE  SendOK(t)
  <1>1. CASE t.state = s.state
    BY <1>1 DEF SendOK, Kept, RtxOK, Done, Started, Quiet
  <1>2. CASE s.state = "established" /\ t.state = "close_wait"
    BY <1>2 DEF SendOK, Kept, RtxOK, Done
  <1> QED  BY <1>1, <1>2

\* What an acknowledgement leaves alone.
SameIn(s, t) ==
    /\ t.used = s.used /\ t.state = s.state /\ t.port = s.port /\ t.peer = s.peer
    /\ t.parent = s.parent /\ t.owner = s.owner /\ t.fin = s.fin /\ t.rx = s.rx
    /\ t.rcv_nxt = s.rcv_nxt /\ t.ooo = s.ooo /\ t.ooo_seq = s.ooo_seq /\ t.id = s.id
    /\ t.iss = s.iss /\ t.rd = s.rd /\ t.sent = s.sent /\ t.snd_nxt = s.snd_nxt

\* The receive side stays as it is.
Unread(s, t) ==
    /\ t.state = s.state /\ t.peer = s.peer /\ t.fin = s.fin /\ t.rx = s.rx /\ t.rd = s.rd
    /\ t.rcv_nxt = s.rcv_nxt /\ t.ooo = s.ooo /\ t.ooo_seq = s.ooo_seq

LEMMA UnreadRecv ==
    ASSUME NEW s, NEW t, Unread(s, t)
    PROVE  (Recv(s) => Recv(t)) /\ (RecvOK(s) => RecvOK(t))
  <1>1. Recv(s) => Recv(t)
    <2>1. OooOK(s) => OooOK(t)
      BY DEF Unread, OooOK
    <2> QED  BY <2>1, SameRecv DEF Unread, Recv
  <1> QED  BY <1>1 DEF Unread, RecvOK, NoBytes

LEMMA SameInRecv ==
    ASSUME NEW s, NEW t, SameIn(s, t)
    PROVE  (Recv(s) => Recv(t)) /\ (RecvOK(s) => RecvOK(t))
  BY UnreadRecv DEF SameIn, Unread

\* An acknowledgement inside the window.
Inside(s, a) == Before(s.snd_una, a) /\ ~Before(s.snd_nxt, a)

AckedTo(s, a, t) ==
    \/ t = s /\ ~Inside(s, a)
    \/ /\ Inside(s, a) /\ Sock(t) /\ SameIn(s, t) /\ t.snd_una = a /\ t.syn = FALSE
       /\ \/ s.syn /\ t.rtx = s.rtx /\ t.rto = (s.rto /\ s.rtx # <<>>)
          \/ ~s.syn /\ Minus(a, s.snd_una) >= Len(s.rtx) /\ t.rtx = <<>> /\ t.rto = FALSE
          \/ /\ ~s.syn /\ Minus(a, s.snd_una) < Len(s.rtx)
             /\ t.rtx = SubSeq(s.rtx, Minus(a, s.snd_una) + 1, Len(s.rtx))

LEMMA AckedIs == ASSUME NEW s, Sock(s), NEW a \in Num PROVE AckedTo(s, a, Acked(s, a))
  <1> DEFINE n == Minus(a, s.snd_una)
             t == Acked(s, a)
  <1>1. s \in SockT /\ s.rtx \in Seq(Nat) /\ Len(s.rtx) \in Nat /\ n \in Num
    BY SockFields, MinusIs
  <1>2. n \in Nat
    BY <1>1, Constants DEF Num
  <1> SUFFICES AckedTo(s, a, t)
    OBVIOUS
  <1>3. ASSUME NEW r \in Seq(Nat), Len(r) <= Len(s.rtx), NEW b \in BOOLEAN,
               t = [s EXCEPT !.snd_una = a, !.tries = 0, !.rtx = r, !.rto = b, !.syn = FALSE]
        PROVE  SameIn(s, t) /\ t.rtx = r /\ t.rto = b /\ t.syn = FALSE /\ t.snd_una = a /\ Sock(t)
    <2> HIDE DEF t, n
    <2>1. t \in SockT /\ SameIn(s, t) /\ t.rtx = r /\ t.rto = b /\ t.syn = FALSE /\ t.snd_una = a /\ t.tries = 0
      BY <1>1, <1>3 DEF SockT, SameIn
    <2>2. Len(r) <= RtxBuf
      <3>1. Len(r) \in Nat /\ Len(s.rtx) \in Nat /\ Len(s.rtx) <= RtxBuf
        BY <1>1, <1>3 DEF Sock, Sizes
      <3> QED  BY SMTT(30), <1>3, <3>1, Constants
    <2>3. Sizes(t)
      BY <2>1, <2>2, TcpAssumption DEF Sock, Sizes, SameIn
    <2> QED  BY <2>1, <2>3 DEF Sock
  <1>4. CASE ~Inside(s, a)
    BY <1>4 DEF Acked, Inside, AckedTo
  <1>5. CASE Inside(s, a) /\ s.syn
    <2>1. s.rto \in BOOLEAN
      BY <1>1 DEF SockT
    <2>2. t = [s EXCEPT !.snd_una = a, !.tries = 0, !.rtx = s.rtx, !.rto = s.rto /\ s.rtx # <<>>, !.syn = FALSE]
      BY <1>1, <1>5 DEF Acked, Inside, SockT
    <2>3. Len(s.rtx) <= Len(s.rtx) /\ (s.rto /\ s.rtx # <<>>) \in BOOLEAN
      BY <1>1
    <2> HIDE DEF t
    <2> QED  BY <1>1, <1>3, <1>5, <2>2, <2>3 DEF AckedTo
  <1>6. CASE Inside(s, a) /\ ~s.syn /\ n >= Len(s.rtx)
    <2>1. <<>> \in Seq(Nat) /\ Len(<<>>) <= Len(s.rtx) /\ FALSE \in BOOLEAN
      BY <1>1
    <2>2. t = [s EXCEPT !.snd_una = a, !.tries = 0, !.rtx = <<>>, !.rto = FALSE, !.syn = FALSE]
      BY <1>1, <1>6 DEF Acked, Inside, SockT
    <2> HIDE DEF t
    <2> QED  BY <1>3, <1>6, <2>1, <2>2 DEF AckedTo
  <1>7. CASE Inside(s, a) /\ ~s.syn /\ n < Len(s.rtx)
    <2> DEFINE r == SubSeq(s.rtx, n + 1, Len(s.rtx))
    <2>1. r \in Seq(Nat) /\ Len(r) <= Len(s.rtx) /\ TRUE \in BOOLEAN
      <3> HIDE DEF n
      <3>1. n \in 0..Len(s.rtx)
        BY <1>1, <1>2, <1>7
      <3>2. r \in Seq(Nat) /\ Len(r) = Len(s.rtx) - n
        BY <1>1, <3>1, SubSeqProperties
      <3> QED  BY <1>1, <1>2, <3>2
    <2>2. t = [s EXCEPT !.snd_una = a, !.tries = 0, !.rtx = r, !.rto = TRUE, !.syn = FALSE]
      <3> DEFINE v == [s EXCEPT !.snd_una = a, !.tries = 0]
      <3>1. ~(n >= Len(s.rtx)) /\ Before(s.snd_una, a) /\ ~Before(s.snd_nxt, a) /\ ~s.syn
        <4>1. Before(s.snd_una, a) /\ ~Before(s.snd_nxt, a) /\ ~s.syn
          BY <1>7 DEF Inside
        <4> HIDE DEF n
        <4> QED  BY <1>1, <1>2, <1>7, <4>1
      <3>2. t = [v EXCEPT !.rtx = SubSeq(@, n + 1, Len(@)), !.rto = TRUE]
        BY <3>1 DEF Acked
      <3>3. v.rtx = s.rtx
        BY <1>1 DEF SockT
      <3> HIDE DEF n, t
      <3>4. t = [v EXCEPT !.rtx = r, !.rto = TRUE]
        BY <3>2, <3>3
      <3> HIDE DEF r
      <3> QED  BY <1>1, <3>1, <3>4 DEF SockT
    <2>3. SameIn(s, t) /\ t.rtx = r /\ t.rto = TRUE /\ t.syn = FALSE /\ t.snd_una = a /\ Sock(t)
      <3> HIDE DEF r, t
      <3> QED  BY <1>3, <2>1, <2>2
    <2> HIDE DEF t
    <2> QED  BY <1>7, <2>3 DEF AckedTo
  <1>8. n >= Len(s.rtx) \/ n < Len(s.rtx)
    BY <1>1, <1>2
  <1> QED  BY <1>4, <1>5, <1>6, <1>7, <1>8

\* What is left of the buffer is still the end of what was sent.
LEMMA Ends ==
    ASSUME NEW sent \in Nat, NEW l \in 0..sent, NEW n \in 0..l, NEW max \in Nat, sent <= max,
           NEW M \in Nat, max + 2 < M
    PROVE  /\ sent - l \in Nat /\ sent - (l - n) = (sent - l) + n /\ l - n <= sent
           /\ 1 + ((sent - l) + n) = (1 + (sent - l)) + n
           /\ 1 + (sent - l) \in Nat /\ n \in Nat /\ (1 + (sent - l)) + n <= M
           /\ 1 + (sent - l) <= M
  OBVIOUS

LEMMA RtxCut ==
    ASSUME NEW s, Sock(s), RtxOK(s), NEW n \in 0..Len(s.rtx), NEW t,
           t.snd_una = Plus(s.snd_una, n), t.iss = s.iss, t.sent = s.sent,
           Len(t.rtx) = Len(s.rtx) - n, Piece(t.rtx, Own, Done(s) + n)
    PROVE  RtxOK(t)
  <1> DEFINE l == Len(s.rtx)
             d == s.sent - l
  <1>1. l \in 0..s.sent /\ s.sent \in Nat /\ s.sent <= SendMax /\ n \in 0..l /\ s.iss \in Num
    <2>1. l \in Nat /\ s.sent \in Nat /\ l <= s.sent /\ s.sent <= SendMax /\ s.iss \in Num
      BY SockFields DEF RtxOK
    <2> QED  BY <2>1
  <1>2. SendMax \in Nat /\ SeqMod \in Nat /\ SendMax + 2 < SeqMod
    BY Constants
  <1>3. Done(s) = d /\ Done(t) = s.sent - (l - n)
    BY DEF Done
  <1> HIDE DEF l
  <1>4. /\ d \in Nat /\ s.sent - (l - n) = d + n /\ l - n <= s.sent
        /\ 1 + (d + n) = (1 + d) + n /\ 1 + d \in Nat /\ n \in Nat /\ (1 + d) + n <= SeqMod
    BY SMTT(30), <1>1, <1>2, Ends
  <1> HIDE DEF d
  <1>5. Done(t) = d + n
    BY <1>3, <1>4
  <1>6. Plus(Plus(s.iss, 1 + d), n) = Plus(s.iss, 1 + (d + n))
    <2>1. Plus(Plus(s.iss, 1 + d), n) = Plus(s.iss, (1 + d) + n)
      BY <1>1, <1>4, PlusPlus
    <2> QED  BY <1>4, <2>1
  <1>7. t.snd_una = Plus(t.iss, 1 + Done(t))
    BY <1>3, <1>5, <1>6 DEF RtxOK
  <1>8. Len(t.rtx) <= t.sent /\ t.sent <= SendMax
    BY <1>1, <1>4 DEF l
  <1>9. Piece(t.rtx, Own, Done(t))
    BY <1>3, <1>5
  <1> QED  BY <1>7, <1>8, <1>9 DEF RtxOK

\* An acknowledgement inside the window stands behind so many bytes of the
\* buffer, or behind the FIN.
LEMMA Window ==
    ASSUME NEW s, Sock(s), RtxOK(s), NEW x \in {1, 2}, s.snd_nxt = Plus(s.iss, x + s.sent),
           NEW a \in Num, Inside(s, a)
    PROVE  /\ Minus(a, s.snd_una) \in 1..(Len(s.rtx) + x - 1)
           /\ a = Plus(s.snd_una, Minus(a, s.snd_una))
  <1> DEFINE l == Len(s.rtx)
             d == s.sent - l
             e == l + x - 1
  <1>1. l \in 0..s.sent /\ l \in Nat /\ l <= RtxBuf /\ s.sent \in Nat /\ s.sent <= SendMax /\ s.iss \in Num
    <2>1. l \in Nat /\ s.sent \in Nat /\ l <= s.sent /\ s.sent <= SendMax /\ l <= RtxBuf /\ s.iss \in Num
      BY SockFields DEF RtxOK, Sock, Sizes
    <2> QED  BY <2>1
  <1>2. SendMax \in Nat /\ SeqMod \in Nat /\ SendMax + 2 < SeqMod /\ RtxBuf + 1 < Half /\ RtxBuf \in Nat /\ Half \in Nat
    BY Constants
  <1>3. s.snd_una = Plus(s.iss, 1 + d) /\ s.snd_una \in Num
    BY SockFields DEF RtxOK, Done
  <1> HIDE DEF l
  <1>4. /\ 1 + d \in Nat /\ e \in Nat /\ e < Half /\ (1 + d) + e = x + s.sent /\ (1 + d) + e <= SeqMod
    <2>1. x = 1 \/ x = 2
      OBVIOUS
    <2> QED  BY <1>1, <1>2, <2>1
  <1> HIDE DEF d, e
  <1>5. Plus(s.snd_una, e) = s.snd_nxt
    BY <1>1, <1>3, <1>4, PlusPlus
  <1>6. Before(s.snd_una, a) /\ ~Before(Plus(s.snd_una, e), a)
    BY <1>5 DEF Inside
  <1>7. Minus(a, s.snd_una) \in 1..e /\ a = Plus(s.snd_una, Minus(a, s.snd_una))
    BY <1>3, <1>4, <1>6, InWindow
  <1> QED  BY <1>7 DEF e, l

LEMMA AckedRtx ==
    ASSUME NEW s, Sock(s), RtxOK(s), ~s.syn, NEW x \in {1, 2}, s.snd_nxt = Plus(s.iss, x + s.sent),
           NEW a \in Num, NEW t, AckedTo(s, a, t)
    PROVE  RtxOK(t) \/ (x = 2 /\ t.rtx = <<>>)
  <1> DEFINE n == Minus(a, s.snd_una)
  <1>1. CASE t = s
    BY <1>1
  <1>2. CASE Inside(s, a) /\ t # s
    <2>1. /\ SameIn(s, t) /\ t.snd_una = a
          /\ \/ n >= Len(s.rtx) /\ t.rtx = <<>>
             \/ n < Len(s.rtx) /\ t.rtx = SubSeq(s.rtx, n + 1, Len(s.rtx))
      BY <1>2 DEF AckedTo
    <2>2. n \in 1..(Len(s.rtx) + x - 1) /\ a = Plus(s.snd_una, n)
      BY <1>2, Window
    <2> HIDE DEF n
    <2>3. s.rtx \in Seq(Nat) /\ Len(s.rtx) \in Nat /\ n \in Nat
      BY <2>2, SockFields
    <2>4. t.snd_una = Plus(s.snd_una, n) /\ t.iss = s.iss /\ t.sent = s.sent
      BY <2>1, <2>2 DEF SameIn
    <2>5. CASE n >= Len(s.rtx) /\ t.rtx = <<>> /\ x = 1
      <3>1. n = Len(s.rtx) /\ n \in 0..Len(s.rtx) /\ Len(t.rtx) = Len(s.rtx) - n
        BY <2>2, <2>3, <2>5
      <3>2. Piece(t.rtx, Own, Done(s) + n)
        BY <2>5, PieceEmpty
      <3> QED  BY <2>4, <3>1, <3>2, RtxCut
    <2>6. CASE n < Len(s.rtx) /\ t.rtx = SubSeq(s.rtx, n + 1, Len(s.rtx))
      <3>1. n \in 0..Len(s.rtx) /\ Done(s) \in Nat
        <4>1. Len(s.rtx) <= s.sent /\ s.sent \in Nat
          BY SockFields DEF RtxOK
        <4> QED  BY <2>3, <2>6, <4>1 DEF Done
      <3>2. Piece(s.rtx, Own, Done(s))
        BY DEF RtxOK
      <3>3. Len(t.rtx) = Len(s.rtx) - n /\ Piece(t.rtx, Own, Done(s) + n)
        BY SMTT(30), <2>3, <2>6, <3>1, <3>2, PieceCut
      <3> QED  BY <2>4, <3>1, <3>3, RtxCut
    <2> QED  BY <2>1, <2>5, <2>6
  <1> QED  BY <1>1, <1>2 DEF AckedTo

\* While only the SYN can be acknowledged, an acknowledgement is that of the SYN.
LEMMA StartedAck ==
    ASSUME NEW s, Sock(s), Started(s), NEW a \in Num
    PROVE  /\ Inside(s, a) => a = s.snd_nxt
           /\ s.snd_una # s.snd_nxt /\ a = s.snd_nxt => Inside(s, a)
  <1>1. s.iss \in Num /\ s.snd_una \in Num /\ s.snd_nxt \in Num
    BY SockFields
  <1>2. Half \in Nat /\ 1 < Half /\ SeqMod \in Nat /\ 0 \in 0..SeqMod /\ 1 \in 0..SeqMod
    BY Constants
  <1>3. PICK d \in {0, 1} : s.snd_nxt = Plus(s.snd_una, d) /\ (d = 0 <=> s.snd_una = s.snd_nxt)
    <2>1. Plus(s.snd_una, 0) = s.snd_una
      <3>1. Plus(s.snd_una, 0) = IF s.snd_una + 0 < SeqMod THEN s.snd_una + 0 ELSE s.snd_una + 0 - SeqMod
        BY <1>1, <1>2, PlusIs
      <3>2. s.snd_una \in 0..(SeqMod - 1)
        BY <1>1 DEF Num
      <3> QED  BY <1>2, <3>1, <3>2
    <2> QED  BY <2>1 DEF Started
  <1>4. Inside(s, a) => a = s.snd_nxt
    <2> SUFFICES ASSUME Inside(s, a) PROVE a = s.snd_nxt
      OBVIOUS
    <2>1. Before(s.snd_una, a) /\ ~Before(Plus(s.snd_una, d), a) /\ d \in Nat /\ d < Half
      BY <1>2, <1>3 DEF Inside
    <2>2. Minus(a, s.snd_una) \in 1..d /\ a = Plus(s.snd_una, Minus(a, s.snd_una))
      BY <1>1, <2>1, InWindow
    <2>3. Minus(a, s.snd_una) = d
      BY <2>2
    <2> QED  BY <1>3, <2>2, <2>3
  <1>5. s.snd_una # s.snd_nxt /\ a = s.snd_nxt => Inside(s, a)
    <2> SUFFICES ASSUME s.snd_una # s.snd_nxt, a = s.snd_nxt PROVE Inside(s, a)
      OBVIOUS
    <2>1. a = IF s.snd_una + 1 < SeqMod THEN s.snd_una + 1 ELSE s.snd_una + 1 - SeqMod
      <3>1. a = Plus(s.snd_una, 1)
        BY <1>3
      <3> QED  BY <1>1, <1>2, <3>1, PlusIs
    <2>2. Minus(s.snd_una, a) = IF s.snd_una >= a THEN s.snd_una - a ELSE s.snd_una - a + SeqMod
      BY <1>1, MinusIs
    <2>3. Minus(s.snd_nxt, a) = IF s.snd_nxt >= a THEN s.snd_nxt - a ELSE s.snd_nxt - a + SeqMod
      BY <1>1, MinusIs
    <2>4. Minus(s.snd_una, a) = SeqMod - 1 /\ Minus(s.snd_nxt, a) = 0
      <3>1. s.snd_una \in 0..(SeqMod - 1)
        BY <1>1 DEF Num
      <3> QED  BY <1>2, <2>1, <2>2, <2>3, <3>1
    <2>5. SeqMod - 1 >= Half /\ ~(0 >= Half)
      BY Constants
    <2> QED  BY <2>4, <2>5 DEF Inside, Before, Half
  <1> QED  BY <1>4, <1>5

\* What an acknowledgement does to a socket.
LEMMA AckedStep ==
    ASSUME NEW s, Sock(s), NEW a \in Num, NEW t, t = Acked(s, a)
    PROVE  /\ Sock(t) /\ SameIn(s, t)
           /\ SendOK(s) => SendOK(t)
           /\ SendOK(s) /\ Started(s) /\ a = s.snd_nxt => t.snd_una = a
  <1>1. AckedTo(s, a, t)
    BY AckedIs
  <1>2. Sock(t) /\ SameIn(s, t)
    BY <1>1 DEF AckedTo, SameIn
  <1>3. ASSUME SendOK(s), Started(s), a = s.snd_nxt PROVE t.snd_una = a
    <2>1. CASE Inside(s, a)
      BY <1>1, <2>1 DEF AckedTo
    <2>2. CASE ~Inside(s, a)
      BY <1>1, <1>3, <2>2, StartedAck DEF AckedTo
    <2> QED  BY <2>1, <2>2
  <1>4. ASSUME s.rtx = <<>>, t # s PROVE t.rtx = <<>> /\ t.rto = FALSE
    <2>1. Minus(a, s.snd_una) \in Nat /\ Len(s.rtx) = 0
      <3>1. Minus(a, s.snd_una) \in Num
        BY SockFields, MinusIs
      <3> QED  BY <1>4, <3>1, Constants DEF Num
    <2>2. ~(Minus(a, s.snd_una) < Len(s.rtx))
      BY <2>1
    <2> QED  BY <1>1, <1>4, <2>2 DEF AckedTo
  <1>5. ASSUME SendOK(s), t # s PROVE SendOK(t)
    <2>1. Inside(s, a) /\ SameIn(s, t) /\ t.snd_una = a /\ t.syn = FALSE
      BY <1>1, <1>5 DEF AckedTo
    <2>2. CASE s.state \in {"unused", "listen"}
      <3>1. Quiet(t)
        BY <1>4, <1>5, <2>1, <2>2 DEF SendOK, Quiet, SameIn
      <3> QED  BY <1>5, <2>1, <2>2, <3>1 DEF SendOK, SameIn
    <2>3. CASE s.state \in {"syn_sent", "syn_rcvd"}
      <3>1. Started(s) /\ s.rtx = <<>>
        BY <1>5, <2>3 DEF SendOK, Started
      <3>2. t.rtx = <<>> /\ t.rto = FALSE
        BY <1>4, <1>5, <3>1
      <3>3. a = s.snd_nxt
        BY <2>1, <3>1, StartedAck
      <3>4. Started(t)
        BY <2>1, <3>1, <3>2, <3>3 DEF Started, SameIn
      <3> QED  BY <1>5, <2>1, <2>3, <3>2, <3>4 DEF SendOK, SameIn
    <2>4. CASE s.state \in {"established", "close_wait"}
      <3>1. RtxOK(s) /\ ~s.syn /\ s.snd_nxt = Plus(s.iss, 1 + s.sent)
        BY <1>5, <2>4 DEF SendOK
      <3>2. RtxOK(t)
        BY <1>1, <3>1, AckedRtx
      <3> QED  BY <1>5, <2>1, <2>4, <3>1, <3>2 DEF SendOK, SameIn
    <2>5. CASE s.state \in {"fin_wait_1", "fin_wait_2", "last_ack"}
      <3>1. ASSUME t.rtx # <<>> PROVE RtxOK(t) /\ t.snd_nxt = Plus(t.iss, 2 + t.sent)
        <4>1. s.rtx # <<>>
          BY <1>4, <1>5, <3>1
        <4>2. RtxOK(s) /\ ~s.syn /\ s.snd_nxt = Plus(s.iss, 2 + s.sent)
          BY <1>5, <2>5, <4>1 DEF SendOK
        <4>3. RtxOK(t)
          BY <1>1, <3>1, <4>2, AckedRtx
        <4> QED  BY <2>1, <4>2, <4>3 DEF SameIn
      <3> QED  BY <1>5, <2>1, <2>5, <3>1 DEF SendOK, SameIn
    <2>6. s.state \in States
      BY SockFields DEF SockT
    <2> QED  BY <2>2, <2>3, <2>4, <2>5, <2>6 DEF States
  <1> QED  BY <1>2, <1>3, <1>5

-----------------------------------------------------------------------------
(* A segment that arrives for a connection *)

\* The SYN has gone out.
Went(s) == s.state = "syn_sent" /\ s.snd_nxt # s.iss

\* A step frees a socket or keeps who it is.
Moved(s, t) ==
    \/ t = Free
    \/ /\ t.used = s.used /\ t.id = s.id /\ t.owner = s.owner /\ t.parent \in {s.parent, -1}
       /\ t.state = "unused" => s.state = "unused"
       /\ s.state = "listen" => t.state = "listen"
       /\ t.state = "listen" => s.state \in {"unused", "listen"}
       /\ t.state = "syn_sent" =>
             s.state = "unused" \/ (s.state = "syn_sent" /\ t.iss = s.iss /\ (Went(s) => Went(t)))

\* What the far end of a connection may have sent.
FromPeer(s, g) == g.p = s.peer /\ DataOK(g) /\ ("S" \in g.f => g.seq = PeerIsn[g.p])

\* A SYN that carries an acknowledgement acknowledges our SYN.
Answers(s, g) ==
    s.state = "syn_sent" /\ {"S", "A"} \subseteq g.f => s.snd_nxt = Plus(s.iss, 1) /\ g.ack = s.snd_nxt

\* The socket after the acknowledgement of the segment.
AfterAck(s, g) == IF "A" \in g.f THEN Acked(s, g.ack) ELSE s

LEMMA AfterAckStep ==
    ASSUME NEW s, Sock(s), NEW g \in SegmentT, NEW t, t = AfterAck(s, g)
    PROVE  /\ Sock(t) /\ SameIn(s, t)
           /\ SendOK(s) => SendOK(t)
           /\ SendOK(s) /\ Started(s) /\ "A" \in g.f /\ g.ack = s.snd_nxt => t.snd_una = g.ack
  <1>1. g.ack \in Num
    BY DEF SegmentT
  <1>2. CASE "A" \in g.f
    BY <1>1, <1>2, AckedStep DEF AfterAck
  <1>3. CASE "A" \notin g.f
    BY <1>3 DEF AfterAck, SameIn
  <1> QED  BY <1>2, <1>3

Opened(s, g) == [s EXCEPT !.rcv_nxt = Plus(g.seq, 1), !.state = "established", !.syn = FALSE, !.rto = FALSE, !.tries = 0]

LEMMA HandledIs ==
    ASSUME NEW s, NEW g, NEW t, t = Handled(s, g), NEW u, u = AfterAck(s, g)
    PROVE  \/ t = Free
           \/ t = u
           \/ u.state = "syn_sent" /\ {"S", "A"} \subseteq g.f /\ g.ack = u.snd_una /\ t = Opened(u, g)
           \/ /\ u.state = "syn_rcvd" /\ "A" \in g.f /\ g.ack = u.snd_nxt
              /\ t = Fin(Received([u EXCEPT !.state = "established"], g.seq, g.data), g)
           \/ u.state \in {"established", "close_wait"} /\ t = Fin(Received(u, g.seq, g.data), g)
           \/ /\ u.state \in {"fin_wait_1", "fin_wait_2"}
              /\ \E z \in {"fin_wait_1", "fin_wait_2"} : t = [u EXCEPT !.state = z]
  <1>1. CASE "R" \in g.f
    BY <1>1 DEF Handled
  <1>2. CASE "R" \notin g.f /\ u.state = "syn_sent"
    BY <1>2 DEF Handled, AfterAck, Opened
  <1>3. CASE "R" \notin g.f /\ u.state = "syn_rcvd"
    BY <1>3 DEF Handled, AfterAck
  <1>4. CASE "R" \notin g.f /\ u.state \in {"established", "close_wait"}
    BY <1>4 DEF Handled, AfterAck
  <1>5. CASE "R" \notin g.f /\ u.state = "last_ack"
    BY <1>5 DEF Handled, AfterAck
  <1>6. CASE "R" \notin g.f /\ u.state \in {"fin_wait_1", "fin_wait_2"}
    BY <1>6 DEF Handled, AfterAck
  <1>7. CASE "R" \notin g.f /\ u.state \notin {"syn_sent", "syn_rcvd", "established", "close_wait",
                                             "last_ack", "fin_wait_1", "fin_wait_2"}
    BY <1>7 DEF Handled, AfterAck
  <1> QED  BY <1>1, <1>2, <1>3, <1>4, <1>5, <1>6, <1>7

LEMMA OpenedStep ==
    ASSUME NEW s, Sock(s), RecvOK(s), s.state = "syn_sent", NEW g \in SegmentT, FromPeer(s, g), "S" \in g.f,
           NEW t, t = Opened(s, g)
    PROVE  /\ Sock(t) /\ Recv(t) /\ t.state = "established" /\ ~t.syn /\ ~t.rto
           /\ t.used = s.used /\ t.id = s.id /\ t.owner = s.owner /\ t.parent = s.parent /\ t.port = s.port
           /\ t.rtx = s.rtx /\ t.sent = s.sent /\ t.iss = s.iss /\ t.snd_una = s.snd_una /\ t.snd_nxt = s.snd_nxt
  <1> DEFINE a == Plus(g.seq, 1)
  <1>1. s \in SockT /\ a \in Num
    <2>1. g.seq \in Num
      BY DEF SegmentT
    <2> QED  BY <2>1, SockFields, PlusNum
  <1>2. t = [s EXCEPT !.rcv_nxt = a, !.state = "established", !.syn = FALSE, !.rto = FALSE, !.tries = 0]
    BY DEF Opened
  <1>3. s.peer \in Peers /\ NoBytes(s) /\ g.p = s.peer /\ g.seq = PeerIsn[s.peer]
    BY DEF RecvOK, FromPeer
  <1>4. a = Plus(PeerIsn[s.peer], 1 + 0 + 0)
    BY <1>3
  <1> HIDE DEF a
  <1> HIDE DEF Opened
  <1>5. /\ t \in SockT /\ t.state = "established" /\ ~t.syn /\ ~t.rto /\ t.tries = 0 /\ t.rcv_nxt = a
        /\ t.used = s.used /\ t.id = s.id /\ t.owner = s.owner /\ t.parent = s.parent /\ t.port = s.port
        /\ t.rtx = s.rtx /\ t.sent = s.sent /\ t.iss = s.iss /\ t.snd_una = s.snd_una /\ t.snd_nxt = s.snd_nxt
        /\ t.rx = s.rx /\ t.ooo = s.ooo /\ t.rd = s.rd /\ t.fin = s.fin /\ t.peer = s.peer
    <2>1. 0 \in Nat /\ "established" \in States /\ FALSE \in BOOLEAN
      BY DEF States
    <2>2. t \in SockT
      <3> DEFINE v == [s EXCEPT !.rcv_nxt = a, !.state = "established"]
      <3>1. v \in SockT
        BY <1>1, <2>1 DEF SockT
      <3>2. t = [v EXCEPT !.syn = FALSE, !.rto = FALSE, !.tries = 0]
        BY <1>1, <1>2 DEF SockT
      <3> HIDE DEF v
      <3> QED  BY ZenonT(60), <2>1, <3>1, <3>2 DEF SockT
    <2>3. /\ t.state = "established" /\ ~t.syn /\ ~t.rto /\ t.tries = 0 /\ t.rcv_nxt = a
          /\ t.used = s.used /\ t.id = s.id /\ t.owner = s.owner /\ t.parent = s.parent /\ t.port = s.port
      BY <1>1, <1>2 DEF SockT
    <2>4. /\ t.rtx = s.rtx /\ t.sent = s.sent /\ t.iss = s.iss /\ t.snd_una = s.snd_una /\ t.snd_nxt = s.snd_nxt
          /\ t.rx = s.rx /\ t.ooo = s.ooo /\ t.rd = s.rd /\ t.fin = s.fin /\ t.peer = s.peer
      BY <1>1, <1>2 DEF SockT
    <2> QED  BY <2>2, <2>3, <2>4
  <1>6. Sock(t)
    BY <1>5, TcpAssumption DEF Sock, Sizes
  <1>7. Recv(t)
    <2>1. t.rx = <<>> /\ t.rd = 0 /\ t.ooo = <<>> /\ ~t.fin /\ t.peer = s.peer
      BY <1>3, <1>5 DEF NoBytes
    <2>2. Have(t) = 0
      BY <2>1 DEF Have
    <2>3. PeerLen[t.peer] \in Nat
      BY <1>3, <2>1, Constants
    <2>4. OooOK(t) /\ Piece(t.rx, From(t.peer), t.rd)
      BY <2>1, PieceEmpty DEF OooOK
    <2>5. t.rcv_nxt = Plus(PeerIsn[t.peer], 1 + Have(t) + (IF t.fin THEN 1 ELSE 0))
      BY <1>4, <1>5, <2>1, <2>2
    <2> QED  BY <1>3, <2>1, <2>2, <2>3, <2>4, <2>5 DEF Recv
  <1> QED  BY <1>5, <1>6, <1>7

\* Only the state of a socket changes.
LEMMA StateStep ==
    ASSUME NEW s, Sock(s), NEW z \in States, NEW t, t = [s EXCEPT !.state = z]
    PROVE  Sock(t) /\ t.state = z /\ Kept(s, t) /\ (Recv(s) => Recv(t))
  <1>1. s \in SockT
    BY SockFields
  <1>2. /\ t \in SockT /\ t.state = z /\ Kept(s, t) /\ t.tries = s.tries
        /\ t.fin = s.fin /\ t.rx = s.rx /\ t.ooo = s.ooo /\ t.ooo_seq = s.ooo_seq /\ t.rcv_nxt = s.rcv_nxt
    BY <1>1 DEF SockT, Kept
  <1>3. Sock(t)
    BY <1>2 DEF Sock, Sizes, Kept
  <1>4. Recv(s) => Recv(t)
    <2>1. t.peer = s.peer /\ t.rd = s.rd
      BY <1>2 DEF Kept
    <2>2. OooOK(s) => OooOK(t)
      BY <1>2, <2>1 DEF OooOK
    <2> QED  BY <1>2, <2>1, <2>2, SameRecv DEF Recv
  <1> QED  BY <1>2, <1>3, <1>4

LEMMA FreeOK == Sock(Free) /\ RecvOK(Free) /\ SendOK(Free) /\ Free.state = "unused" /\ ~Free.used /\ Free.parent = -1
  <1>1. 0 \in Num /\ <<>> \in Seq(Bytes) /\ <<>> \in Seq(Nat)
    BY Constants DEF Num
  <1>2. Free \in SockT
    BY <1>1 DEF Free, SockT, States
  <1>3. Sizes(Free)
    BY Constants, TcpAssumption DEF Free, Sizes
  <1>4. RecvOK(Free)
    BY DEF Free, RecvOK, NoBytes
  <1>5. SendOK(Free)
    BY DEF Free, SendOK, Quiet
  <1> QED  BY <1>2, <1>3, <1>4, <1>5 DEF Sock, Free

\* What a segment from its far end does to a connection.
LEMMA HandledStep ==
    ASSUME NEW s, Sock(s), RecvOK(s), s.state # "listen", NEW g \in SegmentT, FromPeer(s, g),
           NEW t, t = Handled(s, g)
    PROVE  /\ Sock(t) /\ RecvOK(t) /\ Moved(s, t)
           /\ SendOK(s) /\ Answers(s, g) => SendOK(t)
  <1> DEFINE u == AfterAck(s, g)
  <1>1. /\ Sock(u) /\ SameIn(s, u)
        /\ SendOK(s) => SendOK(u)
        /\ SendOK(s) /\ Started(s) /\ "A" \in g.f /\ g.ack = s.snd_nxt => u.snd_una = g.ack
    BY AfterAckStep
  <1>2. \/ t = Free
        \/ t = u
        \/ u.state = "syn_sent" /\ {"S", "A"} \subseteq g.f /\ g.ack = u.snd_una /\ t = Opened(u, g)
        \/ /\ u.state = "syn_rcvd" /\ "A" \in g.f /\ g.ack = u.snd_nxt
           /\ t = Fin(Received([u EXCEPT !.state = "established"], g.seq, g.data), g)
        \/ u.state \in {"established", "close_wait"} /\ t = Fin(Received(u, g.seq, g.data), g)
        \/ /\ u.state \in {"fin_wait_1", "fin_wait_2"}
           /\ \E z \in {"fin_wait_1", "fin_wait_2"} : t = [u EXCEPT !.state = z]
    BY HandledIs
  <1> HIDE DEF u
  <1>3. RecvOK(u) /\ FromPeer(u, g)
    BY <1>1, SameInRecv DEF SameIn, FromPeer
  <1>4. u.state = s.state /\ u.used = s.used /\ u.id = s.id /\ u.owner = s.owner /\ u.parent = s.parent
        /\ u.iss = s.iss /\ u.snd_nxt = s.snd_nxt
    BY <1>1 DEF SameIn
  <1>5. CASE t = Free
    BY <1>5, FreeOK DEF Moved
  <1>6. CASE t = u
    BY <1>1, <1>3, <1>4, <1>6 DEF Moved, Went
  <1>7. CASE u.state = "syn_sent" /\ {"S", "A"} \subseteq g.f /\ g.ack = u.snd_una /\ t = Opened(u, g)
    <2>1. /\ Sock(t) /\ Recv(t) /\ t.state = "established" /\ ~t.syn /\ ~t.rto
          /\ t.used = u.used /\ t.id = u.id /\ t.owner = u.owner /\ t.parent = u.parent /\ t.port = u.port
          /\ t.rtx = u.rtx /\ t.sent = u.sent /\ t.iss = u.iss /\ t.snd_una = u.snd_una /\ t.snd_nxt = u.snd_nxt
      BY <1>1, <1>3, <1>7, OpenedStep
    <2>2. RecvOK(t)
      BY <2>1 DEF RecvOK, Recv
    <2>3. Moved(s, t)
      BY <1>4, <1>7, <2>1 DEF Moved
    <2>4. ASSUME SendOK(s), Answers(s, g) PROVE SendOK(t)
      <3>1. SendOK(u) /\ Started(u) /\ u.used /\ u.port \in {Srv, Srv + u.id}
        BY <1>1, <1>7, <2>4 DEF SendOK
      <3>2. u.snd_nxt = Plus(u.iss, 1) /\ g.ack = u.snd_nxt
        BY <1>4, <1>7, <2>4 DEF Answers
      <3>3. t.rtx = <<>> /\ t.sent = 0 /\ t.snd_una = Plus(t.iss, 1) /\ t.snd_nxt = Plus(t.iss, 1)
        BY <1>7, <2>1, <3>1, <3>2 DEF Started
      <3>4. RtxOK(t) /\ t.snd_nxt = Plus(t.iss, 1 + t.sent)
        <4>1. RtxOK(t)
          BY <3>3, NothingSent
        <4> QED  BY <3>3, <4>1
      <3> QED  BY <2>1, <3>1, <3>4 DEF SendOK
    <2> QED  BY <2>1, <2>2, <2>3, <2>4
  <1>8. CASE /\ u.state = "syn_rcvd" /\ "A" \in g.f /\ g.ack = u.snd_nxt
             /\ t = Fin(Received([u EXCEPT !.state = "established"], g.seq, g.data), g)
    <2> DEFINE v == [u EXCEPT !.state = "established"]
    <2>1. Sock(v) /\ v.state = "established" /\ Kept(u, v) /\ (Recv(u) => Recv(v))
      BY <1>1, StateStep DEF States
    <2>2. t = Fin(Received(v, g.seq, g.data), g)
      BY <1>8
    <2> HIDE DEF v
    <2>3. Recv(u)
      BY <1>3, <1>8 DEF RecvOK
    <2>4. Recv(v) /\ g.p = v.peer /\ DataOK(g)
      BY <1>3, <2>1, <2>3 DEF Kept, FromPeer
    <2>5. /\ Sock(t) /\ Kept(v, t) /\ Recv(t)
          /\ t.state = v.state \/ (v.state = "established" /\ t.state = "close_wait")
      BY <2>1, <2>2, <2>4, BodyStep
    <2>6. t.state \in {"established", "close_wait"} /\ t.peer \in Peers
      BY <2>1, <2>5 DEF Recv
    <2>7. RecvOK(t)
      BY <2>5, <2>6 DEF RecvOK
    <2>8. Moved(s, t)
      BY <1>4, <1>8, <2>1, <2>5, <2>6 DEF Moved, Kept
    <2>9. ASSUME SendOK(s) PROVE SendOK(t)
      <3>1. SendOK(u) /\ Started(u) /\ u.snd_nxt = Plus(u.iss, 1) /\ u.used /\ u.port \in {Srv, Srv + u.id} /\ ~u.syn
        BY <1>1, <1>8, <2>9 DEF SendOK
      <3>2. u.snd_una = Plus(u.iss, 1)
        <4>1. Started(s) /\ g.ack = s.snd_nxt
          BY <1>4, <1>8, <2>9 DEF SendOK
        <4>2. u.snd_una = g.ack
          BY <1>1, <1>8, <2>9, <4>1
        <4> QED  BY <1>8, <3>1, <4>2
      <3>3. RtxOK(v) /\ v.snd_nxt = Plus(v.iss, 1 + v.sent)
        <4>1. v.rtx = <<>> /\ v.sent = 0 /\ v.snd_una = Plus(v.iss, 1) /\ v.snd_nxt = Plus(v.iss, 1)
          BY <2>1, <3>1, <3>2 DEF Kept, Started
        <4>2. RtxOK(v)
          BY <4>1, NothingSent
        <4> QED  BY <4>1, <4>2
      <3>4. SendOK(v)
        BY <2>1, <3>1, <3>3 DEF SendOK, Kept
      <3> QED  BY <2>5, <3>4, SameSend
    <2> QED  BY <2>5, <2>7, <2>8, <2>9
  <1>9. CASE u.state \in {"established", "close_wait"} /\ t = Fin(Received(u, g.seq, g.data), g)
    <2>1. Recv(u) /\ g.p = u.peer /\ DataOK(g)
      BY <1>3, <1>9 DEF RecvOK, FromPeer
    <2>2. /\ Sock(t) /\ Kept(u, t) /\ Recv(t)
          /\ t.state = u.state \/ (u.state = "established" /\ t.state = "close_wait")
      BY <1>1, <1>9, <2>1, BodyStep
    <2>3. t.state \in {"established", "close_wait"} /\ t.peer \in Peers
      BY <1>9, <2>2 DEF Recv
    <2>4. RecvOK(t)
      BY <2>2, <2>3 DEF RecvOK
    <2>5. Moved(s, t)
      BY <1>4, <1>9, <2>2, <2>3 DEF Moved, Kept
    <2>6. SendOK(s) => SendOK(t)
      BY <1>1, <2>2, SameSend
    <2> QED  BY <2>2, <2>4, <2>5, <2>6
  <1>10. CASE /\ u.state \in {"fin_wait_1", "fin_wait_2"}
              /\ \E z \in {"fin_wait_1", "fin_wait_2"} : t = [u EXCEPT !.state = z]
    <2>1. PICK z \in {"fin_wait_1", "fin_wait_2"} : t = [u EXCEPT !.state = z]
      BY <1>10
    <2>2. Sock(t) /\ t.state = z /\ Kept(u, t)
      BY <1>1, <2>1, StateStep DEF States
    <2>3. RecvOK(t)
      BY <1>3, <1>10, <2>2 DEF RecvOK, Kept
    <2>4. Moved(s, t)
      BY <1>4, <1>10, <2>2 DEF Moved, Kept
    <2>5. SendOK(s) => SendOK(t)
      BY <1>1, <1>10, <2>2 DEF SendOK, Kept, RtxOK, Done
    <2> QED  BY <2>2, <2>3, <2>4, <2>5
  <1> QED  BY <1>2, <1>5, <1>6, <1>7, <1>8, <1>9, <1>10

-----------------------------------------------------------------------------
(* The invariant *)

\* The receive side is right whatever callers do to each other's slots.
SocketsOK ==
    \A i \in Socks : Sock(socks[i]) /\ RecvOK(socks[i]) /\ (~socks[i].used => socks[i].state = "unused")
CallsIn == \A p \in Procs : call[p].k # "idle" => call[p].s \in Socks
InvIn == Types /\ CallsIn /\ SocketsOK

\* What is on the wire carries the bytes its number stands for.
Carries(w) ==
    /\ w.k = "syn" => w.seq = w.iss
    /\ \A k \in 1..Len(w.bytes) : w.bytes[k] = Minus(w.seq, Plus(w.iss, 1)) + k

\* No port is in use before its socket is made.
PortsLow ==
    /\ \A w \in wire : w.port <= Srv + opens
    /\ \A c \in Peers : peer[c].port <= Srv + opens

\* No two sockets are the same one.
Ids ==
    /\ \A i \in Socks : socks[i].used => socks[i].id \in 1..opens
    /\ \A i \in Socks : \A j \in Socks : socks[i].used /\ socks[j].used /\ socks[i].id = socks[j].id => i = j

\* Nobody has heard of the port of a socket whose SYN has not gone out, and
\* what is known of it comes from that SYN.
PortOK(s) ==
    s.used /\ s.state \in {"unused", "syn_sent"} =>
        /\ \A w \in wire : w.port = Srv + s.id => Went(s) /\ w.iss = s.iss
        /\ \A c \in Peers : peer[c].port = Srv + s.id => Went(s) /\ (peer[c].st = "open" => peer[c].irs = s.iss)

\* A connection nobody has accepted has its listener, of the same owner.
HasListener(i) ==
    LET l == socks[i].parent IN
    l \in Socks /\ socks[l].used /\ socks[l].state = "listen" /\ socks[l].owner = socks[i].owner
Family == \A i \in Socks : socks[i].parent # -1 => HasListener(i)

Lines ==
    /\ \A i \in Socks : SendOK(socks[i]) /\ PortOK(socks[i])
    /\ \A w \in wire : Carries(w)
    /\ PortsLow /\ Ids /\ Family

\* A call that connects: before the SYN the socket is as it was left, and later
\* it is still its own, or gone.
Connects(p, s) ==
    /\ call[p].k \in {"arp", "connect"} =>
          /\ call[p].id <= opens
          /\ s.used /\ s.id = call[p].id => s.owner = p /\ s.state \notin {"unused", "listen"}
    /\ call[p].k = "arp" =>
          /\ p \in alive /\ s.used /\ s.id = call[p].id
          /\ s.state = "syn_sent" /\ s.snd_nxt = s.iss /\ s.snd_una = s.iss
Callers == \A p \in Procs : call[p].k # "idle" => Connects(p, socks[call[p].s])

InvOut == Lines /\ Callers

Inv == InvIn /\ (~stolen => InvOut)

-----------------------------------------------------------------------------
(* What a far end may send *)

\* The bytes of far end c between two places of its stream.
Bit(c, i, j) == [k \in 1..(j - i) |-> <<c, i + k>>]

LEMMA BitOK ==
    ASSUME NEW c \in Peers, NEW i \in Nat, NEW j \in Nat, i <= j
    PROVE  Bit(c, i, j) \in Seq(Bytes) /\ Len(Bit(c, i, j)) = j - i /\ Piece(Bit(c, i, j), From(c), i)
  <1>1. j - i \in Nat
    OBVIOUS
  <1>2. \A k \in 1..(j - i) : <<c, i + k>> \in Bytes /\ i + k \in Nat
    BY DEF Bytes
  <1>3. Bit(c, i, j) \in Seq(Bytes) /\ Len(Bit(c, i, j)) = j - i
    BY <1>1, <1>2 DEF Bit
  <1>4. Piece(Bit(c, i, j), From(c), i)
    <2> SUFFICES ASSUME NEW k \in 1..(j - i) PROVE Bit(c, i, j)[k] = From(c)[i + k]
      BY <1>3 DEF Piece
    <2> QED  BY <1>2 DEF Bit, From
  <1> QED  BY <1>3, <1>4

LEMMA PlaceNum ==
    ASSUME NEW c \in Peers, NEW i \in Nat
    PROVE  (PeerIsn[c] + 1 + i) % SeqMod = Plus(PeerIsn[c], 1 + i) /\ PeerIsn[c] % SeqMod = PeerIsn[c]
  <1>1. PeerIsn[c] \in 0..(SeqMod - 1) /\ SeqMod \in Nat
    BY Constants DEF Num
  <1>2. PeerIsn[c] + 1 + i = PeerIsn[c] + (1 + i)
    BY <1>1
  <1>3. PeerIsn[c] % SeqMod = PeerIsn[c]
    BY <1>1
  <1> QED  BY <1>2, <1>3 DEF Plus

LEMMA InSegsAre ==
    ASSUME InvIn, NEW c \in Peers, NEW g \in InSegs(c)
    PROVE  \/ g = [p |-> c, port |-> peer[c].port, f |-> {"S"}, seq |-> PeerIsn[c] % SeqMod, ack |-> 0, data |-> <<>>]
           \/ /\ peer[c].st = "open"
              /\ g = [p |-> c, port |-> peer[c].port, f |-> {"S", "A"}, seq |-> PeerIsn[c] % SeqMod,
                      ack |-> Plus(peer[c].irs, 1), data |-> <<>>]
           \/ \E i \in 0..PeerLen[c], j \in 0..PeerLen[c], k \in 0..peer[c].rcv :
                 /\ i <= j
                 /\ g = [p |-> c, port |-> peer[c].port, f |-> {"A"}, seq |-> (PeerIsn[c] + 1 + i) % SeqMod,
                         ack |-> Plus(peer[c].irs, 1 + k), data |-> Bit(c, i, j)]
           \/ \E i \in 0..PeerLen[c], k \in 0..peer[c].rcv :
                 g = [p |-> c, port |-> peer[c].port, f |-> {"A", "F"}, seq |-> (PeerIsn[c] + 1 + i) % SeqMod,
                      ack |-> Plus(peer[c].irs, 1 + k), data |-> Bit(c, i, PeerLen[c])]
           \/ g = [p |-> c, port |-> peer[c].port, f |-> {"R"}, seq |-> (PeerIsn[c] + 1 + 0) % SeqMod,
                   ack |-> 0, data |-> <<>>]
  <1> DEFINE q == peer[c]
             seg(f, seq, ack, data) == [p |-> c, port |-> q.port, f |-> f, seq |-> seq % SeqMod, ack |-> ack, data |-> data]
             acks == {Plus(q.irs, 1 + k) : k \in 0..q.rcv}
             trio == {y \in (0..PeerLen[c]) \X (0..PeerLen[c]) \X acks : y[1] <= y[2]}
  <1>1. CASE q.st = "closed"
    BY <1>1 DEF InSegs
  <1>2. CASE q.st = "syn"
    BY <1>2 DEF InSegs
  <1>3. CASE q.st = "reset"
    BY <1>3 DEF InSegs
  <1>4. CASE q.st = "open"
    <2>1. \/ g = seg({"S"}, PeerIsn[c], 0, <<>>)
          \/ g = seg({"S", "A"}, PeerIsn[c], Plus(q.irs, 1), <<>>)
          \/ \E x \in trio : g = seg({"A"}, PeerIsn[c] + 1 + x[1], x[3], Bit(c, x[1], x[2]))
          \/ \E i \in 0..PeerLen[c], a \in acks : g = seg({"A", "F"}, PeerIsn[c] + 1 + i, a, Bit(c, i, PeerLen[c]))
      BY <1>4 DEF InSegs, Bit
    <2>2. CASE g = seg({"S"}, PeerIsn[c], 0, <<>>) \/ g = seg({"S", "A"}, PeerIsn[c], Plus(q.irs, 1), <<>>)
      BY <1>4, <2>2
    <2>3. CASE \E x \in trio : g = seg({"A"}, PeerIsn[c] + 1 + x[1], x[3], Bit(c, x[1], x[2]))
      <3>1. PICK x \in trio : g = seg({"A"}, PeerIsn[c] + 1 + x[1], x[3], Bit(c, x[1], x[2]))
        BY <2>3
      <3>2. x[1] \in 0..PeerLen[c] /\ x[2] \in 0..PeerLen[c] /\ x[3] \in acks /\ x[1] <= x[2]
        OBVIOUS
      <3>3. PICK k \in 0..q.rcv : x[3] = Plus(q.irs, 1 + k)
        BY <3>2
      <3> QED  BY <3>1, <3>2, <3>3
    <2>4. CASE \E i \in 0..PeerLen[c], a \in acks : g = seg({"A", "F"}, PeerIsn[c] + 1 + i, a, Bit(c, i, PeerLen[c]))
      BY <2>4
    <2> QED  BY <2>1, <2>2, <2>3, <2>4
  <1>5. q.st \in {"closed", "syn", "open", "reset"}
    BY DEF InvIn, Types, PeerT
  <1> QED  BY <1>1, <1>2, <1>3, <1>4, <1>5

\* A segment that can arrive.
SegmentOK(c, g) ==
    /\ g \in SegmentT /\ g.p = c /\ g.port = peer[c].port /\ DataOK(g)
    /\ "S" \in g.f => g.seq = PeerIsn[c]
    /\ {"S", "A"} \subseteq g.f => peer[c].st = "open" /\ g.ack = Plus(peer[c].irs, 1)

LEMMA InSegsOK ==
    ASSUME InvIn, NEW c \in Peers, NEW g \in InSegs(c)
    PROVE  SegmentOK(c, g)
  <1>1. /\ peer[c].port \in Nat /\ peer[c].irs \in Num /\ peer[c].rcv \in Nat
        /\ PeerLen[c] \in Nat /\ PeerIsn[c] \in Num /\ 0 \in Num /\ <<>> \in Seq(Bytes)
    <2>1. peer[c] \in PeerT
      BY DEF InvIn, Types
    <2> QED  BY <2>1, Constants DEF PeerT, Num
  <1>2. \A k \in Nat : Plus(peer[c].irs, 1 + k) \in Num /\ Plus(peer[c].irs, 1) \in Num
    BY <1>1, PlusNum
  <1>3. CASE g = [p |-> c, port |-> peer[c].port, f |-> {"S"}, seq |-> PeerIsn[c] % SeqMod, ack |-> 0, data |-> <<>>]
    <2>1. g.seq = PeerIsn[c] /\ "F" \notin g.f /\ "A" \notin g.f /\ g.data = <<>> /\ g.p = c /\ g.port = peer[c].port
      BY <1>1, <1>3, PlaceNum
    <2>2. g \in SegmentT
      BY <1>1, <1>3, <2>1 DEF SegmentT
    <2> QED  BY <2>1, <2>2 DEF SegmentOK, DataOK
  <1>4. CASE /\ peer[c].st = "open"
             /\ g = [p |-> c, port |-> peer[c].port, f |-> {"S", "A"}, seq |-> PeerIsn[c] % SeqMod,
                     ack |-> Plus(peer[c].irs, 1), data |-> <<>>]
    <2>1. g.seq = PeerIsn[c] /\ "F" \notin g.f /\ g.data = <<>> /\ g.p = c /\ g.port = peer[c].port
      BY <1>1, <1>4, PlaceNum
    <2>2. g \in SegmentT
      BY <1>1, <1>2, <1>4, <2>1 DEF SegmentT
    <2> QED  BY <1>4, <2>1, <2>2 DEF SegmentOK, DataOK
  <1>5. ASSUME NEW i \in 0..PeerLen[c], NEW j \in 0..PeerLen[c], NEW k \in 0..peer[c].rcv, i <= j,
               NEW f \in {{"A"}, {"A", "F"}}, "F" \in f => j = PeerLen[c],
               g = [p |-> c, port |-> peer[c].port, f |-> f, seq |-> (PeerIsn[c] + 1 + i) % SeqMod,
                    ack |-> Plus(peer[c].irs, 1 + k), data |-> Bit(c, i, j)]
        PROVE  SegmentOK(c, g)
    <2>1. i \in Nat /\ j \in Nat /\ k \in Nat /\ i + (j - i) = j /\ j <= PeerLen[c]
      BY <1>1
    <2>2. Bit(c, i, j) \in Seq(Bytes) /\ Len(Bit(c, i, j)) = j - i /\ Piece(Bit(c, i, j), From(c), i)
      BY <1>5, <2>1, BitOK
    <2>3. (PeerIsn[c] + 1 + i) % SeqMod = Plus(PeerIsn[c], 1 + i) /\ Plus(PeerIsn[c], 1 + i) \in Num
      <3>1. 1 + i \in Nat
        BY <2>1
      <3> QED  BY <1>1, <2>1, <3>1, PlaceNum, PlusNum
    <2>4. Plus(peer[c].irs, 1 + k) \in Num
      BY <1>2, <2>1
    <2>5. g.p = c /\ g.port = peer[c].port /\ g.f = f /\ g.seq = Plus(PeerIsn[c], 1 + i) /\ g.data = Bit(c, i, j)
      BY <1>5, <2>3
    <2>6. g \in SegmentT
      BY <1>1, <1>5, <2>2, <2>3, <2>4 DEF SegmentT
    <2>7. DataOK(g)
      BY <1>5, <2>1, <2>2, <2>5 DEF DataOK
    <2>8. "S" \notin g.f
      BY <2>5
    <2> QED  BY <2>5, <2>6, <2>7, <2>8 DEF SegmentOK
  <1>6. CASE g = [p |-> c, port |-> peer[c].port, f |-> {"R"}, seq |-> (PeerIsn[c] + 1 + 0) % SeqMod,
                  ack |-> 0, data |-> <<>>]
    <2>1. g.seq \in Num
      <3>1. (PeerIsn[c] + 1 + 0) % SeqMod = Plus(PeerIsn[c], 1 + 0)
        BY PlaceNum
      <3>2. Plus(PeerIsn[c], 1 + 0) \in Num
        BY <1>1, PlusNum
      <3> QED  BY <1>6, <3>1, <3>2
    <2>2. "F" \notin g.f /\ "A" \notin g.f /\ "S" \notin g.f /\ g.data = <<>> /\ g.p = c /\ g.port = peer[c].port
      BY <1>6
    <2>3. g \in SegmentT
      BY <1>1, <1>6, <2>1, <2>2 DEF SegmentT
    <2> QED  BY <2>2, <2>3 DEF SegmentOK, DataOK
  <1>7. PeerLen[c] \in 0..PeerLen[c] /\ \A i \in 0..PeerLen[c] : i <= PeerLen[c]
    BY <1>1
  <1> QED  BY <1>3, <1>4, <1>5, <1>6, <1>7, InSegsAre

-----------------------------------------------------------------------------
(* What each operation does to its socket *)

LEMMA NewIsnNum == ASSUME opens \in Nat PROVE NewIsn \in Num /\ Plus(NewIsn, 1) \in Num
  <1>1. Isn0 + 5 * opens \in Nat /\ SeqMod \in Nat /\ SeqMod > 3
    BY Constants, TcpAssumption
  <1>2. NewIsn \in Num
    BY <1>1 DEF NewIsn, Plus, Num
  <1> QED  BY <1>2, PlusNum

LEMMA NextNumber == ASSUME NEW a \in Num PROVE Plus(a, 1) # a
  <1>1. Plus(a, 1) = IF a + 1 < SeqMod THEN a + 1 ELSE a + 1 - SeqMod
    <2>1. 1 \in 0..SeqMod
      BY Constants
    <2> QED  BY <2>1, PlusIs
  <1>2. a \in 0..(SeqMod - 1) /\ SeqMod \in Nat /\ SeqMod > 3
    BY Constants DEF Num
  <1> QED  BY <1>1, <1>2

LEMMA AcceptedStep ==
    ASSUME InvIn, NEW g \in SegmentT, g.seq = PeerIsn[g.p], NEW l \in Socks, NEW i, NEW t, t = Accepted(g, i, l)
    PROVE  /\ Sock(t) /\ RecvOK(t)
           /\ t.used /\ t.id = opens + 1 /\ t.owner = socks[l].owner /\ t.parent = l /\ t.state = "syn_rcvd"
           /\ t.port = g.port /\ t.peer = g.p /\ t.iss = NewIsn
           /\ g.port = Srv => SendOK(t)
  <1> DEFINE a == NewIsn
             b == Plus(NewIsn, 1)
             e == Plus(g.seq, 1)
             o == socks[l].owner
             k == opens + 1
  <1>1. /\ a \in Num /\ b \in Num /\ e \in Num /\ o \in Procs \cup {NoPeer} /\ k \in Nat
        /\ g.p \in Peers /\ g.port \in Nat
    <2>1. opens \in Nat /\ socks[l] \in SockT
      BY DEF InvIn, Types
    <2>2. g.seq \in Num /\ g.p \in Peers /\ g.port \in Nat
      BY DEF SegmentT
    <2>3. a \in Num /\ b \in Num
      BY <2>1, NewIsnNum
    <2>4. e \in Num
      BY <2>2, PlusNum
    <2>5. o \in Procs \cup {NoPeer}
      BY <2>1 DEF SockT
    <2> QED  BY <2>1, <2>2, <2>3, <2>4, <2>5
  <1>3. e = Plus(PeerIsn[g.p], 1 + 0 + 0)
    OBVIOUS
  <1>4. b = Plus(a, 1)
    OBVIOUS
  <1>5. t = [used |-> TRUE, state |-> "syn_rcvd", port |-> g.port, peer |-> g.p, parent |-> l, owner |-> o,
             fin |-> FALSE, rx |-> <<>>, snd_nxt |-> b, snd_una |-> a, rcv_nxt |-> e,
             rtx |-> <<>>, rto |-> FALSE, tries |-> 0, syn |-> FALSE, ooo |-> <<>>, ooo_seq |-> 0,
             id |-> k, iss |-> a, rd |-> 0, sent |-> 0]
    BY DEF Accepted, Free
  <1> HIDE DEF a, b, e, o, k
  <1>6. /\ t.used = TRUE /\ t.state = "syn_rcvd" /\ t.port = g.port /\ t.peer = g.p /\ t.parent = l /\ t.owner = o
        /\ t.fin = FALSE /\ t.rx = <<>> /\ t.snd_nxt = b /\ t.snd_una = a /\ t.rcv_nxt = e
        /\ t.rtx = <<>> /\ t.rto = FALSE /\ t.tries = 0 /\ t.syn = FALSE /\ t.ooo = <<>>
        /\ t.id = k /\ t.iss = a /\ t.rd = 0 /\ t.sent = 0
    BY <1>5
  <1>7. t \in SockT
    <2>1. 0 \in Num /\ <<>> \in Seq(Bytes) /\ <<>> \in Seq(Nat) /\ "syn_rcvd" \in States
      BY Constants DEF Num, States
    <2> QED  BY <1>1, <1>5, <2>1 DEF SockT
  <1>8. Sock(t)
    BY <1>6, <1>7, Constants, TcpAssumption DEF Sock, Sizes
  <1>9. RecvOK(t)
    <2>1. Have(t) = 0
      BY <1>6 DEF Have
    <2>2. PeerLen[t.peer] \in Nat /\ t.peer \in Peers
      BY <1>1, <1>6, Constants
    <2>3. OooOK(t) /\ Piece(t.rx, From(t.peer), t.rd)
      BY <1>6, PieceEmpty DEF OooOK
    <2>4. t.rcv_nxt = Plus(PeerIsn[t.peer], 1 + Have(t) + (IF t.fin THEN 1 ELSE 0))
      BY <1>3, <1>6, <2>1
    <2>5. Recv(t)
      BY <1>6, <2>1, <2>2, <2>3, <2>4 DEF Recv
    <2> QED  BY <1>6, <2>2, <2>5 DEF RecvOK
  <1>10. g.port = Srv => SendOK(t)
    BY <1>4, <1>6 DEF SendOK, Started
  <1> QED  BY <1>6, <1>8, <1>9, <1>10 DEF a, o, k

LEMMA TakenStep ==
    ASSUME opens \in Nat, NEW p \in Procs, NEW s, Sock(s), NoBytes(s), NEW t, t = Taken(p, s)
    PROVE  /\ Sock(t) /\ RecvOK(t)
           /\ t.used /\ t.id = opens + 1 /\ t.owner = p /\ t.parent = -1 /\ t.state = "unused"
           /\ Quiet(s) => SendOK(t)
  <1> DEFINE k == opens + 1
  <1>1. /\ s.rtx \in Seq(Nat) /\ s.rto \in BOOLEAN /\ s.tries \in Nat /\ s.syn \in BOOLEAN
        /\ s.ooo \in Seq(Bytes) /\ s.ooo_seq \in Num /\ k \in Nat /\ s.ooo = <<>>
    BY DEF Sock, SockT, NoBytes
  <1>2. t = [used |-> TRUE, state |-> "unused", port |-> 0, peer |-> NoPeer, parent |-> -1, owner |-> p,
             fin |-> FALSE, rx |-> <<>>, snd_nxt |-> 0, snd_una |-> 0, rcv_nxt |-> 0,
             rtx |-> s.rtx, rto |-> s.rto, tries |-> s.tries, syn |-> s.syn, ooo |-> s.ooo, ooo_seq |-> s.ooo_seq,
             id |-> k, iss |-> 0, rd |-> 0, sent |-> 0]
    BY DEF Taken, Free
  <1> HIDE DEF k
  <1>3. /\ t.used = TRUE /\ t.state = "unused" /\ t.port = 0 /\ t.parent = -1 /\ t.owner = p
        /\ t.fin = FALSE /\ t.rx = <<>> /\ t.rtx = s.rtx /\ t.rto = s.rto /\ t.tries = s.tries
        /\ t.syn = s.syn /\ t.ooo = s.ooo /\ t.id = k /\ t.rd = 0 /\ t.sent = 0
    BY <1>2
  <1>4. t \in SockT
    <2>1. 0 \in Num /\ <<>> \in Seq(Bytes) /\ "unused" \in States
      BY Constants DEF Num, States
    <2> QED  BY <1>1, <1>2, <2>1 DEF SockT
  <1>5. Sock(t)
    BY <1>3, <1>4, Constants DEF Sock, Sizes
  <1>6. RecvOK(t)
    BY <1>1, <1>3 DEF RecvOK, NoBytes
  <1>7. Quiet(s) => SendOK(t)
    BY <1>3 DEF Quiet, SendOK
  <1> QED  BY <1>3, <1>5, <1>6, <1>7 DEF k

Listening(s) == [s EXCEPT !.port = Srv, !.state = "listen"]

LEMMA ListenStep ==
    ASSUME NEW s, Sock(s), RecvOK(s), s.used, s.state = "unused",
           NEW t, t = Listening(s)
    PROVE  /\ Sock(t) /\ RecvOK(t) /\ t.state = "listen"
           /\ t.used /\ t.id = s.id /\ t.owner = s.owner /\ t.parent = s.parent
           /\ SendOK(s) => SendOK(t)
  <1>1. s \in SockT /\ Srv \in Nat /\ "listen" \in States
    BY SockFields DEF Srv, States
  <1>2. t \in SockT
    BY <1>1 DEF SockT, Listening
  <1>3. /\ t.state = "listen" /\ t.port = Srv /\ t.used /\ t.id = s.id /\ t.owner = s.owner /\ t.parent = s.parent
        /\ t.rx = s.rx /\ t.rd = s.rd /\ t.ooo = s.ooo /\ t.fin = s.fin /\ t.rtx = s.rtx /\ t.syn = s.syn
        /\ t.rto = s.rto /\ t.sent = s.sent /\ t.tries = s.tries
    BY <1>1 DEF SockT, Listening
  <1>4. Sock(t)
    BY <1>2, <1>3 DEF Sock, Sizes
  <1>5. RecvOK(t)
    BY <1>3 DEF RecvOK, NoBytes
  <1>6. SendOK(s) => SendOK(t)
    BY <1>3 DEF SendOK, Quiet
  <1> QED  BY <1>3, <1>4, <1>5, <1>6

Connecting(s, c) == [s EXCEPT !.port = Srv + s.id, !.peer = c, !.state = "syn_sent", !.syn = TRUE,
                              !.snd_nxt = NewIsn, !.snd_una = NewIsn, !.iss = NewIsn]

LEMMA ConnectStep ==
    ASSUME opens \in Nat, NEW s, Sock(s), RecvOK(s), s.used, s.state = "unused", NEW c \in Servers,
           NEW t, t = Connecting(s, c)
    PROVE  /\ Sock(t) /\ RecvOK(t) /\ t.state = "syn_sent"
           /\ t.used /\ t.id = s.id /\ t.owner = s.owner /\ t.parent = s.parent
           /\ t.snd_nxt = t.iss /\ t.snd_una = t.iss
           /\ SendOK(s) => SendOK(t)
  <1> DEFINE a == NewIsn
             n == Srv + s.id
  <1>1. s \in SockT /\ n \in Nat /\ "syn_sent" \in States /\ a \in Num /\ c \in Peers
    BY SockFields, NewIsnNum DEF Srv, States, Peers
  <1>2. t = [s EXCEPT !.port = n, !.peer = c, !.state = "syn_sent", !.syn = TRUE,
                      !.snd_nxt = a, !.snd_una = a, !.iss = a]
    BY DEF Connecting
  <1>3. n = Srv + s.id
    OBVIOUS
  <1> HIDE DEF a, n
  <1>4. t \in SockT
    <2> DEFINE y == [s EXCEPT !.port = n, !.peer = c]
               v == [y EXCEPT !.state = "syn_sent", !.syn = TRUE]
    <2>0. y \in SockT
      BY <1>1 DEF SockT
    <2>1. v \in SockT
      <3> HIDE DEF y
      <3> QED  BY <1>1, <2>0 DEF SockT
    <2>2. t = [v EXCEPT !.snd_nxt = a, !.snd_una = a, !.iss = a]
      BY <1>1, <1>2 DEF SockT
    <2> HIDE DEF v
    <2> QED  BY ZenonT(60), <1>1, <2>1, <2>2 DEF SockT
  <1>5. /\ t.state = "syn_sent" /\ t.port = n /\ t.used /\ t.id = s.id /\ t.owner = s.owner /\ t.parent = s.parent
        /\ t.peer = c /\ t.syn = TRUE /\ t.snd_nxt = a /\ t.snd_una = a /\ t.iss = a
    BY <1>1, <1>2 DEF SockT
  <1>6. /\ t.rx = s.rx /\ t.rd = s.rd /\ t.ooo = s.ooo /\ t.fin = s.fin /\ t.rtx = s.rtx
        /\ t.rto = s.rto /\ t.sent = s.sent /\ t.tries = s.tries
    BY <1>1, <1>2 DEF SockT
  <1>7. Sock(t)
    BY <1>4, <1>6 DEF Sock, Sizes
  <1>8. RecvOK(t)
    BY <1>1, <1>5, <1>6 DEF RecvOK, NoBytes
  <1>9. SendOK(s) => SendOK(t)
    BY <1>3, <1>5, <1>6 DEF SendOK, Quiet, Started
  <1> QED  BY <1>5, <1>7, <1>8, <1>9

\* What a step leaves alone that is no business of the wire.
Same(s, t) == t.used = s.used /\ t.id = s.id /\ t.owner = s.owner /\ t.parent = s.parent /\ t.iss = s.iss

SynGone(s) == [s EXCEPT !.snd_nxt = Plus(@, 1), !.rto = TRUE, !.tries = 0]

LEMMA SynGoneStep ==
    ASSUME NEW s, Sock(s), RecvOK(s), NEW t, t = SynGone(s)
    PROVE  /\ Sock(t) /\ RecvOK(t) /\ Same(s, t) /\ t.state = s.state
           /\ s.state = "syn_sent" /\ s.snd_nxt = s.iss /\ s.snd_una = s.iss =>
                 /\ t.snd_nxt # t.iss
                 /\ SendOK(s) => SendOK(t)
  <1> DEFINE a == Plus(s.snd_nxt, 1)
  <1>1. s \in SockT /\ s.snd_nxt \in Num /\ a \in Num /\ 0 \in Nat /\ TRUE \in BOOLEAN
    BY SockFields, PlusNum
  <1>2. t = [s EXCEPT !.snd_nxt = a, !.rto = TRUE, !.tries = 0]
    BY <1>1 DEF SynGone
  <1>3. a = Plus(s.snd_nxt, 1) /\ a # s.snd_nxt
    BY <1>1, NextNumber
  <1> HIDE DEF a
  <1>4. t \in SockT
    BY ZenonT(60), <1>1, <1>2 DEF SockT
  <1>5. /\ Same(s, t) /\ Unread(s, t) /\ t.snd_nxt = a /\ t.tries = 0 /\ t.rtx = s.rtx /\ t.snd_una = s.snd_una
        /\ t.sent = s.sent /\ t.syn = s.syn /\ t.port = s.port
    BY <1>1, <1>2 DEF SockT, Same, Unread
  <1>6. Sock(t)
    BY <1>4, <1>5, TcpAssumption DEF Sock, Sizes, Unread
  <1>7. RecvOK(t)
    BY <1>5, UnreadRecv
  <1>8. ASSUME s.state = "syn_sent", s.snd_nxt = s.iss, s.snd_una = s.iss, SendOK(s) PROVE SendOK(t)
    <2>1. Started(t)
      BY <1>3, <1>5, <1>8 DEF SendOK, Started, Same
    <2> QED  BY <1>3, <1>5, <1>8, <2>1 DEF SendOK, Same, Unread
  <1> QED  BY <1>3, <1>5, <1>6, <1>7, <1>8 DEF Same, Unread

Ticked(s, b) == [s EXCEPT !.tries = @ + 1, !.rto = b]

LEMMA TickedStep ==
    ASSUME NEW s, Sock(s), RecvOK(s), s.tries < RtxMax, s.rto, NEW b \in BOOLEAN, NEW t, t = Ticked(s, b)
    PROVE  /\ Sock(t) /\ RecvOK(t) /\ Same(s, t) /\ t.state = s.state /\ t.snd_nxt = s.snd_nxt
           /\ SendOK(s) => SendOK(t)
  <1> DEFINE k == s.tries + 1
  <1>1. s \in SockT /\ k \in Nat /\ k <= RtxMax
    <2>1. s \in SockT /\ s.tries \in Nat
      BY SockFields DEF SockT
    <2> QED  BY <2>1, TcpAssumption
  <1>2. t = [s EXCEPT !.tries = k, !.rto = b]
    BY <1>1 DEF Ticked
  <1> HIDE DEF k
  <1>3. t \in SockT
    BY ZenonT(60), <1>1, <1>2 DEF SockT
  <1>4. /\ Same(s, t) /\ Unread(s, t) /\ t.snd_nxt = s.snd_nxt /\ t.tries = k /\ t.rtx = s.rtx /\ t.snd_una = s.snd_una
        /\ t.sent = s.sent /\ t.syn = s.syn /\ t.port = s.port
    BY <1>1, <1>2 DEF SockT, Same, Unread
  <1>5. Sock(t)
    BY <1>1, <1>3, <1>4 DEF Sock, Sizes, Unread
  <1>6. RecvOK(t)
    BY <1>4, UnreadRecv
  <1>7. ASSUME SendOK(s) PROVE SendOK(t)
    <2>1. s.state \notin {"unused", "listen"} /\ s.state \in States
      BY <1>1, <1>7 DEF SendOK, Quiet, SockT
    <2>2. (Started(s) => Started(t)) /\ (RtxOK(s) => RtxOK(t))
      BY <1>4 DEF Started, RtxOK, Done, Same
    <2>3. s.snd_nxt # s.iss \/ s.state # "syn_sent"
      BY <1>7 DEF SendOK
    <2> QED  BY <1>4, <1>7, <2>1, <2>2, <2>3 DEF SendOK, Same, Unread
  <1> QED  BY <1>4, <1>5, <1>6, <1>7 DEF Unread

\* The next n bytes a program sends.
Fresh(s, n) == [k \in 1..n |-> s.sent + k]

LEMMA FreshOK ==
    ASSUME NEW s, s.sent \in Nat, NEW n \in Nat
    PROVE  Fresh(s, n) \in Seq(Nat) /\ Len(Fresh(s, n)) = n /\ Piece(Fresh(s, n), Own, s.sent)
  <1>1. \A k \in 1..n : s.sent + k \in Nat
    OBVIOUS
  <1>2. Fresh(s, n) \in Seq(Nat) /\ Len(Fresh(s, n)) = n
    BY <1>1 DEF Fresh
  <1>3. Piece(Fresh(s, n), Own, s.sent)
    BY <1>1, <1>2 DEF Fresh, Piece, Own
  <1> QED  BY <1>2, <1>3

Sending(s, n) == [s EXCEPT !.rtx = Fresh(s, n), !.snd_nxt = Plus(@, n), !.sent = @ + n, !.rto = TRUE, !.tries = 0]

LEMMA SendingStep ==
    ASSUME NEW s, Sock(s), RecvOK(s), s.state \in {"established", "close_wait"}, s.rtx = <<>>,
           NEW n \in Nat, n <= RtxBuf, s.sent + n <= SendMax, NEW t, t = Sending(s, n)
    PROVE  /\ Sock(t) /\ RecvOK(t) /\ Same(s, t) /\ t.state = s.state
           /\ SendOK(s) => SendOK(t) /\ s.snd_nxt = Plus(s.iss, 1 + s.sent)
  <1> DEFINE r == Fresh(s, n)
             a == Plus(s.snd_nxt, n)
             m == s.sent + n
  <1>1. s \in SockT /\ s.snd_nxt \in Num /\ s.iss \in Num /\ a \in Num /\ s.sent \in Nat /\ m \in Nat
    BY SockFields, PlusNum
  <1>2. r \in Seq(Nat) /\ Len(r) = n /\ Piece(r, Own, s.sent)
    BY <1>1, FreshOK
  <1>3. t = [s EXCEPT !.rtx = r, !.snd_nxt = a, !.sent = m, !.rto = TRUE, !.tries = 0]
    BY <1>1 DEF Sending
  <1>4. a = Plus(s.snd_nxt, n) /\ m = s.sent + n
    OBVIOUS
  <1> HIDE DEF r, a, m
  <1>5. t \in SockT
    <2> DEFINE v == [s EXCEPT !.rtx = r, !.snd_nxt = a]
    <2>1. v \in SockT
      BY <1>1, <1>2 DEF SockT
    <2>2. t = [v EXCEPT !.sent = m, !.rto = TRUE, !.tries = 0]
      BY <1>1, <1>3 DEF SockT
    <2>3. 0 \in Nat /\ TRUE \in BOOLEAN
      OBVIOUS
    <2> HIDE DEF v
    <2> QED  BY ZenonT(60), <1>1, <2>1, <2>2, <2>3 DEF SockT
  <1>6. /\ Same(s, t) /\ Unread(s, t) /\ t.snd_nxt = a /\ t.tries = 0 /\ t.rtx = r /\ t.snd_una = s.snd_una
        /\ t.sent = m /\ t.syn = s.syn /\ t.port = s.port
    BY <1>1, <1>3 DEF SockT, Same, Unread
  <1>7. Sock(t)
    BY <1>2, <1>5, <1>6, TcpAssumption DEF Sock, Sizes, Unread
  <1>8. RecvOK(t)
    BY <1>6, UnreadRecv
  <1>9. ASSUME SendOK(s) PROVE SendOK(t) /\ s.snd_nxt = Plus(s.iss, 1 + s.sent)
    <2>1. RtxOK(s) /\ s.snd_nxt = Plus(s.iss, 1 + s.sent)
      BY <1>9 DEF SendOK
    <2>2. Done(s) = s.sent
      <3>1. Len(s.rtx) = 0
        OBVIOUS
      <3> QED  BY <1>1, <3>1 DEF Done
    <2>3. Len(t.rtx) = n /\ Done(t) = s.sent /\ n <= m
      BY <1>1, <1>2, <1>4, <1>6 DEF Done
    <2>4. RtxOK(t)
      BY <1>2, <1>4, <1>6, <2>1, <2>2, <2>3 DEF RtxOK, Same
    <2>5. t.snd_nxt = Plus(t.iss, 1 + t.sent)
      <3>0. SendMax \in Nat /\ SeqMod \in Nat /\ SendMax + 2 < SeqMod
        BY Constants
      <3>1. 1 + s.sent \in Nat /\ (1 + s.sent) + n = 1 + m /\ (1 + s.sent) + n <= SeqMod
        BY <1>1, <1>4, <3>0
      <3>2. Plus(Plus(s.iss, 1 + s.sent), n) = Plus(s.iss, (1 + s.sent) + n)
        BY <1>1, <3>1, PlusPlus
      <3> QED  BY <1>4, <1>6, <2>1, <3>1, <3>2 DEF Same
    <2> QED  BY <1>6, <1>9, <2>1, <2>4, <2>5 DEF SendOK, Same, Unread
  <1> QED  BY <1>6, <1>7, <1>8, <1>9 DEF Unread

ReadBytes(s, n) == [s EXCEPT !.rx = SubSeq(@, n + 1, Len(@)), !.rd = @ + n]

LEMMA ReadStep ==
    ASSUME NEW s, Sock(s), RecvOK(s), NEW n \in 1..Len(s.rx), NEW t, t = ReadBytes(s, n)
    PROVE  /\ Sock(t) /\ RecvOK(t) /\ Same(s, t) /\ t.state = s.state /\ t.snd_nxt = s.snd_nxt
           /\ SendOK(s) => SendOK(t)
  <1> DEFINE r == SubSeq(s.rx, n + 1, Len(s.rx))
             m == s.rd + n
  <1>1. s \in SockT /\ s.rx \in Seq(Bytes) /\ Len(s.rx) \in Nat /\ n \in 0..Len(s.rx) /\ s.rd \in Nat /\ m \in Nat
        /\ n \in Nat /\ Len(s.rx) < RxBuf
    <2>1. s \in SockT /\ s.rx \in Seq(Bytes) /\ Len(s.rx) \in Nat /\ s.rd \in Nat /\ Len(s.rx) < RxBuf
      BY SockFields DEF Sock, Sizes
    <2> QED  BY <2>1
  <1>2. r \in Seq(Bytes) /\ Len(r) = Len(s.rx) - n
    BY <1>1, SubSeqProperties
  <1>3. t = [s EXCEPT !.rx = r, !.rd = m]
    BY <1>1 DEF ReadBytes
  <1>4. Piece(s.rx, From(s.peer), s.rd) => Piece(r, From(s.peer), m)
    BY <1>1, PieceCut
  <1>5. m = s.rd + n /\ s.rx # <<>>
    BY <1>1
  <1> HIDE DEF r, m
  <1>6. t \in SockT
    BY ZenonT(60), <1>1, <1>2, <1>3 DEF SockT
  <1>7. /\ Same(s, t) /\ t.state = s.state /\ t.snd_nxt = s.snd_nxt /\ t.rx = r /\ t.rd = m /\ t.rtx = s.rtx
        /\ t.ooo = s.ooo /\ t.ooo_seq = s.ooo_seq /\ t.tries = s.tries /\ t.fin = s.fin /\ t.rcv_nxt = s.rcv_nxt
        /\ t.peer = s.peer /\ t.snd_una = s.snd_una /\ t.sent = s.sent /\ t.syn = s.syn /\ t.port = s.port /\ t.rto = s.rto
    BY <1>1, <1>3 DEF SockT, Same
  <1>8. Sock(t)
    <2>1. Len(t.rx) < RxBuf
      BY <1>1, <1>2, <1>7, Constants
    <2> QED  BY <1>6, <1>7, <2>1 DEF Sock, Sizes
  <1>9. RecvOK(t)
    <2>1. Have(t) = Have(s)
      BY <1>1, <1>2, <1>5, <1>7 DEF Have
    <2>2. Recv(s) => Recv(t)
      <3>1. OooOK(s) => OooOK(t)
        BY <1>7 DEF OooOK
      <3> QED  BY <1>4, <1>7, <2>1, <3>1 DEF Recv
    <2>3. ~NoBytes(s)
      BY <1>5 DEF NoBytes
    <2> QED  BY <1>7, <2>2, <2>3 DEF RecvOK
  <1>10. SendOK(s) => SendOK(t)
    BY <1>7 DEF SendOK, Same, Quiet, Started, RtxOK, Done
  <1> QED  BY <1>7, <1>8, <1>9, <1>10

Closing(s) == [s EXCEPT !.snd_nxt = Plus(@, 1), !.state = IF @ = "established" THEN "fin_wait_1" ELSE "last_ack"]

LEMMA ClosingStep ==
    ASSUME NEW s, Sock(s), RecvOK(s), s.state \in {"established", "close_wait"}, NEW t, t = Closing(s)
    PROVE  /\ Sock(t) /\ RecvOK(t) /\ Same(s, t) /\ t.state \in {"fin_wait_1", "last_ack"}
           /\ SendOK(s) => SendOK(t)
  <1> DEFINE a == Plus(s.snd_nxt, 1)
             z == IF s.state = "established" THEN "fin_wait_1" ELSE "last_ack"
  <1>1. s \in SockT /\ s.iss \in Num /\ s.sent \in Nat /\ a \in Num /\ z \in States /\ z \in {"fin_wait_1", "last_ack"}
    BY SockFields, PlusNum DEF States
  <1>2. t = [s EXCEPT !.snd_nxt = a, !.state = z]
    BY <1>1 DEF Closing
  <1>3. a = Plus(s.snd_nxt, 1)
    OBVIOUS
  <1> HIDE DEF a, z
  <1>4. t \in SockT
    BY ZenonT(60), <1>1, <1>2 DEF SockT
  <1>5. /\ Same(s, t) /\ t.state = z /\ t.snd_nxt = a /\ t.rx = s.rx /\ t.rd = s.rd /\ t.rtx = s.rtx
        /\ t.ooo = s.ooo /\ t.ooo_seq = s.ooo_seq /\ t.tries = s.tries /\ t.fin = s.fin /\ t.rcv_nxt = s.rcv_nxt
        /\ t.peer = s.peer /\ t.snd_una = s.snd_una /\ t.sent = s.sent /\ t.syn = s.syn /\ t.port = s.port /\ t.rto = s.rto
    BY <1>1, <1>2 DEF SockT, Same
  <1>6. Sock(t)
    BY <1>4, <1>5 DEF Sock, Sizes
  <1>7. RecvOK(t)
    BY <1>1, <1>5 DEF RecvOK
  <1>8. ASSUME SendOK(s) PROVE SendOK(t)
    <2>1. RtxOK(s) /\ s.snd_nxt = Plus(s.iss, 1 + s.sent) /\ s.sent <= SendMax
      BY <1>8 DEF SendOK, RtxOK
    <2>2. RtxOK(t)
      BY <1>5, <2>1 DEF RtxOK, Done, Same
    <2>3. t.snd_nxt = Plus(t.iss, 2 + t.sent)
      <3>1. 1 + s.sent \in Nat /\ (1 + s.sent) + 1 = 2 + s.sent /\ (1 + s.sent) + 1 <= SeqMod
        BY <1>1, <2>1, Constants
      <3>2. Plus(Plus(s.iss, 1 + s.sent), 1) = Plus(s.iss, (1 + s.sent) + 1)
        BY <1>1, <3>1, PlusPlus
      <3> QED  BY <1>3, <1>5, <2>1, <3>1, <3>2 DEF Same
    <2> QED  BY <1>1, <1>5, <1>8, <2>2, <2>3 DEF SendOK, Same
  <1> QED  BY <1>1, <1>5, <1>6, <1>7, <1>8

Adopted(s) == [s EXCEPT !.parent = -1]

LEMMA AdoptedStep ==
    ASSUME NEW s, Sock(s), RecvOK(s), NEW t, t = Adopted(s)
    PROVE  /\ Sock(t) /\ RecvOK(t) /\ Moved(s, t)
           /\ SendOK(s) => SendOK(t)
  <1>1. s \in SockT /\ -1 \in Socks \cup {-1}
    BY SockFields
  <1>2. t \in SockT
    BY <1>1 DEF SockT, Adopted
  <1>3. /\ Unread(s, t) /\ t.snd_nxt = s.snd_nxt /\ t.rtx = s.rtx /\ t.used = s.used /\ t.id = s.id
        /\ t.owner = s.owner /\ t.parent = -1 /\ t.iss = s.iss
        /\ t.tries = s.tries /\ t.snd_una = s.snd_una /\ t.sent = s.sent /\ t.syn = s.syn /\ t.port = s.port /\ t.rto = s.rto
    BY <1>1 DEF SockT, Unread, Adopted
  <1>4. Sock(t)
    BY <1>2, <1>3 DEF Sock, Sizes, Unread
  <1>5. RecvOK(t)
    BY <1>3, UnreadRecv
  <1>6. Moved(s, t)
    BY <1>3 DEF Moved, Unread, Went
  <1>7. SendOK(s) => SendOK(t)
    BY <1>3 DEF SendOK, Unread, Quiet, Started, RtxOK, Done
  <1> QED  BY <1>4, <1>5, <1>6, <1>7

LEMMA MovedSame ==
    ASSUME NEW s, NEW t, Same(s, t), t.state = s.state, s.state = "syn_sent" /\ s.snd_nxt # s.iss => t.snd_nxt # t.iss
    PROVE  Moved(s, t)
  BY DEF Moved, Same, Went

-----------------------------------------------------------------------------
(* What a step does to the table *)

\* The one socket a step makes.
Born(i) ==
    /\ opens' = opens + 1
    /\ socks'[i].used /\ socks'[i].id = opens + 1 /\ socks'[i].state \in {"unused", "syn_rcvd"}

\* What a step puts on the wire: on the port of listeners, or on its own port by
\* a socket whose SYN is gone.
NewWire(w) ==
    /\ Carries(w)
    /\ \/ w.port = Srv
       \/ \E i \in Socks :
             /\ socks[i].used /\ w.port = Srv + socks[i].id
             /\ socks'[i].used /\ socks'[i].state \in {"unused", "syn_sent"} => Went(socks'[i]) /\ w.iss = socks'[i].iss

TableStep ==
    /\ opens' \in {opens, opens + 1} /\ UNCHANGED peer
    /\ \A i \in Socks : SendOK(socks'[i]) /\ (Moved(socks[i], socks'[i]) \/ Born(i))
    /\ \A i \in Socks : \A j \in Socks : Born(i) /\ Born(j) => i = j
    /\ \A i \in Socks : Born(i) /\ socks'[i].parent # -1 => HasListener(i)'
    /\ \A i \in Socks : socks[i].state = "listen" =>
          socks'[i].state = "listen" \/ \A j \in Socks : socks[j].parent = i => socks'[j].parent = -1
    /\ \A w \in wire' : w \in wire \/ NewWire(w)

LEMMA TableIds == ASSUME InvIn, Lines, TableStep PROVE Ids'
  <1>1. opens \in Nat /\ opens' \in {opens, opens + 1}
    BY DEF InvIn, Types, TableStep
  <1>2. ASSUME NEW i \in Socks, socks'[i].used
        PROVE  \/ Born(i)
               \/ ~Born(i) /\ socks[i].used /\ socks'[i].id = socks[i].id /\ socks[i].id \in 1..opens
    <2>1. Born(i) \/ Moved(socks[i], socks'[i])
      BY DEF TableStep
    <2>2. ASSUME Moved(socks[i], socks'[i])
          PROVE  socks[i].used /\ socks'[i].id = socks[i].id /\ socks[i].id \in 1..opens
      BY <1>2, <2>2, FreeOK DEF Moved, Lines, Ids
    <2> QED  BY <2>1, <2>2
  <1>3. \A i \in Socks : socks'[i].used => socks'[i].id \in 1..opens'
    <2> SUFFICES ASSUME NEW i \in Socks, socks'[i].used PROVE socks'[i].id \in 1..opens'
      OBVIOUS
    <2>1. CASE Born(i)
      BY <1>1, <2>1 DEF Born
    <2>2. CASE ~Born(i)
      <3>1. socks'[i].id \in 1..opens
        BY <1>2, <2>2
      <3> QED  BY <1>1, <3>1
    <2> QED  BY <2>1, <2>2
  <1>4. ASSUME NEW i \in Socks, NEW j \in Socks, socks'[i].used, socks'[j].used, socks'[i].id = socks'[j].id
        PROVE  i = j
    <2>1. CASE Born(i) /\ Born(j)
      BY <2>1 DEF TableStep
    <2>2. CASE Born(i) /\ ~Born(j)
      <3>1. socks'[j].id \in 1..opens /\ socks'[i].id = opens + 1
        BY <1>2, <1>4, <2>2 DEF Born
      <3> QED  BY <1>1, <1>4, <3>1
    <2>3. CASE ~Born(i) /\ Born(j)
      <3>1. socks'[i].id \in 1..opens /\ socks'[j].id = opens + 1
        BY <1>2, <1>4, <2>3 DEF Born
      <3> QED  BY <1>1, <1>4, <3>1
    <2>4. CASE ~Born(i) /\ ~Born(j)
      BY <1>2, <1>4, <2>4 DEF Lines, Ids
    <2> QED  BY <2>1, <2>2, <2>3, <2>4
  <1> QED  BY <1>3, <1>4 DEF Ids

LEMMA TableFamily == ASSUME InvIn, Lines, TableStep PROVE Family'
  <1> SUFFICES ASSUME NEW j \in Socks, socks'[j].parent # -1 PROVE HasListener(j)'
    BY DEF Family
  <1>1. CASE Born(j)
    BY <1>1 DEF TableStep
  <1>2. CASE ~Born(j)
    <2>1. Moved(socks[j], socks'[j]) /\ socks'[j] # Free
      BY <1>2, FreeOK DEF TableStep
    <2>2. socks'[j].parent = socks[j].parent /\ socks[j].parent # -1 /\ socks'[j].owner = socks[j].owner
      BY <2>1 DEF Moved
    <2> DEFINE l == socks[j].parent
    <2>3. l \in Socks /\ socks[l].used /\ socks[l].state = "listen" /\ socks[l].owner = socks[j].owner
      BY <2>2 DEF Lines, Family, HasListener
    <2>4. socks'[l].state = "listen"
      BY <2>2, <2>3 DEF TableStep
    <2>5. ~Born(l) /\ socks'[l] # Free
      BY <2>4, FreeOK DEF Born
    <2>6. Moved(socks[l], socks'[l])
      BY <2>3, <2>5 DEF TableStep
    <2>7. socks'[l].used /\ socks'[l].owner = socks[j].owner
      BY <2>3, <2>5, <2>6 DEF Moved
    <2> QED  BY <2>2, <2>3, <2>4, <2>7 DEF HasListener
  <1> QED  BY <1>1, <1>2

LEMMA TablePorts ==
    ASSUME InvIn, Lines, TableStep
    PROVE  PortsLow' /\ \A i \in Socks : PortOK(socks[i])'
  <1>1. opens \in Nat /\ opens' \in {opens, opens + 1} /\ opens <= opens' /\ peer' = peer /\ opens' \in Nat
    <2>1. opens \in Nat /\ opens' \in {opens, opens + 1} /\ peer' = peer
      BY DEF InvIn, Types, TableStep
    <2> QED  BY <2>1
  <1>2. /\ \A w \in wire : w.port \in Nat /\ w.port <= Srv + opens
        /\ \A c \in Peers : peer[c].port \in Nat /\ peer[c].port <= Srv + opens
    BY DEF InvIn, Types, SegT, PeerT, Lines, PortsLow
  <1>3. \A i \in Socks : socks[i].used => socks[i].id \in 1..opens
    BY DEF Lines, Ids
  <1>4. PortsLow'
    <2>1. ASSUME NEW w \in wire' PROVE w.port <= Srv + opens'
      <3>1. CASE w \in wire
        <4>1. w.port \in Nat /\ w.port <= Srv + opens
          BY <1>2, <3>1
        <4> QED  BY <1>1, <4>1 DEF Srv
      <3>2. CASE w.port = Srv
        <4>1. \A n \in Nat : Srv <= Srv + n
          BY DEF Srv
        <4> QED  BY <1>1, <3>2, <4>1
      <3>3. ASSUME NEW i \in Socks, socks[i].used, w.port = Srv + socks[i].id PROVE w.port <= Srv + opens'
        <4>1. socks[i].id \in 1..opens
          BY <1>3, <3>3
        <4> QED  BY <1>1, <3>3, <4>1 DEF Srv
      <3> QED  BY <3>1, <3>2, <3>3 DEF TableStep, NewWire
    <2>2. ASSUME NEW c \in Peers PROVE peer'[c].port <= Srv + opens'
      BY <1>1, <1>2 DEF Srv
    <2> QED  BY <2>1, <2>2 DEF PortsLow
  <1>5. ASSUME NEW j \in Socks, socks'[j].used, socks'[j].state \in {"unused", "syn_sent"}, Born(j)
        PROVE  /\ \A w \in wire' : w.port # Srv + socks'[j].id
               /\ \A c \in Peers : peer'[c].port # Srv + socks'[j].id
    <2>1. socks'[j].id = opens + 1
      BY <1>5 DEF Born
    <2>2. \A c \in Peers : peer'[c].port # Srv + socks'[j].id
      BY <1>1, <1>2, <2>1 DEF Srv
    <2>3. ASSUME NEW w \in wire' PROVE w.port # Srv + socks'[j].id
      <3>1. CASE w \in wire
        BY <1>1, <1>2, <2>1, <3>1 DEF Srv
      <3>2. CASE w.port = Srv
        BY <1>1, <2>1, <3>2 DEF Srv
      <3>3. ASSUME NEW i \in Socks, socks[i].used, w.port = Srv + socks[i].id PROVE w.port # Srv + socks'[j].id
        BY <1>1, <1>3, <2>1, <3>3 DEF Srv
      <3> QED  BY <3>1, <3>2, <3>3 DEF TableStep, NewWire
    <2> QED  BY <2>2, <2>3
  <1>6. ASSUME NEW j \in Socks, socks'[j].used, socks'[j].state \in {"unused", "syn_sent"}, ~Born(j)
        PROVE  PortOK(socks[j])'
    <2> DEFINE s == socks[j]
               t == socks'[j]
    <2>1. Moved(s, t) /\ t # Free
      BY <1>6, FreeOK DEF TableStep
    <2>2. s.used /\ t.id = s.id /\ s.state \in {"unused", "syn_sent"} /\ (Went(s) => Went(t) /\ t.iss = s.iss)
      <3>1. s.state \in States /\ t.state \in {"unused", "syn_sent"}
        BY <1>6 DEF InvIn, Types, SockT
      <3> QED  BY <1>6, <2>1, <3>1 DEF Moved, Went
    <2>3. s.used /\ s.state \in {"unused", "syn_sent"} /\ PortOK(s)
      BY <1>6, <2>2 DEF Lines
    <2>4. s.id \in 1..opens
      BY <1>3, <2>2
    <2>5. ASSUME NEW w \in wire', w.port = Srv + t.id PROVE Went(t) /\ w.iss = t.iss
      <3>1. CASE w \in wire
        BY <2>2, <2>3, <2>5, <3>1 DEF PortOK
      <3>2. CASE w.port = Srv
        BY <2>2, <2>4, <2>5, <3>2, <1>1 DEF Srv
      <3>3. ASSUME NEW i \in Socks, socks[i].used, w.port = Srv + socks[i].id,
                   socks'[i].used /\ socks'[i].state \in {"unused", "syn_sent"} => Went(socks'[i]) /\ w.iss = socks'[i].iss
            PROVE  Went(t) /\ w.iss = t.iss
        <4>1. socks[i].id = s.id
          BY <1>1, <1>3, <2>2, <2>4, <2>5, <3>3 DEF Srv
        <4>2. i = j
          BY <2>2, <3>3, <4>1 DEF Lines, Ids
        <4> QED  BY <1>6, <3>3, <4>2
      <3> QED  BY <3>1, <3>2, <3>3 DEF TableStep, NewWire
    <2>6. ASSUME NEW c \in Peers, peer'[c].port = Srv + t.id
          PROVE  Went(t) /\ (peer'[c].st = "open" => peer'[c].irs = t.iss)
      BY <1>1, <2>2, <2>3, <2>6 DEF PortOK
    <2> QED  BY <2>5, <2>6 DEF PortOK, Went
  <1>7. ASSUME NEW j \in Socks PROVE PortOK(socks[j])'
    BY <1>5, <1>6 DEF PortOK
  <1> QED  BY <1>4, <1>7

LEMMA TableLines == ASSUME InvIn, Lines, TableStep PROVE Lines'
  <1>1. \A w \in wire' : Carries(w)
    BY DEF TableStep, NewWire, Lines
  <1>2. \A i \in Socks : SendOK(socks'[i])
    BY DEF TableStep
  <1> QED  BY <1>1, <1>2, TableIds, TableFamily, TablePorts DEF Lines

\* A call stays as it is, with the socket it goes by as it may have moved, or it
\* is one that has nothing to lose.
CallStep ==
    \A p \in Procs : call'[p].k # "idle" =>
        \/ call'[p].k \in {"accept", "recv"}
        \/ Connects(p, socks[call[p].s])'
        \/ /\ call'[p] = call[p] /\ (p \in alive => p \in alive')
           /\ call[p].k = "arp" => socks'[call[p].s] = socks[call[p].s]

LEMMA TableCallers == ASSUME InvIn, InvOut, TableStep, CallStep PROVE Callers'
  <1> SUFFICES ASSUME NEW p \in Procs, call'[p].k # "idle" PROVE Connects(p, socks[call[p].s])'
    BY DEF Callers
  <1>1. CASE call'[p].k \in {"accept", "recv"}
    BY <1>1 DEF Connects
  <1>2. CASE /\ call'[p] = call[p] /\ (p \in alive => p \in alive')
             /\ call[p].k = "arp" => socks'[call[p].s] = socks[call[p].s]
    <2> DEFINE i == call[p].s
               s == socks[i]
               t == socks'[i]
    <2>1. i \in Socks /\ Connects(p, s) /\ call[p].k # "idle"
      BY <1>2 DEF InvIn, CallsIn, InvOut, Callers
    <2>2. opens \in Nat /\ opens' \in {opens, opens + 1} /\ call[p].id \in Nat
      BY DEF InvIn, Types, CallT, TableStep
    <2>3. ASSUME call[p].k \in {"arp", "connect"}
          PROVE  call[p].id <= opens' /\ (t.used /\ t.id = call[p].id => t.owner = p /\ t.state \notin {"unused", "listen"})
      <3>1. call[p].id <= opens /\ (s.used /\ s.id = call[p].id => s.owner = p /\ s.state \notin {"unused", "listen"})
        BY <2>1, <2>3 DEF Connects
      <3>2. CASE Born(i)
        <4>1. t.id # call[p].id
          BY <2>2, <3>1, <3>2 DEF Born
        <4> QED  BY <2>2, <3>1, <4>1
      <3>3. CASE Moved(s, t)
        <4>1. CASE t = Free
          BY <2>2, <3>1, <4>1, FreeOK
        <4>2. CASE t # Free
          BY <2>2, <3>1, <3>3, <4>2 DEF Moved
        <4> QED  BY <4>1, <4>2
      <3> QED  BY <2>1, <3>2, <3>3 DEF TableStep
    <2>4. CASE call[p].k = "arp"
      <3>1. t = s /\ p \in alive'
        BY <1>2, <2>1, <2>4 DEF Connects
      <3> QED  BY <1>2, <2>1, <2>3, <2>4, <3>1 DEF Connects
    <2>5. CASE call[p].k # "arp"
      BY <1>2, <2>1, <2>3, <2>5 DEF Connects
    <2> QED  BY <2>4, <2>5
  <1> QED  BY <1>1, <1>2 DEF CallStep

\* One socket becomes t.
LEMMA Point ==
    ASSUME InvIn, NEW i \in Socks, NEW t, socks' = [socks EXCEPT ![i] = t]
    PROVE  socks'[i] = t /\ \A j \in Socks : j # i => socks'[j] = socks[j]
  BY DEF InvIn, Types

LEMMA PointIn ==
    ASSUME InvIn, NEW i \in Socks, NEW t, socks' = [socks EXCEPT ![i] = t],
           Sock(t), RecvOK(t), ~t.used => t.state = "unused"
    PROVE  socks' \in [Socks -> SockT] /\ SocketsOK'
  <1>1. socks \in [Socks -> SockT] /\ t \in SockT
    BY DEF InvIn, Types, Sock
  <1>2. socks' \in [Socks -> SockT]
    BY <1>1
  <1>3. SocketsOK'
    BY Point DEF SocketsOK, InvIn
  <1> QED  BY <1>2, <1>3

LEMMA MovedSelf == \A s : Moved(s, s)
  BY DEF Moved

LEMMA NotBorn == ASSUME InvIn, opens' = opens PROVE \A i \in Socks : ~Born(i)
  BY DEF InvIn, Types, Born

LEMMA PointTable ==
    ASSUME InvIn, Lines, NEW i \in Socks, NEW t, socks' = [socks EXCEPT ![i] = t],
           Moved(socks[i], t), SendOK(t), socks[i].state = "listen" => t.state = "listen",
           opens' = opens, peer' = peer, \A w \in wire' : w \in wire \/ NewWire(w)
    PROVE  TableStep
  <1>1. socks'[i] = t /\ \A j \in Socks : j # i => socks'[j] = socks[j]
    BY Point
  <1>2. \A j \in Socks : SendOK(socks'[j]) /\ Moved(socks[j], socks'[j])
    BY <1>1, MovedSelf DEF Lines
  <1>3. \A j \in Socks : socks[j].state = "listen" => socks'[j].state = "listen"
    BY <1>1
  <1> QED  BY <1>2, <1>3, NotBorn DEF TableStep

\* No call waits for a MAC with this socket.
NotArp(i) == \A p \in Procs : call[p].k = "arp" => call[p].s # i

LEMMA PointCalls ==
    ASSUME InvIn, NEW i \in Socks, NEW t, socks' = [socks EXCEPT ![i] = t], NotArp(i),
           UNCHANGED <<call, alive>>
    PROVE  CallStep
  <1>1. \A j \in Socks : j # i => socks'[j] = socks[j]
    BY Point
  <1> QED  BY <1>1 DEF CallStep, NotArp, InvIn, CallsIn

\* The socket of such a call is as connect has left it.
LEMMA ArpSock ==
    ASSUME InvIn, InvOut, NEW p \in Procs, call[p].k = "arp", NEW i, i = call[p].s
    PROVE  /\ i \in Socks /\ socks[i].used /\ socks[i].id = call[p].id /\ socks[i].owner = p /\ p \in alive
           /\ socks[i].state = "syn_sent" /\ socks[i].snd_nxt = socks[i].iss /\ socks[i].snd_una = socks[i].iss
           /\ socks[i].parent = -1 /\ ~socks[i].rto /\ socks[i].port = Srv + socks[i].id
           /\ ~Went(socks[i]) /\ PortOK(socks[i]) /\ NoBytes(socks[i])
  <1>1. i \in Socks /\ Connects(p, socks[i])
    BY DEF InvIn, CallsIn, InvOut, Callers
  <1>2. /\ socks[i].used /\ socks[i].id = call[p].id /\ socks[i].owner = p /\ p \in alive
        /\ socks[i].state = "syn_sent" /\ socks[i].snd_nxt = socks[i].iss /\ socks[i].snd_una = socks[i].iss
    BY <1>1 DEF Connects
  <1>3. SendOK(socks[i]) /\ PortOK(socks[i]) /\ RecvOK(socks[i])
    BY <1>1 DEF InvIn, InvOut, Lines, SocketsOK
  <1> QED  BY <1>1, <1>2, <1>3 DEF SendOK, RecvOK, Went

LEMMA SentIs ==
    ASSUME NEW m, Sent({m})
    PROVE  \A w \in wire' : w \in wire \/ (w = m /\ m.p # NoPeer)
  BY DEF Sent

LEMMA SegIs ==
    ASSUME NEW s, s \in SockT, NEW k \in {"syn", "data", "fin"}, NEW seq \in Num, NEW bytes \in Seq(Nat), Sent({Seg(s, k, seq, bytes)})
    PROVE  /\ InvIn => wire' \subseteq SegT
           /\ \A w \in wire' : w \in wire \/ w = Seg(s, k, seq, bytes)
  <1> DEFINE m == Seg(s, k, seq, bytes)
  <1>1. \A w \in wire' : w \in wire \/ (w = m /\ m.p # NoPeer)
    <2> HIDE DEF m
    <2> QED  BY SentIs DEF m
  <1>2. m.p # NoPeer => m \in SegT
    BY DEF Seg, SegT, SockT
  <1> HIDE DEF m
  <1>3. InvIn => wire' \subseteq SegT
    BY <1>1, <1>2 DEF InvIn, Types
  <1> QED  BY <1>1, <1>3 DEF m

LEMMA LowestIn == ASSUME NEW S \in SUBSET Socks, S # {} PROVE LowestOf(S) \in S
  <1>1. S \in SUBSET Nat
    BY TcpAssumption DEF Socks
  <1>2. IsWellFoundedOn({x \in Nat \X Nat : x[1] < x[2]}, Nat)
    BY NatLessThanWellFounded DEF OpToRel
  <1>3. PICK i \in S : \A j \in S : ~(<<j, i>> \in {x \in Nat \X Nat : x[1] < x[2]})
    BY <1>1, <1>2, WFMin, Zenon
  <1>4. \A j \in S : i <= j
    <2>1. ASSUME NEW j \in S PROVE i <= j
      BY <1>1, <1>3, ~(j < i)
    <2> QED  BY <2>1
  <1> QED  BY <1>4 DEF LowestOf

LEMMA HighestIn == ASSUME NEW S \in SUBSET Socks, S # {} PROVE HighestOf(S) \in S
  <1> DEFINE f(i) == MaxSocks - i
             R == {f(i) : i \in S}
  <1>1. MaxSocks \in Nat /\ \A i \in S : i \in 0..(MaxSocks - 1)
    BY TcpAssumption DEF Socks
  <1>2. R \in SUBSET Nat /\ R # {}
    BY <1>1
  <1>3. IsWellFoundedOn({x \in Nat \X Nat : x[1] < x[2]}, Nat)
    BY NatLessThanWellFounded DEF OpToRel
  <1>4. PICK m \in R : \A n \in R : ~(<<n, m>> \in {x \in Nat \X Nat : x[1] < x[2]})
    <2> HIDE DEF R
    <2> QED  BY <1>2, <1>3, WFMin, Zenon
  <1>5. PICK i \in S : m = f(i)
    BY <1>4
  <1>6. \A j \in S : j <= i
    <2>1. ASSUME NEW j \in S PROVE j <= i
      <3>1. f(j) \in R /\ f(j) \in Nat /\ f(i) \in Nat
        BY <1>1
      <3>2. ~(f(j) < f(i))
        BY <1>4, <1>5, <3>1
      <3> QED  BY <1>1, <3>2
    <2> QED  BY <2>1
  <1> QED  BY <1>6 DEF HighestOf

-----------------------------------------------------------------------------
(* Every step keeps the invariant *)

\* tcp_input, for a connection.
LEMMA ConnStep ==
    ASSUME Inv, NEW c \in Peers, NEW g, SegmentOK(c, g), ConnOf(g) # {},
           NEW i, i = LowestOf(ConnOf(g)), socks' = [socks EXCEPT ![i] = Handled(@, g)],
           UNCHANGED <<wire, opens, peer, call, alive, stolen>>
    PROVE  Inv'
  <1> DEFINE s == socks[i]
             t == Handled(s, g)
  <1>1. i \in Socks /\ s.used /\ s.port = g.port /\ s.state # "listen" /\ s.peer = g.p
    <2>1. ConnOf(g) \in SUBSET Socks
      BY DEF ConnOf
    <2>2. i \in ConnOf(g)
      BY <2>1, LowestIn
    <2> QED  BY <2>2 DEF ConnOf
  <1>2. InvIn /\ Sock(s) /\ RecvOK(s)
    BY <1>1 DEF Inv, InvIn, SocketsOK
  <1>3. g \in SegmentT /\ FromPeer(s, g)
    BY <1>1 DEF SegmentOK, FromPeer
  <1>4. Sock(t) /\ RecvOK(t) /\ Moved(s, t) /\ (SendOK(s) /\ Answers(s, g) => SendOK(t))
    BY <1>1, <1>2, <1>3, HandledStep
  <1>5. socks' = [socks EXCEPT ![i] = t]
    OBVIOUS
  <1>6. s.state = "listen" => t.state = "listen"
    BY <1>1
  <1> HIDE DEF t
  <1>7. ~t.used => t.state = "unused"
    BY <1>1, <1>4, FreeOK DEF Moved
  <1>8. InvIn'
    <2>1. socks' \in [Socks -> SockT] /\ SocketsOK'
      BY <1>1, <1>2, <1>4, <1>5, <1>7, PointIn
    <2> QED  BY <1>2, <2>1 DEF InvIn, Types, CallsIn
  <1>9. ASSUME InvOut PROVE InvOut'
    <2>1. SendOK(s) /\ PortOK(s) /\ Lines
      BY <1>1, <1>9 DEF InvOut, Lines
    <2>2. ASSUME s.port = Srv + s.id, s.state = "syn_sent"
          PROVE  Went(s) /\ (peer[c].st = "open" => peer[c].irs = s.iss)
      BY <1>1, <2>1, <2>2 DEF SegmentOK, PortOK
    <2>3. Answers(s, g)
      <3> SUFFICES ASSUME s.state = "syn_sent", {"S", "A"} \subseteq g.f
                   PROVE  s.snd_nxt = Plus(s.iss, 1) /\ g.ack = s.snd_nxt
        BY DEF Answers
      <3>1. s.port = Srv + s.id /\ Started(s)
        BY <2>1 DEF SendOK
      <3>2. peer[c].st = "open" /\ g.ack = Plus(peer[c].irs, 1)
        BY DEF SegmentOK
      <3> QED  BY <2>2, <3>1, <3>2 DEF Started, Went
    <2>4. NotArp(i)
      <3> SUFFICES ASSUME NEW p \in Procs, call[p].k = "arp", call[p].s = i PROVE FALSE
        BY DEF NotArp
      <3> QED  BY <1>2, <1>9, <2>2, ArpSock
    <2>5. TableStep
      BY <1>1, <1>2, <1>4, <1>5, <1>6, <2>1, <2>3, PointTable
    <2>6. CallStep
      BY <1>1, <1>2, <1>5, <2>4, PointCalls
    <2> QED  BY <1>2, <1>9, <2>1, <2>5, <2>6, TableLines, TableCallers DEF InvOut
  <1> QED  BY <1>8, <1>9 DEF Inv

LEMMA EmptyCarries ==
    ASSUME NEW w, w.bytes = <<>>, w.k = "syn" => w.seq = w.iss
    PROVE  Carries(w)
  BY DEF Carries

\* tcp_input, for a listener.
LEMMA AcceptStep ==
    ASSUME Inv, NEW c \in Peers, NEW g, SegmentOK(c, g), ListenerOf(g) # {}, g.f = {"S"}, FreeSocks # {},
           NEW i, i = LowestOf(FreeSocks), NEW t, t = Accepted(g, i, HighestOf(ListenerOf(g))),
           socks' = [socks EXCEPT ![i] = t], Sent({Seg(t, "syn", t.iss, <<>>)}), opens' = opens + 1,
           UNCHANGED <<peer, call, alive, stolen>>
    PROVE  Inv'
  <1> DEFINE l == HighestOf(ListenerOf(g))
  <1>1. i \in Socks /\ ~socks[i].used
    <2>1. FreeSocks \in SUBSET Socks
      BY DEF FreeSocks
    <2>2. i \in FreeSocks
      BY <2>1, LowestIn
    <2> QED  BY <2>2 DEF FreeSocks
  <1>2. l \in Socks /\ socks[l].used /\ socks[l].port = g.port /\ socks[l].state = "listen"
    <2>1. ListenerOf(g) \in SUBSET Socks
      BY DEF ListenerOf
    <2>2. l \in ListenerOf(g)
      BY <2>1, HighestIn
    <2> QED  BY <2>2 DEF ListenerOf
  <1>3. InvIn
    BY DEF Inv
  <1>4. g \in SegmentT /\ g.seq = PeerIsn[g.p]
    BY DEF SegmentOK
  <1> HIDE DEF l
  <1>5. /\ Sock(t) /\ RecvOK(t)
        /\ t.used /\ t.id = opens + 1 /\ t.owner = socks[l].owner /\ t.parent = l /\ t.state = "syn_rcvd"
        /\ t.port = g.port /\ (g.port = Srv => SendOK(t))
    <2>1. t = Accepted(g, i, l)
      BY DEF l
    <2> QED  BY <1>2, <1>3, <1>4, <2>1, AcceptedStep
  <1>6. socks'[i] = t /\ \A j \in Socks : j # i => socks'[j] = socks[j]
    BY <1>1, <1>3, Point
  <1>7. /\ wire' \subseteq SegT
        /\ \A w \in wire' : w \in wire \/ w = Seg(t, "syn", t.iss, <<>>)
    <2>1. t \in SockT /\ t.iss \in Num /\ <<>> \in Seq(Nat) /\ "syn" \in {"syn", "data", "fin"}
      BY <1>5, SockFields
    <2> QED  BY ZenonT(60), <1>3, <2>1, SegIs
  <1>8. InvIn'
    <2>1. socks' \in [Socks -> SockT] /\ SocketsOK'
      BY <1>1, <1>3, <1>5, PointIn
    <2> QED  BY <1>3, <1>7, <2>1 DEF InvIn, Types, CallsIn
  <1>9. ASSUME InvOut PROVE InvOut'
    <2>1. Lines /\ SendOK(socks[l]) /\ g.port = Srv
      BY <1>2, <1>9 DEF InvOut, Lines, SendOK
    <2>2. Born(i) /\ \A j \in Socks : Born(j) => j = i
      <3>1. Born(i)
        BY <1>5, <1>6 DEF Born
      <3>2. ASSUME NEW j \in Socks, j # i, Born(j) PROVE FALSE
        <4>1. socks[j].used /\ socks[j].id = opens + 1
          BY <1>6, <3>2 DEF Born
        <4>2. socks[j].id \in 1..opens /\ opens \in Nat
          BY <1>3, <2>1, <4>1 DEF Lines, Ids, InvIn, Types
        <4> QED  BY <4>1, <4>2
      <3> QED  BY <3>1, <3>2
    <2>3. HasListener(i)'
      BY <1>1, <1>2, <1>5, <1>6 DEF HasListener
    <2>4. \A w \in wire' : w \in wire \/ NewWire(w)
      <3>1. ASSUME NEW w, w = Seg(t, "syn", t.iss, <<>>) PROVE NewWire(w)
        <4>1. w.bytes = <<>> /\ w.seq = w.iss /\ w.port = Srv
          BY <1>5, <2>1, <3>1 DEF Seg
        <4> QED  BY <4>1, EmptyCarries DEF NewWire
      <3> QED  BY <1>7, <3>1
    <2>5. TableStep
      <3>1. \A j \in Socks : SendOK(socks'[j]) /\ (Moved(socks[j], socks'[j]) \/ Born(j))
        BY <1>5, <1>6, <2>1, <2>2, MovedSelf DEF Lines
      <3>2. \A j \in Socks : socks[j].state = "listen" => socks'[j].state = "listen"
        <4>1. socks[i].state = "unused"
          BY <1>1, <1>3 DEF InvIn, SocketsOK
        <4> QED  BY <1>6, <4>1
      <3> QED  BY <2>2, <2>3, <2>4, <3>1, <3>2 DEF TableStep
    <2>6. CallStep
      <3>1. ASSUME NEW p \in Procs, call[p].k = "arp" PROVE socks'[call[p].s] = socks[call[p].s]
        BY <1>1, <1>3, <1>6, <1>9, <3>1, ArpSock
      <3> QED  BY <3>1 DEF CallStep
    <2> QED  BY <1>3, <1>9, <2>1, <2>5, <2>6, TableLines, TableCallers DEF InvOut
  <1> QED  BY <1>8, <1>9 DEF Inv

LEMMA ArriveStep == ASSUME Inv, Arrive PROVE Inv'
  <1>0. PICK c \in Peers : \E g \in InSegs(c) : tcp_input(g)
    BY DEF Arrive
  <1>1. PICK g \in InSegs(c) : tcp_input(g)
    BY <1>0
  <1>2. SegmentOK(c, g)
    BY InSegsOK DEF Inv
  <1>3. CASE /\ ConnOf(g) # {}
             /\ LET i == LowestOf(ConnOf(g)) IN socks' = [socks EXCEPT ![i] = Handled(@, g)]
             /\ UNCHANGED <<wire, opens>>
    BY <1>1, <1>2, <1>3, ConnStep DEF tcp_input
  <1>4. CASE /\ ConnOf(g) = {} /\ ListenerOf(g) # {} /\ g.f = {"S"} /\ FreeSocks # {}
             /\ opens < MaxOpens
             /\ LET i == LowestOf(FreeSocks)
                    s == Accepted(g, i, HighestOf(ListenerOf(g)))
                IN  socks' = [socks EXCEPT ![i] = s] /\ Sent({Seg(s, "syn", s.iss, <<>>)})
             /\ opens' = opens + 1
    BY <1>1, <1>2, <1>4, AcceptStep DEF tcp_input
  <1> QED  BY <1>1, <1>3, <1>4 DEF tcp_input

\* A far end: what it knows of a connection it has from before or from a SYN.
LEMMA FarStep ==
    ASSUME Inv, UNCHANGED <<socks, call, alive, opens, stolen>>, wire' \subseteq wire, peer' \in [Peers -> PeerT],
           \A c \in Peers :
              \/ /\ peer'[c].port = peer[c].port
                 /\ peer'[c].st = "open" => peer[c].st = "open" /\ peer'[c].irs = peer[c].irs
              \/ \E w \in wire : w.k = "syn" /\ peer'[c].port = w.port /\ peer'[c].irs = w.seq
    PROVE  Inv'
  <1>1. InvIn'
    BY DEF Inv, InvIn, Types, CallsIn, SocketsOK
  <1>2. ASSUME InvOut PROVE InvOut'
    <2>1. PortsLow'
      BY <1>2 DEF InvOut, Lines, PortsLow
    <2>2. ASSUME NEW i \in Socks PROVE PortOK(socks[i])'
      <3>1. PortOK(socks[i]) /\ \A w \in wire : Carries(w)
        BY <1>2, <2>2 DEF InvOut, Lines
      <3> SUFFICES ASSUME socks[i].used, socks[i].state \in {"unused", "syn_sent"}
                   PROVE  /\ \A w \in wire' : w.port = Srv + socks[i].id => Went(socks[i]) /\ w.iss = socks[i].iss
                          /\ \A c \in Peers : peer'[c].port = Srv + socks[i].id =>
                                Went(socks[i]) /\ (peer'[c].st = "open" => peer'[c].irs = socks[i].iss)
        BY DEF PortOK
      <3>2. \A w \in wire : w.port = Srv + socks[i].id => Went(socks[i]) /\ w.iss = socks[i].iss
        BY <3>1 DEF PortOK
      <3>3. ASSUME NEW c \in Peers, peer'[c].port = Srv + socks[i].id
            PROVE  Went(socks[i]) /\ (peer'[c].st = "open" => peer'[c].irs = socks[i].iss)
        <4>1. CASE /\ peer'[c].port = peer[c].port
                   /\ peer'[c].st = "open" => peer[c].st = "open" /\ peer'[c].irs = peer[c].irs
          BY <3>1, <3>3, <4>1 DEF PortOK
        <4>2. ASSUME NEW w \in wire, w.k = "syn", peer'[c].port = w.port, peer'[c].irs = w.seq
              PROVE  Went(socks[i]) /\ (peer'[c].st = "open" => peer'[c].irs = socks[i].iss)
          BY <3>1, <3>2, <3>3, <4>2 DEF Carries
        <4> QED  BY <4>1, <4>2
      <3> QED  BY <3>2, <3>3
    <2>3. Ids' /\ Family'
      BY <1>2 DEF InvOut, Lines, Ids, Family, HasListener
    <2>4. Lines'
      BY <1>2, <2>1, <2>2, <2>3 DEF InvOut, Lines
    <2>5. Callers'
      BY <1>2 DEF InvOut, Callers, Connects
    <2> QED  BY <2>4, <2>5 DEF InvOut
  <1> QED  BY <1>1, <1>2 DEF Inv

LEMMA OpensStep == ASSUME Inv, NEW c \in Peers, Opens(c) PROVE Inv'
  <1>1. peer \in [Peers -> PeerT]
    BY DEF Inv, InvIn, Types
  <1>2. peer' = [peer EXCEPT ![c].st = "syn"] /\ UNCHANGED <<socks, wire, call, alive, opens, stolen>>
    BY DEF Opens
  <1>3. peer' \in [Peers -> PeerT]
    BY <1>1, <1>2 DEF PeerT
  <1>4. \A d \in Peers : peer'[d].port = peer[d].port /\ peer'[d].irs = peer[d].irs
                         /\ (peer'[d].st = "open" => peer[d].st = "open")
    BY <1>1, <1>2 DEF PeerT
  <1> QED  BY <1>2, <1>3, <1>4, FarStep

LEMMA ResetsStep == ASSUME Inv, NEW c \in Peers, Resets(c) PROVE Inv'
  <1>1. peer \in [Peers -> PeerT] /\ 0 \in Num
    BY Constants DEF Inv, InvIn, Types, Num
  <1>2. /\ peer' = [peer EXCEPT ![c] = [st |-> "reset", port |-> @.port, irs |-> 0, rcv |-> 0]]
        /\ UNCHANGED <<socks, call, alive, opens, stolen>> /\ wire' \subseteq wire
    BY DEF Resets
  <1>3. peer[c].port \in Nat
    BY <1>1 DEF PeerT
  <1>4. peer' \in [Peers -> PeerT]
    BY <1>1, <1>2, <1>3 DEF PeerT
  <1>5. \A d \in Peers : /\ peer'[d].port = peer[d].port
                         /\ peer'[d].st = "open" => peer[d].st = "open" /\ peer'[d].irs = peer[d].irs
    BY <1>1, <1>2
  <1> QED  BY <1>2, <1>4, <1>5, FarStep

LEMMA TakesStep == ASSUME Inv, NEW c \in Peers, Takes(c) PROVE Inv'
  <1>1. PICK w \in wire :
          /\ \/ /\ w.k = "syn"
                /\ peer' = [peer EXCEPT ![c] = [st |-> "open", port |-> w.port, irs |-> w.seq, rcv |-> 0]]
             \/ /\ w.k = "data" /\ Pos(w, peer[c]) <= peer[c].rcv
                /\ \E n \in (peer[c].rcv + 1)..(Pos(w, peer[c]) + Len(w.bytes)) : peer' = [peer EXCEPT ![c].rcv = n]
             \/ /\ w.k = "fin" /\ Pos(w, peer[c]) = peer[c].rcv
                /\ peer' = [peer EXCEPT ![c].rcv = @ + 1]
          /\ wire' = {v \in wire : v.p = c => Useful(v, peer'[c])}
          /\ UNCHANGED <<socks, call, alive, opens, stolen>>
    BY DEF Takes
  <1>2. peer \in [Peers -> PeerT] /\ w.port \in Nat /\ w.seq \in Num /\ peer[c].rcv \in Nat
    <2>1. peer \in [Peers -> PeerT] /\ w \in SegT
      BY DEF Inv, InvIn, Types
    <2> QED  BY <2>1 DEF SegT, PeerT
  <1>3. wire' \subseteq wire /\ UNCHANGED <<socks, call, alive, opens, stolen>>
    BY <1>1
  <1>4. CASE w.k = "syn" /\ peer' = [peer EXCEPT ![c] = [st |-> "open", port |-> w.port, irs |-> w.seq, rcv |-> 0]]
    <2>1. peer' \in [Peers -> PeerT]
      BY <1>2, <1>4 DEF PeerT
    <2>2. /\ peer'[c].port = w.port /\ peer'[c].irs = w.seq
          /\ \A d \in Peers : d # c => peer'[d] = peer[d]
      BY <1>2, <1>4
    <2> QED  BY <1>3, <1>4, <2>1, <2>2, FarStep
  <1>5. ASSUME NEW n \in Nat, peer' = [peer EXCEPT ![c].rcv = n] PROVE Inv'
    <2>1. peer' \in [Peers -> PeerT]
      BY <1>2, <1>5 DEF PeerT
    <2>2. \A d \in Peers : peer'[d].port = peer[d].port /\ peer'[d].irs = peer[d].irs /\ peer'[d].st = peer[d].st
      BY <1>2, <1>5 DEF PeerT
    <2> QED  BY <1>3, <2>1, <2>2, FarStep
  <1>6. CASE \E n \in (peer[c].rcv + 1)..(Pos(w, peer[c]) + Len(w.bytes)) : peer' = [peer EXCEPT ![c].rcv = n]
    <2>1. PICK n \in (peer[c].rcv + 1)..(Pos(w, peer[c]) + Len(w.bytes)) : peer' = [peer EXCEPT ![c].rcv = n]
      BY <1>6
    <2>2. Pos(w, peer[c]) + Len(w.bytes) \in Int
      <3>1. w \in SegT /\ peer[c] \in PeerT
        BY DEF Inv, InvIn, Types
      <3>2. w.seq \in Num /\ Plus(peer[c].irs, 1) \in Num /\ w.bytes \in Seq(Nat)
        BY <3>1, PlusNum DEF SegT, PeerT
      <3>3. Pos(w, peer[c]) \in Num
        BY <3>2, MinusIs DEF Pos
      <3> QED  BY <3>2, <3>3, Constants DEF Num
    <2>3. n \in Nat
      BY <1>2, <2>2
    <2> QED  BY <1>5, <2>1, <2>3
  <1>7. CASE peer' = [peer EXCEPT ![c].rcv = @ + 1]
    <2>1. peer[c].rcv + 1 \in Nat /\ peer' = [peer EXCEPT ![c].rcv = peer[c].rcv + 1]
      BY <1>2, <1>7
    <2> QED  BY <1>5, <2>1
  <1> QED  BY <1>1, <1>4, <1>6, <1>7

LEMMA PieceCarries ==
    ASSUME NEW s, s.iss \in Num, NEW o \in Nat, o + 1 < SeqMod, NEW b, Piece(b, Own, o), NEW k \in {"data", "fin"},
           Len(b) \in Nat
    PROVE  Carries(Seg(s, k, Plus(s.iss, 1 + o), b))
  <1> DEFINE w == Seg(s, k, Plus(s.iss, 1 + o), b)
  <1>1. w.k = k /\ w.bytes = b /\ w.seq = Plus(s.iss, 1 + o) /\ w.iss = s.iss
    BY DEF Seg
  <1> HIDE DEF w
  <1>2. Minus(Plus(s.iss, 1 + o), Plus(s.iss, 1)) = o
    <2>1. 1 + o \in Nat /\ 1 \in Nat /\ 1 <= 1 + o /\ 1 + o < SeqMod /\ (1 + o) - 1 = o
      BY Constants
    <2> QED  BY <2>1, MinusPlus
  <1>3. ASSUME NEW j \in 1..Len(b) PROVE b[j] = o + j
    <2>1. o + j \in Nat
      OBVIOUS
    <2>2. b[j] = Own[o + j]
      BY DEF Piece
    <2> QED  BY <2>1, <2>2 DEF Own
  <1>4. Carries(w)
    BY <1>1, <1>2, <1>3 DEF Carries
  <1> QED  BY <1>4 DEF w

\* A segment of a socket that has its port.
LEMMA OwnWire ==
    ASSUME NEW i \in Socks, socks[i].used, socks[i].state # "unused", SendOK(socks[i]), NEW w, Carries(w),
           w.port = socks[i].port, w.iss = socks[i].iss,
           socks'[i].used /\ socks'[i].state \in {"unused", "syn_sent"} => Went(socks'[i]) /\ socks'[i].iss = socks[i].iss
    PROVE  NewWire(w)
  BY DEF NewWire, SendOK

\* net_tick
LEMMA TickStep == ASSUME Inv, NEW i \in Socks, net_tick(i) PROVE Inv'
  <1> DEFINE s == socks[i]
  <1>1. InvIn /\ Sock(s) /\ RecvOK(s) /\ s \in SockT /\ s.used /\ s.rto /\ UNCHANGED <<peer, call, alive, opens, stolen>>
    BY DEF Inv, InvIn, SocketsOK, Sock, net_tick
  <1>2. InvOut => SendOK(s) /\ s.state \notin {"unused", "listen"} /\ Lines
    BY <1>1 DEF InvOut, Lines, SendOK, Quiet
  <1>3. InvOut => NotArp(i)
    BY <1>1, ArpSock DEF NotArp
  <1>4. ASSUME NEW t, socks' = [socks EXCEPT ![i] = t], Sock(t), RecvOK(t), ~t.used => t.state = "unused", Moved(s, t),
               SendOK(s) => SendOK(t), wire' \subseteq SegT, InvOut => \A w \in wire' : w \in wire \/ NewWire(w)
        PROVE  Inv'
    <2>1. InvIn'
      <3>1. socks' \in [Socks -> SockT] /\ SocketsOK'
        BY <1>1, <1>4, PointIn
      <3> QED  BY <1>1, <1>4, <3>1 DEF InvIn, Types, CallsIn
    <2>2. ASSUME InvOut PROVE InvOut'
      <3>1. TableStep
        BY <1>1, <1>2, <1>4, <2>2, PointTable
      <3>2. CallStep
        BY <1>1, <1>3, <1>4, <2>2, PointCalls
      <3> QED  BY <1>1, <1>2, <2>2, <3>1, <3>2, TableLines, TableCallers DEF InvOut
    <2> QED  BY <1>1, <2>1, <2>2 DEF Inv
  <1>5. CASE socks' = [socks EXCEPT ![i] = Free] /\ UNCHANGED wire
    BY <1>1, <1>4, <1>5, FreeOK DEF Moved, InvIn, Types
  <1>6. ASSUME s.tries < RtxMax, NEW b \in BOOLEAN, NEW t, t = Ticked(s, b), socks' = [socks EXCEPT ![i] = t],
               wire' \subseteq SegT, InvOut => \A w \in wire' : w \in wire \/ NewWire(w)
        PROVE  Inv'
    <2>1. /\ Sock(t) /\ RecvOK(t) /\ Same(s, t) /\ t.state = s.state /\ t.snd_nxt = s.snd_nxt
          /\ SendOK(s) => SendOK(t)
      BY <1>1, <1>6, TickedStep
    <2>2. Moved(s, t)
      BY <2>1, MovedSame DEF Same
    <2>3. t.used
      BY <1>1, <2>1 DEF Same
    <2> QED  BY <1>4, <1>6, <2>1, <2>2, <2>3
  <1>7. ASSUME NEW t, \E b \in BOOLEAN : t = Ticked(s, b), s.tries < RtxMax, socks' = [socks EXCEPT ![i] = t], InvOut
        PROVE  /\ s.state = "syn_sent" => Went(t)
               /\ t.state = s.state /\ t.iss = s.iss /\ socks'[i] = t
    <2>1. Same(s, t) /\ t.state = s.state /\ t.snd_nxt = s.snd_nxt
      BY <1>1, <1>7, TickedStep
    <2>2. s.state = "syn_sent" => s.snd_nxt # s.iss
      BY <1>1, <1>2, <1>7 DEF SendOK
    <2>3. socks'[i] = t
      BY <1>1, <1>7, Point
    <2> QED  BY <2>1, <2>2, <2>3 DEF Went, Same
  <1>8. [s EXCEPT !.tries = @ + 1] = Ticked(s, TRUE) /\ [[s EXCEPT !.tries = @ + 1] EXCEPT !.rto = FALSE] = Ticked(s, FALSE)
    BY <1>1 DEF Ticked, SockT
  <1>9. CASE s.syn /\ s.tries < RtxMax /\ Sent({Seg(s, "syn", s.snd_una, <<>>)}) /\ socks' = [socks EXCEPT ![i] = Ticked(s, TRUE)]
    <2> DEFINE m == Seg(s, "syn", s.snd_una, <<>>)
    <2>1. /\ wire' \subseteq SegT
          /\ \A w \in wire' : w \in wire \/ w = m
      <3>1. s.snd_una \in Num /\ <<>> \in Seq(Nat) /\ "syn" \in {"syn", "data", "fin"}
        BY <1>1, SockFields
      <3> QED  BY <1>1, <1>9, <3>1, SegIs
    <2>2. ASSUME InvOut PROVE NewWire(m)
      <3>1. s.state = "syn_sent" /\ s.snd_una = s.iss
        BY <1>2, <1>9, <2>2 DEF SendOK
      <3>2. m.bytes = <<>> /\ m.seq = m.iss /\ m.iss = s.iss /\ m.port = s.port
        BY <3>1 DEF Seg
      <3>3. Went(socks'[i]) /\ socks'[i].iss = s.iss
        BY <1>7, <1>9, <2>2, <3>1
      <3>4. Carries(m)
        BY <3>2, EmptyCarries
      <3> QED  BY <1>1, <1>2, <2>2, <3>2, <3>3, <3>4, OwnWire
    <2> HIDE DEF m
    <2> QED  BY <1>6, <1>9, <2>1, <2>2
  <1>10. CASE /\ ~s.syn /\ s.rtx # <<>> /\ s.tries < RtxMax /\ Sent({Seg(s, "data", s.snd_una, s.rtx)})
              /\ socks' = [socks EXCEPT ![i] = Ticked(s, TRUE)]
    <2> DEFINE m == Seg(s, "data", s.snd_una, s.rtx)
    <2>1. /\ wire' \subseteq SegT
          /\ \A w \in wire' : w \in wire \/ w = m
      <3>1. s.snd_una \in Num /\ s.rtx \in Seq(Nat) /\ "data" \in {"syn", "data", "fin"}
        BY <1>1, SockFields
      <3> QED  BY <1>1, <1>10, <3>1, SegIs
    <2>2. ASSUME InvOut PROVE NewWire(m)
      <3>1. s.state \notin {"unused", "syn_sent"} /\ RtxOK(s)
        <4>1. s.state \in States
          BY <1>1 DEF SockT
        <4> QED  BY <1>2, <1>10, <2>2, <4>1 DEF SendOK, Started, States
      <3>2. Carries(m)
        <4>1. s.snd_una = Plus(s.iss, 1 + Done(s)) /\ Piece(s.rtx, Own, Done(s))
          BY <3>1 DEF RtxOK
        <4>2. s.iss \in Num /\ Len(s.rtx) \in Nat /\ s.sent \in Nat /\ Len(s.rtx) <= s.sent /\ s.sent <= SendMax
          BY <1>1, <3>1, SockFields DEF RtxOK
        <4>3. Done(s) \in Nat /\ Done(s) + 1 < SeqMod
          <5>1. SendMax \in Nat /\ SeqMod \in Nat /\ SendMax + 2 < SeqMod
            BY Constants
          <5> QED  BY SMTT(30), <4>2, <5>1 DEF Done
        <4> QED  BY <4>1, <4>2, <4>3, PieceCarries
      <3>3. m.iss = s.iss /\ m.port = s.port
        BY DEF Seg
      <3>4. socks'[i].state = s.state
        BY <1>7, <1>10, <2>2
      <3> QED  BY <1>1, <1>2, <2>2, <3>1, <3>2, <3>3, <3>4, OwnWire
    <2> HIDE DEF m
    <2> QED  BY <1>6, <1>10, <2>1, <2>2
  <1>11. CASE ~s.syn /\ s.rtx = <<>> /\ s.tries < RtxMax /\ Sent({}) /\ socks' = [socks EXCEPT ![i] = Ticked(s, FALSE)]
    <2>1. wire' = wire
      BY <1>11 DEF Sent
    <2> QED  BY <1>1, <1>6, <1>11, <2>1 DEF InvIn, Types
  <1>12. \/ socks' = [socks EXCEPT ![i] = Free] /\ UNCHANGED wire
         \/ s.syn /\ s.tries < RtxMax /\ Sent({Seg(s, "syn", s.snd_una, <<>>)}) /\ socks' = [socks EXCEPT ![i] = Ticked(s, TRUE)]
         \/ /\ ~s.syn /\ s.rtx # <<>> /\ s.tries < RtxMax /\ Sent({Seg(s, "data", s.snd_una, s.rtx)})
            /\ socks' = [socks EXCEPT ![i] = Ticked(s, TRUE)]
         \/ ~s.syn /\ s.rtx = <<>> /\ s.tries < RtxMax /\ Sent({}) /\ socks' = [socks EXCEPT ![i] = Ticked(s, FALSE)]
    <2>1. CASE s.syn
      BY <1>8, <2>1 DEF net_tick
    <2>2. CASE ~s.syn /\ s.rtx # <<>>
      BY <1>8, <2>2 DEF net_tick
    <2>3. CASE ~s.syn /\ s.rtx = <<>>
      BY <1>8, <2>3 DEF net_tick
    <2> QED  BY <2>1, <2>2, <2>3
  <1> QED  BY <1>5, <1>9, <1>10, <1>11, <1>12

\* A call goes to sleep, or comes back.
LEMMA CallsType ==
    ASSUME InvIn, NEW p \in Procs, NEW v \in CallT, v.k # "idle" => v.s \in Socks, call' = [call EXCEPT ![p] = v]
    PROVE  call' \in [Procs -> CallT] /\ CallsIn' /\ call'[p] = v /\ \A q \in Procs : q # p => call'[q] = call[q]
  <1>1. call \in [Procs -> CallT]
    BY DEF InvIn, Types
  <1>2. call' \in [Procs -> CallT] /\ call'[p] = v /\ \A q \in Procs : q # p => call'[q] = call[q]
    BY <1>1
  <1> QED  BY <1>2 DEF InvIn, CallsIn

LEMMA IdleCall == Idle \in CallT /\ Idle.k = "idle"
  BY DEF Idle, CallT

\* A step that changes one socket, sends what that socket may send, and keeps
\* the calls in order.
LEMMA OneSocket ==
    ASSUME Inv, NEW i \in Socks, NEW t, socks' = [socks EXCEPT ![i] = t], Sock(t), RecvOK(t), ~t.used => t.state = "unused",
           UNCHANGED <<peer, alive, opens>>, stolen' \in BOOLEAN, stolen => stolen',
           call' \in [Procs -> CallT], CallsIn', wire' \subseteq SegT,
           ~stolen' /\ InvOut =>
              /\ Moved(socks[i], t) /\ SendOK(t) /\ CallStep
              /\ socks[i].state = "listen" => t.state = "listen"
              /\ \A w \in wire' : w \in wire \/ NewWire(w)
    PROVE  Inv'
  <1>1. InvIn
    BY DEF Inv
  <1>2. InvIn'
    <2>1. socks' \in [Socks -> SockT] /\ SocketsOK'
      BY <1>1, PointIn
    <2> QED  BY <1>1, <2>1 DEF InvIn, Types
  <1>3. ASSUME ~stolen' PROVE InvOut'
    <2>1. InvOut /\ Lines
      BY <1>3 DEF Inv, InvOut
    <2>2. TableStep
      BY <1>1, <1>3, <2>1, PointTable
    <2> QED  BY <1>1, <1>3, <2>1, <2>2, TableLines, TableCallers DEF InvOut
  <1> QED  BY <1>2, <1>3 DEF Inv

\* The call of p comes back, and nobody else waits with its socket.
LEMMA EndCalls ==
    ASSUME InvIn, NEW i \in Socks, NEW t, socks' = [socks EXCEPT ![i] = t], NEW p \in Procs,
           call' = [call EXCEPT ![p] = Idle], UNCHANGED alive,
           \A q \in Procs : q # p /\ call[q].k = "arp" => call[q].s # i
    PROVE  CallStep
  <1>1. \A j \in Socks : j # i => socks'[j] = socks[j]
    BY Point
  <1>2. call'[p].k = "idle" /\ \A q \in Procs : q # p => call'[q] = call[q]
    BY CallsType, IdleCall
  <1>3. ASSUME NEW q \in Procs, call'[q].k # "idle"
        PROVE  call'[q] = call[q] /\ (call[q].k = "arp" => socks'[call[q].s] = socks[call[q].s])
    <2>1. q # p /\ call'[q] = call[q] /\ call[q].s \in Socks
      BY <1>2, <1>3 DEF InvIn, CallsIn
    <2> QED  BY <1>1, <2>1
  <1> QED  BY <1>3 DEF CallStep

\* Only the call of p changes, and not to one that connects.
LEMMA CallOnly ==
    ASSUME Inv, NEW p \in Procs, NEW v \in CallT, v.k \in {"idle", "accept", "recv"}, v.k # "idle" => v.s \in Socks,
           call' = [call EXCEPT ![p] = v], UNCHANGED <<socks, wire, peer, alive, opens, stolen>>
    PROVE  Inv'
  <1>1. InvIn
    BY DEF Inv
  <1>2. call' \in [Procs -> CallT] /\ CallsIn' /\ call'[p] = v /\ \A q \in Procs : q # p => call'[q] = call[q]
    BY <1>1, CallsType
  <1>3. InvIn'
    BY <1>1, <1>2 DEF InvIn, Types, SocketsOK
  <1>4. ASSUME InvOut PROVE InvOut'
    <2>1. Lines'
      BY <1>4 DEF InvOut, Lines, PortsLow, PortOK, Ids, Family, HasListener
    <2>2. ASSUME NEW q \in Procs, call'[q].k # "idle" PROVE Connects(q, socks[call[q].s])'
      <3>1. CASE q = p
        BY <1>2, <2>2, <3>1 DEF Connects
      <3>2. CASE q # p
        BY <1>2, <1>4, <2>2, <3>2 DEF InvOut, Callers, Connects
      <3> QED  BY <3>1, <3>2
    <2> QED  BY <2>1, <2>2 DEF InvOut, Callers
  <1> QED  BY <1>3, <1>4 DEF Inv

\* The socket a process asks for is one of its own, and no connecting call of
\* another has it.
LEMMA MineIs ==
    ASSUME Inv, NEW p \in Procs, NEW i \in Mine(p)
    PROVE  /\ InvIn /\ i \in Socks /\ Sock(socks[i]) /\ RecvOK(socks[i]) /\ socks[i] \in SockT
           /\ socks[i].used /\ socks[i].owner = p
           /\ socks \in [Socks -> SockT] /\ call \in [Procs -> CallT] /\ CallsIn /\ stolen \in BOOLEAN /\ wire \subseteq SegT
  BY DEF Inv, InvIn, Types, SocketsOK, Mine, Sock

\* No call waits for a MAC with a socket that is not connecting.
LEMMA NotConnecting ==
    ASSUME InvIn, InvOut, NEW i \in Socks, socks[i].state # "syn_sent"
    PROVE  NotArp(i)
  BY ArpSock DEF NotArp

\* SC_LISTEN
LEMMA ListenCall == ASSUME Inv, NEW p \in Procs, NEW i \in Socks, listen(p, i) PROVE Inv'
  <1> DEFINE s == socks[i]
             t == Listening(s)
  <1>1. i \in Mine(p) /\ s.state = "unused" /\ UNCHANGED <<wire, peer, call, alive, opens, stolen>>
    BY DEF listen
  <1>2. /\ InvIn /\ Sock(s) /\ RecvOK(s) /\ s.used /\ socks \in [Socks -> SockT] /\ call \in [Procs -> CallT]
        /\ CallsIn /\ stolen \in BOOLEAN /\ wire \subseteq SegT
    BY <1>1, MineIs
  <1>3. socks' = [socks EXCEPT ![i] = t]
    BY <1>2 DEF listen, Listening
  <1>4. /\ Sock(t) /\ RecvOK(t) /\ t.state = "listen" /\ t.used /\ t.id = s.id /\ t.owner = s.owner /\ t.parent = s.parent
        /\ SendOK(s) => SendOK(t)
    BY <1>1, <1>2, ListenStep
  <1> HIDE DEF t
  <1>5. CallsIn'
    BY <1>1, <1>2 DEF CallsIn
  <1>6. ASSUME InvOut
        PROVE  Moved(s, t) /\ SendOK(t) /\ CallStep /\ (s.state = "listen" => t.state = "listen")
    <2>1. SendOK(s)
      BY <1>6 DEF InvOut, Lines
    <2>2. CallStep
      BY <1>1, <1>2, <1>3, <1>6, NotConnecting, PointCalls
    <2> QED  BY <1>1, <1>2, <1>4, <2>1, <2>2 DEF Moved
  <1> QED  BY <1>1, <1>2, <1>3, <1>4, <1>5, <1>6, OneSocket

\* SC_CONNECT
LEMMA ConnectCall == ASSUME Inv, NEW p \in Procs, NEW i \in Socks, NEW c \in Servers, connect(p, i, c) PROVE Inv'
  <1> DEFINE s == socks[i]
             t == Connecting(s, c)
             v == [k |-> "arp", s |-> i, id |-> s.id]
  <1>1. /\ i \in Mine(p) /\ s.state = "unused" /\ UNCHANGED <<wire, peer, alive, opens, stolen>>
        /\ p \in alive /\ call' = [call EXCEPT ![p] = v]
    BY DEF connect, Ready
  <1>2. /\ InvIn /\ Sock(s) /\ RecvOK(s) /\ s.used /\ socks \in [Socks -> SockT] /\ call \in [Procs -> CallT]
        /\ CallsIn /\ stolen \in BOOLEAN /\ wire \subseteq SegT /\ s \in SockT /\ s.owner = p
    BY <1>1, MineIs
  <1>3. socks' = [socks EXCEPT ![i] = t]
    BY <1>2 DEF connect, Connecting
  <1>4. /\ Sock(t) /\ RecvOK(t) /\ t.state = "syn_sent" /\ t.used /\ t.id = s.id /\ t.owner = s.owner /\ t.parent = s.parent
        /\ t.snd_nxt = t.iss /\ t.snd_una = t.iss
        /\ SendOK(s) => SendOK(t)
    <2>1. opens \in Nat
      BY <1>2 DEF InvIn, Types
    <2> QED  BY <1>1, <1>2, <2>1, ConnectStep
  <1> HIDE DEF t
  <1>5. v \in CallT /\ v.k = "arp" /\ v.s = i /\ v.id = s.id
    BY <1>2 DEF CallT, SockT
  <1> HIDE DEF v
  <1>6. call' \in [Procs -> CallT] /\ CallsIn' /\ call'[p] = v /\ \A q \in Procs : q # p => call'[q] = call[q]
    BY <1>1, <1>2, <1>5, CallsType
  <1>7. socks'[i] = t /\ \A j \in Socks : j # i => socks'[j] = socks[j]
    BY <1>2, <1>3, Point
  <1>8. ASSUME InvOut
        PROVE  Moved(s, t) /\ SendOK(t) /\ CallStep /\ (s.state = "listen" => t.state = "listen")
    <2>1. SendOK(s) /\ s.id <= opens
      BY <1>2, <1>8 DEF InvOut, Lines, Ids
    <2>2. Connects(p, socks[call[p].s])'
      <3>1. call'[p].k = "arp" /\ call'[p].s = i /\ call'[p].id = s.id /\ p \in alive' /\ opens' = opens
        BY <1>1, <1>5, <1>6
      <3> QED  BY <1>2, <1>4, <1>7, <2>1, <3>1 DEF Connects
    <2>3. ASSUME NEW q \in Procs, q # p, call'[q].k # "idle"
          PROVE  call'[q] = call[q] /\ (call[q].k = "arp" => socks'[call[q].s] = socks[call[q].s])
      <3>1. call'[q] = call[q] /\ call[q].s \in Socks
        BY <1>2, <1>6, <2>3 DEF CallsIn
      <3>2. call[q].k = "arp" => call[q].s # i
        BY <1>1, <1>2, <1>8, NotConnecting DEF NotArp
      <3> QED  BY <1>7, <3>1, <3>2
    <2>4. CallStep
      BY <1>1, <2>2, <2>3 DEF CallStep
    <2>5. Moved(s, t) /\ (s.state = "listen" => t.state = "listen")
      <3>1. s.state = "unused" /\ s.used
        BY <1>1, <1>2
      <3> QED  BY <1>4, <3>1 DEF Moved
    <2> QED  BY <1>4, <2>1, <2>4, <2>5
  <1> QED  BY <1>1, <1>2, <1>3, <1>4, <1>6, <1>8, OneSocket

\* What a call that is under way says of the table.
LEMMA UnderWay ==
    ASSUME Inv, NEW p \in Procs, NEW i, i = call[p].s, call[p].k # "idle"
    PROVE  /\ InvIn /\ i \in Socks /\ Sock(socks[i]) /\ RecvOK(socks[i]) /\ socks[i] \in SockT
           /\ socks[i].used \in BOOLEAN /\ (~socks[i].used => socks[i].state = "unused")
           /\ socks \in [Socks -> SockT] /\ call \in [Procs -> CallT] /\ stolen \in BOOLEAN /\ wire \subseteq SegT
           /\ call[p] \in CallT
  <1>1. InvIn /\ i \in Socks
    BY DEF Inv, InvIn, CallsIn
  <1>2. /\ socks \in [Socks -> SockT] /\ call \in [Procs -> CallT] /\ stolen \in BOOLEAN /\ wire \subseteq SegT
        /\ Sock(socks[i]) /\ RecvOK(socks[i]) /\ (~socks[i].used => socks[i].state = "unused")
    BY <1>1 DEF InvIn, Types, SocketsOK
  <1>3. socks[i] \in SockT /\ call[p] \in CallT
    BY <1>1, <1>2
  <1>4. socks[i].used \in BOOLEAN
    BY <1>3 DEF SockT
  <1> QED  BY <1>1, <1>2, <1>3, <1>4

\* Two calls that wait for a MAC have sockets of their own.
LEMMA ArpAlone ==
    ASSUME InvIn, InvOut, NEW p \in Procs, NEW q \in Procs, q # p, call[p].k = "arp", call[q].k = "arp"
    PROVE  call[q].s # call[p].s
  <1>1. socks[call[p].s].owner = p /\ socks[call[q].s].owner = q
    BY ArpSock
  <1> QED  BY <1>1

\* The MAC is there: the SYN goes out.
LEMMA SynStep ==
    ASSUME Inv, NEW p \in Procs, NEW i, i = call[p].s, call[p].k = "arp", NEW s, s = socks[i],
           NEW t, t = SynGone(s), socks' = [socks EXCEPT ![i] = t],
           Sent({Seg(s, "syn", s.snd_nxt, <<>>)}), call' = [call EXCEPT ![p].k = "connect"],
           UNCHANGED <<peer, alive, opens, stolen>>
    PROVE  Inv'
  <1> DEFINE m == Seg(s, "syn", s.snd_nxt, <<>>)
             v == [call[p] EXCEPT !.k = "connect"]
  <1>1. /\ InvIn /\ i \in Socks /\ Sock(s) /\ RecvOK(s) /\ s \in SockT /\ s.used \in BOOLEAN
        /\ (~s.used => s.state = "unused")
        /\ call \in [Procs -> CallT] /\ stolen \in BOOLEAN /\ call[p] \in CallT
    BY UnderWay
  <1>2. /\ Sock(t) /\ RecvOK(t) /\ Same(s, t) /\ t.state = s.state
        /\ s.state = "syn_sent" /\ s.snd_nxt = s.iss /\ s.snd_una = s.iss =>
              /\ t.snd_nxt # t.iss
              /\ SendOK(s) => SendOK(t)
    BY <1>1, SynGoneStep
  <1>3. v \in CallT /\ v.k = "connect" /\ v.s = i /\ v.id = call[p].id /\ call' = [call EXCEPT ![p] = v]
    BY <1>1 DEF CallT
  <1>4. wire' \subseteq SegT /\ \A w \in wire' : w \in wire \/ w = m
    <2>1. s.snd_nxt \in Num /\ <<>> \in Seq(Nat) /\ "syn" \in {"syn", "data", "fin"}
      BY <1>1, SockFields
    <2>2. Sent({Seg(s, "syn", s.snd_nxt, <<>>)})
      OBVIOUS
    <2> QED  BY ONLY <1>1, <2>1, <2>2, SegIs
  <1>5. m.bytes = <<>> /\ m.seq = s.snd_nxt /\ m.iss = s.iss /\ m.port = s.port
    BY DEF Seg
  <1> HIDE DEF v, m
  <1>6. call' \in [Procs -> CallT] /\ CallsIn' /\ call'[p] = v /\ \A q \in Procs : q # p => call'[q] = call[q]
    BY <1>1, <1>3, CallsType
  <1>7. socks'[i] = t /\ \A j \in Socks : j # i => socks'[j] = socks[j]
    BY <1>1, Point
  <1>8. ASSUME InvOut
        PROVE  /\ Moved(s, t) /\ SendOK(t) /\ CallStep
               /\ s.state = "listen" => t.state = "listen"
               /\ \A w \in wire' : w \in wire \/ NewWire(w)
    <2>1. /\ s.used /\ s.id = call[p].id /\ s.owner = p
          /\ s.state = "syn_sent" /\ s.snd_nxt = s.iss /\ s.snd_una = s.iss
      BY <1>1, <1>8, ArpSock
    <2>2. SendOK(s) /\ SendOK(t) /\ Went(t) /\ t.iss = s.iss /\ Connects(p, s)
      BY <1>1, <1>2, <1>8, <2>1 DEF InvOut, Lines, Went, Same, Callers
    <2>3. Moved(s, t)
      BY <1>2, <2>1, <2>2 DEF Moved, Same
    <2>4. Connects(p, socks[call[p].s])'
      <3>1. call'[p].k = "connect" /\ call'[p].s = i /\ call'[p].id = call[p].id /\ opens' = opens
        BY <1>3, <1>6
      <3>2. call[p].id <= opens
        BY <2>2 DEF Connects
      <3>3. t.owner = p /\ t.state = "syn_sent"
        BY <1>2, <2>1 DEF Same
      <3> QED  BY <1>7, <3>1, <3>2, <3>3 DEF Connects
    <2>5. ASSUME NEW q \in Procs, q # p, call'[q].k # "idle"
          PROVE  call'[q] = call[q] /\ (call[q].k = "arp" => socks'[call[q].s] = socks[call[q].s])
      <3>1. call'[q] = call[q] /\ call[q].s \in Socks
        BY <1>1, <1>6, <2>5 DEF InvIn, CallsIn
      <3>2. call[q].k = "arp" => call[q].s # i
        BY <1>1, <1>8, <2>5, ArpAlone
      <3> QED  BY <1>7, <3>1, <3>2
    <2>6. CallStep
      BY <2>4, <2>5 DEF CallStep
    <2>7. NewWire(m)
      <3>1. Carries(m)
        BY <1>5, <2>1, EmptyCarries
      <3>2. /\ i \in Socks /\ socks[i].used /\ socks[i].state # "unused" /\ SendOK(socks[i])
            /\ m.port = socks[i].port /\ m.iss = socks[i].iss
        BY <1>1, <1>5, <2>1, <2>2
      <3>3. Went(socks'[i]) /\ socks'[i].iss = socks[i].iss
        BY <1>1, <1>7, <2>2
      <3> QED  BY ONLY <3>1, <3>2, <3>3, OwnWire
    <2> QED  BY <1>2, <1>4, <2>1, <2>2, <2>3, <2>6, <2>7
  <1>9. ~t.used => t.state = "unused"
    BY <1>1, <1>2 DEF Same
  <1> QED  BY <1>1, <1>2, <1>4, <1>6, <1>8, <1>9, OneSocket

\* The slot is given up, by a call whose socket it still is or that finds nobody there.
LEMMA GiveUpStep ==
    ASSUME Inv, NEW p \in Procs, NEW i, i = call[p].s, call[p].k \in {"arp", "connect"},
           socks' = [socks EXCEPT ![i] = Free], call' = [call EXCEPT ![p] = Idle],
           UNCHANGED <<wire, peer, alive, opens>>, stolen' \in BOOLEAN, stolen => stolen',
           ~stolen' => ~socks[i].used \/ socks[i].id = call[p].id
    PROVE  Inv'
  <1>1. /\ InvIn /\ i \in Socks /\ (~socks[i].used => socks[i].state = "unused") /\ wire \subseteq SegT
    BY UnderWay
  <1>2. call' \in [Procs -> CallT] /\ CallsIn'
    BY <1>1, CallsType, IdleCall
  <1>3. ASSUME ~stolen', InvOut
        PROVE  Moved(socks[i], Free) /\ CallStep /\ socks[i].state # "listen"
    <2>1. socks[i].used => socks[i].owner = p /\ socks[i].state \notin {"unused", "listen"}
      <3>1. Connects(p, socks[i])
        BY <1>3 DEF InvOut, Callers
      <3> QED  BY <1>3, <3>1 DEF Connects
    <2>2. ASSUME NEW q \in Procs, q # p, call[q].k = "arp" PROVE call[q].s # i
      <3>1. call[q].s = i => socks[i].used /\ socks[i].owner = q
        BY <1>1, <1>3, <2>2, ArpSock
      <3> QED  BY <2>1, <2>2, <3>1
    <2>3. CallStep
      <3>1. UNCHANGED alive
        OBVIOUS
      <3>2. \A q \in Procs : q # p /\ call[q].k = "arp" => call[q].s # i
        BY <2>2
      <3> HIDE DEF Free
      <3> QED  BY ONLY p \in Procs, socks' = [socks EXCEPT ![i] = Free], call' = [call EXCEPT ![p] = Idle],
                       <1>1, <3>1, <3>2, EndCalls
    <2> QED  BY <1>1, <2>1, <2>3 DEF Moved
  <1> QED  BY <1>1, <1>2, <1>3, FreeOK, OneSocket

LEMMA ConnectSyn == ASSUME Inv, NEW p \in Procs, connect_syn(p) PROVE Inv'
  <1> DEFINE i == call[p].s
             s == socks[i]
  <1>1. call[p].k = "arp" /\ UNCHANGED <<peer, alive, opens, stolen>>
    BY DEF connect_syn
  <1>2. /\ InvIn /\ i \in Socks /\ socks \in [Socks -> SockT] /\ s \in SockT /\ stolen \in BOOLEAN
        /\ wire \subseteq SegT /\ (~s.used => s.state = "unused")
    BY <1>1, UnderWay
  <1>3. CASE socks' = [socks EXCEPT ![i] = Free] /\ call' = [call EXCEPT ![p] = Idle] /\ UNCHANGED wire
    <2>1. ~stolen' => s.id = call[p].id
      BY <1>1, <1>2, ArpSock DEF Inv
    <2> QED  BY <1>1, <1>2, <1>3, <2>1, GiveUpStep
  <1>4. CASE /\ socks' = [socks EXCEPT ![i].snd_nxt = Plus(@, 1), ![i].rto = TRUE, ![i].tries = 0]
             /\ Sent({Seg(s, "syn", s.snd_nxt, <<>>)})
             /\ call' = [call EXCEPT ![p].k = "connect"]
    <2>1. socks' = [socks EXCEPT ![i] = SynGone(s)]
      BY <1>2, <1>4 DEF SynGone, SockT
    <2> QED  BY <1>1, <1>4, <2>1, SynStep
  <1> QED  BY <1>3, <1>4 DEF connect_syn

LEMMA ConnectEnds == ASSUME Inv, NEW p \in Procs, connect_ends(p) PROVE Inv'
  <1> DEFINE i == call[p].s
  <1>1. /\ call[p].k = "connect" /\ UNCHANGED <<wire, peer, alive, opens>> /\ call' = [call EXCEPT ![p] = Idle]
        /\ stolen' = (stolen \/ (socks' # socks /\ socks[i].used /\ socks[i].id # call[p].id))
    BY DEF connect_ends
  <1>2. InvIn /\ i \in Socks /\ socks \in [Socks -> SockT] /\ stolen \in BOOLEAN /\ socks[i].used \in BOOLEAN
    BY <1>1, UnderWay
  <1>3. CASE UNCHANGED socks
    <2>1. stolen' = stolen
      BY <1>1, <1>2, <1>3
    <2> QED  BY <1>1, <1>3, <2>1, IdleCall, CallOnly
  <1>4. CASE socks' # socks /\ socks' = [socks EXCEPT ![i] = Free]
    <2>1. stolen' \in BOOLEAN /\ (stolen => stolen') /\ (~stolen' => ~socks[i].used \/ socks[i].id = call[p].id)
      BY <1>1, <1>2, <1>4
    <2> QED  BY <1>1, <1>4, <2>1, GiveUpStep
  <1>5. UNCHANGED socks \/ socks' = [socks EXCEPT ![i] = Free]
    BY DEF connect_ends
  <1> QED  BY <1>3, <1>4, <1>5

\* SC_ACCEPT
LEMMA AcceptCall == ASSUME Inv, NEW p \in Procs, NEW l \in Socks, accept(p, l) PROVE Inv'
  <1> DEFINE v == [k |-> "accept", s |-> l, id |-> socks[l].id]
  <1>1. l \in Mine(p) /\ call' = [call EXCEPT ![p] = v] /\ UNCHANGED <<socks, wire, peer, alive, opens, stolen>>
    BY DEF accept
  <1>2. v \in CallT /\ v.k = "accept" /\ v.s = l
    <2>1. socks[l] \in SockT
      BY <1>1, MineIs
    <2> QED  BY <2>1 DEF CallT, SockT
  <1> HIDE DEF v
  <1> QED  BY <1>1, <1>2, CallOnly

LEMMA AcceptEnds == ASSUME Inv, NEW p \in Procs, accept_ends(p) PROVE Inv'
  <1> DEFINE got == Waiting(call[p].s)
             i == LowestOf(got)
             s == socks[i]
             t == Adopted(s)
  <1>1. /\ call[p].k = "accept" /\ call' = [call EXCEPT ![p] = Idle] /\ UNCHANGED <<wire, peer, alive, opens, stolen>>
        /\ socks' = IF got = {} THEN socks ELSE [socks EXCEPT ![i].parent = -1]
    BY DEF accept_ends
  <1>2. CASE got = {}
    BY <1>1, <1>2, IdleCall, CallOnly
  <1>3. CASE got # {}
    <2>1. InvIn /\ stolen \in BOOLEAN /\ wire \subseteq SegT /\ socks \in [Socks -> SockT]
      BY <1>1, UnderWay
    <2>2. i \in Socks /\ s.used /\ s.state = "established"
      <3>1. got \in SUBSET Socks
        BY DEF Waiting
      <3>2. i \in got
        BY <1>3, <3>1, LowestIn
      <3> QED  BY <3>2 DEF Waiting
    <2> HIDE DEF got, i
    <2>3. Sock(s) /\ RecvOK(s) /\ s \in SockT
      BY <2>1, <2>2 DEF InvIn, SocketsOK, Sock
    <2>4. socks' = [socks EXCEPT ![i] = t]
      BY <1>1, <1>3, <2>1 DEF Adopted
    <2>5. Sock(t) /\ RecvOK(t) /\ Moved(s, t) /\ (SendOK(s) => SendOK(t)) /\ t.used
      <3>1. t.used = s.used
        BY <2>3 DEF Adopted, SockT
      <3> QED  BY <2>2, <2>3, <3>1, AdoptedStep
    <2> HIDE DEF t
    <2>6. call' \in [Procs -> CallT] /\ CallsIn'
      BY <1>1, <2>1, CallsType, IdleCall
    <2>7. ASSUME InvOut PROVE SendOK(t) /\ CallStep
      <3>1. SendOK(s)
        BY <2>2, <2>7 DEF InvOut, Lines
      <3>2. NotArp(i)
        BY <2>1, <2>2, <2>7, NotConnecting
      <3>3. \A q \in Procs : q # p /\ call[q].k = "arp" => call[q].s # i
        BY <3>2 DEF NotArp
      <3>4. CallStep
        BY <1>1, <2>1, <2>2, <2>4, <3>3, EndCalls
      <3> QED  BY <2>5, <3>1, <3>4
    <2>8. s.state # "listen"
      BY <2>2
    <2> QED  BY <1>1, <2>1, <2>2, <2>4, <2>5, <2>6, <2>7, <2>8, OneSocket
  <1> QED  BY <1>2, <1>3

\* SC_RECVFROM
LEMMA RecvCall == ASSUME Inv, NEW p \in Procs, NEW i \in Socks, recv(p, i) PROVE Inv'
  <1> DEFINE v == [k |-> "recv", s |-> i, id |-> socks[i].id]
  <1>1. i \in Mine(p) /\ call' = [call EXCEPT ![p] = v] /\ UNCHANGED <<socks, wire, peer, alive, opens, stolen>>
    BY DEF recv
  <1>2. v \in CallT /\ v.k = "recv" /\ v.s = i
    <2>1. socks[i] \in SockT
      BY <1>1, MineIs
    <2> QED  BY <2>1 DEF CallT, SockT
  <1> HIDE DEF v
  <1> QED  BY <1>1, <1>2, CallOnly

LEMMA RecvEnds == ASSUME Inv, NEW p \in Procs, recv_ends(p) PROVE Inv'
  <1> DEFINE i == call[p].s
             s == socks[i]
  <1>1. call[p].k = "recv" /\ call' = [call EXCEPT ![p] = Idle] /\ UNCHANGED <<wire, peer, alive, opens, stolen>>
    BY DEF recv_ends
  <1>2. /\ InvIn /\ i \in Socks /\ Sock(s) /\ RecvOK(s) /\ s \in SockT /\ stolen \in BOOLEAN
        /\ wire \subseteq SegT /\ socks \in [Socks -> SockT] /\ (~s.used => s.state = "unused")
    BY <1>1, UnderWay
  <1>3. CASE UNCHANGED socks
    BY <1>1, <1>3, IdleCall, CallOnly
  <1>4. ASSUME NEW n \in 1..Len(s.rx), socks' = [socks EXCEPT ![i].rx = SubSeq(@, n + 1, Len(@)), ![i].rd = @ + n]
        PROVE  Inv'
    <2> DEFINE t == ReadBytes(s, n)
    <2>1. socks' = [socks EXCEPT ![i] = t]
      BY <1>2, <1>4 DEF ReadBytes, SockT
    <2>2. /\ Sock(t) /\ RecvOK(t) /\ Same(s, t) /\ t.state = s.state /\ t.snd_nxt = s.snd_nxt
          /\ SendOK(s) => SendOK(t)
      BY <1>2, <1>4, ReadStep
    <2> HIDE DEF t
    <2>3. ~NoBytes(s)
      <3>1. Len(s.rx) # 0
        BY <1>2, <1>4 DEF SockT
      <3> QED  BY <3>1 DEF NoBytes
    <2>4. s.state \notin {"unused", "listen", "syn_sent"}
      BY <1>2, <2>3 DEF RecvOK
    <2>5. Moved(s, t)
      BY <2>2, <2>4, MovedSame
    <2>6. call' \in [Procs -> CallT] /\ CallsIn'
      BY <1>1, <1>2, CallsType, IdleCall
    <2>7. ASSUME InvOut PROVE SendOK(t) /\ CallStep
      <3>1. SendOK(s)
        BY <1>2, <2>7 DEF InvOut, Lines
      <3>2. NotArp(i)
        BY <1>2, <2>4, <2>7, NotConnecting
      <3>3. \A q \in Procs : q # p /\ call[q].k = "arp" => call[q].s # i
        BY <3>2 DEF NotArp
      <3>4. CallStep
        BY <1>1, <1>2, <2>1, <3>3, EndCalls
      <3> QED  BY <2>2, <3>1, <3>4
    <2>8. ~t.used => t.state = "unused"
      BY <1>2, <2>2 DEF Same
    <2> QED  BY <1>1, <1>2, <2>1, <2>2, <2>4, <2>5, <2>6, <2>7, <2>8, OneSocket
  <1> QED  BY <1>3, <1>4 DEF recv_ends

\* SC_SENDTO
LEMMA SendCall == ASSUME Inv, NEW p \in Procs, NEW i \in Socks, NEW n \in 1..RtxBuf, send(p, i, n) PROVE Inv'
  <1> DEFINE s == socks[i]
             t == Sending(s, n)
             b == Fresh(s, n)
             m == Seg(s, "data", s.snd_nxt, b)
  <1>1. /\ i \in Mine(p) /\ s.state \in {"established", "close_wait"} /\ s.rtx = <<>> /\ n <= RtxBuf
        /\ s.sent + n <= SendMax /\ Sent({m}) /\ UNCHANGED <<peer, call, alive, opens, stolen>>
    BY DEF send, Fresh
  <1>2. /\ InvIn /\ Sock(s) /\ RecvOK(s) /\ s \in SockT /\ s.used /\ socks \in [Socks -> SockT]
        /\ call \in [Procs -> CallT] /\ CallsIn /\ stolen \in BOOLEAN /\ wire \subseteq SegT
    BY <1>1, MineIs
  <1>3. socks' = [socks EXCEPT ![i] = t]
    BY <1>2 DEF send, Sending, Fresh, SockT
  <1>4. n \in Nat /\ RtxBuf \in Nat
    BY TcpAssumption
  <1>5. /\ Sock(t) /\ RecvOK(t) /\ Same(s, t) /\ t.state = s.state
        /\ SendOK(s) => SendOK(t) /\ s.snd_nxt = Plus(s.iss, 1 + s.sent)
    BY <1>1, <1>2, <1>4, SendingStep
  <1>6. s.sent \in Nat /\ s.snd_nxt \in Num /\ s.iss \in Num
    BY <1>2, SockFields
  <1>7. b \in Seq(Nat) /\ Len(b) = n /\ Piece(b, Own, s.sent)
    BY <1>4, <1>6, FreshOK
  <1> HIDE DEF t, b
  <1>8. wire' \subseteq SegT /\ \A w \in wire' : w \in wire \/ w = m
    <2>1. Sent({Seg(s, "data", s.snd_nxt, b)}) /\ "data" \in {"syn", "data", "fin"}
      BY <1>1
    <2> QED  BY ONLY <1>2, <1>6, <1>7, <2>1, SegIs
  <1>9. ASSUME InvOut
        PROVE  /\ Moved(s, t) /\ SendOK(t) /\ CallStep
               /\ \A w \in wire' : w \in wire \/ NewWire(w)
    <2>1. SendOK(s) /\ s.snd_nxt = Plus(s.iss, 1 + s.sent)
      BY <1>5, <1>9 DEF InvOut, Lines
    <2>2. Moved(s, t)
      BY <1>1, <1>5, MovedSame
    <2>3. CallStep
      BY <1>1, <1>2, <1>3, <1>9, NotConnecting, PointCalls
    <2>4. Carries(m)
      <3>1. s.sent + 1 < SeqMod /\ Len(b) \in Nat
        BY <1>1, <1>4, <1>6, <1>7, Constants
      <3>2. "data" \in {"data", "fin"}
        OBVIOUS
      <3> QED  BY ONLY <1>6, <1>7, <2>1, <3>1, <3>2, PieceCarries
    <2>5. m.iss = s.iss /\ m.port = s.port
      BY DEF Seg
    <2> HIDE DEF m
    <2>6. socks'[i].state \notin {"unused", "syn_sent"}
      <3>1. socks'[i] = t
        BY <1>2, <1>3, Point
      <3> QED  BY <1>1, <1>5, <3>1
    <2>7. NewWire(m)
      BY <1>1, <1>2, <2>1, <2>4, <2>5, <2>6, OwnWire
    <2> QED  BY <1>5, <1>8, <2>1, <2>2, <2>3, <2>7
  <1>10. t.used /\ s.state # "listen" /\ CallsIn'
    BY <1>1, <1>2, <1>5 DEF Same, CallsIn
  <1> QED  BY <1>1, <1>2, <1>3, <1>5, <1>8, <1>9, <1>10, OneSocket

\* SC_CLOSE of a connection: the FIN.
LEMMA FinStepCall ==
    ASSUME Inv, NEW p \in Procs, NEW i \in Mine(p), NEW s, s = socks[i], s.state \in {"established", "close_wait"},
           NEW t, t = Closing(s), socks' = [socks EXCEPT ![i] = t], Sent({Seg(s, "fin", s.snd_nxt, <<>>)}),
           UNCHANGED <<peer, call, alive, opens, stolen>>
    PROVE  Inv'
  <1> DEFINE m == Seg(s, "fin", s.snd_nxt, <<>>)
  <1>1. /\ InvIn /\ i \in Socks /\ Sock(s) /\ RecvOK(s) /\ s \in SockT /\ s.used
        /\ call \in [Procs -> CallT] /\ CallsIn /\ stolen \in BOOLEAN
    BY MineIs
  <1>2. /\ Sock(t) /\ RecvOK(t) /\ Same(s, t) /\ t.state \in {"fin_wait_1", "last_ack"}
        /\ SendOK(s) => SendOK(t)
    BY <1>1, ClosingStep
  <1>3. wire' \subseteq SegT /\ \A w \in wire' : w \in wire \/ w = m
    <2>1. Sent({Seg(s, "fin", s.snd_nxt, <<>>)}) /\ "fin" \in {"syn", "data", "fin"} /\ <<>> \in Seq(Nat) /\ s.snd_nxt \in Num
      BY <1>1, SockFields
    <2> QED  BY ONLY <1>1, <2>1, SegIs
  <1>4. m.bytes = <<>> /\ m.k = "fin" /\ m.iss = s.iss /\ m.port = s.port
    BY DEF Seg
  <1> HIDE DEF m
  <1>5. ASSUME InvOut
        PROVE  /\ Moved(s, t) /\ SendOK(t) /\ CallStep
               /\ \A w \in wire' : w \in wire \/ NewWire(w)
    <2>1. SendOK(s)
      BY <1>1, <1>5 DEF InvOut, Lines
    <2>2. Moved(s, t)
      BY <1>2 DEF Moved, Same
    <2>3. CallStep
      BY <1>1, <1>5, NotConnecting, PointCalls
    <2>4. Carries(m)
      BY <1>4, EmptyCarries
    <2>5. socks'[i].state \notin {"unused", "syn_sent"}
      <3>1. socks'[i] = t
        BY <1>1, Point
      <3> QED  BY <1>2, <3>1
    <2>6. NewWire(m)
      BY <1>1, <1>4, <2>1, <2>4, <2>5, OwnWire
    <2> QED  BY <1>2, <1>3, <2>1, <2>2, <2>3, <2>6
  <1>6. t.used /\ s.state # "listen" /\ CallsIn'
    BY <1>1, <1>2 DEF Same, CallsIn
  <1> QED  BY <1>1, <1>2, <1>3, <1>5, <1>6, OneSocket

\* SC_CLOSE of anything else: a listener takes its connections with it.
LEMMA DropStep ==
    ASSUME Inv, NEW p \in Procs, NEW i \in Mine(p), call[p] = Idle, socks' = ClosedWithChildren(i),
           UNCHANGED <<wire, peer, call, alive, opens, stolen>>
    PROVE  Inv'
  <1> DEFINE gone(j) == j = i \/ (socks[i].state = "listen" /\ socks[j].used /\ socks[j].parent = i)
  <1>1. InvIn /\ i \in Socks /\ socks \in [Socks -> SockT] /\ socks[i].owner = p
    BY MineIs
  <1>2. DOMAIN socks' = Socks /\ \A j \in Socks : socks'[j] = IF gone(j) THEN Free ELSE socks[j]
    BY DEF ClosedWithChildren
  <1>3. InvIn'
    <2>1. \A j \in Socks : /\ Sock(socks'[j]) /\ RecvOK(socks'[j])
                           /\ ~socks'[j].used => socks'[j].state = "unused"
      BY <1>1, <1>2, FreeOK DEF InvIn, SocketsOK
    <2>2. socks' \in [Socks -> SockT]
      <3>1. \A j \in Socks : socks'[j] \in SockT
        BY <2>1 DEF Sock
      <3>2. socks' = [j \in Socks |-> socks'[j]]
        BY DEF ClosedWithChildren
      <3> QED  BY <3>1, <3>2
    <2> QED  BY <1>1, <2>1, <2>2 DEF InvIn, Types, CallsIn, SocketsOK
  <1>4. ASSUME InvOut PROVE InvOut'
    <2>1. Lines /\ \A j \in Socks : SendOK(socks[j])
      BY <1>4 DEF InvOut, Lines
    <2>2. \A j \in Socks : SendOK(socks'[j]) /\ Moved(socks[j], socks'[j])
      BY <1>2, <2>1, FreeOK, MovedSelf DEF Moved
    <2>3. ASSUME NEW j \in Socks, socks[j].state = "listen"
          PROVE  socks'[j].state = "listen" \/ \A k \in Socks : socks[k].parent = j => socks'[k].parent = -1
      <3>1. CASE ~gone(j)
        BY <1>2, <2>3, <3>1
      <3>2. CASE gone(j)
        <4>1. j = i
          <5>1. socks[j].parent = -1
            BY <2>1, <2>3 DEF SendOK
          <5>2. i # -1
            BY <1>1, TcpAssumption DEF Socks
          <5> QED  BY <3>2, <5>1, <5>2
        <4>2. ASSUME NEW k \in Socks, socks[k].parent = j PROVE socks'[k] = Free
          <5>1. i # -1
            BY <1>1, TcpAssumption DEF Socks
          <5>2. socks[k].state # "unused"
            BY <2>1, <4>1, <4>2, <5>1 DEF SendOK
          <5>3. socks[k].used
            BY <2>1, <5>2 DEF SendOK
          <5> QED  BY <1>2, <2>3, <4>1, <4>2, <5>3
        <4> QED  BY <4>2, FreeOK
      <3> QED  BY <3>1, <3>2
    <2>4. TableStep
      BY <1>1, <2>2, <2>3, NotBorn DEF TableStep
    <2>5. ASSUME NEW q \in Procs, call[q].k = "arp" PROVE socks'[call[q].s] = socks[call[q].s]
      <3>1. call[q].s \in Socks /\ socks[call[q].s].owner = q /\ socks[call[q].s].parent = -1
        BY <1>1, <1>4, <2>5, ArpSock
      <3>2. q # p
        BY <2>5 DEF Idle
      <3>3. i # -1
        BY <1>1, TcpAssumption DEF Socks
      <3>4. ~gone(call[q].s)
        BY <1>1, <3>1, <3>2, <3>3
      <3> QED  BY <1>2, <3>1, <3>4
    <2>6. CallStep
      BY <2>5 DEF CallStep
    <2> QED  BY <1>1, <1>4, <2>1, <2>4, <2>6, TableLines, TableCallers DEF InvOut
  <1> QED  BY <1>3, <1>4 DEF Inv

LEMMA CloseCall == ASSUME Inv, NEW p \in Procs, NEW i \in Socks, close(p, i) PROVE Inv'
  <1> DEFINE s == socks[i]
  <1>1. i \in Mine(p) /\ call[p] = Idle /\ UNCHANGED <<peer, call, alive, opens, stolen>>
    BY DEF close, Ready
  <1>2. CASE s.state \in {"established", "close_wait"}
    <2>1. socks \in [Socks -> SockT] /\ s \in SockT
      BY <1>1, MineIs
    <2>2. socks' = [socks EXCEPT ![i] = Closing(s)] /\ Sent({Seg(s, "fin", s.snd_nxt, <<>>)})
      BY <1>2, <2>1 DEF close, Closing, SockT
    <2> QED  BY <1>1, <1>2, <2>2, FinStepCall
  <1>3. CASE s.state \notin {"established", "close_wait"}
    <2>1. socks' = ClosedWithChildren(i) /\ UNCHANGED wire
      BY <1>3 DEF close
    <2> QED  BY <1>1, <2>1, DropStep
  <1> QED  BY <1>2, <1>3

\* A process ends while none of its calls sleeps.
LEMMA ExitCall == ASSUME Inv, NEW p \in Procs, exit(p) PROVE Inv'
  <1>1. call[p] = Idle /\ alive' = alive \ {p} /\ UNCHANGED <<socks, wire, peer, call, opens, stolen>>
    BY DEF exit, Ready
  <1>2. InvIn'
    BY <1>1 DEF Inv, InvIn, Types, CallsIn, SocketsOK
  <1>3. ASSUME InvOut PROVE InvOut'
    <2>1. Lines'
      BY <1>1, <1>3 DEF InvOut, Lines, PortsLow, PortOK, Ids, Family, HasListener
    <2>2. ASSUME NEW q \in Procs, call[q].k # "idle" PROVE Connects(q, socks[call[q].s])'
      <3>1. q # p
        BY <1>1, <2>2 DEF Idle
      <3> QED  BY <1>1, <1>3, <2>2, <3>1 DEF InvOut, Callers, Connects
    <2> QED  BY <1>1, <2>1, <2>2 DEF InvOut, Callers
  <1> QED  BY <1>1, <1>2, <1>3 DEF Inv

\* SC_SOCKET: what dead processes left goes first, so a listener goes with the
\* connections nobody has accepted, which are its owner's too.
LEMMA SocketCall == ASSUME Inv, NEW p \in Procs, socket(p) PROVE Inv'
  <1> DEFINE free == {i \in Socks : ~Reclaimed[i].used}
             i == LowestOf(free)
             r == Reclaimed[i]
             t == Taken(p, r)
  <1>1. /\ free # {} /\ socks' = [Reclaimed EXCEPT ![i] = t] /\ opens' = opens + 1
        /\ UNCHANGED <<wire, peer, call, alive, stolen>>
    BY DEF socket
  <1>2. InvIn /\ socks \in [Socks -> SockT] /\ opens \in Nat
    BY DEF Inv, InvIn, Types
  <1>3. i \in Socks /\ ~Reclaimed[i].used
    <2>1. free \in SUBSET Socks
      OBVIOUS
    <2>2. i \in free
      BY <1>1, <2>1, LowestIn
    <2> QED  BY <2>2
  <1> HIDE DEF i
  <1>4. \A j \in Socks : \/ Reclaimed[j] = socks[j]
                         \/ socks[j].used /\ socks[j].owner \notin alive /\ Reclaimed[j] = Free
    BY DEF Reclaimed
  <1>5. \A j \in Socks : /\ Sock(Reclaimed[j]) /\ RecvOK(Reclaimed[j])
                         /\ ~Reclaimed[j].used => Reclaimed[j].state = "unused"
    BY <1>2, <1>4, FreeOK DEF InvIn, SocketsOK
  <1>6. /\ Sock(t) /\ RecvOK(t)
        /\ t.used /\ t.id = opens + 1 /\ t.owner = p /\ t.parent = -1 /\ t.state = "unused"
        /\ Quiet(r) => SendOK(t)
    <2>1. Sock(r) /\ NoBytes(r)
      BY <1>3, <1>5 DEF RecvOK
    <2> HIDE DEF r
    <2> QED  BY <1>2, <2>1, TakenStep
  <1> HIDE DEF t, r
  <1>7. socks' \in [Socks -> SockT] /\ socks'[i] = t /\ \A j \in Socks : j # i => socks'[j] = Reclaimed[j]
    <2>1. Reclaimed \in [Socks -> SockT]
      <3>1. \A j \in Socks : Reclaimed[j] \in SockT
        BY <1>5 DEF Sock
      <3>2. Reclaimed = [j \in Socks |-> Reclaimed[j]]
        BY DEF Reclaimed
      <3> QED  BY <3>1, <3>2
    <2>2. t \in SockT
      BY <1>6 DEF Sock
    <2> QED  BY <1>1, <1>3, <2>1, <2>2
  <1>8. InvIn'
    <2>1. SocketsOK'
      BY <1>5, <1>6, <1>7 DEF SocketsOK
    <2>2. opens' \in Nat
      BY <1>1, <1>2
    <2> QED  BY <1>1, <1>2, <1>7, <2>1, <2>2 DEF InvIn, Types, CallsIn
  <1>9. ASSUME InvOut PROVE InvOut'
    <2>1. Lines /\ \A j \in Socks : SendOK(socks[j])
      BY <1>9 DEF InvOut, Lines
    <2>2. \A j \in Socks : SendOK(Reclaimed[j]) /\ Moved(socks[j], Reclaimed[j])
      BY <1>4, <2>1, FreeOK, MovedSelf DEF Moved
    <2>3. SendOK(t)
      <3>1. r.state = "unused" /\ SendOK(r)
        BY <1>3, <1>5, <2>2 DEF r
      <3> QED  BY <1>6, <3>1 DEF SendOK
    <2>4. Born(i)
      BY <1>1, <1>6, <1>7 DEF Born
    <2>5. ASSUME NEW j \in Socks, j # i PROVE ~Born(j)
      <3>1. CASE Reclaimed[j] = socks[j]
        <4>1. socks[j].used => socks[j].id # opens + 1
          BY <1>2, <2>1 DEF Lines, Ids
        <4> QED  BY <1>7, <2>5, <3>1, <4>1 DEF Born
      <3>2. CASE Reclaimed[j] = Free
        BY <1>7, <2>5, <3>2, FreeOK DEF Born
      <3> QED  BY <1>4, <3>1, <3>2
    <2>6. ASSUME NEW l \in Socks, socks[l].state = "listen"
          PROVE  socks'[l].state = "listen" \/ \A j \in Socks : socks[j].parent = l => socks'[j].parent = -1
      <3>1. CASE Reclaimed[l] = socks[l]
        <4>1. l # i
          BY <1>3, <1>5, <2>6, <3>1
        <4> QED  BY <1>7, <2>6, <3>1, <4>1
      <3>2. CASE socks[l].owner \notin alive
        <4>1. ASSUME NEW j \in Socks, socks[j].parent = l PROVE socks'[j].parent = -1
          <5>1. l # -1
            BY TcpAssumption DEF Socks
          <5>2. socks[j].owner = socks[l].owner
            BY <2>1, <4>1, <5>1 DEF Lines, Family, HasListener
          <5>3. socks[j].state # "unused"
            BY <2>1, <4>1, <5>1 DEF SendOK
          <5>4. socks[j].used
            BY <2>1, <5>3 DEF SendOK
          <5>5. Reclaimed[j] = Free
            BY <3>2, <5>2, <5>4 DEF Reclaimed
          <5> QED  BY <1>6, <1>7, <5>5, FreeOK
        <4> QED  BY <4>1
      <3> QED  BY <1>4, <3>1, <3>2
    <2>7. TableStep
      <3>1. \A j \in Socks : SendOK(socks'[j]) /\ (Moved(socks[j], socks'[j]) \/ Born(j))
        BY <1>7, <2>2, <2>3, <2>4
      <3>2. \A j \in Socks : \A k \in Socks : Born(j) /\ Born(k) => j = k
        BY <2>5
      <3>3. \A j \in Socks : Born(j) => socks'[j].parent = -1
        BY <1>6, <1>7, <2>5
      <3> QED  BY <1>1, <2>6, <3>1, <3>2, <3>3 DEF TableStep
    <2>8. ASSUME NEW q \in Procs, call[q].k = "arp" PROVE socks'[call[q].s] = socks[call[q].s]
      <3> DEFINE j == call[q].s
      <3>1. j \in Socks /\ socks[j].owner = q /\ q \in alive /\ socks[j].used
        BY <1>2, <1>9, <2>8, ArpSock
      <3>2. Reclaimed[j] = socks[j]
        BY <1>4, <3>1
      <3>3. j # i
        BY <1>3, <3>1, <3>2
      <3> QED  BY <1>7, <3>1, <3>2, <3>3
    <2>9. CallStep
      BY <1>1, <2>8 DEF CallStep
    <2> QED  BY <1>2, <1>9, <2>1, <2>7, <2>9, TableLines, TableCallers DEF InvOut
  <1> QED  BY <1>1, <1>8, <1>9 DEF Inv

-----------------------------------------------------------------------------
(* The theorems *)

LEMMA InitInv == ASSUME Init PROVE Inv
  <1>1. /\ \A i \in Socks : socks[i] = Free
        /\ wire = {} /\ alive = Procs /\ opens = 0 /\ stolen = FALSE
        /\ \A c \in Peers : peer[c].st = "closed" /\ peer[c].port = Srv
        /\ \A p \in Procs : call[p] = Idle
    BY DEF Init
  <1>2. InvIn
    <2>1. socks \in [Socks -> SockT]
      BY FreeOK DEF Init, Sock
    <2>2. peer \in [Peers -> PeerT]
      <3>1. 0 \in Num /\ Srv \in Nat
        BY Constants DEF Num, Srv
      <3> QED  BY <3>1 DEF Init, PeerT
    <2>3. call \in [Procs -> CallT]
      BY IdleCall DEF Init
    <2>4. CallsIn /\ SocketsOK
      BY <1>1, FreeOK, IdleCall DEF CallsIn, SocketsOK
    <2> QED  BY <1>1, <2>1, <2>2, <2>3, <2>4 DEF InvIn, Types
  <1>3. InvOut
    <2>1. \A i \in Socks : SendOK(socks[i]) /\ PortOK(socks[i])
      BY <1>1, FreeOK DEF PortOK
    <2>2. PortsLow
      BY <1>1 DEF PortsLow, Srv
    <2>3. Ids /\ Family
      BY <1>1, FreeOK DEF Ids, Family
    <2>4. Callers
      BY <1>1, IdleCall DEF Callers
    <2> QED  BY <1>1, <2>1, <2>2, <2>3, <2>4 DEF InvOut, Lines
  <1> QED  BY <1>2, <1>3 DEF Inv

LEMMA CallsStep == ASSUME Inv, NEW p \in Procs, Calls(p) PROVE Inv'
  <1>1. CASE socket(p)
    BY <1>1, SocketCall
  <1>2. CASE connect_syn(p)
    BY <1>2, ConnectSyn
  <1>3. CASE connect_ends(p)
    BY <1>3, ConnectEnds
  <1>4. CASE accept_ends(p)
    BY <1>4, AcceptEnds
  <1>5. CASE recv_ends(p)
    BY <1>5, RecvEnds
  <1>6. CASE exit(p)
    BY <1>6, ExitCall
  <1>7. ASSUME NEW i \in Socks, listen(p, i) PROVE Inv'
    BY <1>7, ListenCall
  <1>8. ASSUME NEW i \in Socks, accept(p, i) PROVE Inv'
    BY <1>8, AcceptCall
  <1>9. ASSUME NEW i \in Socks, recv(p, i) PROVE Inv'
    BY <1>9, RecvCall
  <1>10. ASSUME NEW i \in Socks, close(p, i) PROVE Inv'
    BY <1>10, CloseCall
  <1>11. ASSUME NEW i \in Socks, NEW c \in Servers, connect(p, i, c) PROVE Inv'
    BY <1>11, ConnectCall
  <1>12. ASSUME NEW i \in Socks, NEW n \in 1..RtxBuf, send(p, i, n) PROVE Inv'
    BY <1>12, SendCall
  <1> QED  BY <1>1, <1>2, <1>3, <1>4, <1>5, <1>6, <1>7, <1>8, <1>9, <1>10, <1>11, <1>12 DEF Calls

LEMMA StepInv == ASSUME Inv, [Next]_vars PROVE Inv'
  <1>1. CASE Arrive
    BY <1>1, ArriveStep
  <1>2. ASSUME NEW c \in Peers, Opens(c) \/ Resets(c) \/ Takes(c) PROVE Inv'
    BY <1>2, OpensStep, ResetsStep, TakesStep
  <1>3. ASSUME NEW i \in Socks, net_tick(i) PROVE Inv'
    BY <1>3, TickStep
  <1>4. ASSUME NEW p \in Procs, Calls(p) PROVE Inv'
    BY <1>4, CallsStep
  <1>5. CASE UNCHANGED vars
    <2>1. UNCHANGED <<socks, wire, peer, call, alive, opens, stolen>>
      BY <1>5 DEF vars
    <2>2. InvIn'= InvIn
      BY <2>1 DEF InvIn, Types, CallsIn, SocketsOK
    <2>3. InvOut' = InvOut
      BY <2>1 DEF InvOut, Lines, PortsLow, PortOK, Ids, Family, HasListener, Callers, Connects
    <2> QED  BY <2>1, <2>2, <2>3 DEF Inv
  <1> QED  BY <1>1, <1>2, <1>3, <1>4, <1>5 DEF Next

\* The inductive invariant: what tcp_input, the timer and the calls of net.c
\* keep of the two streams of every socket, of the wire and of the callers.
THEOREM Invariant == Spec => []Inv
  <1>1. Init => Inv
    BY InitInv
  <1>2. Inv /\ [Next]_vars => Inv'
    BY StepInv
  <1> QED  BY <1>1, <1>2, PTL DEF Spec

\* The rings and buffers of a socket keep to their sizes: tcp_input never writes
\* past NET_SOCK_BUF or TCP_OOO_BUF, a send never past TCP_RTX_BUF.
THEOREM TypeCorrect == Spec => []TypeOK
  <1>1. ASSUME Inv PROVE TypeOK
    <2>1. socks \in [Socks -> SockT] /\ call \in [Procs -> CallT] /\ \A i \in Socks : Sock(socks[i])
      BY <1>1 DEF Inv, InvIn, Types, SocketsOK
    <2>2. ASSUME NEW i \in Socks
          PROVE  /\ socks[i].parent \in Socks \cup {-1}
                 /\ Len(socks[i].rx) < RxBuf /\ Len(socks[i].rtx) <= RtxBuf /\ Len(socks[i].ooo) <= OooBuf
                 /\ socks[i].tries \in 0..RtxMax
      <3>1. socks[i] \in SockT /\ Sizes(socks[i])
        BY <2>1 DEF Sock
      <3>2. socks[i].parent \in Socks \cup {-1} /\ socks[i].tries \in Nat /\ socks[i].tries <= RtxMax
        BY <3>1 DEF SockT, Sizes
      <3>3. RtxMax \in Nat
        BY TcpAssumption
      <3> QED  BY <3>1, <3>2, <3>3 DEF Sizes
    <2>3. \A p \in Procs : call[p].s \in Socks \cup {-1}
      BY <2>1 DEF CallT
    <2> QED  BY <2>1, <2>2, <2>3 DEF TypeOK
  <1> QED  BY <1>1, Invariant, PTL

\* What a program has read and what waits in the ring is what the far end sent,
\* each byte once and in order, however the segments were cut, repeated, lost or
\* reordered, and rcv_nxt stands exactly behind it.
THEOREM StreamInCorrect == Spec => []StreamIn
  <1>1. ASSUME Inv PROVE StreamIn
    <2> SUFFICES ASSUME NEW i \in Socks, Connected(socks[i])
                 PROVE  LET s == socks[i] IN
                        /\ \A k \in 1..Len(s.rx) : s.rx[k] = <<s.peer, s.rd + k>>
                        /\ s.rcv_nxt = Plus(PeerIsn[s.peer], 1 + s.rd + Len(s.rx) + (IF s.fin THEN 1 ELSE 0))
      BY DEF StreamIn
    <2> DEFINE s == socks[i]
    <2>1. Sock(s) /\ Recv(s)
      BY <1>1 DEF Inv, InvIn, SocketsOK, RecvOK, Connected
    <2>2. Len(s.rx) \in Nat /\ s.rd \in Nat
      BY <2>1, SockFields
    <2>3. ASSUME NEW k \in 1..Len(s.rx) PROVE s.rx[k] = <<s.peer, s.rd + k>>
      <3>1. s.rx[k] = From(s.peer)[s.rd + k] /\ s.rd + k \in Nat
        BY <2>1, <2>2 DEF Recv, Piece
      <3> QED  BY <3>1 DEF From
    <2>4. 1 + Have(s) = 1 + s.rd + Len(s.rx)
      BY <2>2 DEF Have
    <2>5. s.rcv_nxt = Plus(PeerIsn[s.peer], 1 + s.rd + Len(s.rx) + (IF s.fin THEN 1 ELSE 0))
      BY <2>1, <2>4 DEF Recv
    <2> QED  BY <2>3, <2>5
  <1> QED  BY <1>1, Invariant, PTL

\* A program is told the stream has ended only when all of it has been stored: a
\* FIN that arrives before the bytes in front of it does not count.
THEOREM FinCorrect == Spec => []FinMeansAll
  <1>1. ASSUME Inv PROVE FinMeansAll
    <2> SUFFICES ASSUME NEW i \in Socks, Connected(socks[i]), socks[i].fin
                 PROVE  socks[i].rd + Len(socks[i].rx) = PeerLen[socks[i].peer]
      BY DEF FinMeansAll
    <2>1. Recv(socks[i])
      BY <1>1 DEF Inv, InvIn, SocketsOK, RecvOK, Connected
    <2> QED  BY <2>1 DEF Recv, Have
  <1> QED  BY <1>1, Invariant, PTL

\* Every data segment, sent for the first time, again, or as what a partial
\* acknowledgement left of it, carries the bytes its sequence number stands for.
THEOREM StreamOutCorrect == Spec => []StreamOut
  <1>1. Inv => StreamOut
    BY DEF Inv, InvOut, Lines, Carries, StreamOut, SegmentsExact
  <1> QED  BY <1>1, Invariant, PTL

\* A connection that waits to be accepted always has its listener, while no
\* connect that timed out frees a slot that is no longer its own.
THEOREM ParentCorrect == Spec => []ParentListens
  <1>1. Inv => ParentListens
    BY DEF Inv, InvOut, Lines, Family, HasListener, ParentListens, ChildHasListener
  <1> QED  BY <1>1, Invariant, PTL
=============================================================================
