----------------------------- MODULE PipeProofs -----------------------------
(***************************************************************************)
(* Pipes, proved for any number of processes, descriptors and pipes and    *)
(* every buffer size: the reference counts are right, nobody sleeps in     *)
(* vain, and the ring buffers implement bounded streams.                   *)
(***************************************************************************)
EXTENDS Pipe, FiniteSetTheorems, SequenceTheorems, TLAPS

-----------------------------------------------------------------------------
(* The inductive invariant *)

States == {"none", "user", "call", "asleep", "exiting", "exposed"}

FdT == {Free, File} \cup [pipe : Pipes, writable : BOOLEAN]

CallT == [op : {"none", "read", "write"}, fd : Nat, n : Nat, data : Seq(Bytes)]

RetT == [kind : {"none", "data", "done", "eof", "refused"}, data : Seq(Bytes)]

PipeT == [used : {TRUE}, ref_r : 0 .. RefMax, ref_w : 0 .. RefMax,
          head : Positions, tail : Positions, count : 0 .. BufSize,
          buf : [Positions -> Bytes]]

Types ==
  /\ g_pipes \in [Pipes -> {FreePipe} \cup PipeT]
  /\ fds \in [Procs -> [Fds -> FdT]]
  /\ st \in [Procs -> States]
  /\ call \in [Procs -> CallT]
  /\ ret \in [Procs -> RetT]
  /\ gone \in [Pipes -> [BOOLEAN -> 0 .. MaxForgotten]]

\* A call under way is on an open end of the right direction.
CallOK(q) ==
  IF st[q] \in {"call", "asleep"}
  THEN /\ call[q].fd \in PipeFds(q) /\ call[q].n \in 1 .. MaxLen
       /\ call[q].op = IF fds[q][call[q].fd].writable THEN "write" ELSE "read"
       /\ call[q].op = "write" => call[q].data \in [1 .. call[q].n -> Bytes]
  ELSE call[q] = NoCall

\* The write position is count bytes behind the read position.
RingOK == \A p \in Pipes : g_pipes[p].head = (g_pipes[p].tail + g_pipes[p].count) % BufSize

Inv ==
  /\ Types
  /\ \A q \in Procs : CallOK(q)
  /\ RingOK
  /\ RefsMatch
  /\ NobodySleepsInVain

-----------------------------------------------------------------------------
(* Arithmetic and finite sets *)

\* Remainders lie in the ring.
LEMMA ModPositions == \A a \in Int : a % BufSize \in Positions
  <1>1. \A a \in Int, b \in Nat \ {0} : a % b \in 0 .. b - 1
    OBVIOUS
  <1> QED  BY <1>1, PipeAssumption DEF Positions

LEMMA ModRing ==
  \A x \in Int :
    /\ 0 <= x /\ x < BufSize => x % BufSize = x
    /\ BufSize <= x /\ x < 2 * BufSize => x % BufSize = x - BufSize
    /\ -BufSize <= x /\ x < 0 => x % BufSize = x + BufSize
  <1>1. \A b \in Nat \ {0} : \A x \in Int : 0 <= x /\ x < b => x % b = x
    OBVIOUS
  <1>2. \A b \in Nat \ {0} : \A x \in Int : b <= x /\ x < 2 * b => x % b = x - b
    OBVIOUS
  <1>3. \A b \in Nat \ {0} : \A x \in Int : -b <= x /\ x < 0 => x % b = x + b
    OBVIOUS
  <1> QED  BY <1>1, <1>2, <1>3, PipeAssumption, Zenon

\* Moving by a and then by b is moving by a + b.
LEMMA ModAdd ==
  ASSUME NEW t \in Positions, NEW a \in Nat, NEW b \in Nat, a + b <= BufSize
  PROVE  (((t + a) % BufSize) + b) % BufSize = (t + (a + b)) % BufSize
  <1>1. BufSize \in Nat \ {0} /\ t \in 0 .. BufSize - 1
    BY PipeAssumption DEF Positions
  <1>2. (t + a) % BufSize = IF t + a < BufSize THEN t + a ELSE t + a - BufSize
    BY <1>1, t + a \in Int, t + a < 2 * BufSize, ModRing
  <1>3. CASE t + a < BufSize
    <2>1. ((t + a) % BufSize) + b = t + (a + b)
      BY <1>1, <1>2, <1>3
    <2> QED  BY <2>1
  <1>4. CASE t + a >= BufSize
    <2> DEFINE x == t + (a + b)
    <2>1. x \in Int /\ BufSize <= x /\ x < 2 * BufSize
      BY <1>1, <1>4
    <2>2. x % BufSize = x - BufSize
      BY <2>1, ModRing
    <2>3. ((t + a) % BufSize) + b = x - BufSize
      BY <1>1, <1>2, <1>4
    <2>4. x - BufSize \in Int /\ 0 <= x - BufSize /\ x - BufSize < BufSize
      BY <1>1, <2>1
    <2>5. (x - BufSize) % BufSize = x - BufSize
      BY <2>4, ModRing
    <2> QED  BY <2>2, <2>3, <2>5
  <1> QED  BY <1>1, <1>3, <1>4

\* How far position m is behind position n, both counted from t.
LEMMA ModOffset ==
  ASSUME NEW t \in Positions, NEW m \in Positions, NEW n \in 0 .. BufSize
  PROVE  (((t + m) % BufSize) - ((t + n) % BufSize)) % BufSize
           = IF m >= n THEN m - n ELSE m - n + BufSize
  <1>1. BufSize \in Nat \ {0} /\ t \in 0 .. BufSize - 1 /\ m \in 0 .. BufSize - 1
    BY PipeAssumption DEF Positions
  <1>2. (t + m) % BufSize = IF t + m < BufSize THEN t + m ELSE t + m - BufSize
    BY <1>1, t + m \in Int, t + m < 2 * BufSize, ModRing
  <1>3. (t + n) % BufSize = IF t + n < BufSize THEN t + n ELSE t + n - BufSize
    BY <1>1, t + n \in Int, t + n < 2 * BufSize, ModRing
  <1> DEFINE d == ((t + m) % BufSize) - ((t + n) % BufSize)
  <1>4. d \in Int /\ (d = m - n \/ d = m - n + BufSize \/ d = m - n - BufSize)
        /\ -BufSize < d /\ d < BufSize
    BY <1>1, <1>2, <1>3
  <1>5. d % BufSize = IF d >= 0 THEN d ELSE d + BufSize
    <2> HIDE DEF d
    <2> QED  BY <1>1, <1>4, ModRing
  <1> HIDE DEF d
  <1>6. d % BufSize = IF m >= n THEN m - n ELSE m - n + BufSize
    BY <1>1, <1>4, <1>5
  <1> QED  BY <1>6 DEF d

\* A set of descriptors is finite, and its size fits the 16 bits with the ends
\* that were forgotten on top.
LEMMA EndsFit ==
  ASSUME NEW S \in SUBSET (Procs \X Fds)
  PROVE  /\ IsFiniteSet(S) /\ Cardinality(S) \in Nat
         /\ Cardinality(S) = 0 <=> S = {}
         /\ \A n \in 0 .. MaxForgotten : Cardinality(S) + n \in 0 .. RefMax
  <1>1. IsFiniteSet(Fds) /\ Cardinality(Fds) = MaxFds
    BY FS_Interval, PipeAssumption DEF Fds
  <1>2. /\ IsFiniteSet(Procs \X Fds)
        /\ Cardinality(Procs \X Fds) = Cardinality(Procs) * MaxFds
    BY <1>1, FS_Product, PipeAssumption
  <1>3. Cardinality(Procs \X Fds) \in Nat
    BY <1>2, FS_CardinalityType
  <1>4. /\ IsFiniteSet(S) /\ Cardinality(S) \in Nat
        /\ Cardinality(S) <= Cardinality(Procs \X Fds)
    BY <1>2, FS_Subset, FS_CardinalityType
  <1>5. \A n \in 0 .. MaxForgotten : Cardinality(S) + n \in 0 .. RefMax
    BY <1>2, <1>3, <1>4, RefAssumption, PipeAssumption
  <1>6. Cardinality(S) = 0 <=> S = {}
    BY <1>4, FS_EmptySet
  <1> QED  BY <1>4, <1>5, <1>6

\* A count is in 16 bits, and it is zero when nothing is counted.
LEMMA RefsFit ==
  ASSUME NEW S \in SUBSET (Procs \X Fds), NEW n \in 0 .. MaxForgotten
  PROVE  /\ Cardinality(S) + n \in 0 .. RefMax
         /\ Cardinality(S) + n = 0 <=> ~(S # {} \/ n > 0)
  <1>1. /\ Cardinality(S) \in Nat /\ (Cardinality(S) = 0 <=> S = {})
        /\ Cardinality(S) + n \in 0 .. RefMax
    BY EndsFit
  <1>2. n \in Nat
    BY PipeAssumption
  <1> QED  BY <1>1, <1>2

\* The free descriptors have a lowest one, and so have the free objects.
LEMMA LowestIn ==
  ASSUME NEW S \in SUBSET Nat, S # {}
  PROVE  Lowest(S) \in S
  <1>1. IsWellFoundedOn({ss \in Nat \X Nat : ss[1] < ss[2]}, Nat)
    BY NatLessThanWellFounded DEF OpToRel
  <1>2. PICK f \in S : \A g \in S :
                         ~(<<g, f>> \in {ss \in Nat \X Nat : ss[1] < ss[2]})
    BY <1>1, WFMin, Zenon
  <1>3. \A g \in S : f <= g
    <2>1. ASSUME NEW g \in S PROVE f <= g
      BY <1>2, ~(g < f)
    <2> QED  BY <2>1
  <1> QED  BY <1>3 DEF Lowest

LEMMA HeldEndsIn ==
  ASSUME NEW p \in Pipes, NEW w \in BOOLEAN
  PROVE  /\ HeldEnds(p, w) \in SUBSET (Procs \X Fds)
         /\ HeldEnds(p, w)' \in SUBSET (Procs \X Fds)
  BY DEF HeldEnds

LEMMA HeldEndsDef ==
  ASSUME NEW p \in Pipes, NEW w \in BOOLEAN, NEW q \in Procs, NEW f \in Fds
  PROVE  <<q, f>> \in HeldEnds(p, w) <=> st[q] # "none" /\ fds[q][f] = [pipe |-> p, writable |-> w]
  BY DEF HeldEnds

\* Steps that open and close no pipe end.
LEMMA SameEnds ==
  ASSUME \A q \in Procs : \A f \in Fds : \A p \in Pipes, w \in BOOLEAN :
           (st[q] # "none" /\ fds[q][f] = [pipe |-> p, writable |-> w])
           <=> (st'[q] # "none" /\ fds'[q][f] = [pipe |-> p, writable |-> w])
  PROVE  \A p \in Pipes, w \in BOOLEAN : HeldEnds(p, w)' = HeldEnds(p, w)
  <1>1. ASSUME NEW p \in Pipes, NEW w \in BOOLEAN, NEW e \in Procs \X Fds
        PROVE  e \in HeldEnds(p, w) <=> e \in HeldEnds(p, w)'
    <2>1. e[1] \in Procs /\ e[2] \in Fds
      OBVIOUS
    <2> QED  BY <2>1 DEF HeldEnds
  <1> QED  BY <1>1, HeldEndsIn, Zenon

\* The same for what is counted, before and after a step.
LEMMA RefsFacts ==
  ASSUME NEW p \in Pipes, NEW w \in BOOLEAN
  PROVE  /\ Types => /\ Refs(p, w) \in 0 .. RefMax /\ (Refs(p, w) = 0 <=> ~Counted(p, w))
                     /\ gone[p][w] \in 0 .. MaxForgotten
         /\ Types' => /\ Refs(p, w)' \in 0 .. RefMax
                      /\ (Refs(p, w)' = 0 <=> ~Counted(p, w)')
                      /\ gone'[p][w] \in 0 .. MaxForgotten
         /\ Refs(p, w)' = Cardinality(HeldEnds(p, w)') + gone'[p][w]
         /\ Counted(p, w)' <=> HeldEnds(p, w)' # {} \/ gone'[p][w] > 0
  <1>1. ASSUME Types
        PROVE  /\ Refs(p, w) \in 0 .. RefMax /\ (Refs(p, w) = 0 <=> ~Counted(p, w))
               /\ gone[p][w] \in 0 .. MaxForgotten
    <2>1. gone[p][w] \in 0 .. MaxForgotten
      BY <1>1 DEF Types
    <2> QED  BY <2>1, HeldEndsIn, RefsFit DEF Refs, Counted
  <1>2. ASSUME Types'
        PROVE  /\ Refs(p, w)' \in 0 .. RefMax /\ (Refs(p, w)' = 0 <=> ~Counted(p, w)')
               /\ gone'[p][w] \in 0 .. MaxForgotten
    <2>1. gone'[p][w] \in 0 .. MaxForgotten
      BY <1>2 DEF Types
    <2> QED  BY <2>1, HeldEndsIn, RefsFit DEF Refs, Counted
  <1> QED  BY <1>1, <1>2 DEF Refs, Counted

\* Nothing else is counted as long as the ends stay.
LEMMA SameCounted ==
  ASSUME UNCHANGED gone,
         NEW p \in Pipes, NEW w \in BOOLEAN, HeldEnds(p, w)' = HeldEnds(p, w)
  PROVE  Refs(p, w)' = Refs(p, w) /\ (Counted(p, w)' <=> Counted(p, w))
  BY DEF Refs, Counted

\* The counts are right as long as what they count stays.
LEMMA SameRefs ==
  ASSUME RefsMatch,
         \A p \in Pipes, w \in BOOLEAN : /\ Refs(p, w)' = Refs(p, w)
                                         /\ Counted(p, w)' <=> Counted(p, w),
         \A p \in Pipes : /\ g_pipes'[p].ref_r = g_pipes[p].ref_r
                          /\ g_pipes'[p].ref_w = g_pipes[p].ref_w
                          /\ g_pipes'[p].used = g_pipes[p].used
  PROVE  RefsMatch'
  <1>1. ASSUME NEW p \in Pipes
        PROVE  /\ Refs(p, FALSE)' = Refs(p, FALSE) /\ (Counted(p, FALSE)' <=> Counted(p, FALSE))
               /\ Refs(p, TRUE)' = Refs(p, TRUE) /\ (Counted(p, TRUE)' <=> Counted(p, TRUE))
    <2>1. ASSUME NEW w \in BOOLEAN
          PROVE  Refs(p, w)' = Refs(p, w) /\ (Counted(p, w)' <=> Counted(p, w))
      OBVIOUS
    <2> QED  BY <2>1
  <1>2. ASSUME NEW p \in Pipes
        PROVE  /\ g_pipes'[p].ref_r = Refs(p, FALSE)' /\ g_pipes'[p].ref_w = Refs(p, TRUE)'
               /\ g_pipes'[p].used <=> Counted(p, FALSE)' \/ Counted(p, TRUE)'
    BY <1>1, Zenon DEF RefsMatch
  <1> QED  BY <1>2, Zenon DEF RefsMatch

\* An object that a live process has an end of is in use.
LEMMA EndsUsed ==
  ASSUME Types, RefsMatch, NEW q \in Procs, NEW f \in PipeFds(q), st[q] # "none"
  PROVE  /\ fds[q][f].pipe \in Pipes /\ fds[q][f].writable \in BOOLEAN
         /\ fds[q][f] = [pipe |-> fds[q][f].pipe, writable |-> fds[q][f].writable]
         /\ <<q, f>> \in HeldEnds(fds[q][f].pipe, fds[q][f].writable)
         /\ g_pipes[fds[q][f].pipe] \in PipeT
  <1> DEFINE e == fds[q][f]
  <1>1. f \in Fds /\ e \in FdT /\ e.pipe # NoPipe
    BY DEF Types, PipeFds
  <1>2. e \in [pipe : Pipes, writable : BOOLEAN]
    BY <1>1 DEF FdT, Free, File
  <1>3. <<q, f>> \in HeldEnds(e.pipe, e.writable)
    BY <1>1, <1>2, HeldEndsDef
  <1>4. g_pipes[e.pipe].used
    <2>1. CASE e.writable
      BY <2>1, <1>2, <1>3 DEF RefsMatch, Counted
    <2>2. CASE ~e.writable
      BY <2>2, <1>2, <1>3 DEF RefsMatch, Counted
    <2> QED  BY <2>1, <2>2
  <1>5. g_pipes[e.pipe] \in PipeT
    BY <1>2, <1>4 DEF Types, FreePipe
  <1> QED  BY <1>2, <1>3, <1>5

\* Likewise for the pipe of a call under way.
LEMMA CallUsed ==
  ASSUME Types, RefsMatch, NEW q \in Procs, CallOK(q), st[q] \in {"call", "asleep"}
  PROVE  /\ PipeOf(q) \in Pipes /\ g_pipes[PipeOf(q)] \in PipeT
         /\ call[q].fd \in Fds /\ call[q].n \in 1 .. MaxLen
         /\ call[q].op \in {"read", "write"}
         /\ fds[q][call[q].fd] = [pipe |-> PipeOf(q), writable |-> (call[q].op = "write")]
         /\ <<q, call[q].fd>> \in HeldEnds(PipeOf(q), call[q].op = "write")
         /\ call[q].op = "write" => call[q].data \in [1 .. call[q].n -> Bytes]
  <1> DEFINE f == call[q].fd
  <1>1. f \in PipeFds(q) /\ st[q] # "none"
    BY DEF CallOK
  <1>2. /\ fds[q][f].pipe \in Pipes /\ fds[q][f].writable \in BOOLEAN
        /\ fds[q][f] = [pipe |-> fds[q][f].pipe, writable |-> fds[q][f].writable]
        /\ <<q, f>> \in HeldEnds(fds[q][f].pipe, fds[q][f].writable)
        /\ g_pipes[fds[q][f].pipe] \in PipeT
    BY <1>1, EndsUsed, Zenon
  <1>3. /\ call[q].op \in {"read", "write"}
        /\ fds[q][f].writable = (call[q].op = "write")
    BY <1>2 DEF CallOK
  <1> QED  BY <1>1, <1>2, <1>3 DEF CallOK, PipeOf, PipeFds

\* Whoever sleeps on another pipe, or on one that a step left alone, still
\* sleeps for a reason.
Slumber(q) ==
  LET o == g_pipes[PipeOf(q)]
  IN IF call[q].op = "read"
     THEN o.count = 0 /\ Counted(PipeOf(q), TRUE)
     ELSE o.count = BufSize /\ Counted(PipeOf(q), FALSE)

LEMMA SleepDef == NobodySleepsInVain <=> \A q \in Procs : st[q] = "asleep" => Slumber(q)
  BY DEF NobodySleepsInVain, Slumber

LEMMA SlumberOn ==
  ASSUME Types, RefsMatch, NobodySleepsInVain,
         NEW q \in Procs, CallOK(q), st[q] = "asleep", call'[q] = call[q],
         fds'[q] = fds[q], NEW p \in Pipes, p = PipeOf(q),
         g_pipes'[p].count = g_pipes[p].count,
         \A w \in BOOLEAN : Counted(p, w) => Counted(p, w)'
  PROVE  Slumber(q)'
  <1>1. PipeOf(q)' = p
    BY DEF PipeOf
  <1>2. Slumber(q)
    BY SleepDef
  <1> QED  BY ZenonT(60), <1>1, <1>2 DEF Slumber, Counted, HeldEnds

-----------------------------------------------------------------------------
(* Steps that leave the pipes alone *)

LEMMA CountsStep ==
  ASSUME Inv, Types', \A q \in Procs : CallOK(q)', UNCHANGED g_pipes,
         \A p \in Pipes, w \in BOOLEAN : /\ Refs(p, w)' = Refs(p, w)
                                         /\ Counted(p, w)' <=> Counted(p, w),
         \A r \in Procs : st'[r] = "asleep" =>
                            st[r] = "asleep" /\ call'[r] = call[r] /\ fds'[r] = fds[r]
  PROVE  Inv'
  <1>1. RingOK'
    BY DEF Inv, RingOK
  <1>2. RefsMatch'
    BY SameRefs DEF Inv
  <1>3. ASSUME NEW r \in Procs, st'[r] = "asleep"
        PROVE  Slumber(r)'
    <2>1. PipeOf(r) \in Pipes
      BY <1>3, CallUsed DEF Inv
    <2> QED  BY <1>3, <2>1, SlumberOn DEF Inv
  <1>4. NobodySleepsInVain'
    BY <1>3 DEF NobodySleepsInVain, Slumber
  <1> QED  BY <1>1, <1>2, <1>4 DEF Inv

LEMMA QuietStep ==
  ASSUME Inv, Types', \A q \in Procs : CallOK(q)', UNCHANGED <<g_pipes, gone>>,
         \A p \in Pipes, w \in BOOLEAN : HeldEnds(p, w)' = HeldEnds(p, w),
         \A r \in Procs : st'[r] = "asleep" =>
                            st[r] = "asleep" /\ call'[r] = call[r] /\ fds'[r] = fds[r]
  PROVE  Inv'
  BY SameCounted, CountsStep

LEMMA ExecStep ==
  ASSUME Inv, NEW q \in Procs, Exec(q)
  PROVE  Inv'
  <1> USE DEF Inv, Exec
  <1>1. Types'
    BY DEF Types, FdT, States
  <1>2. \A r \in Procs : CallOK(r)'
    BY DEF Types, CallOK, PipeFds
  <1>3. \A p \in Pipes, w \in BOOLEAN : HeldEnds(p, w)' = HeldEnds(p, w)
    <2>1. \A p \in Pipes, w \in BOOLEAN : Free # [pipe |-> p, writable |-> w]
      BY PipeAssumption DEF Free, NoPipe, Pipes
    <2> QED  BY <2>1, SameEnds DEF Types
  <1> QED  BY <1>1, <1>2, <1>3, QuietStep DEF Types

LEMMA ExitStep ==
  ASSUME Inv, NEW q \in Procs, Exit(q)
  PROVE  Inv'
  <1> USE DEF Inv, Exit
  <1>1. Types'
    BY EmptySeq DEF Types, States, RetT, None
  <1>2. \A r \in Procs : CallOK(r)'
    BY DEF Types, CallOK, PipeFds
  <1>3. \A p \in Pipes, w \in BOOLEAN : HeldEnds(p, w)' = HeldEnds(p, w)
    BY SameEnds DEF Types
  <1> QED  BY <1>1, <1>2, <1>3, QuietStep DEF Types

\* A collection moves ends from the held to the forgotten.
LEMMA ReapEnds ==
  ASSUME Inv, NEW q \in Procs, Reap(q), NEW p \in Pipes, NEW w \in BOOLEAN
  PROVE  /\ Refs(p, w)' = Refs(p, w) /\ (Counted(p, w)' <=> Counted(p, w))
         /\ HeldEnds(p, w)' \subseteq HeldEnds(p, w)
         /\ gone'[p][w] >= gone[p][w] /\ gone'[p][w] \in 0 .. MaxForgotten
  <1> DEFINE S == {f \in Fds : fds[q][f] = [pipe |-> p, writable |-> w]}
             T == {<<q, f>> : f \in S}
  <1>1. /\ st[q] \in {"exposed", "exiting"} /\ st' = [st EXCEPT ![q] = "none"]
        /\ UNCHANGED <<g_pipes, fds, call, ret>>
        /\ gone'[p][w] = gone[p][w] + Ends(q, p, w) /\ gone'[p][w] <= MaxForgotten
    BY DEF Reap
  <1>2. ASSUME NEW e \in Procs \X Fds
        PROVE  e \in HeldEnds(p, w) <=> e \in HeldEnds(p, w)' \/ e \in T
    <2>1. PICK a \in Procs, g \in Fds : e = <<a, g>>
      OBVIOUS
    <2>2. e \in HeldEnds(p, w)' <=> st'[a] # "none" /\ fds'[a][g] = [pipe |-> p, writable |-> w]
      BY <2>1 DEF HeldEnds
    <2>3. e \in HeldEnds(p, w) <=> st[a] # "none" /\ fds[a][g] = [pipe |-> p, writable |-> w]
      BY <2>1 DEF HeldEnds
    <2>4. e \in T <=> a = q /\ fds[q][g] = [pipe |-> p, writable |-> w]
      BY <2>1
    <2>5. CASE a = q
      BY <1>1, <2>2, <2>3, <2>4, <2>5 DEF Inv, Types
    <2>6. CASE a # q
      BY <1>1, <2>2, <2>3, <2>4, <2>6 DEF Inv, Types
    <2> QED  BY <2>5, <2>6
  <1>3. T \subseteq Procs \X Fds
    OBVIOUS
  <1>4. HeldEnds(p, w) = HeldEnds(p, w)' \cup T
    <2> HIDE DEF T
    <2> QED  BY <1>2, <1>3, HeldEndsIn
  <1>5. HeldEnds(p, w)' \cap T = {}
    BY <1>1 DEF HeldEnds, Inv, Types
  <1>6. IsFiniteSet(S) /\ IsFiniteSet(T) /\ Cardinality(T) = Cardinality(S)
    <2>1. IsFiniteSet(S)
      <3>1. IsFiniteSet(Fds)
        BY FS_Interval, PipeAssumption DEF Fds
      <3> QED  BY <3>1, FS_Subset
    <2> DEFINE h == [f \in S |-> <<q, f>>]
    <2>2. h \in Bijection(S, T)
      BY DEF Bijection, Injection, Surjection, IsInjective
    <2>3. ExistsBijection(S, T)
      BY <2>2 DEF ExistsBijection
    <2> QED  BY <2>1, <2>3, FS_Bijection
  <1>7. IsFiniteSet(HeldEnds(p, w)') /\ Cardinality(HeldEnds(p, w)') \in Nat
    BY HeldEndsIn, EndsFit
  <1>8. Cardinality(S) \in Nat /\ Ends(q, p, w) = Cardinality(S)
    BY <1>6, FS_CardinalityType DEF Ends
  <1>9. Cardinality(HeldEnds(p, w)) = Cardinality(HeldEnds(p, w)') + Cardinality(S)
    <2> HIDE DEF T, S
    <2>1. Cardinality(HeldEnds(p, w)' \cup T) = Cardinality(HeldEnds(p, w)') + Cardinality(T) - 0
      BY <1>5, <1>6, <1>7, FS_Union, FS_EmptySet
    <2>2. Cardinality(T) \in Nat
      BY <1>6, <1>8
    <2> QED  BY <1>4, <1>6, <1>7, <2>1, <2>2
  <1>10. gone[p][w] \in 0 .. MaxForgotten
    BY DEF Inv, Types
  <1> DEFINE G == gone[p][w]
  <1>11. gone'[p][w] \in 0 .. MaxForgotten /\ gone'[p][w] >= G
    <2> HIDE DEF S, T
    <2> QED  BY <1>1, <1>8, <1>10, PipeAssumption
  <1>12. Refs(p, w)' = Refs(p, w)
    <2> HIDE DEF S, T
    <2>1. gone'[p][w] = gone[p][w] + Cardinality(S) /\ gone[p][w] \in Nat
      BY <1>1, <1>8, <1>10, PipeAssumption
    <2> QED  BY <1>7, <1>8, <1>9, <2>1 DEF Refs
  <1>13. Counted(p, w)' <=> Counted(p, w)
    <2> HIDE DEF S, T
    <2>1. /\ Cardinality(HeldEnds(p, w)) + gone[p][w] = 0 <=> ~Counted(p, w)
          /\ Cardinality(HeldEnds(p, w)') + gone'[p][w] = 0 <=> ~Counted(p, w)'
      BY <1>10, <1>11, HeldEndsIn, RefsFit DEF Counted
    <2> QED  BY <1>12, <2>1 DEF Refs
  <1> QED  BY <1>4, <1>11, <1>12, <1>13

LEMMA ReapStep ==
  ASSUME Inv, NEW q \in Procs, Reap(q)
  PROVE  Inv'
  <1>0. /\ st[q] \in {"exposed", "exiting"} /\ st' = [st EXCEPT ![q] = "none"]
        /\ UNCHANGED <<g_pipes, fds, call, ret>>
    BY DEF Reap
  <1>1. Types'
    <2>1. gone' = [p \in Pipes |-> [w \in BOOLEAN |-> gone[p][w] + Ends(q, p, w)]]
      BY DEF Reap
    <2>2. \A p \in Pipes, w \in BOOLEAN :
            gone[p][w] + Ends(q, p, w) \in 0 .. MaxForgotten
      <3>1. \A p \in Pipes, w \in BOOLEAN : gone'[p][w] \in 0 .. MaxForgotten
        BY ReapEnds
      <3> QED  BY <2>1, <3>1
    <2>3. gone' \in [Pipes -> [BOOLEAN -> 0 .. MaxForgotten]]
      BY <2>1, <2>2
    <2> QED  BY <1>0, <2>3 DEF Inv, Types, States
  <1>2. \A r \in Procs : CallOK(r)'
    BY <1>0 DEF Inv, Types, CallOK, PipeFds
  <1>3. \A p \in Pipes, w \in BOOLEAN : /\ Refs(p, w)' = Refs(p, w)
                                        /\ Counted(p, w)' <=> Counted(p, w)
    BY ReapEnds
  <1>4. \A r \in Procs : st'[r] = "asleep" =>
                           st[r] = "asleep" /\ call'[r] = call[r] /\ fds'[r] = fds[r]
    BY <1>0 DEF Inv, Types
  <1> QED  BY <1>0, <1>1, <1>2, <1>3, <1>4, CountsStep

\* A file at a free descriptor.
LEMMA OpenFileStep ==
  ASSUME Inv, NEW q \in Procs, OpenFile(q)
  PROVE  Inv'
  <1>1. PICK f \in Fds : fds[q][f] = Free /\ fds' = [fds EXCEPT ![q][f] = File]
    <2>1. FreeFds(q) \in SUBSET Nat
      BY DEF FreeFds, Fds
    <2>2. Lowest(FreeFds(q)) \in FreeFds(q)
      BY <2>1, LowestIn DEF OpenFile
    <2> QED  BY <2>2 DEF FreeFds, OpenFile
  <1>2. UNCHANGED <<g_pipes, st, call, ret, gone>> /\ st[q] = "user"
    BY DEF OpenFile
  <1> USE DEF Inv
  <1>3. Types'
    <2>1. File \in FdT
      BY DEF FdT
    <2>2. fds' \in [Procs -> [Fds -> FdT]]
      BY <1>1, <2>1 DEF Types
    <2> QED  BY <1>2, <2>2 DEF Types
  <1>4. \A r \in Procs : CallOK(r)'
    BY <1>1, <1>2 DEF Types, CallOK, PipeFds
  <1>5. \A p \in Pipes, w \in BOOLEAN : HeldEnds(p, w)' = HeldEnds(p, w)
    <2>2. \A p \in Pipes, w \in BOOLEAN : /\ Free # [pipe |-> p, writable |-> w]
                                          /\ File # [pipe |-> p, writable |-> w]
      BY PipeAssumption DEF Free, File, NoPipe, Pipes
    <2> QED  BY <1>1, <1>2, <2>2, SameEnds DEF Types
  <1> QED  BY <1>1, <1>2, <1>3, <1>4, <1>5, QuietStep DEF Types

LEMMA CloseFileStep ==
  ASSUME Inv, NEW q \in Procs, st[q] \in {"user", "exiting", "exposed"},
         NEW f \in OpenFds(q) \ PipeFds(q), CloseFile(q, f)
  PROVE  Inv'
  <1> USE DEF Inv, CloseFile
  <1>0. f \in Fds /\ fds[q][f].pipe = NoPipe
    BY DEF OpenFds, PipeFds
  <1>1. Types'
    <2>1. Free \in FdT
      BY DEF FdT
    <2>2. f \in Fds
      BY <1>0
    <2>3. fds' = [fds EXCEPT ![q][f] = Free] /\ UNCHANGED <<g_pipes, st, call, ret>>
      OBVIOUS
    <2>4. fds' \in [Procs -> [Fds -> FdT]]
      BY <2>1, <2>2, <2>3 DEF Types
    <2> QED  BY <2>3, <2>4 DEF Types
  <1>2. \A r \in Procs : CallOK(r)'
    BY <1>0 DEF Types, CallOK, PipeFds
  <1>3. \A p \in Pipes, w \in BOOLEAN : HeldEnds(p, w)' = HeldEnds(p, w)
    <2>2. \A p \in Pipes, w \in BOOLEAN : /\ Free # [pipe |-> p, writable |-> w]
                                          /\ fds[q][f] # [pipe |-> p, writable |-> w]
      BY <1>0, PipeAssumption DEF Free, NoPipe, Pipes
    <2> QED  BY <1>0, <2>2, SameEnds DEF Types
  <1> QED  BY <1>1, <1>2, <1>3, QuietStep DEF Types

LEMMA BeginStep ==
  ASSUME Inv, NEW q \in Procs, Begin(q)
  PROVE  Inv'
  <1> USE DEF Inv, Begin
  <1>1. PICK f \in PipeFds(q), n \in 1 .. MaxLen, s \in Seq(Bytes) :
          /\ call' = [call EXCEPT ![q] =
               [op |-> IF fds[q][f].writable THEN "write" ELSE "read",
                fd |-> f, n |-> n, data |-> s]]
          /\ fds[q][f].writable => s \in [1 .. n -> Bytes]
    <2>1. PICK f \in PipeFds(q), n \in 1 .. MaxLen :
            IF fds[q][f].writable
            THEN \E s \in [1 .. n -> Bytes] :
                   call' = [call EXCEPT ![q] = [op |-> "write", fd |-> f, n |-> n, data |-> s]]
            ELSE call' = [call EXCEPT ![q] = [op |-> "read", fd |-> f, n |-> n, data |-> <<>>]]
      OBVIOUS
    <2>2. CASE fds[q][f].writable
      <3>1. PICK s \in [1 .. n -> Bytes] :
              call' = [call EXCEPT ![q] = [op |-> "write", fd |-> f, n |-> n, data |-> s]]
        BY <2>1, <2>2
      <3>2. s \in Seq(Bytes)
        BY SeqDef, n \in Nat
      <3> QED  BY <2>2, <3>1, <3>2
    <2>3. CASE ~fds[q][f].writable
      BY <2>1, <2>3, EmptySeq
    <2> QED  BY <2>2, <2>3
  <1>2. Types'
    BY <1>1, EmptySeq, PipeAssumption DEF Types, States, RetT, None, CallT, PipeFds, Fds
  <1>3. \A r \in Procs : CallOK(r)'
    BY <1>1 DEF Types, CallOK, PipeFds
  <1>4. \A p \in Pipes, w \in BOOLEAN : HeldEnds(p, w)' = HeldEnds(p, w)
    BY SameEnds DEF Types
  <1> QED  BY <1>1, <1>2, <1>3, <1>4, QuietStep DEF Types

-----------------------------------------------------------------------------
(* Creating and closing *)

\* The lowest free object of the pool.
LEMMA FirstFree ==
  ASSUME Types, FreePipes # {}
  PROVE  Lowest(FreePipes) \in Pipes /\ g_pipes[Lowest(FreePipes)] = FreePipe
  <1>1. FreePipes \in SUBSET Nat
    BY PipeAssumption DEF FreePipes, Pipes
  <1>2. Lowest(FreePipes) \in FreePipes
    BY <1>1, LowestIn
  <1> QED  BY <1>2 DEF FreePipes, Types, PipeT

LEMMA MakePipeFailsStep ==
  ASSUME Inv, NEW q \in Procs, MakePipeFails(q)
  PROVE  Inv' /\ UNCHANGED g_pipes
  <1> USE DEF Inv, MakePipeFails
  <1>1. UNCHANGED g_pipes
    BY FirstFree DEF Types
  <1>2. Types' /\ \A r \in Procs : CallOK(r)'
    BY <1>1 DEF Types, CallOK, PipeFds
  <1>3. \A p \in Pipes, w \in BOOLEAN : HeldEnds(p, w)' = HeldEnds(p, w)
    BY SameEnds DEF Types
  <1> QED  BY <1>1, <1>2, <1>3, QuietStep

\* Nobody has an end of a free object.
LEMMA FreeUnheld ==
  ASSUME Types, RefsMatch, NEW p \in Pipes, g_pipes[p] = FreePipe, NEW w \in BOOLEAN
  PROVE  HeldEnds(p, w) = {} /\ gone[p][w] = 0 /\ ~Counted(p, w) /\ Refs(p, w) = 0
  <1>1. ~g_pipes[p].used
    BY DEF FreePipe
  <1>2. ~Counted(p, w)
    BY <1>1 DEF RefsMatch
  <1>3. gone[p][w] \in 0 .. MaxForgotten /\ Refs(p, w) = 0
    BY <1>2, RefsFacts
  <1> QED  BY <1>2, <1>3, PipeAssumption DEF Counted

\* What fd_pipe does: an object nobody refers to and two free descriptors.
NewPipe(q, p, r, w) ==
  /\ p \in Pipes /\ r \in Fds /\ w \in Fds
  /\ r # w /\ fds[q][r] = Free /\ fds[q][w] = Free
  /\ g_pipes[p] = FreePipe
  /\ \A v \in BOOLEAN : HeldEnds(p, v) = {} /\ gone[p][v] = 0
  /\ g_pipes' = [g_pipes EXCEPT ![p] = [Allocated EXCEPT !.ref_r = 1, !.ref_w = 1]]
  /\ fds' = [fds EXCEPT ![q] = [@ EXCEPT ![r] = [pipe |-> p, writable |-> FALSE],
                                         ![w] = [pipe |-> p, writable |-> TRUE]]]

LEMMA MakePipeFacts ==
  ASSUME Inv, NEW q \in Procs, MakePipe(q)
  PROVE  \E p \in Pipes, r, w \in Fds : NewPipe(q, p, r, w)
  <1> DEFINE p == Lowest(FreePipes)
             r == Lowest(FreeFds(q))
             w == Lowest(FreeFds(q) \ {r})
  <1>1. p \in Pipes /\ g_pipes[p] = FreePipe
    BY FirstFree DEF Inv, MakePipe
  <1>2. FreeFds(q) \in SUBSET Nat /\ FreeFds(q) \in SUBSET Fds
    BY DEF FreeFds, Fds
  <1>0. Cardinality(FreeFds(q)) >= 2
    BY DEF MakePipe
  <1>3. FreeFds(q) # {}
    BY <1>0, FS_EmptySet
  <1>4. r \in FreeFds(q)
    BY <1>2, <1>3, LowestIn
  <1>5. FreeFds(q) \ {r} # {}
    <2>1. SUFFICES ASSUME FreeFds(q) = {r} PROVE FALSE
      BY <1>4
    <2>2. Cardinality(FreeFds(q)) = 1
      BY <2>1, FS_Singleton, Zenon
    <2> QED  BY <1>0, <2>2
  <1>6. w \in FreeFds(q) \ {r}
    <2>1. FreeFds(q) \ {r} \in SUBSET Nat
      BY <1>2
    <2> QED  BY <1>5, <2>1, LowestIn
  <1>7. \A v \in BOOLEAN : HeldEnds(p, v) = {} /\ gone[p][v] = 0
    BY <1>1, FreeUnheld DEF Inv
  <1>8. /\ g_pipes' = [g_pipes EXCEPT ![p] = [Allocated EXCEPT !.ref_r = 1, !.ref_w = 1]]
        /\ fds' = [fds EXCEPT ![q][r] = [pipe |-> p, writable |-> FALSE],
                              ![q][w] = [pipe |-> p, writable |-> TRUE]]
    BY DEF MakePipe
  <1> HIDE DEF p, r, w
  <1>9. fds' = [fds EXCEPT ![q] = [@ EXCEPT ![r] = [pipe |-> p, writable |-> FALSE],
                                            ![w] = [pipe |-> p, writable |-> TRUE]]]
    BY <1>2, <1>4, <1>6, <1>8 DEF Inv, Types
  <1>10. fds[q][r] = Free /\ fds[q][w] = Free /\ r # w
    BY <1>4, <1>6 DEF FreeFds
  <1> QED  BY <1>1, <1>2, <1>4, <1>6, <1>7, <1>8, <1>9, <1>10 DEF NewPipe

\* The ends of the new pipe; the other pipes keep theirs.
LEMMA MakePipeEnds ==
  ASSUME Types, NEW q \in Procs, st[q] # "none", UNCHANGED st,
         NEW p, NEW r, NEW w, NewPipe(q, p, r, w)
  PROVE  /\ HeldEnds(p, FALSE)' = {<<q, r>>} /\ HeldEnds(p, TRUE)' = {<<q, w>>}
         /\ \A o \in Pipes \ {p}, v \in BOOLEAN : HeldEnds(o, v)' = HeldEnds(o, v)
  <1> USE DEF NewPipe
  <1>1. \A o \in Pipes, v \in BOOLEAN : Free # [pipe |-> o, writable |-> v]
    BY PipeAssumption DEF Free, NoPipe, Pipes
  <1>2. ASSUME NEW o \in Pipes, NEW v \in BOOLEAN, NEW e \in Procs \X Fds
        PROVE  e \in HeldEnds(o, v)' <=>
                 \/ e \in HeldEnds(o, v)
                 \/ o = p /\ ~v /\ e = <<q, r>>
                 \/ o = p /\ v /\ e = <<q, w>>
    <2>1. PICK a \in Procs, f \in Fds : e = <<a, f>>
      OBVIOUS
    <2>2. e \in HeldEnds(o, v)' <=> st[a] # "none" /\ fds'[a][f] = [pipe |-> o, writable |-> v]
      BY <2>1 DEF HeldEnds
    <2>3. e \in HeldEnds(o, v) <=> st[a] # "none" /\ fds[a][f] = [pipe |-> o, writable |-> v]
      BY <2>1 DEF HeldEnds
    <2>4. CASE a = q /\ f = r
      BY <1>1, <2>1, <2>2, <2>3, <2>4 DEF Types
    <2>5. CASE a = q /\ f = w
      BY <1>1, <2>1, <2>2, <2>3, <2>5 DEF Types
    <2>6. CASE ~(a = q /\ f \in {r, w})
      <3>1. fds'[a][f] = fds[a][f]
        BY <2>6 DEF Types
      <3> QED  BY <2>1, <2>2, <2>3, <2>6, <3>1
    <2> QED  BY <2>4, <2>5, <2>6
  <1>3. /\ HeldEnds(p, FALSE)' \subseteq Procs \X Fds
        /\ HeldEnds(p, TRUE)' \subseteq Procs \X Fds
        /\ \A o \in Pipes, v \in BOOLEAN : /\ HeldEnds(o, v) \subseteq Procs \X Fds
                                           /\ HeldEnds(o, v)' \subseteq Procs \X Fds
    BY HeldEndsIn
  <1>4. HeldEnds(p, FALSE)' = {<<q, r>>}
    BY <1>2, <1>3
  <1>5. HeldEnds(p, TRUE)' = {<<q, w>>}
    BY <1>2, <1>3
  <1>6. ASSUME NEW o \in Pipes \ {p}, NEW v \in BOOLEAN
        PROVE  HeldEnds(o, v)' = HeldEnds(o, v)
    <2>1. \A e \in Procs \X Fds : e \in HeldEnds(o, v)' <=> e \in HeldEnds(o, v)
      BY <1>2, <1>6
    <2> QED  BY <2>1, <1>3, <1>6
  <1> QED  BY <1>4, <1>5, <1>6

LEMMA AllocatedType ==
  [Allocated EXCEPT !.ref_r = 1, !.ref_w = 1] \in PipeT
  <1>1. (CHOOSE b \in Bytes : TRUE) \in Bytes
    BY PipeAssumption
  <1>2. Cleared \in [Positions -> Bytes]
    BY <1>1 DEF Positions, Cleared
  <1>3. 1 \in 0 .. RefMax /\ 0 \in 0 .. RefMax /\ 0 \in Positions /\ 0 \in 0 .. BufSize
    BY PipeAssumption DEF Positions
  <1>4. Allocated \in PipeT
    BY <1>2, <1>3 DEF Allocated, PipeT
  <1> QED  BY <1>3, <1>4 DEF PipeT

LEMMA MakePipeStep ==
  ASSUME Inv, NEW q \in Procs, MakePipe(q)
  PROVE  Inv'
  <1> DEFINE N == [Allocated EXCEPT !.ref_r = 1, !.ref_w = 1]
  <1>0. PICK p \in Pipes, r \in Fds, w \in Fds : NewPipe(q, p, r, w)
    BY MakePipeFacts
  <1>1. /\ r # w /\ fds[q][r] = Free /\ fds[q][w] = Free
        /\ g_pipes[p] = FreePipe
        /\ \A v \in BOOLEAN : HeldEnds(p, v) = {} /\ gone[p][v] = 0
        /\ g_pipes' = [g_pipes EXCEPT ![p] = N]
        /\ fds' = [fds EXCEPT ![q] = [@ EXCEPT ![r] = [pipe |-> p, writable |-> FALSE],
                                               ![w] = [pipe |-> p, writable |-> TRUE]]]
    BY <1>0 DEF NewPipe
  <1>2. st[q] = "user" /\ UNCHANGED <<st, call, ret, gone>>
    BY DEF MakePipe
  <1>3. N \in PipeT
    BY AllocatedType
  <1>4. N.ref_r = 1 /\ N.ref_w = 1 /\ N.used /\ N.head = 0 /\ N.tail = 0 /\ N.count = 0
    BY DEF Allocated
  <1> HIDE DEF N
  <1> USE DEF Inv
  <1>5. Types'
    <2>1. \A v \in BOOLEAN : [pipe |-> p, writable |-> v] \in FdT
      BY DEF FdT
    <2>2. fds' \in [Procs -> [Fds -> FdT]]
      BY <1>1, <2>1 DEF Types
    <2> QED  BY <1>1, <1>2, <1>3, <2>2 DEF Types
  <1>6. \A a \in Procs : CallOK(a)'
    BY <1>1, <1>2 DEF Types, CallOK, PipeFds
  <1>7. RingOK'
    BY <1>1, <1>4, ModRing, PipeAssumption DEF RingOK, Types
  <1>8. /\ HeldEnds(p, FALSE)' = {<<q, r>>} /\ HeldEnds(p, TRUE)' = {<<q, w>>}
        /\ \A o \in Pipes \ {p}, v \in BOOLEAN : HeldEnds(o, v)' = HeldEnds(o, v)
    <2>1. Types /\ st[q] # "none" /\ UNCHANGED st
      BY <1>2
    <2> QED  BY <1>0, <2>1, MakePipeEnds
  <1>9. RefsMatch'
    <2>1. Cardinality({<<q, r>>}) = 1 /\ Cardinality({<<q, w>>}) = 1
      BY FS_Singleton
    <2>2. /\ Refs(p, FALSE)' = 1 /\ Counted(p, FALSE)'
          /\ Refs(p, TRUE)' = 1 /\ Counted(p, TRUE)'
      <3>1. \A v \in BOOLEAN : gone'[p][v] = 0
        BY <1>1, <1>2
      <3>2. /\ Cardinality(HeldEnds(p, FALSE)') = 1 /\ HeldEnds(p, FALSE)' # {}
            /\ Cardinality(HeldEnds(p, TRUE)') = 1 /\ HeldEnds(p, TRUE)' # {}
        BY <1>8, <2>1
      <3>3. \A v \in BOOLEAN : /\ Refs(p, v)' = Cardinality(HeldEnds(p, v)') + gone'[p][v]
                               /\ Counted(p, v)' <=> HeldEnds(p, v)' # {} \/ gone'[p][v] > 0
        BY RefsFacts
      <3>4. ASSUME NEW v \in BOOLEAN, Cardinality(HeldEnds(p, v)') = 1, HeldEnds(p, v)' # {}
            PROVE  Refs(p, v)' = 1 /\ Counted(p, v)'
        BY <3>1, <3>3, <3>4
      <3> QED  BY <3>2, <3>4
    <2>3. g_pipes'[p] = N
      BY <1>1 DEF Types
    <2>4. ASSUME NEW o \in Pipes
          PROVE  /\ g_pipes'[o].ref_r = Refs(o, FALSE)' /\ g_pipes'[o].ref_w = Refs(o, TRUE)'
                 /\ g_pipes'[o].used <=> Counted(o, FALSE)' \/ Counted(o, TRUE)'
      <3>1. CASE o = p
        BY <1>4, <2>2, <2>3, <3>1
      <3>2. CASE o # p
        <4>1. \A v \in BOOLEAN : Refs(o, v)' = Refs(o, v) /\ (Counted(o, v)' <=> Counted(o, v))
          BY <1>2, <1>8, <3>2, SameCounted
        <4>2. g_pipes'[o] = g_pipes[o]
          BY <1>1, <3>2 DEF Types
        <4> QED  BY <4>1, <4>2 DEF RefsMatch
      <3> QED  BY <3>1, <3>2
    <2> QED  BY <2>4 DEF RefsMatch
  <1>10. ASSUME NEW a \in Procs, st'[a] = "asleep"
         PROVE  Slumber(a)'
    <2>1. st[a] = "asleep" /\ call'[a] = call[a] /\ a # q /\ CallOK(a)
      BY <1>2, <1>10
    <2>2. PipeOf(a) \in Pipes /\ <<a, call[a].fd>> \in HeldEnds(PipeOf(a), call[a].op = "write")
      BY <2>1, CallUsed
    <2>3. PipeOf(a) # p
      BY <1>1, <2>2
    <2>4. fds'[a] = fds[a] /\ g_pipes'[PipeOf(a)] = g_pipes[PipeOf(a)]
      BY <1>1, <2>1, <2>2, <2>3 DEF Types
    <2>5. PICK c \in Pipes :
            c = PipeOf(a) /\ g_pipes'[c].count = g_pipes[c].count /\ c # p
      BY <2>2, <2>3, <2>4
    <2>6. \A v \in BOOLEAN : Counted(c, v) => Counted(c, v)'
      BY <1>2, <1>8, <2>5, SameCounted
    <2> QED  BY <2>1, <2>4, <2>5, <2>6, SlumberOn
  <1>11. NobodySleepsInVain'
    BY <1>10 DEF NobodySleepsInVain, Slumber
  <1> QED  BY <1>5, <1>6, <1>7, <1>9, <1>11

\* A closed end is nobody's; the other ends stay.
Closing(q, f, p, w) ==
  /\ q \in Procs /\ f \in Fds /\ p \in Pipes /\ w \in BOOLEAN /\ st[q] # "none"
  /\ fds[q][f] = [pipe |-> p, writable |-> w] /\ fds' = [fds EXCEPT ![q][f] = Free]
  /\ \A a \in Procs : st'[a] = "none" <=> st[a] = "none"

LEMMA CloseEnds ==
  ASSUME Types, NEW q, NEW f, NEW p, NEW w, Closing(q, f, p, w)
  PROVE  /\ HeldEnds(p, w)' = HeldEnds(p, w) \ {<<q, f>>}
         /\ \A o \in Pipes, v \in BOOLEAN :
              (o # p \/ v # w) => HeldEnds(o, v)' = HeldEnds(o, v)
  <1> USE DEF Closing
  <1>1. \A o \in Pipes, v \in BOOLEAN : Free # [pipe |-> o, writable |-> v]
    BY PipeAssumption DEF Free, NoPipe, Pipes
  <1>2. ASSUME NEW o \in Pipes, NEW v \in BOOLEAN, NEW e \in Procs \X Fds
        PROVE  e \in HeldEnds(o, v)' <=> e \in HeldEnds(o, v) /\ e # <<q, f>>
    <2>1. PICK a \in Procs, g \in Fds : e = <<a, g>>
      OBVIOUS
    <2>2. e \in HeldEnds(o, v)' <=> st'[a] # "none" /\ fds'[a][g] = [pipe |-> o, writable |-> v]
      BY <2>1 DEF HeldEnds
    <2>3. e \in HeldEnds(o, v) <=> st[a] # "none" /\ fds[a][g] = [pipe |-> o, writable |-> v]
      BY <2>1 DEF HeldEnds
    <2>4. CASE a = q /\ g = f
      BY <1>1, <2>1, <2>2, <2>3, <2>4 DEF Types
    <2>5. CASE ~(a = q /\ g = f)
      <3>1. fds'[a][g] = fds[a][g]
        BY <2>5 DEF Types
      <3> QED  BY <2>1, <2>2, <2>3, <2>5, <3>1
    <2> QED  BY <2>4, <2>5
  <1>3. \A o \in Pipes, v \in BOOLEAN : /\ HeldEnds(o, v) \subseteq Procs \X Fds
                                        /\ HeldEnds(o, v)' \subseteq Procs \X Fds
    BY HeldEndsIn
  <1>4. HeldEnds(p, w)' = HeldEnds(p, w) \ {<<q, f>>}
    BY <1>2, <1>3
  <1>5. ASSUME NEW o \in Pipes, NEW v \in BOOLEAN, o # p \/ v # w
        PROVE  HeldEnds(o, v)' = HeldEnds(o, v)
    <2>1. <<q, f>> \notin HeldEnds(o, v)
      BY <1>5 DEF HeldEnds
    <2>2. \A e \in Procs \X Fds : e \in HeldEnds(o, v)' <=> e \in HeldEnds(o, v)
      BY <1>2, <2>1
    <2> QED  BY <2>2, <1>3
  <1> QED  BY <1>4, <1>5

\* task_wake_all takes exactly the sleepers of one pipe.
LEMMA WakeFacts ==
  ASSUME Types, NEW p
  PROVE  /\ WakeAll(p) \in [Procs -> States]
         /\ \A a \in Procs : /\ (st[a] \notin {"call", "asleep"}) => WakeAll(p)[a] = st[a]
                             /\ st[a] \in {"call", "asleep"} => WakeAll(p)[a] \in {"call", "asleep"}
                             /\ WakeAll(p)[a] = "asleep" => st[a] = "asleep" /\ PipeOf(a) # p
  BY DEF Types, States, WakeAll, PipeOf

\* fd_close wakes the sleepers of the pipe; an exiting process is exposed.
LEMMA ClosedStates ==
  ASSUME Types, NEW q \in Procs, NEW f, st[q] \in {"user", "exiting", "exposed"},
         CloseEnd(q, f)
  PROVE  /\ st' \in [Procs -> States]
         /\ \A a \in Procs :
              /\ st'[a] = "none" <=> st[a] = "none"
              /\ st[a] \notin {"call", "asleep"} => st'[a] \notin {"call", "asleep"}
              /\ st[a] \in {"call", "asleep"} => st'[a] \in {"call", "asleep"}
              /\ st'[a] = "asleep" => st[a] = "asleep" /\ PipeOf(a) # fds[q][f].pipe
  <1> DEFINE w == WakeAll(fds[q][f].pipe)
  <1>1. /\ w \in [Procs -> States]
        /\ \A a \in Procs : /\ (st[a] \notin {"call", "asleep"}) => w[a] = st[a]
                            /\ st[a] \in {"call", "asleep"} => w[a] \in {"call", "asleep"}
                            /\ w[a] = "asleep" => st[a] = "asleep" /\ PipeOf(a) # fds[q][f].pipe
    BY WakeFacts
  <1>2. st' = [w EXCEPT ![q] = IF @ = "exiting" THEN "exposed" ELSE @]
    BY DEF CloseEnd
  <1> HIDE DEF w
  <1>3. \A a \in Procs : st'[a] = IF a = q /\ w[q] = "exiting" THEN "exposed" ELSE w[a]
    BY <1>1, <1>2
  <1>4. st' \in [Procs -> States]
    BY <1>1, <1>2 DEF States
  <1> QED  BY <1>1, <1>3, <1>4

\* The object behind the end that fd_close closes.
LEMMA CloseObject ==
  ASSUME Inv, NEW q \in Procs, NEW f \in PipeFds(q), st[q] \in {"user", "exiting", "exposed"},
         CloseEnd(q, f),
         NEW p \in Pipes, NEW w \in BOOLEAN, fds[q][f] = [pipe |-> p, writable |-> w]
  PROVE  /\ \A o \in Pipes \ {p} : g_pipes'[o] = g_pipes[o]
         /\ UNCHANGED gone
         /\ LET R == Refs(p, FALSE)'
                W == Refs(p, TRUE)'
            IN /\ R \in 0 .. RefMax /\ W \in 0 .. RefMax
               /\ ~Counted(p, FALSE)' /\ ~Counted(p, TRUE)' <=> R = 0 /\ W = 0
               /\ g_pipes'[p] = IF R = 0 /\ W = 0 THEN FreePipe
                                ELSE [g_pipes[p] EXCEPT !.ref_r = R, !.ref_w = W]
         /\ g_pipes' \in [Pipes -> {FreePipe} \cup PipeT]
  <1>1. f \in Fds /\ st[q] # "none" /\ <<q, f>> \in HeldEnds(p, w) /\ g_pipes[p] \in PipeT
    <2>1. f \in Fds /\ st[q] # "none"
      BY DEF PipeFds
    <2>2. fds[q][f].pipe = p /\ fds[q][f].writable = w
      OBVIOUS
    <2> QED  BY <2>1, <2>2, EndsUsed DEF Inv
  <1>2. \A a \in Procs : st'[a] = "none" <=> st[a] = "none"
    BY ClosedStates DEF Inv
  <1>3. /\ HeldEnds(p, w)' = HeldEnds(p, w) \ {<<q, f>>}
        /\ \A v \in BOOLEAN : v # w => HeldEnds(p, v)' = HeldEnds(p, v)
    <2>1. Types /\ Closing(q, f, p, w)
      BY <1>1, <1>2 DEF CloseEnd, Inv, Closing
    <2> QED  BY <2>1, CloseEnds
  <1>0. UNCHANGED gone
    BY DEF CloseEnd
  <1>4. \A v \in BOOLEAN : /\ IsFiniteSet(HeldEnds(p, v))
                           /\ Cardinality(HeldEnds(p, v)) \in Nat
                           /\ Cardinality(HeldEnds(p, v)') \in Nat
                           /\ gone[p][v] \in Nat /\ gone'[p][v] = gone[p][v]
                           /\ Refs(p, v) = Cardinality(HeldEnds(p, v)) + gone[p][v]
                           /\ Refs(p, v)' = Cardinality(HeldEnds(p, v)') + gone[p][v]
    <2>1. ASSUME NEW v \in BOOLEAN
          PROVE  /\ IsFiniteSet(HeldEnds(p, v))
                 /\ Cardinality(HeldEnds(p, v)) \in Nat
                 /\ Cardinality(HeldEnds(p, v)') \in Nat
      BY HeldEndsIn, EndsFit
    <2>2. ASSUME NEW v \in BOOLEAN
          PROVE  gone[p][v] \in Nat
      BY PipeAssumption DEF Inv, Types
    <2> QED  BY <1>0, <2>1, <2>2 DEF Refs
  <1>5. /\ Cardinality(HeldEnds(p, w)') = Cardinality(HeldEnds(p, w)) - 1
        /\ Cardinality(HeldEnds(p, w)) > 0
    <2>1. Cardinality(HeldEnds(p, w)') = Cardinality(HeldEnds(p, w)) - 1
      BY ZenonT(60), <1>1, <1>3, <1>4, FS_RemoveElement
    <2> QED  BY <1>4, <2>1
  <1> DEFINE R == Refs(p, FALSE)'
             W == Refs(p, TRUE)'
             o == IF w THEN [g_pipes[p] EXCEPT !.ref_w = Minus(@)]
                       ELSE [g_pipes[p] EXCEPT !.ref_r = Minus(@)]
  <1>6. g_pipes' = [g_pipes EXCEPT ![p] = IF o.ref_r = 0 /\ o.ref_w = 0 THEN FreePipe ELSE o]
    BY DEF CloseEnd
  <1>7. g_pipes[p].ref_r = Refs(p, FALSE) /\ g_pipes[p].ref_w = Refs(p, TRUE)
    BY DEF Inv, RefsMatch
  <1>8. o = [g_pipes[p] EXCEPT !.ref_r = R, !.ref_w = W]
    <2>1. CASE w
      <3>1. Minus(g_pipes[p].ref_w) = W /\ g_pipes[p].ref_r = R
        <4> DEFINE C == Cardinality(HeldEnds(p, TRUE))
                   G == gone[p][TRUE]
        <4>1. /\ C \in Nat /\ G \in Nat /\ C > 0 /\ g_pipes[p].ref_w = C + G /\ W = C - 1 + G
              /\ g_pipes[p].ref_r = R
          BY <1>3, <1>4, <1>5, <1>7, <2>1
        <4> HIDE DEF C, G, W, R
        <4> QED  BY <4>1 DEF Minus
      <3> QED  BY <1>1, <2>1, <3>1 DEF PipeT
    <2>2. CASE ~w
      <3>1. Minus(g_pipes[p].ref_r) = R /\ g_pipes[p].ref_w = W
        <4> DEFINE C == Cardinality(HeldEnds(p, FALSE))
                   G == gone[p][FALSE]
        <4>1. /\ C \in Nat /\ G \in Nat /\ C > 0 /\ g_pipes[p].ref_r = C + G /\ R = C - 1 + G
              /\ g_pipes[p].ref_w = W
          BY <1>3, <1>4, <1>5, <1>7, <2>2
        <4> HIDE DEF C, G, W, R
        <4> QED  BY <4>1 DEF Minus
      <3> QED  BY <1>1, <2>2, <3>1 DEF PipeT
    <2> QED  BY <2>1, <2>2
  <1>9. /\ R \in 0 .. RefMax /\ W \in 0 .. RefMax
        /\ ~Counted(p, FALSE)' <=> R = 0
        /\ ~Counted(p, TRUE)' <=> W = 0
    <2>1. \A v \in BOOLEAN : gone'[p][v] \in 0 .. MaxForgotten
      BY <1>4 DEF Inv, Types
    <2> QED  BY <2>1, HeldEndsIn, RefsFit DEF Refs, Counted
  <1>10. ~Counted(p, FALSE)' /\ ~Counted(p, TRUE)' <=> R = 0 /\ W = 0
    BY <1>9
  <1> HIDE DEF R, W
  <1>11. o \in PipeT /\ o.ref_r = R /\ o.ref_w = W
    BY <1>1, <1>8, <1>9 DEF PipeT
  <1> HIDE DEF o
  <1>12. /\ g_pipes' \in [Pipes -> {FreePipe} \cup PipeT]
         /\ \A c \in Pipes \ {p} : g_pipes'[c] = g_pipes[c]
         /\ g_pipes'[p] = IF R = 0 /\ W = 0 THEN FreePipe ELSE o
    BY <1>6, <1>11 DEF Inv, Types
  <1> QED  BY <1>0, <1>8, <1>9, <1>10, <1>12 DEF R, W

LEMMA CloseEndStep ==
  ASSUME Inv, NEW q \in Procs, NEW f \in PipeFds(q), st[q] \in {"user", "exiting", "exposed"},
         CloseEnd(q, f)
  PROVE  Inv'
  <1>1. PICK p \in Pipes, w \in BOOLEAN :
           f \in Fds /\ fds[q][f] = [pipe |-> p, writable |-> w] /\ g_pipes[p] \in PipeT
    <2>1. st[q] # "none" /\ f \in Fds
      BY DEF PipeFds
    <2>2. /\ fds[q][f].pipe \in Pipes /\ fds[q][f].writable \in BOOLEAN
          /\ fds[q][f] = [pipe |-> fds[q][f].pipe, writable |-> fds[q][f].writable]
          /\ g_pipes[fds[q][f].pipe] \in PipeT
      BY <2>1, EndsUsed DEF Inv
    <2> QED  BY <2>1, <2>2, Zenon
  <1>2. /\ fds' = [fds EXCEPT ![q][f] = Free]
        /\ UNCHANGED <<call, ret, gone>>
    BY <1>1 DEF CloseEnd
  <1>3. /\ st' \in [Procs -> States]
        /\ \A a \in Procs :
             /\ st'[a] = "none" <=> st[a] = "none"
             /\ st[a] \notin {"call", "asleep"} => st'[a] \notin {"call", "asleep"}
             /\ st[a] \in {"call", "asleep"} => st'[a] \in {"call", "asleep"}
             /\ st'[a] = "asleep" => st[a] = "asleep" /\ PipeOf(a) # p
    BY <1>1, ClosedStates DEF Inv
  <1>4. \A o \in Pipes \ {p}, v \in BOOLEAN : HeldEnds(o, v)' = HeldEnds(o, v)
    <2>1. Types /\ Closing(q, f, p, w)
      BY <1>1, <1>2, <1>3 DEF Inv, Closing
    <2> QED  BY <2>1, CloseEnds
  <1>5. /\ \A o \in Pipes \ {p} : g_pipes'[o] = g_pipes[o]
        /\ UNCHANGED gone
        /\ LET R == Refs(p, FALSE)'
               W == Refs(p, TRUE)'
           IN /\ R \in 0 .. RefMax /\ W \in 0 .. RefMax
              /\ ~Counted(p, FALSE)' /\ ~Counted(p, TRUE)' <=> R = 0 /\ W = 0
              /\ g_pipes'[p] = IF R = 0 /\ W = 0 THEN FreePipe
                               ELSE [g_pipes[p] EXCEPT !.ref_r = R, !.ref_w = W]
        /\ g_pipes' \in [Pipes -> {FreePipe} \cup PipeT]
    <2>1. fds[q][f] = [pipe |-> p, writable |-> w]
      BY <1>1, Zenon
    <2> HIDE DEF Inv
    <2> QED  BY <2>1, CloseObject, Zenon
  <1> USE DEF Inv
  <1>6. Types'
    <2>1. Free \in FdT
      BY DEF FdT
    <2>2. fds' \in [Procs -> [Fds -> FdT]]
      BY <1>1, <1>2, <2>1 DEF Types
    <2> QED  BY <1>2, <1>3, <1>5, <2>2 DEF Types
  <1>7. ASSUME NEW a \in Procs PROVE CallOK(a)'
    <2>1. CASE a = q
      BY <1>2, <1>3, <2>1 DEF Types, CallOK
    <2>2. CASE a # q
      <3>1. fds'[a] = fds[a] /\ call'[a] = call[a] /\ PipeFds(a)' = PipeFds(a)
        BY <1>1, <1>2, <2>2 DEF Types, PipeFds
      <3> QED  BY <1>3, <3>1 DEF CallOK
    <2> QED  BY <2>1, <2>2
  <1> DEFINE R == Refs(p, FALSE)'
             W == Refs(p, TRUE)'
  <1>8. /\ g_pipes'[p].ref_r = R /\ g_pipes'[p].ref_w = W
        /\ g_pipes'[p].used <=> ~(R = 0 /\ W = 0)
        /\ g_pipes'[p].head = (g_pipes'[p].tail + g_pipes'[p].count) % BufSize
    <2> HIDE DEF R, W
    <2>1. g_pipes'[p] = IF R = 0 /\ W = 0 THEN FreePipe
                               ELSE [g_pipes[p] EXCEPT !.ref_r = R, !.ref_w = W]
      BY <1>5 DEF R, W
    <2>2. CASE R = 0 /\ W = 0
      BY <2>1, <2>2, ModRing, PipeAssumption DEF FreePipe
    <2>3. CASE ~(R = 0 /\ W = 0)
      BY <1>1, <2>1, <2>3 DEF PipeT, RingOK
    <2> QED  BY <2>2, <2>3
  <1>9. RingOK'
    BY <1>5, <1>8 DEF RingOK
  <1>10. RefsMatch'
    <2>2. ASSUME NEW o \in Pipes
          PROVE  /\ g_pipes'[o].ref_r = Refs(o, FALSE)' /\ g_pipes'[o].ref_w = Refs(o, TRUE)'
                 /\ g_pipes'[o].used <=> Counted(o, FALSE)' \/ Counted(o, TRUE)'
      <3>1. CASE o = p
        BY <1>5, <1>8, <3>1
      <3>2. CASE o # p
        <4>1. \A v \in BOOLEAN : Refs(o, v)' = Refs(o, v) /\ (Counted(o, v)' <=> Counted(o, v))
          BY <1>2, <1>4, <3>2, SameCounted
        <4> QED  BY <1>5, <3>2, <4>1 DEF RefsMatch
      <3> QED  BY <3>1, <3>2
    <2> QED  BY <2>2 DEF RefsMatch
  <1>11. ASSUME NEW a \in Procs, st'[a] = "asleep"
         PROVE  Slumber(a)'
    <2>1. st[a] = "asleep" /\ call'[a] = call[a] /\ a # q /\ CallOK(a) /\ PipeOf(a) # p
      BY <1>2, <1>3, <1>11
    <2>2. PipeOf(a) \in Pipes
      BY <2>1, CallUsed
    <2>3. fds'[a] = fds[a] /\ g_pipes'[PipeOf(a)] = g_pipes[PipeOf(a)]
      BY <1>1, <1>2, <1>5, <2>1, <2>2 DEF Types
    <2>5. PICK c \in Pipes :
            c = PipeOf(a) /\ g_pipes'[c].count = g_pipes[c].count /\ c # p
      BY <2>1, <2>2, <2>3
    <2>6. \A v \in BOOLEAN : Counted(c, v) => Counted(c, v)'
      BY <1>2, <1>4, <2>5, SameCounted
    <2> QED  BY <2>1, <2>3, <2>5, <2>6, SlumberOn
  <1>12. NobodySleepsInVain'
    BY <1>11 DEF NobodySleepsInVain, Slumber
  <1> QED  BY <1>6, <1>7, <1>9, <1>10, <1>12

LEMMA CloseStep ==
  ASSUME Inv, NEW q \in Procs, Close(q)
  PROVE  Inv'
  <1>1. PICK f \in OpenFds(q) :
          /\ st[q] \in {"user", "exiting", "exposed"}
          /\ IF f \in PipeFds(q) THEN CloseEnd(q, f) ELSE CloseFile(q, f)
    BY DEF Close
  <1>2. CASE f \in PipeFds(q)
    BY <1>1, <1>2, CloseEndStep
  <1>3. CASE f \notin PipeFds(q)
    BY <1>1, <1>3, CloseFileStep
  <1> QED  BY <1>2, <1>3

\* fork: the child's ends come on top, and the counts have room for them.
LEMMA ForkEnds ==
  ASSUME Inv, NEW q \in Procs, NEW c \in Procs, Fork(q, c),
         NEW p \in Pipes, NEW w \in BOOLEAN
  PROVE  /\ HeldEnds(p, w) \subseteq HeldEnds(p, w)'
         /\ HeldEnds(p, w) = {} => HeldEnds(p, w)' = {}
         /\ Plus(Refs(p, w), Ends(q, p, w)) = Refs(p, w)'
         /\ UNCHANGED gone
  <1> DEFINE S == {f \in Fds : fds[q][f] = [pipe |-> p, writable |-> w]}
             T == {<<c, f>> : f \in S}
  <1>1. /\ st[q] = "user" /\ st[c] = "none" /\ q # c
        /\ fds' = [fds EXCEPT ![c] = fds[q]] /\ st' = [st EXCEPT ![c] = "user"]
    BY DEF Fork
  <1>2. ASSUME NEW e \in Procs \X Fds
        PROVE  e \in HeldEnds(p, w)' <=> e \in HeldEnds(p, w) \/ e \in T
    <2>1. PICK a \in Procs, g \in Fds : e = <<a, g>>
      OBVIOUS
    <2>2. e \in HeldEnds(p, w)' <=> st'[a] # "none" /\ fds'[a][g] = [pipe |-> p, writable |-> w]
      BY <2>1 DEF HeldEnds
    <2>3. e \in HeldEnds(p, w) <=> st[a] # "none" /\ fds[a][g] = [pipe |-> p, writable |-> w]
      BY <2>1 DEF HeldEnds
    <2>4. e \in T <=> a = c /\ fds[q][g] = [pipe |-> p, writable |-> w]
      BY <2>1
    <2>5. CASE a = c
      BY <1>1, <2>2, <2>3, <2>4, <2>5 DEF Inv, Types
    <2>6. CASE a # c
      BY <1>1, <2>2, <2>3, <2>4, <2>6 DEF Inv, Types
    <2> QED  BY <2>5, <2>6
  <1>3. T \subseteq Procs \X Fds
    OBVIOUS
  <1>4. HeldEnds(p, w)' = HeldEnds(p, w) \cup T
    <2> HIDE DEF T
    <2> QED  BY <1>2, <1>3, HeldEndsIn
  <1>5. HeldEnds(p, w) \cap T = {}
    BY <1>1 DEF HeldEnds
  <1>6. IsFiniteSet(S) /\ IsFiniteSet(T) /\ Cardinality(T) = Cardinality(S)
    <2>1. IsFiniteSet(S)
      <3>1. IsFiniteSet(Fds)
        BY FS_Interval, PipeAssumption DEF Fds
      <3> QED  BY <3>1, FS_Subset
    <2> DEFINE h == [f \in S |-> <<c, f>>]
    <2>2. h \in Bijection(S, T)
      BY DEF Bijection, Injection, Surjection, IsInjective
    <2>3. ExistsBijection(S, T)
      BY <2>2 DEF ExistsBijection
    <2> QED  BY <2>1, <2>3, FS_Bijection
  <1>7. /\ IsFiniteSet(HeldEnds(p, w)) /\ Cardinality(HeldEnds(p, w)) \in Nat
        /\ Cardinality(HeldEnds(p, w)') \in Nat
    BY HeldEndsIn, EndsFit
  <1>8. Cardinality(HeldEnds(p, w)') = Cardinality(HeldEnds(p, w)) + Cardinality(S)
    <2> HIDE DEF T, S
    <2>1. Cardinality(HeldEnds(p, w) \cup T) = Cardinality(HeldEnds(p, w)) + Cardinality(T) - 0
      BY <1>5, <1>6, <1>7, FS_Union, FS_EmptySet
    <2>2. Cardinality(T) \in Nat
      BY <1>6, FS_CardinalityType
    <2> QED  BY <1>4, <1>6, <1>7, <2>1, <2>2
  <1>9. Ends(q, p, w) = Cardinality(S) /\ Cardinality(S) \in Nat
    BY <1>6, FS_CardinalityType DEF Ends
  <1>10. HeldEnds(p, w) = {} => T = {}
    <2>1. ASSUME NEW f \in S PROVE HeldEnds(p, w) # {}
      BY <1>1, HeldEndsDef
    <2> QED  BY <2>1
  <1>11. /\ UNCHANGED gone /\ gone[p][w] \in Nat
         /\ Cardinality(HeldEnds(p, w)') + gone[p][w] \in 0 .. RefMax
    <2>1. UNCHANGED gone /\ gone[p][w] \in 0 .. MaxForgotten
      BY DEF Fork, Inv, Types
    <2> QED  BY <2>1, HeldEndsIn, RefsFit, PipeAssumption
  <1> HIDE DEF S, T
  <1>12. Plus(Refs(p, w), Ends(q, p, w)) = Refs(p, w)'
    BY <1>7, <1>8, <1>9, <1>11, PipeAssumption DEF Plus, Minimum, Refs
  <1> QED  BY <1>4, <1>10, <1>11, <1>12

LEMMA ForkStep ==
  ASSUME Inv, NEW q \in Procs, NEW c \in Procs, Fork(q, c)
  PROVE  Inv'
  <1>1. /\ st[q] = "user" /\ st[c] = "none" /\ q # c /\ g_pipes' = Dup(q)
        /\ fds' = [fds EXCEPT ![c] = fds[q]] /\ st' = [st EXCEPT ![c] = "user"]
        /\ UNCHANGED <<call, ret, gone>>
    BY DEF Fork
  <1>2. ASSUME NEW p \in Pipes, NEW w \in BOOLEAN
        PROVE  /\ Plus(Refs(p, w), Ends(q, p, w)) = Refs(p, w)'
               /\ Refs(p, w)' \in 0 .. RefMax
               /\ Counted(p, w)' <=> Counted(p, w)
               /\ Counted(p, w) => Counted(p, w)'
    <2>1. /\ HeldEnds(p, w) \subseteq HeldEnds(p, w)'
          /\ HeldEnds(p, w) = {} => HeldEnds(p, w)' = {}
          /\ Plus(Refs(p, w), Ends(q, p, w)) = Refs(p, w)'
      BY ForkEnds
    <2>2. gone'[p][w] \in 0 .. MaxForgotten
      BY <1>1 DEF Inv, Types
    <2>3. Refs(p, w)' \in 0 .. RefMax
      BY <2>2, HeldEndsIn, RefsFit DEF Refs
    <2>4. Counted(p, w)' <=> Counted(p, w)
      BY <1>1, <2>1 DEF Counted
    <2> QED  BY <2>1, <2>3, <2>4
  <1> USE DEF Inv
  <1>3. ASSUME NEW p \in Pipes
        PROVE  g_pipes'[p] = [g_pipes[p] EXCEPT !.ref_r = Refs(p, FALSE)',
                                                !.ref_w = Refs(p, TRUE)']
    <2>1. g_pipes[p].ref_r = Refs(p, FALSE) /\ g_pipes[p].ref_w = Refs(p, TRUE)
      BY DEF RefsMatch
    <2>2. g_pipes'[p] = [g_pipes[p] EXCEPT !.ref_r = Plus(@, Ends(q, p, FALSE)),
                                           !.ref_w = Plus(@, Ends(q, p, TRUE))]
      BY <1>1 DEF Dup
    <2>3. /\ Plus(Refs(p, FALSE), Ends(q, p, FALSE)) = Refs(p, FALSE)'
          /\ Plus(Refs(p, TRUE), Ends(q, p, TRUE)) = Refs(p, TRUE)'
      BY <1>2
    <2>4. g_pipes'[p] = [g_pipes[p] EXCEPT !.ref_r = Plus(g_pipes[p].ref_r, Ends(q, p, FALSE)),
                                           !.ref_w = Plus(g_pipes[p].ref_w, Ends(q, p, TRUE))]
      BY <2>2 DEF Types, FreePipe, PipeT
    <2> QED  BY <2>1, <2>3, <2>4
  <1>4. ASSUME NEW p \in Pipes
        PROVE  /\ g_pipes'[p].ref_r = Refs(p, FALSE)'
               /\ g_pipes'[p].ref_w = Refs(p, TRUE)'
               /\ g_pipes'[p].used = g_pipes[p].used
               /\ g_pipes'[p].head = g_pipes[p].head
               /\ g_pipes'[p].tail = g_pipes[p].tail
               /\ g_pipes'[p].count = g_pipes[p].count
               /\ g_pipes'[p] \in {FreePipe} \cup PipeT
    <2> DEFINE R == Refs(p, FALSE)'
               W == Refs(p, TRUE)'
    <2>1. R \in 0 .. RefMax /\ W \in 0 .. RefMax
      BY <1>2
    <2>2. g_pipes'[p] = [g_pipes[p] EXCEPT !.ref_r = R, !.ref_w = W]
      BY <1>3
    <2>3. CASE g_pipes[p] \in PipeT
      <3> HIDE DEF R, W
      <3>1. /\ g_pipes'[p].ref_r = R /\ g_pipes'[p].ref_w = W
            /\ g_pipes'[p].used = g_pipes[p].used
            /\ g_pipes'[p].head = g_pipes[p].head
            /\ g_pipes'[p].tail = g_pipes[p].tail
            /\ g_pipes'[p].count = g_pipes[p].count
            /\ g_pipes'[p] \in PipeT
        BY <2>1, <2>2, <2>3 DEF PipeT
      <3> QED  BY <3>1 DEF R, W
    <2>4. CASE g_pipes[p] = FreePipe
      <3>1. ~Counted(p, FALSE)' /\ ~Counted(p, TRUE)'
        BY <1>2, <2>4, FreeUnheld
      <3>0. \A w \in BOOLEAN : gone'[p][w] \in 0 .. MaxForgotten
        BY <1>1 DEF Types
      <3>2. R = 0 /\ W = 0
        BY <3>0, <3>1, HeldEndsIn, RefsFit DEF Refs, Counted
      <3> HIDE DEF R, W
      <3>4. FreePipe.ref_r = 0 /\ FreePipe.ref_w = 0
        BY DEF FreePipe
      <3>5. \A B : \A x \in [used : BOOLEAN, ref_r : Nat, ref_w : Nat, head : Nat,
                             tail : Nat, count : Nat, buf : B] :
              x.ref_r = 0 /\ x.ref_w = 0 => [x EXCEPT !.ref_r = 0, !.ref_w = 0] = x
        OBVIOUS
      <3>6. FreePipe \in [used : BOOLEAN, ref_r : Nat, ref_w : Nat, head : Nat,
                          tail : Nat, count : Nat, buf : {<<>>}]
        BY DEF FreePipe
      <3>3. g_pipes'[p] = FreePipe
        BY <2>2, <2>4, <3>2, <3>4, <3>5, <3>6
      <3> QED  BY <2>4, <3>2, <3>3, <3>4 DEF R, W
    <2> QED  BY <2>3, <2>4 DEF Types
  <1>5. Types'
    <2>1. g_pipes' \in [Pipes -> {FreePipe} \cup PipeT]
      BY <1>1, <1>4 DEF Dup
    <2> QED  BY <1>1, <2>1 DEF Types, States
  <1>6. \A a \in Procs : CallOK(a)'
    BY <1>1 DEF Types, CallOK, PipeFds
  <1>7. RingOK'
    BY <1>4 DEF RingOK
  <1>8. RefsMatch'
    <2>1. ASSUME NEW p \in Pipes
          PROVE  g_pipes'[p].used <=> Counted(p, FALSE)' \/ Counted(p, TRUE)'
      <3>1. g_pipes[p].used <=> Counted(p, FALSE) \/ Counted(p, TRUE)
        BY DEF RefsMatch
      <3>2. \A w \in BOOLEAN : Counted(p, w)' <=> Counted(p, w)
        BY <1>2
      <3> QED  BY <1>4, <3>1, <3>2
    <2> QED  BY <1>4, <2>1 DEF RefsMatch
  <1>9. ASSUME NEW a \in Procs, st'[a] = "asleep"
        PROVE  Slumber(a)'
    <2>1. st[a] = "asleep" /\ call'[a] = call[a] /\ fds'[a] = fds[a] /\ CallOK(a)
      BY <1>1, <1>9 DEF Types
    <2>2. PipeOf(a) \in Pipes
      BY <2>1, CallUsed
    <2>3. PICK o \in Pipes : o = PipeOf(a) /\ g_pipes'[o].count = g_pipes[o].count
      BY <1>4, <2>2
    <2>4. \A w \in BOOLEAN : Counted(o, w) => Counted(o, w)'
      BY <1>2, <2>3
    <2> QED  BY <2>1, <2>3, <2>4, SlumberOn
  <1>10. NobodySleepsInVain'
    BY <1>9 DEF NobodySleepsInVain, Slumber
  <1> QED  BY <1>5, <1>6, <1>7, <1>8, <1>10

-----------------------------------------------------------------------------
(* Reading and writing *)

\* A call that ends without touching a pipe.
LEMMA FinishStep ==
  ASSUME Inv, NEW q \in Procs, st[q] = "call", NEW r \in RetT,
         Finish(q, r, st), UNCHANGED <<g_pipes, fds, gone>>
  PROVE  Inv'
  <1> USE DEF Inv, Finish
  <1>1. NoCall \in CallT
    BY EmptySeq DEF NoCall, CallT
  <1>2. Types'
    BY <1>1 DEF Types, States
  <1>3. \A a \in Procs : CallOK(a)'
    BY DEF Types, CallOK, PipeFds
  <1>4. \A p \in Pipes, w \in BOOLEAN : HeldEnds(p, w)' = HeldEnds(p, w)
    BY SameEnds DEF Types
  <1> QED  BY <1>2, <1>3, <1>4, QuietStep DEF Types

\* A call that moves bytes and wakes whoever sleeps on the pipe.
Moved(q, p, o) ==
  /\ o \in PipeT /\ g_pipes' = [g_pipes EXCEPT ![p] = o]
  /\ o.ref_r = g_pipes[p].ref_r /\ o.ref_w = g_pipes[p].ref_w
  /\ o.head = (o.tail + o.count) % BufSize

LEMMA MoveStep ==
  ASSUME Inv, NEW q \in Procs, st[q] = "call", NEW r \in RetT, NEW p, p = PipeOf(q),
         NEW o, Moved(q, p, o), Finish(q, r, WakeAll(p)), UNCHANGED <<fds, gone>>
  PROVE  Inv'
  <1> USE DEF Inv
  <1>1. p \in Pipes /\ g_pipes[p] \in PipeT
    BY CallUsed
  <1>2. /\ WakeAll(p) \in [Procs -> States]
        /\ \A a \in Procs :
             /\ (st[a] \notin {"call", "asleep"}) => WakeAll(p)[a] = st[a]
             /\ st[a] \in {"call", "asleep"} => WakeAll(p)[a] \in {"call", "asleep"}
             /\ WakeAll(p)[a] = "asleep" => st[a] = "asleep" /\ PipeOf(a) # p
    BY WakeFacts
  <1>3. /\ st' = [WakeAll(p) EXCEPT ![q] = "user"]
        /\ ret' = [ret EXCEPT ![q] = r] /\ call' = [call EXCEPT ![q] = NoCall]
    BY DEF Finish
  <1>4. NoCall \in CallT
    BY EmptySeq DEF NoCall, CallT
  <1>5. \A a \in Procs :
          /\ a # q /\ st[a] \notin {"call", "asleep"} => st'[a] = st[a]
          /\ a # q /\ st[a] \in {"call", "asleep"} => st'[a] \in {"call", "asleep"}
          /\ st'[a] = "asleep" => a # q /\ st[a] = "asleep" /\ PipeOf(a) # p
          /\ a # q => call'[a] = call[a]
          /\ st'[q] = "user" /\ call'[q] = NoCall
    BY <1>2, <1>3 DEF Types
  <1>6. Types'
    <2>1. g_pipes' \in [Pipes -> {FreePipe} \cup PipeT]
      BY DEF Moved, Types
    <2>2. st' \in [Procs -> States]
      BY <1>2, <1>3 DEF States
    <2> QED  BY <1>3, <1>4, <2>1, <2>2 DEF Types
  <1>7. \A a \in Procs : CallOK(a)'
    BY <1>5 DEF CallOK, PipeFds
  <1>8. /\ g_pipes'[p] = o
        /\ \A c \in Pipes \ {p} : g_pipes'[c] = g_pipes[c]
    BY <1>1 DEF Moved, Types
  <1>9. RingOK'
    BY <1>8 DEF RingOK, Moved
  <1>10. \A c \in Pipes, w \in BOOLEAN : HeldEnds(c, w)' = HeldEnds(c, w)
    <2>1. \A a \in Procs : st[a] # "none" <=> st'[a] # "none"
      BY <1>5 DEF Types
    <2> QED  BY <2>1, SameEnds
  <1>11. RefsMatch'
    <2>1. \A c \in Pipes : /\ g_pipes'[c].ref_r = g_pipes[c].ref_r
                           /\ g_pipes'[c].ref_w = g_pipes[c].ref_w
                           /\ g_pipes'[c].used = g_pipes[c].used
      BY <1>1, <1>8 DEF Moved, PipeT
    <2>2. \A c \in Pipes, w \in BOOLEAN : /\ Refs(c, w)' = Refs(c, w)
                                          /\ Counted(c, w)' <=> Counted(c, w)
      BY <1>10, SameCounted
    <2> QED  BY <2>1, <2>2, SameRefs
  <1>12. ASSUME NEW a \in Procs, st'[a] = "asleep"
         PROVE  Slumber(a)'
    <2>1. st[a] = "asleep" /\ call'[a] = call[a] /\ CallOK(a) /\ PipeOf(a) # p
      BY <1>5, <1>12
    <2>2. PipeOf(a) \in Pipes
      BY <2>1, CallUsed
    <2>3. fds'[a] = fds[a] /\ g_pipes'[PipeOf(a)] = g_pipes[PipeOf(a)]
      BY <1>8, <2>1, <2>2
    <2>5. PICK c \in Pipes : c = PipeOf(a) /\ g_pipes'[c].count = g_pipes[c].count
      BY <2>2, <2>3
    <2>6. \A v \in BOOLEAN : Counted(c, v) => Counted(c, v)'
      BY <1>10, <2>5, SameCounted
    <2> QED  BY <2>1, <2>3, <2>5, <2>6, SlumberOn
  <1>13. NobodySleepsInVain'
    BY <1>12 DEF NobodySleepsInVain, Slumber
  <1> QED  BY <1>6, <1>7, <1>9, <1>11, <1>13

\* A call that goes to sleep for a reason.
LEMMA AsleepStep ==
  ASSUME Inv, NEW q \in Procs, st[q] = "call", FallAsleep(q), UNCHANGED <<fds, gone>>, Slumber(q)
  PROVE  Inv'
  <1> USE DEF Inv, FallAsleep
  <1>1. Types'
    BY DEF Types, States
  <1>2. \A a \in Procs : CallOK(a)'
    BY DEF Types, CallOK, PipeFds
  <1>3. RingOK'
    BY DEF RingOK
  <1>4. \A p \in Pipes, w \in BOOLEAN : HeldEnds(p, w)' = HeldEnds(p, w)
    BY SameEnds DEF Types
  <1>0. \A p \in Pipes, w \in BOOLEAN : /\ Refs(p, w)' = Refs(p, w)
                                        /\ Counted(p, w)' <=> Counted(p, w)
    BY <1>4, SameCounted
  <1>5. RefsMatch'
    BY <1>0, SameRefs
  <1>6. ASSUME NEW a \in Procs, st'[a] = "asleep"
        PROVE  Slumber(a)'
    <2>1. a = q \/ st[a] = "asleep"
      BY <1>6 DEF Types
    <2>2. Slumber(a) /\ st[a] \in {"call", "asleep"}
      BY <2>1, SleepDef
    <2>3. PipeOf(a) \in Pipes
      BY <2>2, CallUsed
    <2>4. PipeOf(a)' = PipeOf(a)
      BY DEF PipeOf
    <2>5. Counted(PipeOf(a), TRUE)' <=> Counted(PipeOf(a), TRUE)
      BY <1>4, <2>3, <2>4 DEF HeldEnds, Counted
    <2>6. Counted(PipeOf(a), FALSE)' <=> Counted(PipeOf(a), FALSE)
      BY <1>4, <2>3, <2>4 DEF HeldEnds, Counted
    <2> QED  BY <2>2, <2>4, <2>5, <2>6 DEF Slumber
  <1>7. NobodySleepsInVain'
    BY <1>6 DEF NobodySleepsInVain, Slumber
  <1> QED  BY <1>1, <1>2, <1>3, <1>5, <1>7

\* The bytes a read takes are bytes of the ring.
LEMMA RingGetType ==
  ASSUME NEW o \in PipeT, NEW k \in Nat
  PROVE  RingGet(o, k) \in Seq(Bytes) /\ Len(RingGet(o, k)) = k
  <1>1. \A i \in 1 .. k : o.buf[(o.tail + i - 1) % BufSize] \in Bytes
    <2>1. ASSUME NEW i \in 1 .. k PROVE o.buf[(o.tail + i - 1) % BufSize] \in Bytes
      <3>1. (o.tail + i - 1) \in Int
        BY DEF PipeT, Positions
      <3> QED  BY <3>1, ModPositions DEF PipeT
    <2> QED  BY <2>1
  <1>2. RingGet(o, k) \in [1 .. k -> Bytes]
    BY <1>1 DEF RingGet
  <1> QED  BY <1>2, SeqDef

LEMMA ReadMoves ==
  ASSUME Inv, NEW q \in Procs, st[q] = "call", NEW p, p = PipeOf(q), NEW g, g = g_pipes[p],
         NEW k \in 1 .. g.count, NEW o,
         o = [g EXCEPT !.tail = (g.tail + k) % BufSize, !.count = g.count - k],
         g_pipes' = [g_pipes EXCEPT ![p] = o]
  PROVE  /\ Moved(q, p, o) /\ o.count = g.count - k
         /\ o.tail = (g.tail + k) % BufSize
         /\ o.buf = g.buf /\ o.head = g.head
  <1>1. p \in Pipes /\ g \in PipeT /\ g.head = (g.tail + g.count) % BufSize
    BY CallUsed DEF Inv, RingOK
  <1>2. /\ g.tail \in 0 .. BufSize - 1 /\ g.count \in 0 .. BufSize /\ BufSize \in Nat \ {0}
        /\ g.head \in Positions
    BY <1>1, PipeAssumption DEF PipeT, Positions
  <1>3. (g.tail + k) % BufSize \in Positions
    BY <1>2, ModPositions
  <1>4. g.count - k \in 0 .. BufSize
    BY <1>2
  <1>5. /\ o \in PipeT /\ o.count = g.count - k
        /\ o.tail = (g.tail + k) % BufSize /\ o.buf = g.buf /\ o.head = g.head
        /\ o.ref_r = g.ref_r /\ o.ref_w = g.ref_w
    BY <1>1, <1>3, <1>4 DEF PipeT
  <1>6. (g.tail + g.count) % BufSize = (((g.tail + k) % BufSize) + (g.count - k)) % BufSize
    <2>1. g.count - k \in Nat /\ k \in Nat /\ k + (g.count - k) = g.count
      BY <1>2
    <2>2. g.tail \in Positions /\ k + (g.count - k) <= BufSize
      BY <1>2, <2>1 DEF Positions
    <2> QED  BY <2>1, <2>2, ModAdd
  <1>8. Moved(q, p, o)
    BY <1>1, <1>5, <1>6 DEF Moved
  <1> QED  BY <1>5, <1>8

LEMMA ReadStep ==
  ASSUME Inv, NEW q \in Procs, Read(q)
  PROVE  Inv'
  <1> DEFINE p == PipeOf(q)
             g == g_pipes[p]
             k == Minimum(call[q].n, g.count)
  <1>1. /\ st[q] = "call" /\ call[q].op = "read" /\ UNCHANGED <<fds, gone>>
        /\ \/ /\ g.count > 0
              /\ g_pipes' = [g_pipes EXCEPT ![p] =
                               [g EXCEPT !.tail = (g.tail + k) % BufSize,
                                         !.count = g.count - k]]
              /\ Finish(q, Data(RingGet(g, k)), WakeAll(p))
           \/ Finish(q, Eof, st) /\ UNCHANGED g_pipes
           \/ g.count = 0 /\ g.ref_w > 0 /\ FallAsleep(q)
    BY DEF Read
  <1>2. p \in Pipes /\ g \in PipeT /\ call[q].n \in 1 .. MaxLen
    BY <1>1, CallUsed DEF Inv
  <1>3. CASE /\ g.count > 0
             /\ g_pipes' = [g_pipes EXCEPT ![p] =
                              [g EXCEPT !.tail = (g.tail + k) % BufSize,
                                        !.count = g.count - k]]
             /\ Finish(q, Data(RingGet(g, k)), WakeAll(p))
    <2>1. k \in 1 .. g.count
      <3>1. g.count \in Nat /\ call[q].n \in Nat \ {0}
        <4> HIDE DEF g
        <4> QED  BY <1>2, PipeAssumption DEF PipeT
      <3> QED  BY <1>3, <3>1 DEF Minimum
    <2>2. PICK o : Moved(q, p, o)
      <3> DEFINE o == [g EXCEPT !.tail = (g.tail + k) % BufSize, !.count = g.count - k]
      <3>1. p = PipeOf(q) /\ g = g_pipes[p] /\ g_pipes' = [g_pipes EXCEPT ![p] = o]
        BY <1>3
      <3> HIDE DEF k, p, g
      <3>2. Moved(q, p, o)
        BY <1>1, <2>1, <3>1, ReadMoves
      <3> QED  BY <3>2
    <2>3. Data(RingGet(g, k)) \in RetT
      <3>1. k \in Nat
        BY <1>2, <2>1 DEF PipeT
      <3>2. RingGet(g, k) \in Seq(Bytes)
        BY <1>2, <3>1, RingGetType
      <3> QED  BY <3>2 DEF Data, RetT
    <2> HIDE DEF k, p, g
    <2>4. p = PipeOf(q)
      BY DEF p
    <2> QED  BY <1>1, <1>3, <2>2, <2>3, <2>4, MoveStep
  <1>4. CASE Finish(q, Eof, st) /\ UNCHANGED g_pipes
    <2>1. Eof \in RetT
      BY EmptySeq DEF Eof, RetT
    <2> QED  BY <1>1, <1>4, <2>1, FinishStep
  <1>5. CASE g.count = 0 /\ g.ref_w > 0 /\ FallAsleep(q)
    <2>1. Counted(p, TRUE)
      <3>1. g.ref_w = Refs(p, TRUE)
        BY <1>2 DEF Inv, RefsMatch
      <3>2. g.ref_w > 0
        BY <1>5
      <3> HIDE DEF g, p
      <3>3. ASSUME NEW v \in BOOLEAN, Refs(p, v) > 0 PROVE Counted(p, v)
        BY <1>2, <3>3, RefsFacts DEF Inv
      <3> QED  BY <3>1, <3>2, <3>3
    <2>2. Slumber(q)
      BY <1>1, <1>5, <2>1 DEF Slumber
    <2> QED  BY <1>1, <1>5, <2>2, AsleepStep
  <1> QED  BY <1>1, <1>3, <1>4, <1>5

\* The object after a write, and what it holds.
LEMMA RingPutFacts ==
  ASSUME NEW g \in PipeT, g.head = (g.tail + g.count) % BufSize,
         NEW s \in Seq(Bytes), Len(s) <= BufSize - g.count
  PROVE  LET o == RingPut(g, s)
         IN /\ o \in PipeT /\ o.head = (o.tail + o.count) % BufSize
            /\ o.ref_r = g.ref_r /\ o.ref_w = g.ref_w
            /\ o.tail = g.tail /\ o.count = g.count + Len(s)
            /\ \A i \in 1 .. o.count :
                 o.buf[(o.tail + i - 1) % BufSize] =
                   IF i <= g.count THEN g.buf[(g.tail + i - 1) % BufSize] ELSE s[i - g.count]
  <1> DEFINE L == Len(s)
             B == [i \in 0 .. BufSize - 1 |->
                     LET j == (i - g.head) % BufSize
                     IN IF j < Len(s) THEN s[j + 1] ELSE g.buf[i]]
             o == RingPut(g, s)
  <1>0. g.tail \in Positions /\ g.head \in Positions /\ g.buf \in [Positions -> Bytes]
    BY DEF PipeT
  <1>1. /\ BufSize \in Nat \ {0} /\ L \in Nat /\ g.tail \in Int /\ g.head \in Int
        /\ g.tail \in 0 .. BufSize - 1 /\ g.head \in 0 .. BufSize - 1
        /\ g.count \in 0 .. BufSize /\ g.count \in Nat /\ g.count + L \in 0 .. BufSize
        /\ g.buf \in [0 .. BufSize - 1 -> Bytes]
    BY PipeAssumption, LenProperties DEF PipeT, Positions
  <1>2. B \in [Positions -> Bytes]
    <2>1. ASSUME NEW i \in 0 .. BufSize - 1
          PROVE  (IF (i - g.head) % BufSize < Len(s) THEN s[((i - g.head) % BufSize) + 1]
                  ELSE g.buf[i]) \in Bytes
      <3>1. (i - g.head) % BufSize \in 0 .. BufSize - 1
        BY <1>1, i - g.head \in Int, ModPositions DEF Positions
      <3>2. CASE (i - g.head) % BufSize < Len(s)
        <4>1. ((i - g.head) % BufSize) + 1 \in 1 .. Len(s)
          <5>1. \A x \in 0 .. BufSize - 1 : x < L => x + 1 \in 1 .. L
            BY <1>1
          <5> QED  BY <3>1, <3>2, <5>1
        <4> QED  BY <3>2, <4>1, ElementOfSeq
      <3>3. CASE ~((i - g.head) % BufSize < Len(s))
        BY <1>1, <3>3
      <3> QED  BY <3>2, <3>3
    <2> QED  BY <1>1, <2>1 DEF Positions
  <1>3. (g.head + L) % BufSize \in Positions
    <2>1. g.head + L \in Int
      BY <1>1
    <2> QED  BY <2>1, ModPositions
  <1>4. o = [g EXCEPT !.buf = B, !.head = (g.head + L) % BufSize, !.count = g.count + L]
    BY DEF RingPut
  <1>5. /\ o \in PipeT /\ o.ref_r = g.ref_r /\ o.ref_w = g.ref_w /\ o.tail = g.tail
        /\ o.count = g.count + L /\ o.buf = B /\ o.head = (g.head + L) % BufSize
    <2> HIDE DEF B, o, L
    <2> QED  BY <1>1, <1>2, <1>3, <1>4 DEF PipeT
  <1>6. o.head = (o.tail + o.count) % BufSize
    <2> HIDE DEF B, o, L
    <2>1. (((g.tail + g.count) % BufSize) + L) % BufSize = (g.tail + (g.count + L)) % BufSize
      <3>1. g.count + L <= BufSize /\ g.count \in Nat /\ L \in Nat
        BY <1>1
      <3> QED  BY <1>0, <3>1, ModAdd
    <2> QED  BY <1>5, <2>1
  <1>7. ASSUME NEW i \in 1 .. o.count
        PROVE  o.buf[(o.tail + i - 1) % BufSize] =
                 IF i <= g.count THEN g.buf[(g.tail + i - 1) % BufSize] ELSE s[i - g.count]
    <2> DEFINE m == i - 1
               c == (g.tail + i - 1) % BufSize
    <2>1. m \in Positions /\ i \in Int /\ g.tail + i - 1 = g.tail + m /\ m \in 0 .. BufSize - 1
      <3> HIDE DEF o
      <3> QED  BY SMTT(30), <1>1, <1>5 DEF Positions
    <2>2. c \in 0 .. BufSize - 1
      <3>1. g.tail + i - 1 \in Int
        BY <1>1, <2>1
      <3> QED  BY <1>1, <3>1, ModPositions DEF Positions
    <2>3. (c - g.head) % BufSize = IF m >= g.count THEN m - g.count ELSE m - g.count + BufSize
      <3>1. (((g.tail + m) % BufSize) - ((g.tail + g.count) % BufSize)) % BufSize
              = IF m >= g.count THEN m - g.count ELSE m - g.count + BufSize
        <4> HIDE DEF m
        <4> QED  BY <1>0, <1>1, <2>1, ModOffset
      <3>2. c = (g.tail + m) % BufSize /\ g.head = (g.tail + g.count) % BufSize
        BY <2>1
      <3> HIDE DEF c, m
      <3> QED  BY <3>1, <3>2
    <2> HIDE DEF c
    <2>4. B[c] = IF (c - g.head) % BufSize < L THEN s[((c - g.head) % BufSize) + 1] ELSE g.buf[c]
      BY <2>2
    <2>5. o.buf[(o.tail + i - 1) % BufSize] = B[c]
      <3> HIDE DEF B, o
      <3> QED  BY <1>5 DEF c
    <2> HIDE DEF B
    <2>6. CASE i <= g.count
      <3>1. (c - g.head) % BufSize = m - g.count + BufSize
        BY <1>1, <2>1, <2>3, <2>6
      <3>2. ~((c - g.head) % BufSize < L)
        BY <1>1, <2>1, <3>1
      <3> QED  BY <2>4, <2>5, <2>6, <3>2 DEF c
    <2>7. CASE ~(i <= g.count)
      <3>1. (c - g.head) % BufSize = m - g.count
        BY <1>1, <2>1, <2>3, <2>7
      <3>2. (c - g.head) % BufSize < L /\ ((c - g.head) % BufSize) + 1 = i - g.count
        <4>1. i <= g.count + L
          BY <1>5
        <4> HIDE DEF o, L
        <4> QED  BY SMTT(30), <1>1, <2>1, <3>1, <4>1
      <3> QED  BY <2>4, <2>5, <2>7, <3>2
    <2> QED  BY <2>6, <2>7
  <1> HIDE DEF o
  <1> QED  BY <1>5, <1>6, <1>7 DEF o

Writing(q, p, g, k) ==
  /\ q \in Procs /\ st[q] = "call" /\ call[q].op = "write" /\ p = PipeOf(q)
  /\ g = g_pipes[p] /\ g.count < BufSize /\ k = Minimum(call[q].n, BufSize - g.count)
  /\ g_pipes' = [g_pipes EXCEPT ![p] = RingPut(g, SubSeq(call[q].data, 1, k))]

LEMMA WriteMoves ==
  ASSUME Inv, NEW q, NEW p, NEW g, NEW k, Writing(q, p, g, k)
  PROVE  /\ Moved(q, p, RingPut(g, SubSeq(call[q].data, 1, k)))
         /\ k \in 1 .. BufSize - g.count
         /\ SubSeq(call[q].data, 1, k) \in Seq(Bytes)
         /\ Len(SubSeq(call[q].data, 1, k)) = k
  <1> USE DEF Writing
  <1> DEFINE s == SubSeq(call[q].data, 1, k)
  <1>1. /\ p \in Pipes /\ g \in PipeT /\ g.head = (g.tail + g.count) % BufSize
        /\ call[q].n \in 1 .. MaxLen /\ call[q].data \in [1 .. call[q].n -> Bytes]
    BY CallUsed DEF Inv, RingOK
  <1>2. k \in 1 .. BufSize - g.count /\ k \in 1 .. call[q].n
    <2>1. g.count \in 0 .. BufSize
      BY <1>1 DEF PipeT
    <2>2. call[q].n \in Nat \ {0} /\ BufSize \in Nat
      BY <1>1, PipeAssumption
    <2> QED  BY <2>1, <2>2 DEF Minimum
  <1>3. s \in Seq(Bytes) /\ Len(s) = k
    <2>1. \A i \in 1 .. k : call[q].data[i] \in Bytes
      BY <1>1, <1>2
    <2>2. k \in Int /\ 1 <= k
      BY <1>1, <1>2, PipeAssumption DEF PipeT
    <2> QED  BY <2>1, <2>2, SubSeqProperties
  <1>4. Len(s) <= BufSize - g.count
    <2> HIDE DEF s
    <2> QED  BY <1>1, <1>2, <1>3, PipeAssumption DEF PipeT
  <1> HIDE DEF s
  <1>5. /\ RingPut(g, s) \in PipeT
        /\ RingPut(g, s).head = (RingPut(g, s).tail + RingPut(g, s).count) % BufSize
        /\ RingPut(g, s).ref_r = g.ref_r /\ RingPut(g, s).ref_w = g.ref_w
    BY <1>1, <1>3, <1>4, RingPutFacts
  <1>6. Moved(q, p, RingPut(g, s))
    BY <1>5 DEF Moved, s
  <1> QED  BY <1>2, <1>3, <1>6 DEF s

LEMMA WriteStep ==
  ASSUME Inv, NEW q \in Procs, Write(q)
  PROVE  Inv'
  <1> DEFINE p == PipeOf(q)
             g == g_pipes[p]
             k == Minimum(call[q].n, BufSize - g.count)
             s == SubSeq(call[q].data, 1, k)
  <1>1. /\ st[q] = "call" /\ call[q].op = "write" /\ UNCHANGED <<fds, gone>>
        /\ \/ Finish(q, Refused, st) /\ UNCHANGED g_pipes
           \/ /\ g.count < BufSize
              /\ g_pipes' = [g_pipes EXCEPT ![p] = RingPut(g, s)]
              /\ Finish(q, Done, WakeAll(p))
           \/ g.count = BufSize /\ g.ref_r > 0 /\ FallAsleep(q)
    BY DEF Write
  <1>2. p \in Pipes /\ g \in PipeT
    BY <1>1, CallUsed DEF Inv
  <1>3. CASE /\ g.count < BufSize
             /\ g_pipes' = [g_pipes EXCEPT ![p] = RingPut(g, s)]
             /\ Finish(q, Done, WakeAll(p))
    <2>1. Done \in RetT
      BY EmptySeq DEF Done, RetT
    <2>2. p = PipeOf(q) /\ g = g_pipes[p] /\ k = Minimum(call[q].n, BufSize - g.count)
      OBVIOUS
    <2>3. /\ g.count < BufSize /\ Finish(q, Done, WakeAll(p))
          /\ g_pipes' = [g_pipes EXCEPT ![p] = RingPut(g, SubSeq(call[q].data, 1, k))]
      BY <1>3
    <2> HIDE DEF p, g, k, s
    <2>4. Moved(q, p, RingPut(g, SubSeq(call[q].data, 1, k)))
      <3>1. Writing(q, p, g, k)
        BY <1>1, <2>2, <2>3 DEF Writing
      <3> QED  BY <3>1, WriteMoves
    <2> QED  BY <1>1, <2>1, <2>2, <2>3, <2>4, MoveStep
  <1>4. CASE Finish(q, Refused, st) /\ UNCHANGED g_pipes
    <2>1. Refused \in RetT
      BY EmptySeq DEF Refused, RetT
    <2> QED  BY <1>1, <1>4, <2>1, FinishStep
  <1>5. CASE g.count = BufSize /\ g.ref_r > 0 /\ FallAsleep(q)
    <2>1. Counted(p, FALSE)
      <3>1. g.ref_r = Refs(p, FALSE)
        BY <1>2 DEF Inv, RefsMatch
      <3>2. g.ref_r > 0
        BY <1>5
      <3> HIDE DEF g, p
      <3>3. ASSUME NEW v \in BOOLEAN, Refs(p, v) > 0 PROVE Counted(p, v)
        BY <1>2, <3>3, RefsFacts DEF Inv
      <3> QED  BY <3>1, <3>2, <3>3
    <2>2. Slumber(q)
      BY <1>1, <1>5, <2>1 DEF Slumber
    <2> QED  BY <1>1, <1>5, <2>2, AsleepStep
  <1> QED  BY <1>1, <1>3, <1>4, <1>5

-----------------------------------------------------------------------------
(* The theorems *)

LEMMA InvInit ==
  ASSUME Init
  PROVE  Inv
  <1> USE DEF Init
  <1>1. Types
    <2>1. Free \in FdT /\ NoCall \in CallT /\ None \in RetT
      BY EmptySeq DEF FdT, NoCall, CallT, None, RetT
    <2>2. 0 \in 0 .. MaxForgotten
      BY PipeAssumption
    <2> QED  BY <2>1, <2>2 DEF Types, States
  <1>2. \A q \in Procs : CallOK(q)
    BY DEF CallOK
  <1>3. RingOK
    BY ModRing, PipeAssumption DEF RingOK, FreePipe
  <1>4. \A p \in Pipes, w \in BOOLEAN : HeldEnds(p, w) = {}
    BY DEF HeldEnds
  <1>5. RefsMatch
    <2>1. FreePipe.ref_r = 0 /\ FreePipe.ref_w = 0 /\ ~FreePipe.used
      BY DEF FreePipe
    <2>2. \A p \in Pipes, w \in BOOLEAN : Refs(p, w) = 0 /\ ~Counted(p, w)
      <3>1. \A p \in Pipes, w \in BOOLEAN : gone[p][w] = 0
        OBVIOUS
      <3>2. ASSUME NEW p \in Pipes, NEW w \in BOOLEAN
            PROVE  Refs(p, w) = 0 /\ ~Counted(p, w)
        <4>1. HeldEnds(p, w) = {} /\ gone[p][w] = 0
          BY <1>4, <3>1
        <4>2. Cardinality(HeldEnds(p, w)) = 0
          BY <4>1, FS_EmptySet
        <4> QED  BY <4>1, <4>2 DEF Refs, Counted
      <3> QED  BY <3>2
    <2> QED  BY <2>1, <2>2 DEF RefsMatch
  <1>6. NobodySleepsInVain
    BY DEF NobodySleepsInVain
  <1> QED  BY <1>1, <1>2, <1>3, <1>5, <1>6 DEF Inv

LEMMA InvNext ==
  ASSUME Inv, [Next]_vars
  PROVE  Inv'
  <1>1. CASE UNCHANGED vars
    <2>1. UNCHANGED <<g_pipes, fds, st, call, ret, gone>>
      BY <1>1 DEF vars
    <2>2. Types' /\ (\A q \in Procs : CallOK(q)') /\ Types
      BY <2>1 DEF Inv, Types, CallOK, PipeFds
    <2>3. \A p \in Pipes, w \in BOOLEAN : HeldEnds(p, w)' = HeldEnds(p, w)
      BY <2>1 DEF HeldEnds
    <2> QED  BY <2>1, <2>2, <2>3, QuietStep
  <1>2. ASSUME NEW q \in Procs,
               \/ Exec(q) \/ Exit(q) \/ Reap(q) \/ MakePipe(q) \/ MakePipeFails(q)
               \/ OpenFile(q) \/ Close(q) \/ Begin(q) \/ Read(q) \/ Write(q)
               \/ \E c \in Procs : Fork(q, c)
        PROVE  Inv'
    BY <1>2, ExecStep, ExitStep, ReapStep, MakePipeStep, MakePipeFailsStep, OpenFileStep,
       CloseStep, BeginStep, ReadStep, WriteStep, ForkStep
  <1> QED  BY <1>1, <1>2 DEF Next

\* The invariant holds in every reachable state.
THEOREM PipeInvariant == Spec => []Inv
  BY InvInit, InvNext, PTL DEF Spec

\* Every field stays in its range, and whoever reads, writes or sleeps does so
\* on a pipe end that it has open.
THEOREM PipeTypes == Spec => []TypeOK
  <1>1. Inv => TypeOK
    <2> SUFFICES ASSUME Inv PROVE TypeOK
      OBVIOUS
    <2> QED  BY DEF Inv, Types, CallOK, TypeOK, PipeT, FdT, States
  <1> QED  BY <1>1, PipeInvariant, PTL

\* The reference counts of fd_pipe, fd_close and fd_table_dup are exactly the
\* descriptors that refer to either end and the ones that task_wait_pid
\* collected open, and an object is out of the pool just as long as there is
\* one, for any numbers of processes, descriptors and forgotten ends that the 16
\* bits can count.
THEOREM CountsAreRight == Spec => []RefsMatch
  <1>1. Inv => RefsMatch
    BY DEF Inv
  <1> QED  BY <1>1, PipeInvariant, PTL

\* No wake-up is lost: fd_read and fd_write sleep only while the pipe is empty
\* or full and the other end was not closed by everybody who had it.
THEOREM SleepersHaveReason == Spec => []NobodySleepsInVain
  <1>1. Inv => NobodySleepsInVain
    BY DEF Inv
  <1> QED  BY <1>1, PipeInvariant, PTL

-----------------------------------------------------------------------------
(* The refinement of PipeStream *)

\* Nobody has no descriptor, and an end has a holder when it is counted.
LEMMA HolderFacts ==
  ASSUME NEW p \in Pipes, NEW w \in BOOLEAN
  PROVE  /\ Holders(p, w) = {} <=> ~Counted(p, w)
         /\ Holders(p, w)' = {} <=> ~Counted(p, w)'
         /\ Nobody \in Holders(p, w) <=> gone[p][w] > 0
         /\ Nobody \in Holders(p, w)' <=> gone'[p][w] > 0
         /\ Nobody \notin HeldEnds(p, w) /\ Nobody \notin HeldEnds(p, w)'
         /\ HeldEnds(p, w) \subseteq Holders(p, w)
         /\ Holders(p, w) \subseteq HeldEnds(p, w) \cup {Nobody}
         /\ HeldEnds(p, w)' \subseteq Holders(p, w)'
         /\ Holders(p, w)' \subseteq HeldEnds(p, w)' \cup {Nobody}
  <1>1. Nobody \notin Procs \X Fds
    <2>1. SUFFICES ASSUME <<"nobody", 0>> \in Procs \X Fds PROVE FALSE
      BY DEF Nobody
    <2>2. 0 \in Fds
      BY <2>1
    <2> QED  BY <2>2, PipeAssumption DEF Fds
  <1>2. Nobody \notin HeldEnds(p, w) /\ Nobody \notin HeldEnds(p, w)'
    BY <1>1, HeldEndsIn
  <1>3. /\ Holders(p, w) = HeldEnds(p, w) \cup (IF gone[p][w] > 0 THEN {Nobody} ELSE {})
        /\ Holders(p, w)' = HeldEnds(p, w)' \cup (IF gone'[p][w] > 0 THEN {Nobody} ELSE {})
    BY DEF Holders, Nobody
  <1> QED  BY <1>2, <1>3 DEF Counted

\* Holders stay when the ends and the forgotten ends do.
LEMMA SameHolders ==
  ASSUME NEW p \in Pipes, NEW w \in BOOLEAN, UNCHANGED gone, HeldEnds(p, w)' = HeldEnds(p, w)
  PROVE  Holders(p, w)' = Holders(p, w)
  BY DEF Holders, Nobody

\* What the mapping makes of one pipe, before and after a step.
LEMMA MapFacts ==
  ASSUME NEW p \in Pipes
  PROVE  /\ Contents[p] = RingGet(g_pipes[p], g_pipes[p].count)
         /\ Readers[p] = Holders(p, FALSE) /\ Writers[p] = Holders(p, TRUE)
         /\ Contents'[p] = RingGet(g_pipes'[p], g_pipes'[p].count)
         /\ Readers'[p] = Holders(p, FALSE)' /\ Writers'[p] = Holders(p, TRUE)'
  BY DEF Contents, Readers, Writers

\* The mapped functions are equal when they are equal pipe by pipe.
LEMMA MapSame ==
  /\ (\A p \in Pipes : Holders(p, FALSE)' = Holders(p, FALSE)) => Readers' = Readers
  /\ (\A p \in Pipes : Holders(p, TRUE)' = Holders(p, TRUE)) => Writers' = Writers
  /\ (\A p \in Pipes : Contents'[p] = Contents[p]) => Contents' = Contents
  BY DEF Contents, Readers, Writers

\* Nobody's ends are counted like everybody's.
LEMMA SameMap ==
  ASSUME UNCHANGED gone,
         \A p \in Pipes, w \in BOOLEAN : HeldEnds(p, w)' = HeldEnds(p, w)
  PROVE  Readers' = Readers /\ Writers' = Writers
  <1>1. \A p \in Pipes, w \in BOOLEAN : Holders(p, w)' = Holders(p, w)
    BY SameHolders
  <1> QED  BY <1>1, MapSame

LEMMA EmptyRing ==
  ASSUME NEW o, o.count = 0
  PROVE  RingGet(o, o.count) = <<>>
  <1>1. RingGet(o, 0) = [i \in {} |-> o.buf[(o.tail + i - 1) % BufSize]]
    BY DEF RingGet
  <1>2. RingGet(o, 0) \in [1 .. 0 -> Bytes]
    BY DEF RingGet
  <1>3. RingGet(o, 0) \in Seq(Bytes) /\ Len(RingGet(o, 0)) = 0
    BY <1>2, SeqDef, 0 \in Nat
  <1> QED  BY <1>3, EmptySeq

\* Steps the stream does not see.
LEMMA Unseen ==
  ASSUME UNCHANGED <<g_pipes, ret, gone>>,
         \A p \in Pipes, w \in BOOLEAN : HeldEnds(p, w)' = HeldEnds(p, w)
  PROVE  UNCHANGED Stream!vars
  <1>1. Contents' = Contents
    BY DEF Contents
  <1>2. Readers' = Readers /\ Writers' = Writers
    BY SameMap
  <1> QED  BY <1>1, <1>2 DEF Stream!vars

LEMMA Forgotten ==
  ASSUME UNCHANGED <<g_pipes, gone>>, NEW q \in Procs, ret' = [ret EXCEPT ![q] = None],
         \A p \in Pipes, w \in BOOLEAN : HeldEnds(p, w)' = HeldEnds(p, w)
  PROVE  Stream!Forget(q)
  <1>1. Contents' = Contents
    BY DEF Contents
  <1>2. Readers' = Readers /\ Writers' = Writers
    BY SameMap
  <1> QED  BY <1>1, <1>2 DEF Stream!Forget, Stream!None, None

\* fd_pipe creates a stream that is empty and held at both ends.
LEMMA CreateStep ==
  ASSUME Inv, NEW q \in Procs, MakePipe(q)
  PROVE  \E p \in Pipes : Stream!Create(p)
  <1>1. PICK p \in Pipes, r \in Fds, w \in Fds : NewPipe(q, p, r, w)
    BY MakePipeFacts
  <1>2. Types /\ st[q] # "none" /\ UNCHANGED <<st, ret, gone>>
    BY DEF MakePipe, Inv
  <1>3. /\ HeldEnds(p, FALSE)' = {<<q, r>>} /\ HeldEnds(p, TRUE)' = {<<q, w>>}
        /\ \A o \in Pipes \ {p}, v \in BOOLEAN : HeldEnds(o, v)' = HeldEnds(o, v)
    BY <1>1, <1>2, MakePipeEnds
  <1>4. /\ g_pipes[p].count = 0 /\ g_pipes'[p].count = 0
        /\ \A o \in Pipes \ {p} : g_pipes'[o] = g_pipes[o]
    <2>1. FreePipe.count = 0 /\ [Allocated EXCEPT !.ref_r = 1, !.ref_w = 1].count = 0
      BY DEF FreePipe, Allocated
    <2> QED  BY <1>1, <1>2, <2>1 DEF NewPipe, Types
  <1>5. Contents[p] = <<>> /\ Contents'[p] = <<>>
    BY <1>4, EmptyRing, MapFacts
  <1>6. Contents' = Contents
    <2>1. \A o \in Pipes : Contents'[o] = Contents[o]
      BY <1>4, <1>5, MapFacts
    <2> QED  BY <2>1, MapSame
  <1>7. /\ Readers[p] = {} /\ Writers[p] = {} /\ Readers'[p] # {} /\ Writers'[p] # {}
        /\ Nobody \notin Readers'[p] \cup Writers'[p]
        /\ \A o \in Pipes \ {p} : Readers'[o] = Readers[o] /\ Writers'[o] = Writers[o]
    <2>1. Readers[p] = {} /\ Writers[p] = {}
      <3>1. ASSUME NEW v \in BOOLEAN PROVE ~Counted(p, v)
        <4>1. HeldEnds(p, v) = {} /\ gone[p][v] = 0
          BY <1>1 DEF NewPipe
        <4> QED  BY <4>1 DEF Counted
      <3> QED  BY <3>1, HolderFacts, MapFacts
    <2>2. Readers'[p] # {} /\ Writers'[p] # {}
      <3>1. HeldEnds(p, FALSE)' # {} /\ HeldEnds(p, TRUE)' # {}
        BY <1>3
      <3> QED  BY <3>1, HolderFacts, MapFacts
    <2>3. Nobody \notin Readers'[p] \cup Writers'[p]
      <3>1. \A v \in BOOLEAN : ~(gone'[p][v] > 0)
        BY <1>1, <1>2 DEF NewPipe
      <3>2. \A v \in BOOLEAN : Nobody \notin Holders(p, v)'
        BY <3>1, HolderFacts, Zenon
      <3> QED  BY <3>2, MapFacts
    <2>4. \A o \in Pipes \ {p}, v \in BOOLEAN : Holders(o, v)' = Holders(o, v)
      BY <1>2, <1>3, SameHolders
    <2>5. \A o \in Pipes \ {p} : Readers'[o] = Readers[o] /\ Writers'[o] = Writers[o]
      BY ZenonT(60), <2>4, MapFacts
    <2> QED  BY <2>1, <2>2, <2>3, <2>5
  <1>8. Stream!Create(p)
    BY <1>2, <1>5, <1>6, <1>7 DEF Stream!Create
  <1> QED  BY <1>8

\* fork shares the ends of the parent.
LEMMA ShareStep ==
  ASSUME Inv, NEW q \in Procs, NEW c \in Procs, Fork(q, c)
  PROVE  Stream!Share
  <1>1. \A p \in Pipes, w \in BOOLEAN :
           /\ HeldEnds(p, w) \subseteq HeldEnds(p, w)'
           /\ HeldEnds(p, w) = {} => HeldEnds(p, w)' = {}
           /\ UNCHANGED gone
    BY ForkEnds
  <1>2. ASSUME NEW p \in Pipes PROVE Contents'[p] = Contents[p]
    <2>1. g_pipes'[p] = [g_pipes[p] EXCEPT !.ref_r = Plus(@, Ends(q, p, FALSE)),
                                           !.ref_w = Plus(@, Ends(q, p, TRUE))]
      BY DEF Fork, Dup
    <2>2. /\ g_pipes'[p].count = g_pipes[p].count /\ g_pipes'[p].tail = g_pipes[p].tail
          /\ g_pipes'[p].buf = g_pipes[p].buf
      <3>1. CASE g_pipes[p] = FreePipe
        BY <2>1, <3>1 DEF FreePipe
      <3>2. CASE g_pipes[p] \in PipeT
        BY <2>1, <3>2 DEF PipeT
      <3> QED  BY <3>1, <3>2 DEF Inv, Types
    <2>3. RingGet(g_pipes'[p], g_pipes[p].count) = RingGet(g_pipes[p], g_pipes[p].count)
      BY <2>2 DEF RingGet
    <2> QED  BY <2>2, <2>3, MapFacts
  <1>3. Contents' = Contents /\ UNCHANGED ret
    BY <1>2, MapSame DEF Fork
  <1>4. \A p \in Pipes : /\ Readers[p] \subseteq Readers'[p] /\ Writers[p] \subseteq Writers'[p]
                         /\ Readers[p] = {} => Readers'[p] = {}
                         /\ Writers[p] = {} => Writers'[p] = {}
    <2>1. \A p \in Pipes, w \in BOOLEAN : /\ Holders(p, w) \subseteq Holders(p, w)'
                                          /\ Holders(p, w) = {} => Holders(p, w)' = {}
      BY ZenonT(60), <1>1 DEF Holders, Nobody
    <2>2. ASSUME NEW p \in Pipes, NEW w \in BOOLEAN
          PROVE  /\ Holders(p, w) \subseteq Holders(p, w)'
                 /\ Holders(p, w) = {} => Holders(p, w)' = {}
      BY <2>1
    <2>3. ASSUME NEW p \in Pipes
          PROVE  /\ Readers[p] \subseteq Readers'[p] /\ Writers[p] \subseteq Writers'[p]
                 /\ Readers[p] = {} => Readers'[p] = {}
                 /\ Writers[p] = {} => Writers'[p] = {}
      BY <2>2, MapFacts
    <2> QED  BY <2>3
  <1> QED  BY <1>3, <1>4 DEF Stream!Share

\* A collection leaves the ends that were open to nobody.
LEMMA AbandonStep ==
  ASSUME Inv, NEW q \in Procs, Reap(q)
  PROVE  Stream!Abandon
  <1>1. Contents' = Contents /\ UNCHANGED ret
    BY DEF Reap, Contents
  <1>2. ASSUME NEW p \in Pipes, NEW w \in BOOLEAN
        PROVE  Stream!Left(Holders(p, w), Holders(p, w)')
    <2>1. /\ HeldEnds(p, w)' \subseteq HeldEnds(p, w) /\ (Counted(p, w)' <=> Counted(p, w))
          /\ gone[p][w] > 0 => gone'[p][w] > 0
      <3>1. /\ gone'[p][w] >= gone[p][w] /\ gone'[p][w] \in Nat /\ gone[p][w] \in Nat
            /\ HeldEnds(p, w)' \subseteq HeldEnds(p, w) /\ (Counted(p, w)' <=> Counted(p, w))
        BY ReapEnds, PipeAssumption DEF Inv, Types
      <3> QED  BY <3>1
    <2>2. Holders(p, w)' \subseteq Holders(p, w) \cup {Nobody}
      BY <2>1, HolderFacts
    <2>3. Holders(p, w) = {} <=> Holders(p, w)' = {}
      BY <2>1, HolderFacts
    <2>4. Nobody \in Holders(p, w) => Nobody \in Holders(p, w)'
      BY <2>1, HolderFacts
    <2> QED  BY <2>2, <2>3, <2>4 DEF Stream!Left
  <1>3. ASSUME NEW p \in Pipes
        PROVE  Stream!Left(Readers[p], Readers'[p]) /\ Stream!Left(Writers[p], Writers'[p])
    BY <1>2, MapFacts
  <1> QED  BY <1>1, <1>3 DEF Stream!Abandon

\* fd_close drops an end; the bytes go with the last one.
LEMMA DropStep ==
  ASSUME Inv, NEW q \in Procs, NEW f \in PipeFds(q), st[q] \in {"user", "exiting", "exposed"},
         CloseEnd(q, f)
  PROVE  \E p \in Pipes : Stream!Drop(p)
  <1>1. PICK p \in Pipes, w \in BOOLEAN :
           f \in Fds /\ fds[q][f] = [pipe |-> p, writable |-> w] /\ g_pipes[p] \in PipeT
    <2>1. st[q] # "none" /\ f \in Fds
      BY DEF PipeFds
    <2>2. /\ fds[q][f].pipe \in Pipes /\ fds[q][f].writable \in BOOLEAN
          /\ fds[q][f] = [pipe |-> fds[q][f].pipe, writable |-> fds[q][f].writable]
          /\ g_pipes[fds[q][f].pipe] \in PipeT
      BY <2>1, EndsUsed DEF Inv
    <2> QED  BY <2>1, <2>2, Zenon
  <1>2. /\ fds' = [fds EXCEPT ![q][f] = Free]
        /\ UNCHANGED <<call, ret, gone>>
    BY <1>1 DEF CloseEnd
  <1>3. \A a \in Procs : st'[a] = "none" <=> st[a] = "none"
    BY ClosedStates DEF Inv
  <1>4. /\ HeldEnds(p, w)' = HeldEnds(p, w) \ {<<q, f>>}
        /\ \A o \in Pipes, v \in BOOLEAN :
             (o # p \/ v # w) => HeldEnds(o, v)' = HeldEnds(o, v)
    <2>1. Types /\ Closing(q, f, p, w)
      BY <1>1, <1>2, <1>3 DEF Inv, Closing
    <2> QED  BY <2>1, CloseEnds
  <1>5. /\ \A o \in Pipes \ {p} : g_pipes'[o] = g_pipes[o]
        /\ UNCHANGED gone
        /\ LET R == Refs(p, FALSE)'
               W == Refs(p, TRUE)'
           IN /\ R \in 0 .. RefMax /\ W \in 0 .. RefMax
              /\ ~Counted(p, FALSE)' /\ ~Counted(p, TRUE)' <=> R = 0 /\ W = 0
              /\ g_pipes'[p] = IF R = 0 /\ W = 0 THEN FreePipe
                               ELSE [g_pipes[p] EXCEPT !.ref_r = R, !.ref_w = W]
        /\ g_pipes' \in [Pipes -> {FreePipe} \cup PipeT]
    <2>1. fds[q][f] = [pipe |-> p, writable |-> w]
      BY <1>1, Zenon
    <2> HIDE DEF Inv
    <2> QED  BY <2>1, CloseObject, Zenon
  <1> DEFINE R == Refs(p, FALSE)'
             W == Refs(p, TRUE)'
             Last == ~Counted(p, FALSE)' /\ ~Counted(p, TRUE)'
  <1>6. Contents'[p] = IF Last THEN <<>> ELSE Contents[p]
    <2>1. CASE Last
      <3>1. g_pipes'[p] = FreePipe
        BY <1>5, <2>1
      <3>2. g_pipes'[p].count = 0
        BY <3>1 DEF FreePipe
      <3> QED  BY <2>1, <3>2, EmptyRing, MapFacts
    <2>2. CASE ~Last
      <3>1. g_pipes'[p] = [g_pipes[p] EXCEPT !.ref_r = R, !.ref_w = W]
        BY <1>5, <2>2
      <3> HIDE DEF R, W
      <3>2. /\ g_pipes'[p].count = g_pipes[p].count /\ g_pipes'[p].tail = g_pipes[p].tail
            /\ g_pipes'[p].buf = g_pipes[p].buf
        BY <1>1, <3>1 DEF PipeT
      <3>3. RingGet(g_pipes'[p], g_pipes[p].count) = RingGet(g_pipes[p], g_pipes[p].count)
        BY <3>2 DEF RingGet
      <3> QED  BY <2>2, <3>2, <3>3, MapFacts
    <2> QED  BY <2>1, <2>2
  <1>7. \A o \in Pipes \ {p} : Contents'[o] = Contents[o]
    BY ZenonT(60), <1>5, MapFacts
  <1>8. Contents' = [Contents EXCEPT ![p] = IF Readers'[p] = {} /\ Writers'[p] = {}
                                            THEN <<>> ELSE @]
    <2>1. Last <=> Readers'[p] = {} /\ Writers'[p] = {}
      BY HolderFacts, MapFacts
    <2> HIDE DEF Last
    <2> QED  BY <1>6, <1>7, <2>1 DEF Contents
  <1>9. /\ Readers'[p] \subseteq Readers[p] /\ Writers'[p] \subseteq Writers[p]
        /\ Nobody \in Readers[p] => Nobody \in Readers'[p]
        /\ Nobody \in Writers[p] => Nobody \in Writers'[p]
        /\ \A o \in Pipes \ {p} : Readers'[o] = Readers[o] /\ Writers'[o] = Writers[o]
    <2>1. ASSUME NEW v \in BOOLEAN
          PROVE  /\ Holders(p, v)' \subseteq Holders(p, v)
                 /\ Nobody \in Holders(p, v) => Nobody \in Holders(p, v)'
      <3>1. HeldEnds(p, v)' \subseteq HeldEnds(p, v)
        BY <1>4
      <3>2. /\ Holders(p, v) = HeldEnds(p, v) \cup (IF gone[p][v] > 0 THEN {Nobody} ELSE {})
            /\ Holders(p, v)' = HeldEnds(p, v)' \cup (IF gone[p][v] > 0 THEN {Nobody} ELSE {})
            /\ Nobody \notin HeldEnds(p, v)
        BY <1>2, HolderFacts DEF Holders, Nobody
      <3> QED  BY <3>1, <3>2
    <2>2. \A o \in Pipes \ {p}, v \in BOOLEAN : Holders(o, v)' = Holders(o, v)
      BY <1>2, <1>4, SameHolders
    <2>3. \A o \in Pipes \ {p} : Readers'[o] = Readers[o] /\ Writers'[o] = Writers[o]
      BY ZenonT(60), <2>2, MapFacts
    <2> QED  BY <2>1, <2>3, MapFacts
  <1>10. Stream!Drop(p)
    BY <1>2, <1>8, <1>9 DEF Stream!Drop
  <1> QED  BY <1>10

\* Reading takes the front of the stream and leaves the rest.
LEMMA RingSplit ==
  ASSUME NEW g \in PipeT, NEW o \in PipeT, NEW k \in 1 .. g.count,
         o.count = g.count - k, o.tail = (g.tail + k) % BufSize, o.buf = g.buf
  PROVE  LET s == RingGet(g, g.count)
         IN /\ s \in Seq(Bytes) /\ Len(s) = g.count
            /\ RingGet(g, k) = SubSeq(s, 1, k)
            /\ RingGet(o, o.count) = SubSeq(s, k + 1, Len(s))
  <1> DEFINE s == RingGet(g, g.count)
  <1>1. /\ g.count \in Nat /\ k \in Nat /\ o.count \in Nat /\ g.tail \in Positions
        /\ g.count <= BufSize /\ k <= g.count /\ 1 <= k
    BY PipeAssumption DEF PipeT
  <1>2. s \in Seq(Bytes) /\ Len(s) = g.count
    BY <1>1, RingGetType
  <1>3. \A i \in 1 .. g.count : s[i] = g.buf[(g.tail + i - 1) % BufSize]
    BY DEF RingGet
  <1>4. \A i \in 1 .. g.count : s[i] \in Bytes
    BY <1>2, ElementOfSeq
  <1> HIDE DEF s
  <1>5. RingGet(g, k) = SubSeq(s, 1, k)
    <2>1. RingGet(g, k) \in Seq(Bytes) /\ Len(RingGet(g, k)) = k
      BY <1>1, RingGetType
    <2>2. \A i \in 1 .. k : s[i] \in Bytes
      BY <1>1, <1>4
    <2>3. /\ SubSeq(s, 1, k) \in Seq(Bytes) /\ Len(SubSeq(s, 1, k)) = k
          /\ \A i \in 1 .. k : SubSeq(s, 1, k)[i] = s[i]
      BY <1>1, <2>2, SubSeqProperties
    <2>4. ASSUME NEW i \in 1 .. k PROVE RingGet(g, k)[i] = SubSeq(s, 1, k)[i]
      <3>1. RingGet(g, k)[i] = g.buf[(g.tail + i - 1) % BufSize]
        BY DEF RingGet
      <3>2. i \in 1 .. g.count
        BY <1>1
      <3> QED  BY <1>3, <2>3, <3>1, <3>2
    <2> QED  BY <2>1, <2>3, <2>4, SeqEqual
  <1>6. RingGet(o, o.count) = SubSeq(s, k + 1, Len(s))
    <2> DEFINE u == SubSeq(s, k + 1, Len(s))
    <2>1. RingGet(o, o.count) \in Seq(Bytes) /\ Len(RingGet(o, o.count)) = o.count
      BY <1>1, RingGetType
    <2>2. \A i \in k + 1 .. Len(s) : s[i] \in Bytes
      BY <1>1, <1>2, <1>4
    <2>3. /\ u \in Seq(Bytes) /\ Len(u) = IF k + 1 <= Len(s) THEN Len(s) - (k + 1) + 1 ELSE 0
          /\ \A i \in 1 .. Len(s) - (k + 1) + 1 : u[i] = s[k + 1 + i - 1]
      BY <1>1, <1>2, <2>2, SubSeqProperties
    <2>4. Len(u) = o.count /\ \A i \in 1 .. o.count : u[i] = s[k + i]
      <3> HIDE DEF u
      <3>1. Len(s) - (k + 1) + 1 = o.count /\ Len(u) = o.count
        BY <1>1, <1>2, <2>3
      <3>2. \A i \in 1 .. o.count : k + 1 + i - 1 = k + i
        BY <1>1
      <3> QED  BY <2>3, <3>1, <3>2
    <2> HIDE DEF u
    <2>5. ASSUME NEW i \in 1 .. o.count PROVE RingGet(o, o.count)[i] = u[i]
      <3>1. RingGet(o, o.count)[i] = g.buf[(((g.tail + k) % BufSize) + i - 1) % BufSize]
        BY DEF RingGet
      <3>2. i - 1 \in Nat /\ k + (i - 1) <= BufSize /\ k + i \in 1 .. g.count /\ i \in Int
        BY <1>1, PipeAssumption
      <3>3. (((g.tail + k) % BufSize) + (i - 1)) % BufSize = (g.tail + (k + (i - 1))) % BufSize
        BY <1>1, <3>2, ModAdd
      <3>4. (g.tail + k) % BufSize \in Int
        <4>1. g.tail + k \in Int
          BY <1>1 DEF Positions
        <4> QED  BY <4>1, ModPositions DEF Positions
      <3>5. ((g.tail + k) % BufSize) + i - 1 = ((g.tail + k) % BufSize) + (i - 1)
        BY <3>2, <3>4
      <3>6. g.tail + (k + (i - 1)) = g.tail + (k + i) - 1
        BY <1>1, <3>2 DEF Positions
      <3>7. u[i] = g.buf[(g.tail + (k + i) - 1) % BufSize]
        BY <1>3, <2>4, <3>2
      <3> QED  BY <3>1, <3>3, <3>5, <3>6, <3>7
    <2> QED  BY <2>1, <2>3, <2>4, <2>5, SeqEqual DEF u
  <1> QED  BY <1>2, <1>5, <1>6 DEF s

LEMMA TakeStep ==
  ASSUME Inv, NEW q \in Procs, Read(q)
  PROVE  (\E p \in Pipes : Stream!Take(q, p) \/ Stream!EndOfFile(q, p)) \/ UNCHANGED Stream!vars
  <1> DEFINE p == PipeOf(q)
             g == g_pipes[p]
             k == Minimum(call[q].n, g.count)
             o == [g EXCEPT !.tail = (g.tail + k) % BufSize, !.count = g.count - k]
  <1>1. /\ st[q] = "call" /\ call[q].op = "read" /\ UNCHANGED <<fds, gone>>
        /\ \/ /\ g.count > 0 /\ g_pipes' = [g_pipes EXCEPT ![p] = o]
              /\ Finish(q, Data(RingGet(g, k)), WakeAll(p))
           \/ g.count = 0 /\ g.ref_w = 0 /\ Finish(q, Eof, st) /\ UNCHANGED g_pipes
           \/ FallAsleep(q)
    BY DEF Read
  <1>2. /\ p \in Pipes /\ g \in PipeT /\ call[q].n \in 1 .. MaxLen
        /\ <<q, call[q].fd>> \in HeldEnds(p, FALSE)
    BY <1>1, CallUsed DEF Inv
  <1>3. \A c \in Pipes, w \in BOOLEAN : HeldEnds(c, w)' = HeldEnds(c, w)
    <2>1. \A a \in Procs : st[a] # "none" <=> st'[a] # "none"
      <3>1. CASE Finish(q, Data(RingGet(g, k)), WakeAll(p))
        <4>1. st' = [WakeAll(p) EXCEPT ![q] = "user"]
          BY <3>1 DEF Finish
        <4>2. /\ WakeAll(p) \in [Procs -> States]
              /\ \A a \in Procs : st[a] # "none" <=> WakeAll(p)[a] # "none"
          BY WakeFacts DEF Inv, Types, States
        <4> HIDE DEF p
        <4> QED  BY <1>1, <4>1, <4>2
      <3>2. CASE Finish(q, Eof, st)
        BY <1>1, <3>2 DEF Finish, Inv, Types
      <3>3. CASE FallAsleep(q)
        BY <1>1, <3>3 DEF FallAsleep, Inv, Types
      <3> QED  BY <1>1, <3>1, <3>2, <3>3
    <2> QED  BY <1>1, <2>1, SameEnds
  <1>4. Readers' = Readers /\ Writers' = Writers /\ Readers[p] # {}
    <2>1. Readers' = Readers /\ Writers' = Writers
      BY <1>1, <1>3, SameMap
    <2> HIDE DEF p
    <2>2. Readers[p] # {}
      BY <1>2, HolderFacts, MapFacts
    <2> QED  BY <2>1, <2>2
  <1>5. CASE /\ g.count > 0 /\ g_pipes' = [g_pipes EXCEPT ![p] = o]
             /\ Finish(q, Data(RingGet(g, k)), WakeAll(p))
    <2>1. k \in 1 .. g.count
      <3>1. g.count \in Nat /\ call[q].n \in Nat \ {0}
        <4> HIDE DEF g
        <4> QED  BY <1>2, PipeAssumption DEF PipeT
      <3> QED  BY <1>5, <3>1 DEF Minimum
    <2>2. /\ o \in PipeT /\ o.count = g.count - k
          /\ o.tail = (g.tail + k) % BufSize /\ o.buf = g.buf
      <3>1. /\ p = PipeOf(q) /\ g = g_pipes[p] /\ g_pipes' = [g_pipes EXCEPT ![p] = o]
            /\ o = [g EXCEPT !.tail = (g.tail + k) % BufSize, !.count = g.count - k]
        BY <1>5
      <3> HIDE DEF k, p, g
      <3>2. Moved(q, p, o)
        BY <1>1, <2>1, <3>1, ReadMoves
      <3>3. o.count = g.count - k /\ o.tail = (g.tail + k) % BufSize /\ o.buf = g.buf
        BY <1>2 DEF PipeT
      <3> QED  BY <3>2, <3>3 DEF Moved
    <2>3. /\ Contents[p] = RingGet(g, g.count)
          /\ Contents' = [Contents EXCEPT ![p] = RingGet(o, o.count)]
      <3> HIDE DEF o
      <3>1. g_pipes'[p] = o /\ \A c \in Pipes \ {p} : g_pipes'[c] = g_pipes[c]
        BY <1>2, <1>5 DEF Inv, Types
      <3> QED  BY <1>2, <3>1 DEF Contents
    <2> HIDE DEF o, k
    <2>4. /\ Contents[p] \in Seq(Bytes) /\ Len(Contents[p]) = g.count
          /\ RingGet(g, k) = SubSeq(Contents[p], 1, k)
          /\ RingGet(o, o.count) = SubSeq(Contents[p], k + 1, Len(Contents[p]))
      BY <1>2, <2>1, <2>2, <2>3, RingSplit
    <2>5. ret' = [ret EXCEPT ![q] = Data(SubSeq(Contents[p], 1, k))]
      BY <1>5, <2>4 DEF Finish
    <2>6. Contents' = [Contents EXCEPT ![p] = SubSeq(@, k + 1, Len(@))]
      BY <2>3, <2>4
    <2>7. k \in 1 .. Len(Contents[p])
      BY <2>1, <2>4
    <2> HIDE DEF p, g
    <2>8. Stream!Take(q, p)
      BY <1>4, <2>5, <2>6, <2>7 DEF Stream!Take, Stream!Data, Data
    <2> QED  BY <1>2, <2>8
  <1>6. CASE g.count = 0 /\ g.ref_w = 0 /\ Finish(q, Eof, st) /\ UNCHANGED g_pipes
    <2>1. Contents' = Contents
      BY <1>6 DEF Contents
    <2>2. Contents[p] = <<>>
      BY <1>2, <1>6, EmptyRing, MapFacts
    <2>3. Writers[p] = {}
      <3>1. g.ref_w = Refs(p, TRUE)
        BY <1>2 DEF Inv, RefsMatch
      <3>2. g.ref_w = 0
        BY <1>6
      <3> HIDE DEF p, g
      <3> QED  BY <1>2, <3>1, <3>2, RefsFacts, HolderFacts, MapFacts DEF Inv
    <2>4. ret' = [ret EXCEPT ![q] = Eof]
      BY <1>6 DEF Finish
    <2> HIDE DEF p, g
    <2>5. Stream!EndOfFile(q, p)
      BY <1>4, <2>1, <2>2, <2>3, <2>4 DEF Stream!EndOfFile, Stream!Eof, Eof
    <2> QED  BY <1>2, <2>5
  <1>7. CASE FallAsleep(q)
    <2>1. UNCHANGED <<g_pipes, ret, gone>>
      BY <1>1, <1>7 DEF FallAsleep
    <2> HIDE DEF p, g, k, o
    <2> QED  BY <1>3, <2>1, Unseen
  <1> QED  BY <1>1, <1>5, <1>6, <1>7

\* Writing puts the bytes behind the ones that are there.
LEMMA RingJoin ==
  ASSUME NEW g \in PipeT, g.head = (g.tail + g.count) % BufSize,
         NEW s \in Seq(Bytes), Len(s) <= BufSize - g.count,
         NEW o, o = RingPut(g, s)
  PROVE  /\ RingGet(g, g.count) \in Seq(Bytes) /\ Len(RingGet(g, g.count)) = g.count
         /\ RingGet(o, o.count) = RingGet(g, g.count) \o s
  <1> DEFINE a == RingGet(g, g.count)
             b == RingGet(o, o.count)
  <1>1. /\ o \in PipeT /\ o.count = g.count + Len(s)
        /\ \A i \in 1 .. o.count :
             o.buf[(o.tail + i - 1) % BufSize] =
               IF i <= g.count THEN g.buf[(g.tail + i - 1) % BufSize] ELSE s[i - g.count]
    BY RingPutFacts
  <1>2. g.count \in Nat /\ o.count \in Nat /\ Len(s) \in Nat
    BY <1>1, PipeAssumption, LenProperties DEF PipeT
  <1>3. a \in Seq(Bytes) /\ Len(a) = g.count /\ b \in Seq(Bytes) /\ Len(b) = o.count
    BY <1>1, <1>2, RingGetType
  <1>4. /\ \A i \in 1 .. g.count : a[i] = g.buf[(g.tail + i - 1) % BufSize]
        /\ \A i \in 1 .. o.count : b[i] = o.buf[(o.tail + i - 1) % BufSize]
    BY DEF RingGet
  <1> HIDE DEF a, b
  <1>5. /\ a \o s \in Seq(Bytes) /\ Len(a \o s) = g.count + Len(s)
        /\ \A i \in 1 .. g.count + Len(s) :
             (a \o s)[i] = IF i <= g.count THEN a[i] ELSE s[i - g.count]
    <2>1. /\ a \o s \in Seq(Bytes) /\ Len(a \o s) = Len(a) + Len(s)
          /\ \A i \in 1 .. Len(a) + Len(s) :
               (a \o s)[i] = IF i <= Len(a) THEN a[i] ELSE s[i - Len(a)]
      BY <1>3, ConcatProperties, Zenon
    <2> QED  BY <1>3, <2>1
  <1>6. ASSUME NEW i \in 1 .. o.count PROVE b[i] = (a \o s)[i]
    <2>1. i \in 1 .. g.count + Len(s) /\ (i <= g.count => i \in 1 .. g.count)
      BY <1>1, <1>2
    <2> QED  BY <1>1, <1>4, <1>5, <2>1
  <1>7. b = a \o s
    BY ZenonT(60), <1>1, <1>3, <1>5, <1>6, SeqEqual
  <1> QED  BY <1>3, <1>7 DEF a, b

LEMMA PutStep ==
  ASSUME Inv, NEW q \in Procs, Write(q)
  PROVE  (\E p \in Pipes : Stream!Put(q, p) \/ Stream!Refuse(q, p)) \/ UNCHANGED Stream!vars
  <1> DEFINE p == PipeOf(q)
             g == g_pipes[p]
             k == Minimum(call[q].n, BufSize - g.count)
             s == SubSeq(call[q].data, 1, k)
             o == RingPut(g, s)
  <1>1. /\ st[q] = "call" /\ call[q].op = "write" /\ UNCHANGED <<fds, gone>>
        /\ \/ g.ref_r = 0 /\ Finish(q, Refused, st) /\ UNCHANGED g_pipes
           \/ /\ g.ref_r > 0 /\ g.count < BufSize /\ g_pipes' = [g_pipes EXCEPT ![p] = o]
              /\ Finish(q, Done, WakeAll(p))
           \/ FallAsleep(q)
    BY DEF Write
  <1>2. /\ p \in Pipes /\ g \in PipeT /\ <<q, call[q].fd>> \in HeldEnds(p, TRUE)
        /\ g.head = (g.tail + g.count) % BufSize
    BY <1>1, CallUsed DEF Inv, RingOK
  <1>3. \A c \in Pipes, w \in BOOLEAN : HeldEnds(c, w)' = HeldEnds(c, w)
    <2>1. \A a \in Procs : st[a] # "none" <=> st'[a] # "none"
      <3>1. CASE Finish(q, Done, WakeAll(p))
        <4>1. st' = [WakeAll(p) EXCEPT ![q] = "user"]
          BY <3>1 DEF Finish
        <4>2. /\ WakeAll(p) \in [Procs -> States]
              /\ \A a \in Procs : st[a] # "none" <=> WakeAll(p)[a] # "none"
          BY WakeFacts DEF Inv, Types, States
        <4> HIDE DEF p
        <4> QED  BY <1>1, <4>1, <4>2
      <3>2. CASE Finish(q, Refused, st)
        BY <1>1, <3>2 DEF Finish, Inv, Types
      <3>3. CASE FallAsleep(q)
        BY <1>1, <3>3 DEF FallAsleep, Inv, Types
      <3> QED  BY <1>1, <3>1, <3>2, <3>3
    <2> QED  BY <1>1, <2>1, SameEnds
  <1>4. Readers' = Readers /\ Writers' = Writers /\ Writers[p] # {}
    <2>1. Readers' = Readers /\ Writers' = Writers
      BY <1>1, <1>3, SameMap
    <2> HIDE DEF p
    <2>2. Writers[p] # {}
      BY <1>2, HolderFacts, MapFacts
    <2> QED  BY <2>1, <2>2
  <1>5. g.ref_r \in 0 .. RefMax /\ (g.ref_r = 0 <=> Readers[p] = {})
    <2>1. g.ref_r = Refs(p, FALSE)
      BY <1>2 DEF Inv, RefsMatch
    <2> HIDE DEF p, g
    <2> QED  BY <1>2, <2>1, RefsFacts, HolderFacts, MapFacts DEF Inv
  <1>6. CASE /\ g.ref_r > 0 /\ g.count < BufSize /\ g_pipes' = [g_pipes EXCEPT ![p] = o]
             /\ Finish(q, Done, WakeAll(p))
    <2>1. /\ k \in 1 .. BufSize - g.count /\ s \in Seq(Bytes) /\ Len(s) = k
      <3>1. /\ p = PipeOf(q) /\ g = g_pipes[p] /\ k = Minimum(call[q].n, BufSize - g.count)
            /\ g.count < BufSize
            /\ g_pipes' = [g_pipes EXCEPT ![p] = RingPut(g, SubSeq(call[q].data, 1, k))]
        BY <1>6
      <3>2. s = SubSeq(call[q].data, 1, k)
        OBVIOUS
      <3> HIDE DEF p, g, k, s, o
      <3>3. /\ k \in 1 .. BufSize - g.count
            /\ SubSeq(call[q].data, 1, k) \in Seq(Bytes)
            /\ Len(SubSeq(call[q].data, 1, k)) = k
        <4>1. Writing(q, p, g, k)
          BY <1>1, <3>1 DEF Writing
        <4> QED  BY <4>1, WriteMoves
      <3> QED  BY <3>2, <3>3
    <2>2. /\ Contents[p] = RingGet(g, g.count)
          /\ Contents' = [Contents EXCEPT ![p] = RingGet(o, o.count)]
      <3> HIDE DEF o
      <3>1. g_pipes'[p] = o /\ \A c \in Pipes \ {p} : g_pipes'[c] = g_pipes[c]
        BY <1>2, <1>6 DEF Inv, Types
      <3> QED  BY <1>2, <3>1 DEF Contents
    <2>3. o = RingPut(g, s)
      OBVIOUS
    <2> HIDE DEF o, s, k
    <2>4. Len(s) <= BufSize - g.count /\ g.count \in Nat /\ BufSize \in Nat
      <3> HIDE DEF g
      <3> QED  BY <1>2, <2>1, PipeAssumption DEF PipeT
    <2>5. /\ Len(Contents[p]) = g.count
          /\ RingGet(o, o.count) = Contents[p] \o s
      BY ZenonT(60), <1>2, <2>1, <2>2, <2>3, <2>4, RingJoin
    <2>6. Contents' = [Contents EXCEPT ![p] = @ \o s]
      BY <2>2, <2>5
    <2>7. k \in 1 .. BufSize - Len(Contents[p]) /\ s \in [1 .. k -> Bytes]
      BY <2>1, <2>5, LenProperties
    <2>8. Readers[p] # {}
      <3>1. g.ref_r > 0
        BY <1>6
      <3> HIDE DEF p, g
      <3> QED  BY <1>5, <3>1
    <2>9. ret' = [ret EXCEPT ![q] = Done]
      BY <1>6 DEF Finish
    <2> HIDE DEF p, g
    <2>10. Stream!Put(q, p)
      BY <1>4, <2>6, <2>7, <2>8, <2>9 DEF Stream!Put, Stream!Done, Done
    <2> QED  BY <1>2, <2>10
  <1>7. CASE g.ref_r = 0 /\ Finish(q, Refused, st) /\ UNCHANGED g_pipes
    <2>1. Contents' = Contents
      BY <1>7 DEF Contents
    <2>2. Readers[p] = {}
      <3>2. g.ref_r = 0
        BY <1>7
      <3> HIDE DEF p, g
      <3> QED  BY <1>5, <3>2
    <2>3. ret' = [ret EXCEPT ![q] = Refused]
      BY <1>7 DEF Finish
    <2> HIDE DEF p, g
    <2>4. Stream!Refuse(q, p)
      BY <1>4, <2>1, <2>2, <2>3 DEF Stream!Refuse, Stream!Refused, Refused
    <2> QED  BY <1>2, <2>4
  <1>8. CASE FallAsleep(q)
    <2>1. UNCHANGED <<g_pipes, ret, gone>>
      BY <1>1, <1>8 DEF FallAsleep
    <2> HIDE DEF p, g, k, s, o
    <2> QED  BY <1>3, <2>1, Unseen
  <1> QED  BY <1>1, <1>6, <1>7, <1>8

\* Steps of processes, files and calls that the stream does not see, or that
\* only make the last result history.
LEMMA QuietEnds ==
  ASSUME Inv, NEW q \in Procs,
         \/ Exec(q) \/ Exit(q) \/ MakePipeFails(q) \/ OpenFile(q) \/ Begin(q)
  PROVE  Stream!Forget(q) \/ UNCHANGED Stream!vars
  <1>0. \A p \in Pipes, w \in BOOLEAN : /\ Free # [pipe |-> p, writable |-> w]
                                        /\ File # [pipe |-> p, writable |-> w]
    BY PipeAssumption DEF Free, File, NoPipe, Pipes
  <1>1. CASE Exec(q)
    <2>1. \A p \in Pipes, w \in BOOLEAN : HeldEnds(p, w)' = HeldEnds(p, w)
      BY <1>0, <1>1, SameEnds DEF Exec, Inv, Types
    <2> QED  BY <1>1, <2>1, Unseen DEF Exec
  <1>2. CASE Exit(q)
    <2>1. \A p \in Pipes, w \in BOOLEAN : HeldEnds(p, w)' = HeldEnds(p, w)
      BY <1>2, SameEnds DEF Exit, Inv, Types
    <2> QED  BY <1>2, <2>1, Forgotten DEF Exit
  <1>4. CASE MakePipeFails(q)
    <2>1. \A p \in Pipes, w \in BOOLEAN : HeldEnds(p, w)' = HeldEnds(p, w)
      BY <1>4, SameEnds DEF MakePipeFails
    <2>2. UNCHANGED <<g_pipes, ret, gone>>
      BY <1>4, MakePipeFailsStep DEF MakePipeFails
    <2> QED  BY <2>1, <2>2, Unseen
  <1>5. CASE OpenFile(q)
    <2>1. PICK f \in Fds : fds[q][f] = Free /\ fds' = [fds EXCEPT ![q][f] = File]
      <3>1. FreeFds(q) \in SUBSET Nat
        BY DEF FreeFds, Fds
      <3>2. Lowest(FreeFds(q)) \in FreeFds(q)
        BY <1>5, <3>1, LowestIn DEF OpenFile
      <3> QED  BY <1>5, <3>2 DEF FreeFds, OpenFile
    <2>2. UNCHANGED <<g_pipes, st, ret, gone>>
      BY <1>5 DEF OpenFile
    <2>3. \A p \in Pipes, w \in BOOLEAN : HeldEnds(p, w)' = HeldEnds(p, w)
      BY <1>0, <2>1, <2>2, SameEnds DEF Inv, Types
    <2> QED  BY <2>2, <2>3, Unseen
  <1>6. CASE Begin(q)
    <2>1. \A p \in Pipes, w \in BOOLEAN : HeldEnds(p, w)' = HeldEnds(p, w)
      BY <1>6, SameEnds DEF Begin, Inv, Types
    <2> QED  BY <1>6, <2>1, Forgotten DEF Begin
  <1> QED  BY <1>1, <1>2, <1>4, <1>5, <1>6

LEMMA CloseMaps ==
  ASSUME Inv, NEW q \in Procs, Close(q)
  PROVE  (\E p \in Pipes : Stream!Drop(p)) \/ UNCHANGED Stream!vars
  <1>1. PICK f \in OpenFds(q) :
          /\ st[q] \in {"user", "exiting", "exposed"}
          /\ IF f \in PipeFds(q) THEN CloseEnd(q, f) ELSE CloseFile(q, f)
    BY DEF Close
  <1>2. CASE f \in PipeFds(q)
    BY <1>1, <1>2, DropStep
  <1>3. CASE f \notin PipeFds(q)
    <2>1. f \in Fds /\ fds[q][f].pipe = NoPipe
      BY <1>3 DEF OpenFds, PipeFds
    <2>2. fds' = [fds EXCEPT ![q][f] = Free] /\ UNCHANGED <<g_pipes, st, ret, gone>>
      BY <1>1, <1>3 DEF CloseFile
    <2>3. \A p \in Pipes, w \in BOOLEAN : /\ Free # [pipe |-> p, writable |-> w]
                                          /\ fds[q][f] # [pipe |-> p, writable |-> w]
      BY <2>1, PipeAssumption DEF Free, NoPipe, Pipes
    <2>4. \A p \in Pipes, w \in BOOLEAN : HeldEnds(p, w)' = HeldEnds(p, w)
      BY <2>1, <2>2, <2>3, SameEnds DEF Inv, Types
    <2> QED  BY <2>2, <2>4, Unseen
  <1> QED  BY <1>2, <1>3

\* The ring buffers, the reference counts and the wait queue implement bounded
\* streams, for every buffer size: each byte comes out once and in order, end
\* of file means drained and every write end closed, a refused write means every
\* read end closed, and the bytes are dropped with the last close and not before.
\* Ends that task_wait_pid collected open are not closed.
THEOREM PipesAreStreams == Spec => ImplementsStream
  <1>1. Init => Stream!Init
    <2> SUFFICES ASSUME Init PROVE Stream!Init
      OBVIOUS
    <2>1. \A p \in Pipes : Contents[p] = <<>>
      <3>1. \A p \in Pipes : g_pipes[p].count = 0
        BY DEF Init, FreePipe
      <3> QED  BY <3>1, EmptyRing, MapFacts
    <2>2. \A p \in Pipes, w \in BOOLEAN : Holders(p, w) = {}
      BY DEF Init, HeldEnds, Holders
    <2>3. /\ Contents = [p \in Pipes |-> <<>>]
          /\ Readers = [p \in Pipes |-> {}] /\ Writers = [p \in Pipes |-> {}]
      BY <2>1, <2>2 DEF Contents, Readers, Writers
    <2>4. ret = [q \in Procs |-> Stream!None]
      BY DEF Init, None, Stream!None
    <2> QED  BY <2>3, <2>4 DEF Stream!Init
  <1>2. Inv /\ [Next]_vars => [Stream!Next]_(Stream!vars)
    <2> SUFFICES ASSUME Inv, [Next]_vars PROVE Stream!Next \/ UNCHANGED Stream!vars
      OBVIOUS
    <2>1. CASE UNCHANGED vars
      <3>1. UNCHANGED <<g_pipes, fds, st, ret, gone>>
        BY <2>1 DEF vars
      <3>2. \A p \in Pipes, w \in BOOLEAN : HeldEnds(p, w)' = HeldEnds(p, w)
        BY <3>1 DEF HeldEnds
      <3> QED  BY <3>1, <3>2, Unseen
    <2>2. ASSUME NEW q \in Procs,
                 \/ Exec(q) \/ Exit(q) \/ MakePipeFails(q) \/ OpenFile(q) \/ Begin(q)
          PROVE  Stream!Next \/ UNCHANGED Stream!vars
      BY <2>2, QuietEnds DEF Stream!Next
    <2>8. ASSUME NEW q \in Procs, Reap(q) PROVE Stream!Next
      BY <2>8, AbandonStep DEF Stream!Next
    <2>3. ASSUME NEW q \in Procs, MakePipe(q) PROVE Stream!Next
      BY <2>3, CreateStep DEF Stream!Next
    <2>4. ASSUME NEW q \in Procs, Close(q) PROVE Stream!Next \/ UNCHANGED Stream!vars
      BY <2>4, CloseMaps DEF Stream!Next
    <2>5. ASSUME NEW q \in Procs, Read(q) PROVE Stream!Next \/ UNCHANGED Stream!vars
      BY <2>5, TakeStep DEF Stream!Next
    <2>6. ASSUME NEW q \in Procs, Write(q) PROVE Stream!Next \/ UNCHANGED Stream!vars
      BY <2>6, PutStep DEF Stream!Next
    <2>7. ASSUME NEW q \in Procs, NEW c \in Procs, Fork(q, c) PROVE Stream!Next
      BY <2>7, ShareStep DEF Stream!Next
    <2> QED  BY <2>1, <2>2, <2>3, <2>4, <2>5, <2>6, <2>7, <2>8 DEF Next
  <1> QED  BY <1>1, <1>2, PipeInvariant, PTL DEF Spec, ImplementsStream, Stream!Spec

=============================================================================
