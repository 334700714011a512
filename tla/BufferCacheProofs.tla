-------------------------- MODULE BufferCacheProofs --------------------------
(***************************************************************************)
(* Theorems about the buffer cache.                                        *)
(***************************************************************************)
EXTENDS BufferCache, FiniteSetTheorems, WellFoundedInduction, TLAPS

LEMMA Names ==
  /\ NODEV \notin Block /\ Driver \notin Proc /\ Free \notin Proc /\ Free # Driver
  /\ NBUF \in Nat \ {0} /\ NHASH \in Nat \ {0} /\ Hash \in [Block -> Bucket]
BY BufferAssumption

LEMMA Buffers == Buf \subseteq Nat \ {0} /\ BNULL \notin Buf /\ 1 \in Buf
BY Names DEF Buf, BNULL

-----------------------------------------------------------------------------
(* Least and greatest numbers, and induction. *)

LEMMA LeastNumber ==
  ASSUME NEW T, T \subseteq Nat, T # {}
  PROVE  \E x \in T : \A y \in T : x <= y
<1> DEFINE R == {ss \in Nat \X Nat : ss[1] < ss[2]}
<1>1. IsWellFoundedOn(R, Nat)
  BY NatLessThanWellFounded DEF OpToRel
<1>2. \A x, y \in Nat : y < x => <<y, x>> \in R
  OBVIOUS
<1> HIDE DEF R
<1>3. PICK x \in T : \A y \in T : ~ (<<y, x>> \in R)
  BY <1>1, WFMin
<1>4. \A y \in T : ~ (y < x)
  BY <1>2, <1>3
<1>5. QED
  BY <1>4

LEMMA Induction ==
  ASSUME NEW S, 0 \in S, \A n \in Nat : n \in S => n + 1 \in S
  PROVE  Nat \subseteq S
<1> SUFFICES ASSUME Nat \ S # {} PROVE FALSE
  OBVIOUS
<1>1. PICK x \in Nat \ S : \A y \in Nat \ S : x <= y
  BY LeastNumber
<1>2. x - 1 \in Nat /\ x - 1 \in S
  BY <1>1
<1>3. (x - 1) + 1 \in S
  BY <1>2
<1>4. QED
  BY <1>1, <1>3

LEMMA MinIs ==
  ASSUME NEW T, T \subseteq Nat, T # {}
  PROVE  Min(T) \in T /\ \A y \in T : Min(T) <= y
BY LeastNumber DEF Min

LEMMA MaxIs ==
  ASSUME NEW n \in Nat, NEW T, T \subseteq 0..n, T # {}
  PROVE  Max(T) \in T /\ \A y \in T : Max(T) >= y
<1> DEFINE D == {n - x : x \in T}
<1>1. D \subseteq Nat /\ D # {}
  <2>1. \A x \in T : n - x \in Nat
    OBVIOUS
  <2>2. QED
    BY <2>1
<1>2. PICK d \in D : \A e \in D : d <= e
  BY <1>1, LeastNumber
<1>3. PICK x \in T : d = n - x
  BY <1>2
<1>4. \A y \in T : x >= y
  <2> TAKE y \in T
  <2>1. n - x <= n - y
    BY <1>2, <1>3
  <2>2. QED
    BY <2>1
<1>5. QED
  BY <1>4 DEF Max

-----------------------------------------------------------------------------
(* The walk along a hash chain. *)

HashType ==
  hash \in [array : [Bucket -> Buf \cup {BNULL}], val : [Buf -> Bucket],
            fwd : [Buf -> Buf \cup {BNULL}], back : [Buf -> Buf \cup {BNULL}]]

(* Where the walk goes from a buffer. *)
Onward(b) == IF b = BNULL THEN BNULL ELSE hash.fwd[b]

LEMMA WalkIs ==
  ASSUME HashType, NEW h \in Bucket
  PROVE  /\ Walk(h) \in [0..NBUF -> Buf \cup {BNULL}]
         /\ Walk(h)[0] = hash.array[h]
         /\ \A n \in 1..NBUF : Walk(h)[n] = Onward(Walk(h)[n - 1])
<1> DEFINE Good(m, f) == f = [n \in 0..m |-> IF n = 0 THEN hash.array[h] ELSE Onward(f[n - 1])]
           S == {m \in Nat : \E f : Good(m, f)}
<1>1. 0 \in S
  <2>1. Good(0, [n \in 0..0 |-> hash.array[h]])
    OBVIOUS
  <2>2. QED
    BY <2>1
<1>2. ASSUME NEW m \in Nat, m \in S PROVE m + 1 \in S
  <2>1. PICK f : Good(m, f)
    BY <1>2
  <2> DEFINE g == [n \in 0..(m + 1) |-> IF n <= m THEN f[n] ELSE Onward(f[m])]
  <2>2. ASSUME NEW n \in 0..(m + 1)
        PROVE  g[n] = IF n = 0 THEN hash.array[h] ELSE Onward(g[n - 1])
    <3>1. CASE n = 0
      BY <2>1, <3>1
    <3>2. CASE n # 0 /\ n <= m
      <4>1. /\ n \in 0..m /\ n - 1 \in 0..m /\ n - 1 \in 0..(m + 1)
            /\ g[n] = f[n] /\ g[n - 1] = f[n - 1]
        BY <3>2
      <4>2. f[n] = Onward(f[n - 1])
        BY <2>1, <3>2, <4>1
      <4>3. QED
        BY <3>2, <4>1, <4>2
    <3>3. CASE n = m + 1
      BY <3>3
    <3>4. QED
      BY <3>1, <3>2, <3>3
  <2>3. Good(m + 1, g)
    BY <2>2
  <2> HIDE DEF Good, g
  <2>4. \E f1 : Good(m + 1, f1)
    BY <2>3
  <2>5. QED
    BY <2>4
<1>3. NBUF \in S
  <2> HIDE DEF S
  <2>1. QED
    BY <1>1, <1>2, Induction, Names
<1>4. Good(NBUF, Walk(h))
  BY <1>3 DEF Walk, Onward
<1>5. /\ DOMAIN Walk(h) = 0..NBUF
      /\ Walk(h)[0] = hash.array[h]
      /\ \A n \in 1..NBUF : Walk(h)[n] = Onward(Walk(h)[n - 1])
  <2> DEFINE w == Walk(h)
  <2>1. w = [n \in 0..NBUF |-> IF n = 0 THEN hash.array[h] ELSE Onward(w[n - 1])]
    BY <1>4
  <2> HIDE DEF w
  <2>2. /\ DOMAIN w = 0..NBUF
        /\ w[0] = hash.array[h]
        /\ \A n \in 1..NBUF : w[n] = Onward(w[n - 1])
    BY <2>1, Names
  <2>3. QED
    BY <2>2 DEF w
<1>6. \A n \in 0..NBUF : Walk(h)[n] \in Buf \cup {BNULL}
  <2> DEFINE T == {n \in Nat : n \in 0..NBUF => Walk(h)[n] \in Buf \cup {BNULL}}
  <2>1. 0 \in T
    BY <1>5 DEF HashType
  <2>2. ASSUME NEW n \in Nat, n \in T PROVE n + 1 \in T
    <3>1. SUFFICES ASSUME n + 1 \in 1..NBUF PROVE Walk(h)[n + 1] \in Buf \cup {BNULL}
      OBVIOUS
    <3>2. n \in 0..NBUF /\ (n + 1) - 1 = n
      BY <3>1, Names
    <3> HIDE DEF T
    <3>3. Walk(h)[n] \in Buf \cup {BNULL}
      BY <2>2, <3>2 DEF T
    <3>4. Walk(h)[n + 1] = Onward(Walk(h)[n])
      BY <1>5, <3>1, <3>2
    <3>5. QED
      BY <3>3, <3>4 DEF Onward, HashType
  <2> HIDE DEF T
  <2>3. Nat \subseteq T
    BY <2>1, <2>2, Induction
  <2>4. QED
    BY <2>3 DEF T
<1>7. Walk(h) = [n \in 0..NBUF |-> Walk(h)[n]]
  BY <1>4, <1>5
<1>8. QED
  BY <1>5, <1>6, <1>7

LEMMA CachedIs ==
  ASSUME HashType, NEW x \in Block, Cached(x) # BNULL
  PROVE  Cached(x) \in Buf /\ buf[Cached(x)].blk = x
<1> DEFINE w == Walk(Hash[x])
           hits == {n \in 0..NBUF : w[n] # BNULL /\ buf[w[n]].blk = x}
<1>1. w \in [0..NBUF -> Buf \cup {BNULL}]
  BY Names, WalkIs
<1>2. hits # {} /\ Cached(x) = w[Min(hits)]
  BY DEF Cached
<1>3. Min(hits) \in hits
  BY <1>2, Names, MinIs
<1> HIDE DEF w
<1>4. PICK m \in 0..NBUF : Cached(x) = w[m] /\ w[m] # BNULL /\ buf[w[m]].blk = x
  BY <1>2, <1>3
<1>5. QED
  BY <1>1, <1>4

-----------------------------------------------------------------------------
(* Who has a buffer, and what may be under way with it. *)

Header == [blk : Block \cup {NODEV}, ntp : BOOLEAN, mod : BOOLEAN, asy : BOOLEAN,
           err : BOOLEAN, data : Data]
PlaceType == [pc : Pcs, want : Block \cup {NODEV}, buf : Buf \cup {BNULL}, op : Ops]

(* TypeOK, but for the wakeup flags and what has failed. *)
Typed ==
  /\ HashType
  /\ lru \in [Buf -> Buf] /\ \A b \in Buf : \E i \in Buf : lru[i] = b
  /\ buf \in [Buf -> Header]
  /\ gate \in [Buf -> Proc \cup {Driver, Free}]
  /\ req \in [Buf -> {"none", "read", "write"}]
  /\ disk \in [Block -> Data]
  /\ st \in [Proc -> PlaceType]

(* Where a process has the gate of its buffer. *)
Owning == {"io", "use", "fill", "wio", "sio"}

GoodBuffer(b) ==
  /\ buf[b].asy <=> gate[b] = Driver
  /\ gate[b] = Free => req[b] = "none" /\ ~buf[b].ntp
  /\ gate[b] = Driver => req[b] # "none"
  /\ req[b] # "none" => buf[b].ntp
  /\ req[b] = "read" => ~buf[b].mod
  /\ req[b] = "write" => buf[b].mod
  /\ buf[b].ntp \/ buf[b].mod => buf[b].blk # NODEV /\ ~buf[b].err
  /\ buf[b].err => buf[b].blk = NODEV /\ gate[b] \in Proc

(* What a process finds in its buffer when it gets on. *)
GoodPlace(p) ==
  LET b == st[p].buf  pc == st[p].pc IN
  /\ pc = "io" => /\ req[b] # "write" /\ (req[b] = "none" => ~buf[b].ntp)
                  /\ ~buf[b].mod /\ (~buf[b].err => buf[b].blk = st[p].want)
  /\ pc \in {"use", "fill"} => req[b] = "none" /\ ~buf[b].err /\ buf[b].blk = st[p].want
  /\ pc = "use" => (buf[b].ntp => buf[b].mod)
  /\ pc \in {"wio", "sio"} => /\ req[b] # "read" /\ (req[b] = "none" => ~buf[b].ntp)
                              /\ ~buf[b].err
  /\ pc \in {"gate", "sgate"} => b \in Buf
  /\ pc \in {"gate", "need", "scan", "io", "use", "fill"} => st[p].want \in Block
  /\ pc = "gate" => st[p].op \in {"read", "fill"}

Owns(p) == st[p].pc \in Owning => st[p].buf \in Buf /\ gate[st[p].buf] = p

Owned(b) == gate[b] \in Proc => st[gate[b]].pc \in Owning /\ st[gate[b]].buf = b

TransferInv ==
  /\ \A b \in Buf : GoodBuffer(b) /\ Owned(b)
  /\ \A p \in Proc : GoodPlace(p) /\ Owns(p)

CacheInv == Typed /\ TransferInv

LEMMA InvTransfersOK == ASSUME CacheInv PROVE TransfersOK
<1> SUFFICES ASSUME NEW b \in Buf
             PROVE  /\ buf[b].asy <=> gate[b] = Driver
                    /\ gate[b] = Driver => req[b] # "none"
                    /\ req[b] # "none" => buf[b].ntp /\ gate[b] # Free
                    /\ req[b] = "write" => buf[b].mod
                    /\ buf[b].ntp /\ req[b] = "none" =>
                         \E p \in Proc : st[p].buf = b /\ st[p].pc \in {"use", "fill"} /\ gate[b] = p
  BY DEF TransfersOK
<1>1. GoodBuffer(b) /\ Owned(b) /\ gate[b] \in Proc \cup {Driver, Free}
  BY DEF CacheInv, TransferInv, Typed
<1>2. ASSUME buf[b].ntp, req[b] = "none"
      PROVE  \E p \in Proc : st[p].buf = b /\ st[p].pc \in {"use", "fill"} /\ gate[b] = p
  <2>1. gate[b] \in Proc
    BY <1>1, <1>2 DEF GoodBuffer
  <2>2. st[gate[b]].pc \in Owning /\ st[gate[b]].buf = b /\ GoodPlace(gate[b])
    BY <1>1, <2>1 DEF Owned, CacheInv, TransferInv
  <2>3. st[gate[b]].pc \in {"use", "fill"}
    BY <1>2, <2>2 DEF GoodPlace, Owning
  <2>4. QED
    BY <2>1, <2>2, <2>3
<1>3. QED
  BY <1>1, <1>2 DEF GoodBuffer

-----------------------------------------------------------------------------
(* What a step changes. *)

Same(b) == buf'[b] = buf[b] /\ gate'[b] = gate[b] /\ req'[b] = req[b]

(* Only buffers in C change, which nobody but P has, and only the processes of
   P move. *)
LEMMA Frame ==
  ASSUME TransferInv, NEW P \in SUBSET Proc, NEW C \in SUBSET Buf,
         \A q \in Proc \ P : st'[q] = st[q],
         \A b \in Buf \ C : Same(b),
         \A b \in C : gate[b] \in P \cup {Free, Driver} /\ gate'[b] \in P \cup {Free, Driver},
         \A b \in C : GoodBuffer(b)',
         \A p \in P : GoodPlace(p)' /\ Owns(p)',
         \A b \in Buf : gate'[b] \in P => Owned(b)'
  PROVE  TransferInv'
<1>1. ASSUME NEW b \in Buf PROVE GoodBuffer(b)'
  <2>1. CASE b \in C
    BY <2>1
  <2>2. CASE b \notin C
    <3>1. Same(b) /\ GoodBuffer(b)
      BY <2>2 DEF TransferInv
    <3>2. QED
      BY <3>1 DEF Same, GoodBuffer
  <2>3. QED
    BY <2>1, <2>2
<1>2. ASSUME NEW b \in Buf PROVE Owned(b)'
  <2>1. CASE gate'[b] \in P \/ gate'[b] \notin Proc
    BY <2>1 DEF Owned
  <2>2. CASE gate'[b] \in Proc \ P
    <3>1. b \notin C
      BY <2>2, Names
    <3>2. gate'[b] = gate[b] /\ st'[gate[b]] = st[gate[b]] /\ Owned(b)
      BY <2>2, <3>1 DEF Same, TransferInv
    <3>3. QED
      BY <3>2 DEF Owned
  <2>3. QED
    BY <2>1, <2>2
<1>3. ASSUME NEW q \in Proc \ P PROVE GoodPlace(q)' /\ Owns(q)'
  <2>1. st'[q] = st[q] /\ GoodPlace(q) /\ Owns(q)
    BY <1>3 DEF TransferInv
  <2>2. CASE st[q].pc \in Owning
    <3>1. st[q].buf \in Buf /\ gate[st[q].buf] = q
      BY <2>1, <2>2 DEF Owns
    <3>2. st[q].buf \notin C
      BY <1>3, <3>1, Names
    <3>3. Same(st[q].buf)
      BY <3>1, <3>2
    <3>4. QED
      BY <2>1, <3>1, <3>3 DEF Same, GoodPlace, Owns
  <2>3. CASE st[q].pc \notin Owning
    BY <2>1, <2>3 DEF GoodPlace, Owns, Owning
  <2>4. QED
    BY <2>2, <2>3
<1>4. QED
  BY <1>1, <1>2, <1>3 DEF TransferInv

(* One process and one buffer. *)
LEMMA FrameOne ==
  ASSUME TransferInv, NEW p \in Proc, NEW b \in Buf,
         \A q \in Proc \ {p} : st'[q] = st[q],
         \A c \in Buf \ {b} : Same(c),
         gate[b] \in {p, Free, Driver}, gate'[b] \in {p, Free, Driver},
         GoodBuffer(b)', GoodPlace(p)', Owns(p)',
         \A c \in Buf : gate'[c] = p => Owned(c)'
  PROVE  TransferInv'
<1> DEFINE P == {p}
           C == {b}
<1>1. P \in SUBSET Proc /\ C \in SUBSET Buf
  OBVIOUS
<1>2. /\ \A q \in Proc \ P : st'[q] = st[q]
      /\ \A c \in Buf \ C : Same(c)
      /\ \A c \in C : gate[c] \in P \cup {Free, Driver} /\ gate'[c] \in P \cup {Free, Driver}
      /\ \A c \in C : GoodBuffer(c)'
      /\ \A q \in P : GoodPlace(q)' /\ Owns(q)'
      /\ \A c \in Buf : gate'[c] \in P => Owned(c)'
  OBVIOUS
<1> HIDE DEF P, C
<1>3. QED
  BY <1>1, <1>2, Frame

-----------------------------------------------------------------------------
(* What bclaim() does to the buffers when it looks for one. *)

(* A modified buffer goes to the driver. *)
Flushed(b) ==
  /\ gate[b] = Free /\ buf[b].mod
  /\ gate'[b] = Driver /\ req'[b] = "write"
  /\ buf'[b] = [blk |-> buf[b].blk, ntp |-> TRUE, mod |-> buf[b].mod, asy |-> TRUE,
                err |-> buf[b].err, data |-> buf[b].data]

(* A buffer that is not modified is taken for another block. *)
Taken(v, p, x, op) ==
  /\ gate[v] = Free /\ ~buf[v].mod
  /\ gate'[v] = (IF op = "ahead" THEN Driver ELSE p)
  /\ req'[v] = (IF op = "fill" THEN "none" ELSE "read")
  /\ buf'[v] = [blk |-> x, ntp |-> TRUE, mod |-> FALSE, asy |-> (op = "ahead"),
                err |-> FALSE, data |-> buf[v].data]

Functions3 ==
  /\ buf' = [b \in Buf |-> buf'[b]] /\ gate' = [b \in Buf |-> gate'[b]]
  /\ req' = [b \in Buf |-> req'[b]]

ScanFails(p, x, op) ==
  /\ st' = [st EXCEPT ![p] = At("need", x, BNULL, op)]
  /\ bufneed' = TRUE /\ UNCHANGED <<hash, lru>>
  /\ \A b \in Buf : Same(b) \/ Flushed(b)

ScanTakes(p, x, op, v) ==
  /\ Taken(v, p, x, op)
  /\ \A b \in Buf \ {v} : Same(b) \/ Flushed(b)
  /\ lru' = LRUupdate(v) /\ bufneed' = bufneed
  /\ hash' = HASHinsert(HASHdelete(hash, v), v, Hash[x])
  /\ st' = [st EXCEPT ![p] = CASE op = "read" -> At("io", x, v, op)
                               [] op = "fill" -> At("fill", x, v, op)
                               [] op = "ahead" -> Idle]

LEMMA ScanIs ==
  ASSUME Typed, NEW p \in Proc, NEW x \in Block, NEW op \in Ops, Scan(p, x, op)
  PROVE  Functions3 /\ (ScanFails(p, x, op) \/ \E v \in Buf : ScanTakes(p, x, op, v))
<1> DEFINE free == {i \in DOMAIN lru : gate[lru[i]] = Free}
           clean == {i \in free : ~buf[lru[i]].mod}
           at == IF clean = {} THEN 0 ELSE Max(clean)
           flushed == {lru[i] : i \in {j \in free : j > at}}
           v == lru[at]
           buf1 == [b \in Buf |-> IF b \in flushed
                                  THEN [buf[b] EXCEPT !.ntp = TRUE, !.asy = TRUE] ELSE buf[b]]
           gate1 == [b \in Buf |-> IF b \in flushed THEN Driver ELSE gate[b]]
           req1 == [b \in Buf |-> IF b \in flushed THEN "write" ELSE req[b]]
           buf2 == [buf1 EXCEPT ![v] = [@ EXCEPT !.blk = x, !.ntp = TRUE, !.mod = FALSE,
                                                 !.err = FALSE, !.asy = (op = "ahead")]]
           gate2 == [gate1 EXCEPT ![v] = IF op = "ahead" THEN Driver ELSE p]
           req2 == [req1 EXCEPT ![v] = IF op = "fill" THEN "none" ELSE "read"]
<1>1. DOMAIN lru = Buf /\ \A i \in Buf : lru[i] \in Buf
  BY DEF Typed
<1>2. clean # {} => at \in clean /\ \A i \in clean : i <= at
  <2>1. clean \subseteq 0..NBUF /\ NBUF \in Nat
    BY <1>1, Names DEF Buf
  <2>2. QED
    BY <2>1, MaxIs
<1>3. \A b \in flushed : b \in Buf /\ gate[b] = Free /\ buf[b].mod
  <2> SUFFICES ASSUME NEW j \in free, j > at PROVE lru[j] \in Buf /\ gate[lru[j]] = Free /\ buf[lru[j]].mod
    OBVIOUS
  <2>1. j \notin clean
    <3>1. j \in Nat /\ at \in Nat
      BY <1>1, <1>2, Buffers
    <3> HIDE DEF clean
    <3>2. QED
      BY <3>1, <1>2
  <2>2. QED
    BY <1>1, <2>1
<1>4. \A b \in Buf : buf[b] \in Header
  BY DEF Typed
<1>5. \/ /\ at = 0
         /\ st' = [st EXCEPT ![p] = At("need", x, BNULL, op)] /\ bufneed' = TRUE
         /\ buf' = buf1 /\ gate' = gate1 /\ req' = req1 /\ UNCHANGED <<hash, lru>>
      \/ /\ at # 0
         /\ lru' = LRUupdate(v) /\ bufneed' = bufneed
         /\ hash' = HASHinsert(HASHdelete(hash, v), v, Hash[x])
         /\ st' = [st EXCEPT ![p] = CASE op = "read" -> At("io", x, v, op)
                                      [] op = "fill" -> At("fill", x, v, op)
                                      [] op = "ahead" -> Idle]
         /\ buf' = buf2 /\ gate' = gate2 /\ req' = req2
  BY DEF Scan
<1>6. at # 0 => v \in Buf /\ v \notin flushed /\ gate[v] = Free /\ ~buf[v].mod
  <2> SUFFICES ASSUME at # 0 PROVE v \in Buf /\ v \notin flushed /\ gate[v] = Free /\ ~buf[v].mod
    OBVIOUS
  <2>1. at \in clean
    BY <1>2
  <2>2. v \in Buf /\ gate[v] = Free /\ ~buf[v].mod
    BY <1>1, <2>1
  <2> HIDE DEF flushed, v
  <2>3. QED
    BY <1>3, <2>2
<1> HIDE DEF flushed, at, v
<1>7. ASSUME NEW b \in Buf, b \in flushed
      PROVE  /\ gate[b] = Free /\ buf[b].mod
             /\ gate1[b] = Driver /\ req1[b] = "write"
             /\ buf1[b] = [blk |-> buf[b].blk, ntp |-> TRUE, mod |-> buf[b].mod, asy |-> TRUE,
                           err |-> buf[b].err, data |-> buf[b].data]
  BY <1>3, <1>4, <1>7 DEF Header
<1>8. ASSUME NEW b \in Buf, b \notin flushed
      PROVE  gate1[b] = gate[b] /\ req1[b] = req[b] /\ buf1[b] = buf[b]
  BY <1>8
<1>9. CASE at = 0
  <2>1. /\ st' = [st EXCEPT ![p] = At("need", x, BNULL, op)] /\ bufneed' = TRUE
        /\ buf' = buf1 /\ gate' = gate1 /\ req' = req1 /\ UNCHANGED <<hash, lru>>
    BY <1>5, <1>9
  <2>2. Functions3
    BY <2>1 DEF Functions3
  <2> HIDE DEF buf1, gate1, req1
  <2>3. \A b \in Buf : Same(b) \/ Flushed(b)
    BY <1>7, <1>8, <2>1 DEF Same, Flushed
  <2>4. QED
    BY <2>1, <2>2, <2>3 DEF ScanFails
<1>10. CASE at # 0
  <2>1. /\ lru' = LRUupdate(v) /\ bufneed' = bufneed
        /\ hash' = HASHinsert(HASHdelete(hash, v), v, Hash[x])
        /\ st' = [st EXCEPT ![p] = CASE op = "read" -> At("io", x, v, op)
                                      [] op = "fill" -> At("fill", x, v, op)
                                      [] op = "ahead" -> Idle]
        /\ buf' = buf2 /\ gate' = gate2 /\ req' = req2
    BY <1>5, <1>10
  <2>2. v \in Buf /\ v \notin flushed /\ gate[v] = Free /\ ~buf[v].mod
    BY <1>6, <1>10
  <2>3. Functions3
    BY <2>1 DEF Functions3
  <2>4. buf1[v] = buf[v] /\ buf1[v] \in Header
    BY <1>4, <1>8, <2>2
  <2>5. Taken(v, p, x, op)
    <3>1. /\ buf'[v] = [buf1[v] EXCEPT !.blk = x, !.ntp = TRUE, !.mod = FALSE,
                                       !.err = FALSE, !.asy = (op = "ahead")]
          /\ gate'[v] = (IF op = "ahead" THEN Driver ELSE p)
          /\ req'[v] = (IF op = "fill" THEN "none" ELSE "read")
      BY <2>1, <2>2
    <3> HIDE DEF buf1
    <3>2. buf'[v] = [blk |-> x, ntp |-> TRUE, mod |-> FALSE, asy |-> (op = "ahead"),
                     err |-> FALSE, data |-> buf[v].data]
      BY <2>4, <3>1 DEF Header
    <3>3. QED
      BY <2>2, <3>1, <3>2 DEF Taken
  <2>6. \A b \in Buf \ {v} : buf'[b] = buf1[b] /\ gate'[b] = gate1[b] /\ req'[b] = req1[b]
    BY <2>1
  <2> HIDE DEF buf1, gate1, req1, buf2, gate2, req2
  <2>7. \A b \in Buf \ {v} : Same(b) \/ Flushed(b)
    BY <1>7, <1>8, <2>6 DEF Same, Flushed
  <2>8. ScanTakes(p, x, op, v)
    BY <2>1, <2>5, <2>7 DEF ScanTakes
  <2>9. QED
    BY <2>2, <2>3, <2>8
<1>11. QED
  BY <1>9, <1>10

LEMMA AtIs ==
  ASSUME NEW pc \in Pcs, NEW x \in Block \cup {NODEV}, NEW b \in Buf \cup {BNULL}, NEW op \in Ops
  PROVE  /\ At(pc, x, b, op) \in PlaceType
         /\ At(pc, x, b, op).pc = pc /\ At(pc, x, b, op).want = x
         /\ At(pc, x, b, op).buf = b /\ At(pc, x, b, op).op = op
BY DEF At, PlaceType

LEMMA IdleIs == Idle \in PlaceType /\ Idle.pc = "idle"
BY DEF Idle, At, PlaceType, Pcs, Ops

LEMMA HashTypes ==
  ASSUME HashType, NEW b \in Buf, NEW v \in Bucket,
         hash' = HASHinsert(HASHdelete(hash, b), b, v)
  PROVE  HashType'
<1> DEFINE h == HASHdelete(hash, b)
           HT == [array : [Bucket -> Buf \cup {BNULL}], val : [Buf -> Bucket],
                  fwd : [Buf -> Buf \cup {BNULL}], back : [Buf -> Buf \cup {BNULL}]]
<1>1. h \in HT
  BY DEF HASHdelete, HashType
<1> HIDE DEF h
<1>2. HASHinsert(h, b, v) \in HT
  BY <1>1 DEF HASHinsert
<1>3. QED
  BY <1>2 DEF h, HashType

LEMMA LruTypes ==
  ASSUME Typed, NEW b \in Buf, lru' = LRUupdate(b)
  PROVE  lru' \in [Buf -> Buf] /\ \A c \in Buf : \E i \in Buf : lru'[i] = c
<1> DEFINE at == CHOOSE i \in Buf : lru[i] = b
<1>1. at \in Buf /\ lru[at] = b
  BY DEF Typed
<1>2. lru' = [i \in Buf |-> IF i = 1 THEN b ELSE IF i <= at THEN lru[i - 1] ELSE lru[i]]
  BY DEF LRUupdate
<1> HIDE DEF at
<1>3. \A i \in Buf : i # 1 /\ i <= at => i - 1 \in Buf
  BY Names DEF Buf
<1>4. lru' \in [Buf -> Buf]
  BY <1>2, <1>3 DEF Typed
<1>5. ASSUME NEW c \in Buf PROVE \E i \in Buf : lru'[i] = c
  <2>1. CASE c = b
    BY <1>2, <2>1, Buffers
  <2>2. CASE c # b
    <3>1. PICK i \in Buf : lru[i] = c
      BY DEF Typed
    <3>2. i # at
      BY <1>1, <2>2, <3>1
    <3>3. CASE i < at
      <4>1. i + 1 \in Buf /\ i + 1 # 1 /\ i + 1 <= at /\ (i + 1) - 1 = i
        BY <1>1, <3>3, Names DEF Buf
      <4>2. lru'[i + 1] = c
        BY <1>2, <3>1, <4>1
      <4>3. QED
        BY <4>1, <4>2
    <3>4. CASE i > at
      <4>1. i # 1 /\ ~(i <= at)
        BY <1>1, <3>4, Names DEF Buf
      <4>2. lru'[i] = c
        BY <1>2, <3>1, <4>1
      <4>3. QED
        BY <4>2
    <3>5. QED
      BY <1>1, <3>2, <3>3, <3>4, Names DEF Buf
  <2>3. QED
    BY <2>1, <2>2
<1>6. QED
  BY <1>4, <1>5

LEMMA FlushedGood ==
  ASSUME Typed, NEW b \in Buf, GoodBuffer(b), Flushed(b)
  PROVE  GoodBuffer(b)' /\ buf'[b] \in Header /\ gate'[b] = Driver /\ req'[b] = "write"
BY Names DEF Flushed, GoodBuffer, Typed, Header

LEMMA TakenGood ==
  ASSUME Typed, NEW b \in Buf, NEW p \in Proc, NEW x \in Block, NEW op \in Ops, Taken(b, p, x, op)
  PROVE  /\ GoodBuffer(b)' /\ buf'[b] \in Header
         /\ gate'[b] \in Proc \cup {Driver} /\ req'[b] \in {"none", "read"}
<1>1. buf'[b] = [blk |-> x, ntp |-> TRUE, mod |-> FALSE, asy |-> (op = "ahead"),
                 err |-> FALSE, data |-> buf[b].data]
  BY DEF Taken
<1>2. buf[b].data \in Data
  BY DEF Typed, Header
<1>3. (op = "ahead") \in BOOLEAN
  OBVIOUS
<1>4. buf'[b] \in Header
  BY <1>1, <1>2, <1>3 DEF Header
<1>5. /\ buf'[b].blk = x /\ buf'[b].ntp /\ ~buf'[b].mod /\ ~buf'[b].err
      /\ buf'[b].asy <=> op = "ahead"
  <2>1. ASSUME NEW a \in BOOLEAN,
               buf'[b] = [blk |-> x, ntp |-> TRUE, mod |-> FALSE, asy |-> a,
                          err |-> FALSE, data |-> buf[b].data]
        PROVE  /\ buf'[b].blk = x /\ buf'[b].ntp /\ ~buf'[b].mod /\ ~buf'[b].err
               /\ buf'[b].asy <=> a
    BY <2>1
  <2>2. QED
    BY <1>1, <1>3, <2>1
<1>6. /\ gate'[b] = (IF op = "ahead" THEN Driver ELSE p)
      /\ req'[b] = (IF op = "fill" THEN "none" ELSE "read")
  BY DEF Taken
<1>7. GoodBuffer(b)'
  BY <1>5, <1>6, Names DEF GoodBuffer
<1>8. QED
  BY <1>4, <1>6, <1>7

LEMMA ScanTyped ==
  ASSUME Typed, TransferInv, NEW p \in Proc, NEW x \in Block, NEW op \in Ops, Scan(p, x, op)
  PROVE  /\ HashType' /\ lru' \in [Buf -> Buf] /\ \A b \in Buf : \E i \in Buf : lru'[i] = b
         /\ buf' \in [Buf -> Header]
         /\ gate' \in [Buf -> Proc \cup {Driver, Free}]
         /\ req' \in [Buf -> {"none", "read", "write"}]
         /\ st' \in [Proc -> PlaceType]
<1>1. Functions3 /\ (ScanFails(p, x, op) \/ \E v \in Buf : ScanTakes(p, x, op, v))
  BY ScanIs
<1>2. ASSUME NEW b \in Buf, Same(b) \/ Flushed(b)
      PROVE  /\ buf'[b] \in Header /\ gate'[b] \in Proc \cup {Driver, Free}
             /\ req'[b] \in {"none", "read", "write"}
  BY <1>2, FlushedGood DEF Typed, Same, TransferInv
<1>3. ASSUME \A b \in Buf : /\ buf'[b] \in Header /\ gate'[b] \in Proc \cup {Driver, Free}
                            /\ req'[b] \in {"none", "read", "write"}
      PROVE  /\ buf' \in [Buf -> Header]
             /\ gate' \in [Buf -> Proc \cup {Driver, Free}]
             /\ req' \in [Buf -> {"none", "read", "write"}]
  BY <1>1, <1>3 DEF Functions3
<1>4. CASE ScanFails(p, x, op)
  <2>1. At("need", x, BNULL, op) \in PlaceType
    BY AtIs DEF Pcs
  <2>2. HashType'
    BY <1>4 DEF ScanFails, Typed, HashType
  <2>3. QED
    BY <1>2, <1>3, <1>4, <2>1, <2>2 DEF ScanFails, Typed
<1>5. ASSUME NEW v \in Buf, ScanTakes(p, x, op, v)
      PROVE  /\ HashType' /\ lru' \in [Buf -> Buf] /\ \A b \in Buf : \E i \in Buf : lru'[i] = b
             /\ buf' \in [Buf -> Header]
             /\ gate' \in [Buf -> Proc \cup {Driver, Free}]
             /\ req' \in [Buf -> {"none", "read", "write"}]
             /\ st' \in [Proc -> PlaceType]
  <2>1. HashType'
    BY <1>5, Names, HashTypes DEF ScanTakes, Typed
  <2>2. lru' \in [Buf -> Buf] /\ \A b \in Buf : \E i \in Buf : lru'[i] = b
    BY <1>5, LruTypes DEF ScanTakes
  <2>3. At("io", x, v, op) \in PlaceType /\ At("fill", x, v, op) \in PlaceType
    BY AtIs DEF Pcs
  <2>4. st' \in [Proc -> PlaceType]
    <3>1. op = "read" \/ op = "fill" \/ op = "ahead"
      BY DEF Ops
    <3>2. QED
      BY <1>5, <2>3, <3>1, IdleIs DEF ScanTakes, Typed
  <2>5. \A b \in Buf : /\ buf'[b] \in Header /\ gate'[b] \in Proc \cup {Driver, Free}
                       /\ req'[b] \in {"none", "read", "write"}
    BY <1>2, <1>5, TakenGood DEF ScanTakes
  <2>6. QED
    BY <1>3, <2>1, <2>2, <2>4, <2>5
<1>6. QED
  BY <1>1, <1>4, <1>5

LEMMA ScanTransfers ==
  ASSUME Typed, TransferInv, NEW p \in Proc, st[p].pc \notin Owning,
         NEW x \in Block, NEW op \in Ops, Scan(p, x, op)
  PROVE  TransferInv'
<1>0. \A b \in Buf : gate[b] # p
  BY DEF TransferInv, Owned
<1>1. ASSUME NEW b \in Buf, Flushed(b) PROVE GoodBuffer(b)' /\ gate[b] = Free /\ gate'[b] = Driver
  BY <1>1, FlushedGood DEF TransferInv, Flushed
<1>2. CASE ScanFails(p, x, op)
  <2> DEFINE C == {b \in Buf : ~Same(b)}
  <2>1. /\ \A b \in C : /\ GoodBuffer(b)' /\ gate[b] \in {p} \cup {Free, Driver}
                        /\ gate'[b] \in {p} \cup {Free, Driver}
        /\ \A b \in Buf \ C : Same(b)
    BY <1>1, <1>2 DEF ScanFails
  <2>2. \A q \in Proc \ {p} : st'[q] = st[q]
    BY <1>2 DEF ScanFails, Typed
  <2>3. st'[p].pc = "need" /\ st'[p].want = x
    <3>1. st'[p] = At("need", x, BNULL, op)
      BY <1>2 DEF ScanFails, Typed
    <3>2. QED
      BY <3>1, AtIs DEF Pcs
  <2>4. GoodPlace(p)' /\ Owns(p)'
    BY <2>3 DEF GoodPlace, Owns, Owning
  <2>5. \A b \in Buf : gate'[b] # p
    BY <1>0, <1>1, <1>2, Names DEF ScanFails, Same
  <2>6. C \in SUBSET Buf /\ {p} \in SUBSET Proc
    OBVIOUS
  <2> HIDE DEF C
  <2>7. QED
    BY <2>1, <2>2, <2>4, <2>5, <2>6, Frame
<1>3. ASSUME NEW v \in Buf, ScanTakes(p, x, op, v) PROVE TransferInv'
  <2> DEFINE C == {b \in Buf : b = v \/ ~Same(b)}
  <2>1. /\ \A b \in C : /\ GoodBuffer(b)' /\ gate[b] \in {p} \cup {Free, Driver}
                        /\ gate'[b] \in {p} \cup {Free, Driver}
        /\ \A b \in Buf \ C : Same(b)
    BY <1>1, <1>3, TakenGood DEF ScanTakes, Taken
  <2>2. \A q \in Proc \ {p} : st'[q] = st[q]
    BY <1>3 DEF ScanTakes, Typed
  <2>3. /\ op = "read" => st'[p] = At("io", x, v, op)
        /\ op = "fill" => st'[p] = At("fill", x, v, op)
        /\ op = "ahead" => st'[p] = Idle
        /\ op \in {"read", "fill", "ahead"}
    BY <1>3 DEF ScanTakes, Typed, Ops
  <2>4. /\ buf'[v].blk = x /\ ~buf'[v].err /\ ~buf'[v].mod /\ buf'[v].ntp
        /\ gate'[v] = (IF op = "ahead" THEN Driver ELSE p)
        /\ req'[v] = (IF op = "fill" THEN "none" ELSE "read")
    BY <1>3 DEF ScanTakes, Taken
  <2>5. \A b \in Buf \ {v} : gate'[b] # p
    BY <1>0, <1>1, <1>3, Names DEF ScanTakes, Same
  <2>9. C \in SUBSET Buf /\ {p} \in SUBSET Proc
    OBVIOUS
  <2>6. CASE op = "ahead"
    <3>1. st'[p].pc = "idle" /\ gate'[v] # p
      BY <2>3, <2>4, <2>6, IdleIs, Names
    <3>2. GoodPlace(p)' /\ Owns(p)'
      BY <3>1 DEF GoodPlace, Owns, Owning
    <3> HIDE DEF C
    <3>3. QED
      BY <2>1, <2>2, <2>5, <2>9, <3>1, <3>2, Frame
  <2>7. CASE op # "ahead"
    <3>1. /\ st'[p].pc = (IF op = "read" THEN "io" ELSE "fill")
          /\ st'[p].want = x /\ st'[p].buf = v /\ gate'[v] = p
      BY <2>3, <2>4, <2>7, AtIs DEF Pcs
    <3>2. GoodPlace(p)' /\ Owns(p)'
      BY <2>3, <2>4, <2>7, <3>1 DEF GoodPlace, Owns, Owning
    <3>3. \A b \in Buf : gate'[b] \in {p} => Owned(b)'
      BY <2>5, <3>1 DEF Owned, Owning
    <3> HIDE DEF C
    <3>4. QED
      BY <2>1, <2>2, <2>9, <3>2, <3>3, Frame
  <2>8. QED
    BY <2>6, <2>7
<1>4. QED
  BY <1>2, <1>3, ScanIs

-----------------------------------------------------------------------------
(* What the other routines change. *)

(* The gate of a buffer is free only where its data are valid. *)
LEMMA LockedIs ==
  ASSUME Typed, TransferInv, NEW p \in Proc, NEW x \in Block, NEW b \in Buf, gate[b] = Free,
         NEW op \in {"read", "fill"}, Locked(p, x, b, op)
  PROVE  \/ UNCHANGED <<buffers, st>>
         \/ /\ buf[b].blk = x /\ ~buf[b].ntp
            /\ UNCHANGED <<hash, buf, req, failed>> /\ lru' = LRUupdate(b)
            /\ gate' = [gate EXCEPT ![b] = p]
            /\ st' = [st EXCEPT ![p] = At(IF op = "read" THEN "use" ELSE "fill", x, b, op)]
<1>1. ~buf[b].ntp /\ ~buf[b].err /\ buf[b] \in Header
  BY Names DEF TransferInv, GoodBuffer, Typed
<1>2. CASE buf[b].blk # x
  BY <1>2 DEF Locked
<1>3. CASE buf[b].blk = x
  <2>1. /\ lru' = LRUupdate(b) /\ UNCHANGED <<hash, failed>>
        /\ buf' = [buf EXCEPT ![b].ntp = (buf[b].ntp \/ buf[b].err)]
        /\ gate' = [gate EXCEPT ![b] = p]
        /\ req' = [req EXCEPT ![b] = IF (buf[b].ntp \/ buf[b].err) /\ op = "read" THEN "read" ELSE @]
        /\ st' = [st EXCEPT ![p] =
                    At(IF (buf[b].ntp \/ buf[b].err) /\ op = "read" THEN "io"
                       ELSE IF op = "read" THEN "use" ELSE "fill", x, b, op)]
    BY <1>3 DEF Locked
  <2>2. [buf[b] EXCEPT !.ntp = FALSE] = buf[b]
    BY <1>1 DEF Header
  <2>3. (buf[b].ntp \/ buf[b].err) = FALSE
    BY <1>1
  <2>4. buf' = [buf EXCEPT ![b] = [buf[b] EXCEPT !.ntp = FALSE]]
    BY <2>1, <2>3
  <2>5. buf' = buf
    BY <2>2, <2>4 DEF Typed
  <2>6. req' = req
    BY <1>1, <2>1 DEF Typed
  <2>7. st' = [st EXCEPT ![p] = At(IF op = "read" THEN "use" ELSE "fill", x, b, op)]
    BY <1>1, <2>1
  <2>8. QED
    BY <1>1, <1>3, <2>1, <2>5, <2>6, <2>7
<1>4. QED
  BY <1>2, <1>3

LEMMA LockedKeeps ==
  ASSUME CacheInv, NEW p \in Proc, st[p].pc \notin Owning, NEW x \in Block, NEW b \in Buf,
         gate[b] = Free, NEW op \in {"read", "fill"}, Locked(p, x, b, op), UNCHANGED disk
  PROVE  CacheInv'
<1>1. CASE UNCHANGED <<buffers, st>>
  BY <1>1 DEF CacheInv, Typed, HashType, TransferInv, GoodBuffer, Owned, GoodPlace, Owns, buffers
<1>2. CASE /\ buf[b].blk = x /\ ~buf[b].ntp
           /\ UNCHANGED <<hash, buf, req, failed>> /\ lru' = LRUupdate(b)
           /\ gate' = [gate EXCEPT ![b] = p]
           /\ st' = [st EXCEPT ![p] = At(IF op = "read" THEN "use" ELSE "fill", x, b, op)]
  <2> DEFINE pc == IF op = "read" THEN "use" ELSE "fill"
  <2>1. At(pc, x, b, op) \in PlaceType /\ At(pc, x, b, op).pc = pc
          /\ At(pc, x, b, op).want = x /\ At(pc, x, b, op).buf = b
    BY AtIs DEF Pcs, Ops
  <2>2. Typed /\ TransferInv /\ GoodBuffer(b)
    BY DEF CacheInv, TransferInv
  <2>3. /\ st'[p] = At(pc, x, b, op) /\ gate'[b] = p
        /\ \A q \in Proc \ {p} : st'[q] = st[q]
        /\ \A c \in Buf \ {b} : Same(c)
    BY <1>2, <2>2 DEF Typed, Same
  <2>4. Typed'
    <3>1. lru' \in [Buf -> Buf] /\ \A c \in Buf : \E i \in Buf : lru'[i] = c
      BY <1>2, <2>2, LruTypes
    <3>2. gate' \in [Buf -> Proc \cup {Driver, Free}] /\ st' \in [Proc -> PlaceType]
      BY <1>2, <2>1, <2>2 DEF Typed
    <3>3. QED
      BY <1>2, <2>2, <3>1, <3>2 DEF Typed, HashType
  <2>5. GoodBuffer(b)'
    BY <1>2, <2>2, <2>3, Names DEF GoodBuffer
  <2>6. GoodPlace(p)' /\ Owns(p)'
    BY <1>2, <2>1, <2>2, <2>3, Names DEF GoodBuffer, GoodPlace, Owns, Owning
  <2>7. \A c \in Buf : gate'[c] = p => Owned(c)'
    <3>1. \A c \in Buf \ {b} : gate'[c] # p
      BY <2>2, <2>3 DEF Same, TransferInv, Owned
    <3>2. QED
      BY <2>1, <2>3, <3>1 DEF Owned, Owning
  <2>8. TransferInv'
    BY <2>2, <2>3, <2>5, <2>6, <2>7, FrameOne
  <2>9. QED
    BY <2>4, <2>8 DEF CacheInv
<1>3. QED
  BY <1>1, <1>2, LockedIs DEF CacheInv

(* brelease() by the owner of the buffer, when nothing is under way. *)
LEMMA ReleasedKeeps ==
  ASSUME CacheInv, NEW p \in Proc, NEW b \in Buf, st[p].pc \in Owning, st[p].buf = b,
         req[b] = "none", Brelease(b, buf[b]), st' = [st EXCEPT ![p] = Idle],
         UNCHANGED <<hash, lru, req, disk>>
  PROVE  CacheInv'
<1>1. Typed /\ TransferInv /\ GoodBuffer(b) /\ Owns(p) /\ buf[b] \in Header
  BY DEF CacheInv, TransferInv, Typed
<1>2. buf'[b] = [blk |-> IF buf[b].err THEN NODEV ELSE buf[b].blk, ntp |-> FALSE,
                 mod |-> buf[b].mod, asy |-> buf[b].asy, err |-> FALSE, data |-> buf[b].data]
  BY <1>1 DEF Brelease, Typed, Header
<1>3. /\ gate' = [gate EXCEPT ![b] = Free] /\ gate'[b] = Free /\ gate[b] = p
      /\ \A c \in Buf \ {b} : Same(c)
      /\ \A q \in Proc \ {p} : st'[q] = st[q]
      /\ st'[p] = Idle
  BY <1>1 DEF Brelease, Typed, Same, Owns
<1>4. Typed'
  <2>1. buf'[b] \in Header
    BY <1>1, <1>2 DEF Header
  <2>2. buf' \in [Buf -> Header]
    BY <1>1, <2>1 DEF Brelease, Typed
  <2>3. gate' \in [Buf -> Proc \cup {Driver, Free}] /\ st' \in [Proc -> PlaceType]
    BY <1>1, <1>3, IdleIs DEF Typed
  <2>4. QED
    BY <1>1, <2>2, <2>3 DEF Typed, HashType
<1>5. GoodBuffer(b)'
  BY <1>1, <1>2, <1>3, Names DEF GoodBuffer
<1>6. GoodPlace(p)' /\ Owns(p)'
  BY <1>3, IdleIs DEF GoodPlace, Owns, Owning
<1>7. \A c \in Buf : gate'[c] # p
  BY <1>1, <1>3, Names DEF Same, TransferInv, Owned
<1>8. TransferInv'
  BY <1>1, <1>3, <1>5, <1>6, <1>7, FrameOne
<1>9. QED
  BY <1>4, <1>8 DEF CacheInv

LEMMA ModifyKeeps ==
  ASSUME CacheInv, NEW p \in Proc, NEW d \in Data, NEW b, b = st[p].buf, Modify(p, d)
  PROVE  CacheInv'
<1>1. /\ Typed /\ TransferInv /\ st[p].pc \in {"use", "fill"}
      /\ GoodPlace(p) /\ Owns(p)
  BY DEF CacheInv, TransferInv, Modify, Is
<1>2. b \in Buf /\ gate[b] = p /\ GoodBuffer(b) /\ buf[b] \in Header /\ st[p] \in PlaceType
  BY <1>1 DEF Owns, Owning, TransferInv, Typed
<1>3. /\ req[b] = "none" /\ ~buf[b].err /\ buf[b].blk = st[p].want /\ st[p].want \in Block
  BY <1>1 DEF GoodPlace
<1>4. /\ buf'[b] = [blk |-> buf[b].blk, ntp |-> buf[b].ntp, mod |-> TRUE,
                    asy |-> buf[b].asy, err |-> buf[b].err, data |-> d]
      /\ buf' \in [Buf -> Header]
  BY <1>1, <1>2 DEF Modify, Typed, Header
<1>5. /\ st'[p] = [pc |-> "use", want |-> st[p].want, buf |-> b, op |-> st[p].op]
      /\ st' \in [Proc -> PlaceType]
      /\ \A q \in Proc \ {p} : st'[q] = st[q]
  BY <1>1, <1>2 DEF Modify, Typed, PlaceType, Pcs
<1>6. \A c \in Buf \ {b} : Same(c)
  BY <1>1, <1>2 DEF Modify, Typed, Same
<1>7. gate' = gate /\ req' = req /\ UNCHANGED <<hash, lru, disk>>
  BY DEF Modify
<1>8. Typed'
  BY <1>1, <1>4, <1>5, <1>7 DEF Typed, HashType
<1>9. /\ st'[p].pc = "use" /\ st'[p].want = st[p].want /\ st'[p].buf = b
      /\ buf'[b].blk = buf[b].blk /\ (buf'[b].ntp <=> buf[b].ntp) /\ buf'[b].mod
      /\ (buf'[b].asy <=> buf[b].asy) /\ (buf'[b].err <=> buf[b].err)
  BY <1>4, <1>5
<1>10. GoodBuffer(b)'
  BY <1>2, <1>3, <1>7, <1>9, Names DEF GoodBuffer
<1>11. GoodPlace(p)' /\ Owns(p)'
  BY <1>2, <1>3, <1>7, <1>9 DEF GoodPlace, Owns, Owning
<1>12. \A c \in Buf : gate'[c] = p => Owned(c)'
  BY <1>1, <1>2, <1>7, <1>9 DEF Owned, Owning, TransferInv
<1>13. TransferInv'
  BY <1>1, <1>2, <1>5, <1>6, <1>7, <1>10, <1>11, <1>12, FrameOne
<1>14. QED
  BY <1>8, <1>13 DEF CacheInv

(* The buffer of p is written, by p or by the driver. *)
WriteBegins(p, b, a) ==
  /\ req' = [req EXCEPT ![b] = "write"]
  /\ buf' = [buf EXCEPT ![b].asy = a, ![b].ntp = TRUE]
  /\ UNCHANGED <<hash, lru, disk>>

LEMMA WriteIs ==
  ASSUME Typed, NEW p, NEW b \in Buf, GoodBuffer(b), buf[b].mod, NEW a \in BOOLEAN,
         WriteBegins(p, b, a), gate'[b] \in Proc \cup {Driver}, a <=> gate'[b] = Driver
  PROVE  /\ buf'[b] = [blk |-> buf[b].blk, ntp |-> TRUE, mod |-> buf[b].mod, asy |-> a,
                       err |-> buf[b].err, data |-> buf[b].data]
         /\ ~buf'[b].err /\ buf'[b].ntp
         /\ buf' \in [Buf -> Header] /\ req' \in [Buf -> {"none", "read", "write"}]
         /\ req'[b] = "write"
         /\ \A c \in Buf \ {b} : buf'[c] = buf[c] /\ req'[c] = req[c]
         /\ GoodBuffer(b)'
<1>1. buf[b] \in Header
  BY DEF Typed
<1>2. buf'[b] = [blk |-> buf[b].blk, ntp |-> TRUE, mod |-> buf[b].mod, asy |-> a,
                 err |-> buf[b].err, data |-> buf[b].data]
  BY <1>1 DEF WriteBegins, Typed, Header
<1>3. buf'[b] \in Header
  BY <1>1, <1>2 DEF Header
<1>4. /\ buf' \in [Buf -> Header] /\ req' \in [Buf -> {"none", "read", "write"}]
      /\ req'[b] = "write"
      /\ \A c \in Buf \ {b} : buf'[c] = buf[c] /\ req'[c] = req[c]
  BY <1>3 DEF WriteBegins, Typed
<1>5. /\ buf'[b].blk = buf[b].blk /\ buf'[b].ntp /\ buf'[b].mod
      /\ (buf'[b].asy <=> a) /\ (buf'[b].err <=> buf[b].err)
  BY <1>2
<1>6. GoodBuffer(b)'
  BY <1>4, <1>5, Names DEF GoodBuffer
<1>7. QED
  BY <1>2, <1>4, <1>5, <1>6 DEF GoodBuffer

LEMMA WriteKeeps ==
  ASSUME CacheInv, NEW p \in Proc, NEW b, b = st[p].buf, WriteBehind(p) \/ WriteThrough(p)
  PROVE  CacheInv'
<1>1. /\ Typed /\ TransferInv /\ st[p].pc = "use" /\ GoodPlace(p) /\ Owns(p) /\ buf[b].mod
  BY DEF CacheInv, TransferInv, WriteBehind, WriteThrough, Is
<1>2. b \in Buf /\ gate[b] = p /\ GoodBuffer(b) /\ st[p] \in PlaceType
  BY <1>1 DEF Owns, Owning, TransferInv, Typed
<1>3. \A c \in Buf \ {b} : gate[c] # p
  BY <1>1 DEF TransferInv, Owned
<1>4. CASE WriteBehind(p)
  <2>1. WriteBegins(p, b, TRUE) /\ gate' = [gate EXCEPT ![b] = Driver] /\ st' = [st EXCEPT ![p] = Idle]
    BY <1>4 DEF WriteBehind, WriteBegins
  <2>2. /\ gate'[b] = Driver /\ \A c \in Buf \ {b} : gate'[c] = gate[c]
        /\ gate' \in [Buf -> Proc \cup {Driver, Free}]
        /\ st'[p] = Idle /\ st' \in [Proc -> PlaceType]
        /\ \A q \in Proc \ {p} : st'[q] = st[q]
    BY <1>1, <1>2, <2>1, IdleIs DEF Typed
  <2>3. /\ buf' \in [Buf -> Header] /\ req' \in [Buf -> {"none", "read", "write"}]
        /\ \A c \in Buf \ {b} : Same(c)
        /\ GoodBuffer(b)'
    <3>1. TRUE \in BOOLEAN /\ gate'[b] \in Proc \cup {Driver} /\ (TRUE <=> gate'[b] = Driver)
      BY <2>2
    <3>2. /\ buf' \in [Buf -> Header] /\ req' \in [Buf -> {"none", "read", "write"}]
          /\ \A c \in Buf \ {b} : buf'[c] = buf[c] /\ req'[c] = req[c]
          /\ GoodBuffer(b)'
      BY <1>1, <1>2, <2>1, <3>1, WriteIs, ZenonT(60)
    <3>3. QED
      BY <2>2, <3>2 DEF Same
  <2>4. Typed'
    BY <1>1, <2>1, <2>2, <2>3 DEF Typed, HashType, WriteBegins
  <2>5. GoodPlace(p)' /\ Owns(p)'
    BY <2>2, IdleIs DEF GoodPlace, Owns, Owning
  <2>6. \A c \in Buf : gate'[c] = p => Owned(c)'
    BY <1>3, <2>2, Names
  <2>7. TransferInv'
    BY <1>1, <1>2, <2>2, <2>3, <2>5, <2>6, FrameOne
  <2>8. QED
    BY <2>4, <2>7 DEF CacheInv
<1>5. CASE WriteThrough(p)
  <2>1. WriteBegins(p, b, FALSE) /\ gate' = gate /\ st' = [st EXCEPT ![p].pc = "wio"]
    BY <1>5 DEF WriteThrough, WriteBegins
  <2>2. /\ gate'[b] = p
        /\ st'[p] = [pc |-> "wio", want |-> st[p].want, buf |-> b, op |-> st[p].op]
        /\ st' \in [Proc -> PlaceType]
        /\ \A q \in Proc \ {p} : st'[q] = st[q]
    BY <1>1, <1>2, <2>1 DEF Typed, PlaceType, Pcs
  <2>3. /\ buf' \in [Buf -> Header] /\ req' \in [Buf -> {"none", "read", "write"}]
        /\ req'[b] = "write" /\ ~buf'[b].err
        /\ \A c \in Buf \ {b} : Same(c)
        /\ GoodBuffer(b)'
    <3>1. FALSE \in BOOLEAN /\ gate'[b] \in Proc \cup {Driver} /\ (FALSE <=> gate'[b] = Driver)
      BY <2>2, Names
    <3>2. /\ buf' \in [Buf -> Header] /\ req' \in [Buf -> {"none", "read", "write"}]
          /\ req'[b] = "write" /\ ~buf'[b].err
          /\ \A c \in Buf \ {b} : buf'[c] = buf[c] /\ req'[c] = req[c]
          /\ GoodBuffer(b)'
      BY <1>1, <1>2, <2>1, <3>1, WriteIs, ZenonT(60)
    <3>3. QED
      BY <2>1, <3>2 DEF Same
  <2>4. Typed'
    BY <1>1, <2>1, <2>2, <2>3 DEF Typed, HashType, WriteBegins
  <2>5. GoodPlace(p)' /\ Owns(p)'
    <3>1. st'[p].pc = "wio" /\ st'[p].buf = b
      BY <2>2
    <3>2. QED
      BY <1>2, <2>2, <2>3, <3>1 DEF GoodPlace, Owns, Owning
  <2>6. \A c \in Buf : gate'[c] = p => Owned(c)'
    <3>1. st'[p].pc = "wio" /\ st'[p].buf = b
      BY <2>2
    <3>2. QED
      BY <1>3, <2>1, <2>2, <3>1 DEF Owned, Owning
  <2>7. TransferInv'
    BY <1>1, <1>2, <2>2, <2>3, <2>5, <2>6, FrameOne
  <2>8. QED
    BY <2>4, <2>7 DEF CacheInv
<1>6. QED
  BY <1>4, <1>5

(* The headers that bdone() makes: the transfer is over, the data are valid,
   and the buffer is released. *)
Done(h, kind, ok, new) ==
  [h EXCEPT !.data = IF kind = "read" /\ ok THEN new ELSE @,
            !.mod = IF kind = "write" THEN FALSE ELSE @,
            !.err = IF ok THEN @ ELSE TRUE,
            !.blk = IF kind = "read" /\ ~ok THEN NODEV ELSE @,
            !.asy = FALSE]
Valid(h) == [h EXCEPT !.ntp = FALSE]
Released(h) == [h EXCEPT !.ntp = FALSE, !.err = FALSE, !.blk = IF h.err THEN NODEV ELSE @]

LEMMA DoneHeader ==
  ASSUME NEW r \in Header, NEW kind, NEW ok \in BOOLEAN, NEW new \in Data, kind # "write" => ~r.mod,
         ~r.err, NEW h, h = Done(r, kind, ok, new)
  PROVE  /\ h \in Header
         /\ h.data = IF kind = "read" /\ ok THEN new ELSE r.data
         /\ h.blk = IF kind = "read" /\ ~ok THEN NODEV ELSE r.blk
         /\ ~h.mod /\ ~h.asy /\ (h.err <=> ~ok)
<1>1. h \in Header
  BY DEF Header, Done
<1>2. /\ h.data = IF kind = "read" /\ ok THEN new ELSE r.data
      /\ h.blk = IF kind = "read" /\ ~ok THEN NODEV ELSE r.blk
  BY DEF Header, Done
<1>3. ~h.mod /\ ~h.asy /\ (h.err <=> ~ok)
  BY DEF Header, Done
<1>4. QED
  BY <1>1, <1>2, <1>3

LEMMA ValidHeader ==
  ASSUME NEW h \in Header, NEW r, r = Valid(h)
  PROVE  /\ r \in Header /\ r.data = h.data /\ r.blk = h.blk
         /\ ~r.ntp /\ (r.mod <=> h.mod) /\ (r.asy <=> h.asy) /\ (r.err <=> h.err)
<1>1. r \in Header /\ r.data = h.data /\ r.blk = h.blk
  BY DEF Header, Valid
<1>2. ~r.ntp /\ (r.mod <=> h.mod) /\ (r.asy <=> h.asy) /\ (r.err <=> h.err)
  BY DEF Header, Valid
<1>3. QED
  BY <1>1, <1>2

LEMMA ReleasedHeader ==
  ASSUME NEW h \in Header, NEW r, r = Released(h)
  PROVE  /\ r \in Header /\ r.data = h.data /\ r.blk = IF h.err THEN NODEV ELSE h.blk
         /\ ~r.ntp /\ (r.mod <=> h.mod) /\ (r.asy <=> h.asy) /\ ~r.err
<1>1. r \in Header /\ r.data = h.data
  BY DEF Header, Released
<1>2. r.blk = IF h.err THEN NODEV ELSE h.blk
  BY DEF Header, Released
<1>3. ~r.ntp /\ (r.mod <=> h.mod) /\ (r.asy <=> h.asy) /\ ~r.err
  BY DEF Header, Released
<1>4. QED
  BY <1>1, <1>2, <1>3

(* bdone(): what becomes of the buffer. *)
LEMMA BdoneIs ==
  ASSUME Typed, TransferInv, NEW b \in Buf, NEW ok \in BOOLEAN, Bdone(b, ok)
  PROVE  /\ req' = [req EXCEPT ![b] = "none"]
         /\ req[b] \in {"read", "write"} /\ (req[b] = "read" \/ ok)
         /\ buf[b].ntp /\ ~buf[b].err /\ buf[b].blk \in Block
         /\ disk' = (IF req[b] = "write" THEN [disk EXCEPT ![buf[b].blk] = buf[b].data] ELSE disk)
         /\ buf' \in [Buf -> Header] /\ \A c \in Buf \ {b} : buf'[c] = buf[c]
         /\ buf'[b].blk = IF ok THEN buf[b].blk ELSE NODEV
         /\ buf'[b].data = IF req[b] = "read" /\ ok THEN disk[buf[b].blk] ELSE buf[b].data
         /\ ~buf'[b].ntp /\ ~buf'[b].mod /\ ~buf'[b].asy
         /\ buf'[b].err <=> (~ok /\ ~buf[b].asy)
         /\ buf[b].asy => gate' = [gate EXCEPT ![b] = Free]
         /\ ~buf[b].asy => gate' = gate
         /\ UNCHANGED <<hash, lru, st>>
<1>0. PICK h : h = Done(buf[b], req[b], ok, disk[buf[b].blk])
  OBVIOUS
<1>1. GoodBuffer(b) /\ buf[b] \in Header /\ req[b] \in {"none", "read", "write"}
  BY DEF TransferInv, Typed
<1>2. req[b] \in {"read", "write"} /\ (req[b] = "read" \/ ok)
  BY <1>1 DEF Bdone
<1>3. buf[b].ntp /\ ~buf[b].err /\ buf[b].blk \in Block /\ (req[b] # "write" => ~buf[b].mod)
  BY <1>1, <1>2 DEF GoodBuffer, Header
<1>4. disk[buf[b].blk] \in Data
  BY <1>3 DEF Typed
<1>5. /\ h \in Header /\ h.data = (IF req[b] = "read" /\ ok THEN disk[buf[b].blk] ELSE buf[b].data)
      /\ h.blk = IF req[b] = "read" /\ ~ok THEN NODEV ELSE buf[b].blk
      /\ ~h.mod /\ ~h.asy /\ (h.err <=> ~ok)
  BY <1>0, <1>1, <1>3, <1>4, DoneHeader
<1>6. /\ buf[b].asy => Brelease(b, h)
      /\ ~buf[b].asy => buf' = [buf EXCEPT ![b] = [h EXCEPT !.ntp = FALSE]] /\ gate' = gate
      /\ req' = [req EXCEPT ![b] = "none"]
      /\ disk' = (IF req[b] = "write" THEN [disk EXCEPT ![buf[b].blk] = buf[b].data] ELSE disk)
      /\ UNCHANGED <<hash, lru, st>>
  BY <1>0 DEF Bdone, Done
<1>7. /\ buf' \in [Buf -> Header] /\ \A c \in Buf \ {b} : buf'[c] = buf[c]
      /\ buf'[b].data = h.data /\ buf'[b].blk = (IF ok THEN buf[b].blk ELSE NODEV)
      /\ ~buf'[b].ntp /\ ~buf'[b].mod /\ ~buf'[b].asy
      /\ buf'[b].err <=> (~ok /\ ~buf[b].asy)
  <2>1. CASE buf[b].asy
    <3>0. PICK r : r = Released(h)
      OBVIOUS
    <3>1. buf' = [buf EXCEPT ![b] = r]
      BY <1>6, <2>1, <3>0 DEF Brelease, Released
    <3>2. /\ r \in Header /\ r.data = h.data /\ r.blk = IF h.err THEN NODEV ELSE h.blk
          /\ ~r.ntp /\ (r.mod <=> h.mod) /\ (r.asy <=> h.asy) /\ ~r.err
      BY <1>5, <3>0, ReleasedHeader
    <3>3. buf'[b] = r /\ buf' \in [Buf -> Header] /\ \A c \in Buf \ {b} : buf'[c] = buf[c]
      BY <3>1, <3>2 DEF Typed
    <3>4. QED
      BY <1>2, <1>5, <2>1, <3>2, <3>3
  <2>2. CASE ~buf[b].asy
    <3>0. PICK r : r = Valid(h)
      OBVIOUS
    <3>1. buf' = [buf EXCEPT ![b] = r]
      BY <1>6, <2>2, <3>0 DEF Valid
    <3>2. /\ r \in Header /\ r.data = h.data /\ r.blk = h.blk
          /\ ~r.ntp /\ (r.mod <=> h.mod) /\ (r.asy <=> h.asy) /\ (r.err <=> h.err)
      BY <1>5, <3>0, ValidHeader
    <3>3. buf'[b] = r /\ buf' \in [Buf -> Header] /\ \A c \in Buf \ {b} : buf'[c] = buf[c]
      BY <3>1, <3>2 DEF Typed
    <3>4. QED
      BY <1>2, <1>5, <2>2, <3>2, <3>3
  <2>3. QED
    BY <2>1, <2>2
<1>8. (buf[b].asy => gate' = [gate EXCEPT ![b] = Free]) /\ (~buf[b].asy => gate' = gate)
  BY <1>6 DEF Brelease
<1>9. QED
  BY <1>2, <1>3, <1>5, <1>6, <1>7, <1>8

LEMMA BdoneKeeps ==
  ASSUME CacheInv, NEW b \in Buf, NEW ok \in BOOLEAN, Bdone(b, ok)
  PROVE  CacheInv'
<1>1. Typed /\ TransferInv /\ GoodBuffer(b) /\ Owned(b) /\ buf[b] \in Header
      /\ gate[b] \in Proc \cup {Driver, Free}
  BY DEF CacheInv, TransferInv, Typed
<1>3. /\ req' = [req EXCEPT ![b] = "none"]
      /\ req[b] \in {"read", "write"} /\ (req[b] = "read" \/ ok)
      /\ buf[b].ntp /\ ~buf[b].err /\ buf[b].blk \in Block
      /\ disk' = (IF req[b] = "write" THEN [disk EXCEPT ![buf[b].blk] = buf[b].data] ELSE disk)
      /\ buf[b].asy => gate' = [gate EXCEPT ![b] = Free]
      /\ ~buf[b].asy => gate' = gate
      /\ UNCHANGED <<hash, lru, st>>
  BY <1>1, BdoneIs
<1>4. /\ buf' \in [Buf -> Header] /\ \A c \in Buf \ {b} : buf'[c] = buf[c]
      /\ buf'[b].blk = IF ok THEN buf[b].blk ELSE NODEV
      /\ ~buf'[b].ntp /\ ~buf'[b].mod /\ ~buf'[b].asy
      /\ buf'[b].err <=> (~ok /\ ~buf[b].asy)
  BY <1>1, BdoneIs
<1>5. req'[b] = "none" /\ \A c \in Buf \ {b} : req'[c] = req[c]
  BY <1>1, <1>3 DEF Typed
<1>7. Typed'
  <2>1. buf' \in [Buf -> Header] /\ req' \in [Buf -> {"none", "read", "write"}]
    BY <1>1, <1>3, <1>4 DEF Typed
  <2>2. gate' \in [Buf -> Proc \cup {Driver, Free}]
    BY <1>1, <1>3 DEF Typed
  <2>3. disk' \in [Block -> Data]
    BY <1>1, <1>3 DEF Typed, Header
  <2>4. QED
    BY <1>1, <1>3, <2>1, <2>2, <2>3 DEF Typed, HashType
<1>8. CASE buf[b].asy
  <2>1. gate[b] = Driver /\ gate'[b] = Free /\ \A c \in Buf \ {b} : Same(c)
    BY <1>1, <1>3, <1>4, <1>5, <1>8 DEF GoodBuffer, Same, Typed
  <2>3. GoodBuffer(b)'
    BY <1>4, <1>5, <1>8, <2>1, Names DEF GoodBuffer
  <2> DEFINE P == {}
             C == {b}
  <2>4. /\ P \in SUBSET Proc /\ C \in SUBSET Buf
        /\ \A q \in Proc \ P : st'[q] = st[q]
        /\ \A c \in Buf \ C : Same(c)
        /\ \A c \in C : gate[c] \in P \cup {Free, Driver} /\ gate'[c] \in P \cup {Free, Driver}
        /\ \A c \in C : GoodBuffer(c)'
        /\ \A p \in P : GoodPlace(p)' /\ Owns(p)'
        /\ \A c \in Buf : gate'[c] \in P => Owned(c)'
    BY <1>3, <2>1, <2>3
  <2> HIDE DEF P, C
  <2>5. TransferInv'
    BY <1>1, <2>4, Frame
  <2>6. QED
    BY <1>7, <2>5 DEF CacheInv
<1>9. CASE ~buf[b].asy
  <2>1. PICK p \in Proc : gate[b] = p
    BY <1>1, <1>3, <1>9 DEF GoodBuffer
  <2>2. gate' = gate /\ st' = st /\ \A c \in Buf \ {b} : Same(c)
    BY <1>3, <1>4, <1>5, <1>9 DEF Same
  <2>3. st[p].pc \in Owning /\ st[p].buf = b /\ GoodPlace(p) /\ Owns(p)
    BY <1>1, <2>1 DEF Owned, TransferInv
  <2>4. GoodBuffer(b)'
    BY <1>4, <1>5, <2>1, <2>2, Names DEF GoodBuffer
  <2>5. GoodPlace(p)'
    <3>1. st[p].pc \in {"io", "wio", "sio"}
      BY <1>3, <2>3 DEF GoodPlace, Owning
    <3>2. CASE st[p].pc = "io"
      <4>1. buf[b].blk = st[p].want /\ st[p].want \in Block
        BY <1>3, <2>3, <3>2 DEF GoodPlace
      <4>2. QED
        BY <1>4, <1>5, <1>9, <2>2, <2>3, <3>2, <4>1 DEF GoodPlace
    <3>3. CASE st[p].pc \in {"wio", "sio"}
      <4>1. ok
        BY <1>3, <2>3, <3>3 DEF GoodPlace
      <4>2. QED
        BY <1>4, <1>5, <2>2, <2>3, <3>3, <4>1 DEF GoodPlace
    <3>4. QED
      BY <3>1, <3>2, <3>3
  <2>6. Owns(p)'
    BY <2>2, <2>3 DEF Owns
  <2>7. \A c \in Buf : gate'[c] = p => Owned(c)'
    BY <1>1, <2>2 DEF Owned, TransferInv
  <2>8. gate[b] \in {p, Free, Driver} /\ gate'[b] \in {p, Free, Driver}
    BY <2>1, <2>2
  <2>9. \A q \in Proc \ {p} : st'[q] = st[q]
    BY <2>2
  <2>10. TransferInv'
    BY <1>1, <2>2, <2>4, <2>5, <2>6, <2>7, <2>8, <2>9, FrameOne
  <2>11. QED
    BY <1>7, <2>10 DEF CacheInv
<1>10. QED
  BY <1>8, <1>9

(* bsync(), with the gates as they are when the search goes on. *)
LEMMA SyncKeeps ==
  ASSUME CacheInv, NEW p \in Proc, NEW n \in 0..NBUF, NEW gates,
         gates \in [Buf -> Proc \cup {Driver, Free}],
         \A c \in Buf : gates[c] # p,
         \A c \in Buf : \/ gates[c] = gate[c]
                        \/ /\ gates[c] = Free /\ gate[c] = p
                           /\ req[c] = "none" /\ ~buf[c].ntp /\ ~buf[c].err,
         SyncFrom(p, n, gates), UNCHANGED <<hash, lru, disk>>
  PROVE  CacheInv'
<1> DEFINE dirty == {c \in Buf : c <= n /\ buf[c].mod}
           m == Max(dirty)
           C == {c \in Buf : gates[c] # gate[c]}
           P == {p}
<1>1. Typed /\ TransferInv
  BY DEF CacheInv
<1>2. ASSUME dirty # {} PROVE m \in Buf /\ buf[m].mod
  <2>1. dirty \subseteq 0..NBUF
    BY DEF Buf
  <2>2. m \in dirty
    BY <1>2, <2>1, Names, MaxIs
  <2>3. QED
    BY <2>2
<1>3. ASSUME NEW c \in C PROVE GoodBuffer(c) /\ gates[c] = Free /\ gate[c] = p /\ req[c] = "none"
                               /\ ~buf[c].ntp /\ ~buf[c].err
  BY <1>1 DEF TransferInv
<1>4. C \in SUBSET Buf /\ P \in SUBSET Proc
  OBVIOUS
<1>5. CASE /\ gate' = gates /\ UNCHANGED <<buf, req>>
           /\ \/ st' = [st EXCEPT ![p] = Idle]
              \/ /\ m \in Buf
                 /\ st' = [st EXCEPT ![p] = At("sgate", NODEV, m, "read")]
  <2>1. /\ st'[p] \in PlaceType /\ st'[p].pc \in {"idle", "sgate"}
        /\ st'[p].pc = "sgate" => st'[p].buf \in Buf
        /\ st' \in [Proc -> PlaceType]
        /\ \A q \in Proc \ P : st'[q] = st[q]
    <3>1. /\ At("sgate", NODEV, m, "read") \in PlaceType
          /\ At("sgate", NODEV, m, "read").pc = "sgate"
          /\ At("sgate", NODEV, m, "read").buf = m
          \/ m \notin Buf
      BY AtIs DEF Pcs, Ops
    <3> HIDE DEF m
    <3>2. QED
      BY <1>1, <1>5, <3>1, IdleIs DEF Typed
  <2>2. Typed'
    BY <1>1, <1>5, <2>1 DEF Typed, HashType
  <2>3. GoodPlace(p)' /\ Owns(p)'
    BY <2>1 DEF GoodPlace, Owns, Owning
  <2>4. ASSUME NEW c \in C
        PROVE  /\ GoodBuffer(c)'
               /\ gate[c] \in P \cup {Free, Driver} /\ gate'[c] \in P \cup {Free, Driver}
    BY <1>3, <1>5, Names DEF GoodBuffer
  <2>5. \A c \in Buf \ C : Same(c)
    BY <1>5 DEF Same
  <2>6. \A c \in Buf : gate'[c] \notin P
    BY <1>5
  <2> HIDE DEF C
  <2>7. \A q \in P : GoodPlace(q)' /\ Owns(q)'
    BY <2>3
  <2> HIDE DEF P
  <2>8. TransferInv'
    BY <1>1, <1>4, <2>1, <2>4, <2>5, <2>6, <2>7, Frame
  <2>9. QED
    BY <2>2, <2>8 DEF CacheInv
<1>6. ASSUME NEW b \in Buf, buf[b].mod, gates[b] = Free,
             st' = [st EXCEPT ![p] = At("sio", NODEV, b, "read")],
             gate' = [gates EXCEPT ![b] = p],
             buf' = [buf EXCEPT ![b].asy = FALSE, ![b].ntp = TRUE],
             req' = [req EXCEPT ![b] = "write"]
      PROVE  CacheInv'
  <2> DEFINE D == C \cup {b}
  <2>1. /\ st'[p] = At("sio", NODEV, b, "read") /\ st'[p].pc = "sio" /\ st'[p].buf = b
        /\ st' \in [Proc -> PlaceType]
        /\ \A q \in Proc \ P : st'[q] = st[q]
    <3>1. /\ At("sio", NODEV, b, "read") \in PlaceType
          /\ At("sio", NODEV, b, "read").pc = "sio" /\ At("sio", NODEV, b, "read").buf = b
      BY AtIs DEF Pcs, Ops
    <3>2. QED
      BY <1>1, <1>6, <3>1 DEF Typed
  <2>2. /\ gate' \in [Buf -> Proc \cup {Driver, Free}] /\ gate'[b] = p
        /\ \A c \in Buf \ {b} : gate'[c] = gates[c]
    BY <1>6
  <2>3. WriteBegins(p, b, FALSE)
    BY <1>6 DEF WriteBegins
  <2>4. GoodBuffer(b) /\ gate'[b] \in Proc \cup {Driver} /\ FALSE \in BOOLEAN
        /\ (FALSE <=> gate'[b] = Driver)
    BY <1>1, <2>2, Names DEF TransferInv
  <2>5. /\ buf' \in [Buf -> Header] /\ req' \in [Buf -> {"none", "read", "write"}]
        /\ req'[b] = "write" /\ ~buf'[b].err
        /\ \A c \in Buf \ {b} : buf'[c] = buf[c] /\ req'[c] = req[c]
        /\ GoodBuffer(b)'
    BY <1>1, <1>6, <2>3, <2>4, WriteIs
  <2>6. Typed'
    BY <1>1, <2>1, <2>2, <2>5 DEF Typed, HashType
  <2>7. GoodPlace(p)' /\ Owns(p)'
    BY <2>1, <2>2, <2>5 DEF GoodPlace, Owns
  <2>8. ASSUME NEW c \in D
        PROVE  /\ GoodBuffer(c)'
               /\ gate[c] \in P \cup {Free, Driver} /\ gate'[c] \in P \cup {Free, Driver}
    <3>1. CASE c = b
      BY <1>6, <2>2, <2>5, <3>1
    <3>2. CASE c # b
      <4>1. c \in C /\ buf'[c] = buf[c] /\ req'[c] = req[c] /\ gate'[c] = gates[c]
        BY <2>2, <2>5, <3>2
      <4>2. QED
        BY <1>3, <4>1, Names DEF GoodBuffer
    <3>3. QED
      BY <3>1, <3>2
  <2>9. \A c \in Buf \ D : Same(c)
    BY <2>2, <2>5 DEF Same
  <2>10. \A c \in Buf : gate'[c] \in P => Owned(c)'
    BY <2>1, <2>2 DEF Owned, Owning
  <2>11. D \in SUBSET Buf
    BY <1>4
  <2>12. \A q \in P : GoodPlace(q)' /\ Owns(q)'
    BY <2>7
  <2> HIDE DEF D, P
  <2>13. TransferInv'
    BY <1>1, <1>4, <2>1, <2>8, <2>9, <2>10, <2>11, <2>12, Frame
  <2>14. QED
    BY <2>6, <2>13 DEF CacheInv
<1>7. QED
  <2> HIDE DEF m, dirty
  <2>1. dirty = {} \/ (m \in Buf /\ buf[m].mod)
    BY <1>2
  <2>2. \/ /\ gate' = gates /\ UNCHANGED <<buf, req>>
           /\ \/ st' = [st EXCEPT ![p] = Idle]
              \/ /\ m \in Buf
                 /\ st' = [st EXCEPT ![p] = At("sgate", NODEV, m, "read")]
        \/ /\ m \in Buf /\ buf[m].mod /\ gates[m] = Free
           /\ st' = [st EXCEPT ![p] = At("sio", NODEV, m, "read")]
           /\ gate' = [gates EXCEPT ![m] = p]
           /\ buf' = [buf EXCEPT ![m].asy = FALSE, ![m].ntp = TRUE]
           /\ req' = [req EXCEPT ![m] = "write"]
    <3>1. CASE dirty = {}
      <4>1. gate' = gates /\ UNCHANGED <<buf, req>> /\ st' = [st EXCEPT ![p] = Idle]
        BY <3>1 DEF SyncFrom, dirty
      <4>2. QED
        BY <4>1
    <3>2. CASE dirty # {} /\ gates[m] # Free
      BY <2>1, <3>2 DEF SyncFrom, m, dirty
    <3>3. CASE dirty # {} /\ gates[m] = Free
      BY <2>1, <3>3 DEF SyncFrom, m, dirty
    <3>4. QED
      BY <3>1, <3>2, <3>3
  <2>3. QED
    BY <1>5, <1>6, <2>2

LEMMA SyncsKeep ==
  ASSUME CacheInv, NEW p \in Proc, Sync(p) \/ SyncLocked(p) \/ SyncWritten(p)
  PROVE  CacheInv'
<1>1. Typed /\ TransferInv /\ GoodPlace(p) /\ Owns(p)
  BY DEF CacheInv, TransferInv
<1>2. CASE Sync(p) \/ SyncLocked(p)
  <2>1. /\ gate \in [Buf -> Proc \cup {Driver, Free}]
        /\ \A c \in Buf : gate[c] # p
    BY <1>1, <1>2 DEF Typed, TransferInv, Owned, Owning, Sync, SyncLocked, Is
  <2>2. PICK n \in 0..NBUF : SyncFrom(p, n, gate)
    <3>1. CASE Sync(p)
      BY <3>1, Names DEF Sync
    <3>2. CASE SyncLocked(p)
      <4>1. st[p].buf \in 0..NBUF
        BY <1>1, <3>2, Names DEF SyncLocked, Is, GoodPlace, Buf
      <4>2. QED
        BY <3>2, <4>1 DEF SyncLocked
    <3>3. QED
      BY <1>2, <3>1, <3>2
  <2>3. UNCHANGED <<hash, lru, disk>>
    BY <1>2 DEF Sync, SyncLocked
  <2>4. QED
    BY <2>1, <2>2, <2>3, SyncKeeps
<1>3. CASE SyncWritten(p)
  <2>1. PICK b : b = st[p].buf
    OBVIOUS
  <2>2. /\ b \in Buf /\ gate[b] = p /\ req[b] = "none" /\ ~buf[b].ntp /\ ~buf[b].err
    BY <1>1, <1>3, <2>1 DEF SyncWritten, Is, GoodPlace, Owns, Owning, TransferInv, GoodBuffer, Typed
  <2> DEFINE gates == [gate EXCEPT ![b] = Free]
  <2>3. \A c \in Buf : gates[c] = IF c = b THEN Free ELSE gate[c]
    BY <1>1, <2>2 DEF Typed
  <2>4. gates \in [Buf -> Proc \cup {Driver, Free}]
    BY <1>1 DEF Typed
  <2>5. \A c \in Buf \ {b} : gate[c] # p
    BY <1>1, <2>1 DEF TransferInv, Owned
  <2>6. SyncFrom(p, b - 1, gates) /\ b - 1 \in 0..NBUF
    BY <1>3, <2>1, <2>2, Names DEF SyncWritten, Buf
  <2>7. UNCHANGED <<hash, lru, disk>>
    BY <1>3 DEF SyncWritten
  <2> HIDE DEF gates
  <2>8. \A c \in Buf : gates[c] # p
    BY <2>3, <2>5, Names
  <2>9. \A c \in Buf : \/ gates[c] = gate[c]
                       \/ /\ gates[c] = Free /\ gate[c] = p
                          /\ req[c] = "none" /\ ~buf[c].ntp /\ ~buf[c].err
    BY <2>2, <2>3
  <2>10. QED
    BY <2>4, <2>6, <2>7, <2>8, <2>9, SyncKeeps
<1>4. QED
  BY <1>2, <1>3

LEMMA ReleasesKeep ==
  ASSUME CacheInv, NEW p \in Proc, ReadDone(p) \/ Release(p) \/ WriteDone(p)
  PROVE  CacheInv'
<1>1. Typed /\ TransferInv /\ GoodPlace(p) /\ Owns(p)
  BY DEF CacheInv, TransferInv
<1>2. st[p].pc \in Owning /\ UNCHANGED <<hash, lru, req, disk>>
  BY DEF ReadDone, Release, WriteDone, Is, Owning
<1>3. PICK b \in Buf : b = st[p].buf
  BY <1>1, <1>2 DEF Owns
<1>4. gate[b] = p /\ GoodBuffer(b) /\ st[p] \in PlaceType
  BY <1>1, <1>2, <1>3 DEF Owns, TransferInv, Typed
<1>5. req[b] = "none"
  BY <1>1, <1>3, <1>4 DEF ReadDone, Release, WriteDone, Is, GoodBuffer, GoodPlace, Typed
<1>6. CASE Brelease(b, buf[b]) /\ st' = [st EXCEPT ![p] = Idle]
  BY <1>2, <1>3, <1>5, <1>6, ReleasedKeeps
<1>7. CASE /\ ReadDone(p) /\ ~buf[b].err
           /\ st' = [st EXCEPT ![p].pc = "use"] /\ UNCHANGED <<buf, gate>>
  <2>1. /\ st'[p] = [pc |-> "use", want |-> st[p].want, buf |-> b, op |-> st[p].op]
        /\ st' \in [Proc -> PlaceType]
        /\ \A q \in Proc \ {p} : st'[q] = st[q]
    BY <1>1, <1>3, <1>4, <1>7 DEF Typed, PlaceType, Pcs
  <2>2. st'[p].pc = "use" /\ st'[p].want = st[p].want /\ st'[p].buf = b
    BY <2>1
  <2>3. Typed'
    BY <1>1, <1>2, <1>7, <2>1 DEF Typed, HashType
  <2>4. \A c \in Buf \ {b} : Same(c)
    BY <1>2, <1>7 DEF Same
  <2>5. GoodBuffer(b)'
    BY <1>2, <1>4, <1>7 DEF GoodBuffer
  <2>6. GoodPlace(p)' /\ Owns(p)'
    <3>1. buf[b].blk = st[p].want /\ st[p].want \in Block /\ ~buf[b].ntp
      BY <1>1, <1>3, <1>7 DEF ReadDone, Is, GoodPlace
    <3>2. QED
      BY <1>2, <1>4, <1>5, <1>7, <2>2, <3>1 DEF GoodPlace, Owns, Owning
  <2>7. \A c \in Buf : gate'[c] = p => Owned(c)'
    BY <1>1, <1>3, <1>7, <2>2 DEF Owned, Owning, TransferInv
  <2>8. gate[b] \in {p, Free, Driver} /\ gate'[b] \in {p, Free, Driver}
    BY <1>4, <1>7
  <2>9. TransferInv'
    BY <1>1, <2>1, <2>4, <2>5, <2>6, <2>7, <2>8, FrameOne
  <2>10. QED
    BY <2>3, <2>9 DEF CacheInv
<1>8. QED
  BY <1>3, <1>6, <1>7 DEF ReadDone, Release, WriteDone

LEMMA ScanKeeps ==
  ASSUME CacheInv, NEW p \in Proc, st[p].pc \notin Owning, NEW x \in Block, NEW op \in Ops,
         Scan(p, x, op), UNCHANGED disk
  PROVE  CacheInv'
<1>1. TransferInv'
  BY ScanTransfers DEF CacheInv
<1>2. Typed'
  BY ScanTyped DEF CacheInv, Typed
<1>3. QED
  BY <1>1, <1>2 DEF CacheInv

LEMMA LruKeeps ==
  ASSUME CacheInv, NEW b \in Buf, lru' = LRUupdate(b), UNCHANGED <<hash, buf, gate, req, disk, st>>
  PROVE  CacheInv'
<1>1. lru' \in [Buf -> Buf] /\ \A c \in Buf : \E i \in Buf : lru'[i] = c
  BY LruTypes DEF CacheInv
<1>2. Typed'
  BY <1>1 DEF CacheInv, Typed, HashType
<1>3. TransferInv'
  BY DEF CacheInv, TransferInv, GoodBuffer, Owned, GoodPlace, Owns
<1>4. QED
  BY <1>2, <1>3 DEF CacheInv

LEMMA ClaimsKeep ==
  ASSUME CacheInv, NEW p \in Proc, NEW x \in Block, NEW op \in {"read", "fill"}, Claim(p, x, op)
  PROVE  CacheInv'
<1>1. Typed /\ TransferInv /\ HashType /\ op \in Ops
  BY DEF CacheInv, Typed, Ops
<1>2. st[p].pc = "idle" /\ st[p].pc \notin Owning /\ UNCHANGED disk
  BY DEF Claim, Is, Owning
<1>3. PICK b : b = Cached(x)
  OBVIOUS
<1>4. CASE b = BNULL
  BY <1>1, <1>2, <1>3, <1>4, ScanKeeps DEF Claim
<1>5. CASE b # BNULL
  <2>1. b \in Buf
    BY <1>1, <1>3, <1>5, CachedIs
  <2>2. CASE gate[b] = Free
    BY <1>2, <1>3, <1>5, <2>1, <2>2, LockedKeeps DEF Claim
  <2>3. CASE gate[b] # Free
    <3>1. st' = [st EXCEPT ![p] = At("gate", x, b, op)] /\ UNCHANGED <<hash, lru, buf, gate, req>>
      BY <1>3, <1>5, <2>3 DEF Claim, buffers
    <3>2. /\ At("gate", x, b, op) \in PlaceType /\ At("gate", x, b, op).pc = "gate"
          /\ At("gate", x, b, op).want = x /\ At("gate", x, b, op).buf = b
          /\ At("gate", x, b, op).op = op
      BY <1>1, <2>1, AtIs DEF Pcs
    <3>3. /\ st'[p] = At("gate", x, b, op) /\ st' \in [Proc -> PlaceType]
          /\ \A q \in Proc \ {p} : st'[q] = st[q]
      BY <1>1, <3>1, <3>2 DEF Typed
    <3>4. Typed'
      BY <1>1, <1>2, <3>1, <3>3 DEF Typed, HashType
    <3>5. GoodPlace(p)' /\ Owns(p)'
      BY <2>1, <3>2, <3>3 DEF GoodPlace, Owns, Owning
    <3>6. \A c \in Buf : gate'[c] # p
      BY <1>1, <1>2, <3>1 DEF TransferInv, Owned, Owning
    <3> DEFINE P == {p}
               C == {}
    <3>7. /\ P \in SUBSET Proc /\ C \in SUBSET Buf
          /\ \A q \in Proc \ P : st'[q] = st[q]
          /\ \A c \in Buf \ C : Same(c)
          /\ \A c \in C : gate[c] \in P \cup {Free, Driver} /\ gate'[c] \in P \cup {Free, Driver}
          /\ \A c \in C : GoodBuffer(c)'
          /\ \A q \in P : GoodPlace(q)' /\ Owns(q)'
          /\ \A c \in Buf : gate'[c] \in P => Owned(c)'
      BY <3>1, <3>3, <3>5, <3>6 DEF Same
    <3> HIDE DEF P, C
    <3>8. TransferInv'
      BY <1>1, <3>7, Frame
    <3>9. QED
      BY <3>4, <3>8 DEF CacheInv
  <2>4. QED
    BY <2>2, <2>3
<1>6. QED
  BY <1>4, <1>5

LEMMA ReadAheadKeeps ==
  ASSUME CacheInv, NEW p \in Proc, NEW x \in Block, ReadAhead(p, x)
  PROVE  CacheInv'
<1>1. Typed /\ TransferInv /\ HashType /\ "ahead" \in Ops
  BY DEF CacheInv, Typed, Ops
<1>2. st[p].pc \notin Owning /\ UNCHANGED disk
  BY DEF ReadAhead, Is, Owning
<1>3. PICK b : b = Cached(x)
  OBVIOUS
<1>4. CASE b = BNULL
  BY <1>1, <1>2, <1>3, <1>4, ScanKeeps DEF ReadAhead
<1>5. CASE b # BNULL
  <2>1. b \in Buf
    BY <1>1, <1>3, <1>5, CachedIs
  <2>2. ~(buf[b].ntp /\ gate[b] = Free)
    BY <1>1, <2>1 DEF TransferInv, GoodBuffer
  <2>3. lru' = LRUupdate(b) /\ UNCHANGED <<hash, buf, gate, req, disk, st>>
    BY <1>3, <1>5, <2>2 DEF ReadAhead
  <2>4. QED
    BY <2>1, <2>3, LruKeeps
<1>6. QED
  BY <1>4, <1>5

LEMMA WokenKeep ==
  ASSUME CacheInv, NEW p \in Proc, LockGate(p) \/ Rescan(p)
  PROVE  CacheInv'
<1>1. Typed /\ TransferInv /\ GoodPlace(p) /\ st[p] \in PlaceType
  BY DEF CacheInv, TransferInv, Typed
<1>2. CASE LockGate(p)
  <2>1. /\ st[p].want \in Block /\ st[p].buf \in Buf /\ st[p].op \in {"read", "fill"}
        /\ gate[st[p].buf] = Free /\ Locked(p, st[p].want, st[p].buf, st[p].op)
        /\ UNCHANGED disk /\ st[p].pc \notin Owning
    BY <1>1, <1>2 DEF LockGate, Is, GoodPlace, Owning
  <2>2. QED
    BY <2>1, LockedKeeps
<1>3. CASE Rescan(p)
  <2>1. /\ st[p].want \in Block /\ st[p].op \in Ops /\ Scan(p, st[p].want, st[p].op)
        /\ UNCHANGED disk /\ st[p].pc \notin Owning
    BY <1>1, <1>3 DEF Rescan, Is, GoodPlace, Owning, PlaceType
  <2>2. QED
    BY <2>1, ScanKeeps
<1>4. QED
  BY <1>2, <1>3

LEMMA DefendKeeps ==
  ASSUME CacheInv, Defend
  PROVE  CacheInv'
<1>1. Typed /\ TransferInv
  BY DEF CacheInv
<1>2. UNCHANGED <<hash, lru, buf, gate, req, disk>>
  BY DEF Defend, buffers
<1>3. ASSUME NEW p \in Proc
      PROVE  /\ st'[p] \in PlaceType
             /\ st'[p].want = st[p].want /\ st'[p].buf = st[p].buf /\ st'[p].op = st[p].op
             /\ st[p].pc = "need" => st'[p].pc = "scan"
             /\ st[p].pc # "need" => st'[p].pc = st[p].pc
  <2>1. st[p] \in PlaceType
    BY <1>1 DEF Typed
  <2>2. st'[p] = IF st[p].pc = "need" THEN [st[p] EXCEPT !.pc = "scan"] ELSE st[p]
    BY DEF Defend
  <2>3. QED
    BY <2>1, <2>2 DEF PlaceType, Pcs
<1>4. st' \in [Proc -> PlaceType]
  BY <1>3 DEF Defend
<1>5. Typed'
  BY <1>1, <1>2, <1>4 DEF Typed, HashType
<1>6. ASSUME NEW p \in Proc PROVE GoodPlace(p)' /\ Owns(p)'
  <2>1. GoodPlace(p) /\ Owns(p)
    BY <1>1 DEF TransferInv
  <2>2. QED
    BY <1>2, <1>3, <2>1 DEF GoodPlace, Owns, Owning
<1>7. ASSUME NEW b \in Buf PROVE GoodBuffer(b)' /\ Owned(b)'
  <2>1. GoodBuffer(b) /\ Owned(b)
    BY <1>1 DEF TransferInv
  <2>2. QED
    BY <1>2, <1>3, <2>1 DEF GoodBuffer, Owned, Owning
<1>8. QED
  BY <1>5, <1>6, <1>7 DEF CacheInv, TransferInv

LEMMA StepKeeps == CacheInv /\ [Next]_vars => CacheInv'
<1> SUFFICES ASSUME CacheInv, [Next]_vars PROVE CacheInv'
  OBVIOUS
<1>1. CASE UNCHANGED vars
  BY <1>1 DEF vars, buffers, CacheInv, Typed, HashType, TransferInv, GoodBuffer, Owned, GoodPlace, Owns
<1>2. ASSUME NEW p \in Proc, NEW x \in Block, NEW op \in {"read", "fill"}, Claim(p, x, op)
      PROVE  CacheInv'
  BY <1>2, ClaimsKeep
<1>3. ASSUME NEW p \in Proc, NEW x \in Block, ReadAhead(p, x) PROVE CacheInv'
  BY <1>3, ReadAheadKeeps
<1>4. ASSUME NEW p \in Proc, LockGate(p) \/ Rescan(p) PROVE CacheInv'
  BY <1>4, WokenKeep
<1>5. ASSUME NEW p \in Proc, ReadDone(p) \/ Release(p) \/ WriteDone(p) PROVE CacheInv'
  BY <1>5, ReleasesKeep
<1>6. ASSUME NEW p \in Proc, NEW d \in Data, Modify(p, d) PROVE CacheInv'
  BY <1>6, ModifyKeeps
<1>7. ASSUME NEW p \in Proc, WriteBehind(p) \/ WriteThrough(p) PROVE CacheInv'
  BY <1>7, WriteKeeps
<1>8. ASSUME NEW p \in Proc, Sync(p) \/ SyncLocked(p) \/ SyncWritten(p) PROVE CacheInv'
  BY <1>8, SyncsKeep
<1>9. ASSUME NEW b \in Buf, NEW ok \in BOOLEAN, Bdone(b, ok) PROVE CacheInv'
  BY <1>9, BdoneKeeps
<1>10. CASE Defend
  BY <1>10, DefendKeeps
<1>11. QED
  BY <1>1, <1>2, <1>3, <1>4, <1>5, <1>6, <1>7, <1>8, <1>9, <1>10 DEF Next

LEMMA StartsRight == Init => CacheInv
<1> SUFFICES ASSUME Init PROVE CacheInv
  OBVIOUS
<1>1. PICK d \in Data :
        buf = [b \in Buf |-> [blk |-> NODEV, ntp |-> FALSE, mod |-> FALSE, asy |-> FALSE,
                              err |-> FALSE, data |-> d]]
  BY DEF Init
<1>2. HashType
  BY Names DEF Init, HashType, Bucket
<1>3. Typed
  <2>1. buf \in [Buf -> Header]
    BY <1>1 DEF Header
  <2>2. QED
    BY <1>2, <2>1, IdleIs DEF Init, Typed
<1>4. TransferInv
  <2>1. ASSUME NEW b \in Buf PROVE GoodBuffer(b) /\ Owned(b)
    BY <1>1, Names DEF Init, GoodBuffer, Owned
  <2>2. ASSUME NEW p \in Proc PROVE GoodPlace(p) /\ Owns(p)
    BY IdleIs DEF Init, GoodPlace, Owns, Owning
  <2>3. QED
    BY <2>1, <2>2 DEF TransferInv
<1>5. QED
  BY <1>3, <1>4 DEF CacheInv

-----------------------------------------------------------------------------
(* The wakeup of those who want a buffer. *)

FlagsOK == bufneed \in BOOLEAN /\ wake \in BOOLEAN /\ failed \in {"none", "bread", "bclaim"}

Needs(p) == st[p].pc = "need"

(* What a step does to the flags. *)
LEMMA FlagSteps ==
  ASSUME CacheInv, FlagsOK, [Next]_vars
  PROVE  /\ failed' \in {"none", "bread", "bclaim"}
         /\ \/ /\ UNCHANGED <<bufneed, wake>>
               /\ \A p \in Proc : Needs(p)' => Needs(p)
            \/ bufneed' = TRUE /\ wake' = wake
            \/ /\ bufneed' = FALSE /\ wake' = (wake \/ bufneed)
               /\ \A p \in Proc : Needs(p)' => Needs(p)
            \/ /\ wake' = FALSE /\ bufneed' = bufneed
               /\ \A p \in Proc : ~Needs(p)'
<1>1. Typed /\ TransferInv /\ HashType /\ st \in [Proc -> PlaceType]
  BY DEF CacheInv, Typed
<1>2. ASSUME NEW p \in Proc, NEW r, st' = [st EXCEPT ![p] = r], r.pc # "need"
      PROVE  \A q \in Proc : Needs(q)' => Needs(q)
  BY <1>1, <1>2 DEF Needs
<1>3. ASSUME st' = st PROVE \A q \in Proc : Needs(q)' => Needs(q)
  BY <1>3 DEF Needs
<1>4. ASSUME NEW p \in Proc, NEW pc \in Pcs \ {"need"}, st' = [st EXCEPT ![p].pc = pc]
      PROVE  \A q \in Proc : Needs(q)' => Needs(q)
  BY <1>1, <1>4 DEF Needs, PlaceType
<1>5. ASSUME NEW p \in Proc, NEW x \in Block, NEW op \in Ops, Scan(p, x, op)
      PROVE  \/ bufneed' = TRUE
             \/ bufneed' = bufneed /\ \A q \in Proc : Needs(q)' => Needs(q)
  <2>1. CASE ScanFails(p, x, op)
    BY <2>1 DEF ScanFails
  <2>2. ASSUME NEW v \in Buf, ScanTakes(p, x, op, v) PROVE \A q \in Proc : Needs(q)' => Needs(q)
    <3>1. /\ At("io", x, v, op).pc = "io" /\ At("fill", x, v, op).pc = "fill"
          /\ op = "read" \/ op = "fill" \/ op = "ahead"
      BY AtIs DEF Pcs, Ops
    <3>2. \E r : st' = [st EXCEPT ![p] = r] /\ r.pc # "need"
      BY <2>2, <3>1, IdleIs DEF ScanTakes
    <3>3. QED
      BY <1>2, <3>2
  <2>3. QED
    BY <1>1, <1>5, <2>1, <2>2, ScanIs DEF ScanTakes
<1>6. ASSUME NEW p \in Proc, NEW x \in Block, NEW b \in Buf, NEW op \in {"read", "fill"},
             gate[b] = Free, Locked(p, x, b, op)
      PROVE  /\ \A q \in Proc : Needs(q)' => Needs(q)
             /\ failed' \in {"none", "bread", "bclaim"}
  <2>1. failed' \in {"none", "bread", "bclaim"}
    BY <1>6 DEF Locked, FlagsOK
  <2>2. CASE st' = st
    BY <1>3, <2>1, <2>2
  <2>3. CASE st' = [st EXCEPT ![p] = At(IF op = "read" THEN "use" ELSE "fill", x, b, op)]
    <3> DEFINE r == At(IF op = "read" THEN "use" ELSE "fill", x, b, op)
    <3>1. r.pc # "need"
      BY AtIs DEF Pcs, Ops
    <3> HIDE DEF r
    <3>2. QED
      BY <1>2, <2>1, <2>3, <3>1 DEF r
  <2>4. QED
    BY <1>1, <1>6, <2>2, <2>3, LockedIs
<1>7. CASE UNCHANGED vars
  BY <1>3, <1>7 DEF vars, FlagsOK
<1>8. ASSUME NEW p \in Proc, NEW x \in Block, NEW op \in {"read", "fill"}, Claim(p, x, op)
      PROVE  /\ failed' \in {"none", "bread", "bclaim"} /\ wake' = wake
             /\ bufneed' = TRUE \/ (bufneed' = bufneed /\ \A q \in Proc : Needs(q)' => Needs(q))
  <2>1. PICK b : b = Cached(x)
    OBVIOUS
  <2>2. CASE b = BNULL
    BY <1>5, <1>8, <2>1, <2>2 DEF Claim, FlagsOK, Ops
  <2>3. CASE b # BNULL /\ gate[b] = Free
    BY <1>1, <1>6, <1>8, <2>1, <2>3, CachedIs DEF Claim
  <2>4. CASE b # BNULL /\ gate[b] # Free
    <3>1. b \in Buf /\ "gate" \in Pcs /\ op \in Ops
      BY <1>1, <2>1, <2>4, CachedIs DEF Pcs, Ops
    <3>2. At("gate", x, b, op).pc = "gate"
      BY <3>1, AtIs
    <3>3. st' = [st EXCEPT ![p] = At("gate", x, b, op)] /\ bufneed' = bufneed /\ failed' = failed
          /\ wake' = wake
      BY <1>8, <2>1, <2>4 DEF Claim
    <3>4. QED
      BY <1>2, <3>2, <3>3 DEF FlagsOK
  <2>5. QED
    BY <2>2, <2>3, <2>4
<1>9. ASSUME NEW p \in Proc, NEW x \in Block, ReadAhead(p, x)
      PROVE  /\ failed' \in {"none", "bread", "bclaim"} /\ wake' = wake
             /\ bufneed' = TRUE \/ (bufneed' = bufneed /\ \A q \in Proc : Needs(q)' => Needs(q))
  <2>1. CASE Cached(x) = BNULL
    BY <1>5, <1>9, <2>1 DEF ReadAhead, FlagsOK, Ops
  <2>2. CASE Cached(x) # BNULL
    BY <1>3, <1>9, <2>2 DEF ReadAhead, FlagsOK
  <2>3. QED
    BY <2>1, <2>2
<1>10. ASSUME NEW p \in Proc, LockGate(p)
       PROVE  /\ failed' \in {"none", "bread", "bclaim"} /\ UNCHANGED <<bufneed, wake>>
              /\ \A q \in Proc : Needs(q)' => Needs(q)
  <2>1. /\ st[p].want \in Block /\ st[p].buf \in Buf /\ st[p].op \in {"read", "fill"}
        /\ gate[st[p].buf] = Free /\ Locked(p, st[p].want, st[p].buf, st[p].op)
    BY <1>1, <1>10 DEF LockGate, Is, GoodPlace, TransferInv
  <2>2. QED
    BY <1>6, <1>10, <2>1 DEF LockGate
<1>11. ASSUME NEW p \in Proc, Rescan(p)
       PROVE  /\ failed' \in {"none", "bread", "bclaim"} /\ wake' = wake
              /\ bufneed' = TRUE \/ (bufneed' = bufneed /\ \A q \in Proc : Needs(q)' => Needs(q))
  <2>1. st[p].want \in Block /\ st[p].op \in Ops /\ Scan(p, st[p].want, st[p].op)
    BY <1>1, <1>11 DEF Rescan, Is, GoodPlace, TransferInv, PlaceType
  <2>2. QED
    BY <1>5, <1>11, <2>1 DEF Rescan, FlagsOK
<1>12. ASSUME NEW p \in Proc, ReadDone(p) \/ Release(p) \/ WriteDone(p)
       PROVE  /\ failed' \in {"none", "bread", "bclaim"}
              /\ \/ UNCHANGED <<bufneed, wake>>
                 \/ bufneed' = FALSE /\ wake' = (wake \/ bufneed)
              /\ \A q \in Proc : Needs(q)' => Needs(q)
  <2>1. st' = [st EXCEPT ![p] = Idle] \/ st' = [st EXCEPT ![p].pc = "use"]
    BY <1>12 DEF ReadDone, Release, WriteDone
  <2>2. \A q \in Proc : Needs(q)' => Needs(q)
    BY <1>2, <1>4, <2>1, IdleIs DEF Pcs
  <2>3. QED
    BY <1>12, <2>2 DEF ReadDone, Release, WriteDone, Brelease, FlagsOK
<1>13. ASSUME NEW p \in Proc, NEW d \in Data, Modify(p, d)
       PROVE  /\ failed' \in {"none", "bread", "bclaim"} /\ UNCHANGED <<bufneed, wake>>
              /\ \A q \in Proc : Needs(q)' => Needs(q)
  BY <1>4, <1>13 DEF Modify, FlagsOK, Pcs
<1>14. ASSUME NEW p \in Proc, WriteBehind(p) \/ WriteThrough(p)
       PROVE  /\ failed' \in {"none", "bread", "bclaim"} /\ UNCHANGED <<bufneed, wake>>
              /\ \A q \in Proc : Needs(q)' => Needs(q)
  BY <1>2, <1>4, <1>14, IdleIs DEF WriteBehind, WriteThrough, FlagsOK, Pcs
<1>15. ASSUME NEW p \in Proc, Sync(p) \/ SyncLocked(p) \/ SyncWritten(p)
       PROVE  /\ failed' \in {"none", "bread", "bclaim"} /\ UNCHANGED <<bufneed, wake>>
              /\ \A q \in Proc : Needs(q)' => Needs(q)
  <2>1. \E n, gates : SyncFrom(p, n, gates)
    BY <1>15 DEF Sync, SyncLocked, SyncWritten
  <2>2. \E r : st' = [st EXCEPT ![p] = r] /\ r.pc # "need"
    <3>1. \A m : At("sgate", NODEV, m, "read").pc = "sgate" /\ At("sio", NODEV, m, "read").pc = "sio"
      BY DEF At
    <3>2. QED
      BY <2>1, <3>1, IdleIs DEF SyncFrom
  <2>3. QED
    BY <1>2, <1>15, <2>2 DEF Sync, SyncLocked, SyncWritten, FlagsOK
<1>16. ASSUME NEW b \in Buf, NEW ok \in BOOLEAN, Bdone(b, ok)
       PROVE  /\ failed' \in {"none", "bread", "bclaim"}
              /\ \/ UNCHANGED <<bufneed, wake>>
                 \/ bufneed' = FALSE /\ wake' = (wake \/ bufneed)
              /\ \A q \in Proc : Needs(q)' => Needs(q)
  BY <1>3, <1>16 DEF Bdone, Brelease, FlagsOK
<1>17. ASSUME Defend
       PROVE  /\ failed' \in {"none", "bread", "bclaim"} /\ wake' = FALSE /\ bufneed' = bufneed
              /\ \A p \in Proc : ~Needs(p)'
  <2>1. \A p \in Proc : st'[p] = IF st[p].pc = "need" THEN [st[p] EXCEPT !.pc = "scan"] ELSE st[p]
    BY <1>17 DEF Defend
  <2>2. QED
    BY <1>1, <1>17, <2>1 DEF Defend, Needs, PlaceType, FlagsOK
<1>18. QED
  BY <1>3, <1>7, <1>8, <1>9, <1>10, <1>11, <1>12, <1>13, <1>14, <1>15, <1>16, <1>17 DEF Next, vars

FlagInv == FlagsOK /\ NeedAnnounced

LEMMA FlagsKept == CacheInv /\ FlagInv /\ [Next]_vars => FlagInv'
<1> SUFFICES ASSUME CacheInv, FlagInv, [Next]_vars PROVE FlagInv'
  OBVIOUS
<1>1. FlagsOK /\ ((\E p \in Proc : Needs(p)) => bufneed \/ wake)
  BY DEF FlagInv, NeedAnnounced, Needs
<1>2. FlagsOK'
  BY <1>1, FlagSteps DEF FlagsOK
<1>3. (\E p \in Proc : Needs(p)') => bufneed' \/ wake'
  BY <1>1, FlagSteps DEF FlagsOK
<1>4. QED
  BY <1>2, <1>3 DEF FlagInv, NeedAnnounced, Needs

-----------------------------------------------------------------------------
LEMMA AlwaysInv == Spec => [](CacheInv /\ FlagInv)
<1>1. Init => CacheInv /\ FlagInv
  BY StartsRight, IdleIs DEF Init, FlagInv, FlagsOK, NeedAnnounced
<1>2. CacheInv /\ FlagInv /\ [Next]_vars => (CacheInv /\ FlagInv)'
  BY StepKeeps, FlagsKept
<1>3. QED
  BY <1>1, <1>2, PTL DEF Spec

(* The state keeps its types; above all, the LRU list has every buffer at all
   times, whatever bclaim() takes from its middle (bio.c, LRUupdate()). *)
THEOREM TypesKept == Spec => []TypeOK
<1>1. CacheInv /\ FlagInv => TypeOK
  BY DEF CacheInv, FlagInv, FlagsOK, Typed, HashType, Header, PlaceType, TypeOK
<1>2. QED
  BY <1>1, AlwaysInv, PTL

(* A buffer is with the driver exactly while it is marked so, and data that
   are not valid are out of everybody else's reach: bread(), bwrite(), bsync()
   and bdone() in any order. *)
THEOREM TransfersKept == Spec => []TransfersOK
<1>1. CacheInv => TransfersOK
  BY InvTransfersOK
<1>2. QED
  BY <1>1, AlwaysInv, PTL

(* No wakeup of those who want a buffer is lost: bclaim() sets bufneed before
   it sleeps, and brelease() clears it only with a wakeup. *)
THEOREM NeedKept == Spec => []NeedAnnounced
<1>1. FlagInv => NeedAnnounced
  BY DEF FlagInv
<1>2. QED
  BY <1>1, AlwaysInv, PTL

-----------------------------------------------------------------------------
(* The hash chains.  A rank that falls along each chain keeps them free of
   cycles: a buffer is inserted with the highest. *)

HashTable == [array : [Bucket -> Buf \cup {BNULL}], val : [Buf -> Bucket],
              fwd : [Buf -> Buf \cup {BNULL}], back : [Buf -> Buf \cup {BNULL}]]

(* A buffer that was hashed has its neighbours on its chain, and one that was
   never hashed has none. *)
LinkOK(h, rank, c) ==
  /\ h.val[c] = 0 => h.fwd[c] = BNULL /\ h.back[c] = BNULL
  /\ h.val[c] # 0 /\ h.back[c] = BNULL => h.array[h.val[c]] = c
  /\ h.back[c] # BNULL => /\ h.val[h.back[c]] = h.val[c] /\ h.fwd[h.back[c]] = c
                          /\ rank[h.back[c]] > rank[c]
  /\ h.fwd[c] # BNULL => h.val[h.fwd[c]] = h.val[c] /\ h.back[h.fwd[c]] = c

HeadOK(h, v) == h.array[v] # BNULL => v # 0 /\ h.val[h.array[v]] = v /\ h.back[h.array[v]] = BNULL

Chained(h, rank) ==
  /\ \A c \in Buf : LinkOK(h, rank, c)
  /\ \A v \in Bucket : HeadOK(h, v)

(* The same without a buffer that HASHdelete() took out. *)
ChainedBut(h, rank, b) ==
  /\ h.fwd[b] = BNULL /\ h.back[b] = BNULL
  /\ \A c \in Buf \ {b} : h.fwd[c] # b /\ h.back[c] # b /\ LinkOK(h, rank, c)
  /\ \A v \in Bucket : h.array[v] # b /\ HeadOK(h, v)

LEMMA DeleteKeeps ==
  ASSUME NEW h \in HashTable, NEW K \in Nat, NEW rank \in [Buf -> 0..K], Chained(h, rank),
         NEW b \in Buf, NEW g, g = HASHdelete(h, b)
  PROVE  ChainedBut(g, rank, b) /\ g \in HashTable
<1>0. 0 \in Bucket /\ BNULL \notin Buf /\ b # BNULL
  BY Names, Buffers DEF Bucket
<1>1. PICK f \in Buf \cup {BNULL} : f = h.fwd[b]
  BY DEF HashTable
<1>2. PICK k \in Buf \cup {BNULL} : k = h.back[b]
  BY DEF HashTable
<1>3. PICK v \in Bucket : v = h.val[b]
  BY DEF HashTable
<1>4. /\ g.array = IF k = BNULL THEN [h.array EXCEPT ![v] = f] ELSE h.array
      /\ g.val = h.val
      /\ g.fwd = [c \in Buf |-> IF c = b THEN BNULL ELSE IF c = k THEN f ELSE h.fwd[c]]
      /\ g.back = [c \in Buf |-> IF c = b THEN BNULL ELSE IF c = f THEN k ELSE h.back[c]]
  BY <1>1, <1>2, <1>3 DEF HASHdelete
<1>5. g \in HashTable
  BY <1>1, <1>2, <1>3 DEF HASHdelete, HashTable
<1>6. /\ \A w \in Bucket : g.array[w] = IF k = BNULL /\ w = v THEN f ELSE h.array[w]
      /\ \A c \in Buf : /\ g.val[c] = h.val[c]
                        /\ g.fwd[c] = IF c = b THEN BNULL ELSE IF c = k THEN f ELSE h.fwd[c]
                        /\ g.back[c] = IF c = b THEN BNULL ELSE IF c = f THEN k ELSE h.back[c]
  BY <1>4 DEF HashTable
<1>7. /\ \A c \in Buf : /\ h.fwd[c] \in Buf \cup {BNULL} /\ h.back[c] \in Buf \cup {BNULL}
                        /\ h.val[c] \in Bucket /\ rank[c] \in Nat
      /\ \A w \in Bucket : h.array[w] \in Buf \cup {BNULL}
  BY DEF HashTable
<1>8. /\ v = 0 => f = BNULL /\ k = BNULL
      /\ v # 0 /\ k = BNULL => h.array[v] = b
      /\ k # BNULL => h.val[k] = v /\ h.fwd[k] = b /\ rank[k] > rank[b]
      /\ f # BNULL => h.val[f] = v /\ h.back[f] = b
  BY <1>1, <1>2, <1>3 DEF Chained, LinkOK
<1>9. /\ f # BNULL => LinkOK(h, rank, f) /\ rank[b] > rank[f]
      /\ f # b /\ k # b
  <2>1. f # BNULL => LinkOK(h, rank, f)
    BY DEF Chained
  <2>2. f # BNULL => rank[b] > rank[f]
    BY <1>0, <1>8, <2>1 DEF LinkOK
  <2>3. rank[b] \in Nat
    OBVIOUS
  <2>4. QED
    BY <1>0, <1>8, <2>1, <2>2, <2>3
<1>10. ASSUME NEW c \in Buf \ {b}
       PROVE  g.fwd[c] # b /\ g.back[c] # b /\ LinkOK(g, rank, c)
  <2>1. LinkOK(h, rank, c)
    BY DEF Chained
  <2>2. g.fwd[c] # b
    <3>1. c # k => h.fwd[c] # b
      BY <1>0, <1>2, <2>1 DEF LinkOK
    <3>2. QED
      BY <1>6, <1>9, <3>1
  <2>3. g.back[c] # b
    <3>1. c # f => h.back[c] # b
      BY <1>0, <1>1, <2>1 DEF LinkOK
    <3>2. QED
      BY <1>6, <1>9, <3>1
  <2>4. g.val[c] = 0 => g.fwd[c] = BNULL /\ g.back[c] = BNULL
    <3>1. SUFFICES ASSUME h.val[c] = 0 PROVE g.fwd[c] = BNULL /\ g.back[c] = BNULL
      BY <1>6
    <3>2. h.fwd[c] = BNULL /\ h.back[c] = BNULL
      BY <2>1, <3>1 DEF LinkOK
    <3>3. c # k /\ c # f
      BY <1>0, <1>8, <3>2
    <3>4. QED
      BY <1>6, <3>2, <3>3
  <2>5. g.val[c] # 0 /\ g.back[c] = BNULL => g.array[g.val[c]] = c
    <3>1. SUFFICES ASSUME h.val[c] # 0, g.back[c] = BNULL PROVE g.array[h.val[c]] = c
      BY <1>6
    <3>2. CASE c = f
      <4>1. k = BNULL
        BY <1>6, <3>1, <3>2
      <4>2. h.val[c] = v
        BY <1>0, <1>8, <3>2
      <4>3. QED
        BY <1>6, <3>2, <4>1, <4>2
    <3>3. CASE c # f
      <4>1. h.back[c] = BNULL /\ h.array[h.val[c]] = c
        BY <1>6, <2>1, <3>1, <3>3 DEF LinkOK
      <4>2. ~(k = BNULL /\ h.val[c] = v)
        BY <1>8, <3>1, <4>1
      <4>3. QED
        BY <1>6, <1>7, <4>1, <4>2
    <3>4. QED
      BY <3>2, <3>3
  <2>6. g.back[c] # BNULL => /\ g.val[g.back[c]] = g.val[c] /\ g.fwd[g.back[c]] = c
                             /\ rank[g.back[c]] > rank[c]
    <3>1. SUFFICES ASSUME g.back[c] # BNULL
                   PROVE  /\ g.val[g.back[c]] = g.val[c] /\ g.fwd[g.back[c]] = c
                          /\ rank[g.back[c]] > rank[c]
      OBVIOUS
    <3>2. CASE c = f
      <4>1. g.back[c] = k /\ k \in Buf
        BY <1>6, <3>1, <3>2
      <4>2. rank[k] > rank[c]
        BY <1>0, <1>7, <1>8, <1>9, <3>2, <4>1
      <4>3. QED
        BY <1>0, <1>6, <1>8, <1>9, <3>2, <4>1, <4>2
    <3>3. CASE c # f
      <4>1. g.back[c] = h.back[c] /\ h.back[c] \in Buf /\ h.back[c] # b
        BY <1>6, <1>7, <2>3, <3>1, <3>3
      <4>2. /\ h.val[h.back[c]] = h.val[c] /\ h.fwd[h.back[c]] = c
            /\ rank[h.back[c]] > rank[c]
        BY <2>1, <3>1, <4>1 DEF LinkOK
      <4>3. h.back[c] # k
        BY <1>0, <1>8, <4>1, <4>2
      <4>4. QED
        BY <1>6, <4>1, <4>2, <4>3
    <3>4. QED
      BY <3>2, <3>3
  <2>7. g.fwd[c] # BNULL => g.val[g.fwd[c]] = g.val[c] /\ g.back[g.fwd[c]] = c
    <3>1. SUFFICES ASSUME g.fwd[c] # BNULL
                   PROVE  g.val[g.fwd[c]] = g.val[c] /\ g.back[g.fwd[c]] = c
      OBVIOUS
    <3>2. CASE c = k
      BY <1>0, <1>6, <1>8, <1>9, <3>1, <3>2
    <3>3. CASE c # k
      <4>1. g.fwd[c] = h.fwd[c] /\ h.fwd[c] \in Buf /\ h.fwd[c] # b
        BY <1>6, <1>7, <2>2, <3>1, <3>3
      <4>2. h.val[h.fwd[c]] = h.val[c] /\ h.back[h.fwd[c]] = c
        BY <2>1, <3>1, <4>1 DEF LinkOK
      <4>3. h.fwd[c] # f
        BY <1>0, <1>8, <4>1, <4>2
      <4>4. QED
        BY <1>6, <4>1, <4>2, <4>3
    <3>4. QED
      BY <3>2, <3>3
  <2>8. QED
    BY <2>2, <2>3, <2>4, <2>5, <2>6, <2>7 DEF LinkOK
<1>11. ASSUME NEW w \in Bucket PROVE g.array[w] # b /\ HeadOK(g, w)
  <2>1. HeadOK(h, w)
    BY DEF Chained
  <2>2. CASE k = BNULL /\ w = v
    <3>1. g.array[w] = f
      BY <1>6, <2>2
    <3>2. f # BNULL => v # 0 /\ g.val[f] = v /\ g.back[f] = BNULL
      BY <1>6, <1>8, <1>9, <2>2
    <3>3. QED
      BY <1>9, <2>2, <3>1, <3>2 DEF HeadOK
  <2>3. CASE ~(k = BNULL /\ w = v)
    <3>1. g.array[w] = h.array[w]
      BY <1>6, <2>3
    <3>2. h.array[w] # b
      BY <1>0, <1>2, <1>3, <2>1, <2>3 DEF HeadOK
    <3>3. h.array[w] # BNULL => w # 0 /\ g.val[h.array[w]] = w /\ g.back[h.array[w]] = BNULL
      <4>1. SUFFICES ASSUME h.array[w] # BNULL
                     PROVE  w # 0 /\ g.val[h.array[w]] = w /\ g.back[h.array[w]] = BNULL
        OBVIOUS
      <4>2. /\ h.array[w] \in Buf /\ w # 0
            /\ h.val[h.array[w]] = w /\ h.back[h.array[w]] = BNULL
        BY <1>7, <2>1, <4>1 DEF HeadOK
      <4>3. h.array[w] # f
        BY <1>0, <1>8, <4>1, <4>2
      <4>4. QED
        BY <1>6, <3>2, <4>2, <4>3
    <3>4. QED
      BY <3>1, <3>2, <3>3 DEF HeadOK
  <2>4. QED
    BY <2>2, <2>3
<1>12. g.fwd[b] = BNULL /\ g.back[b] = BNULL
  BY <1>6
<1>13. QED
  BY <1>5, <1>10, <1>11, <1>12 DEF ChainedBut

LEMMA InsertKeeps ==
  ASSUME NEW h \in HashTable, NEW K \in Nat, NEW rank \in [Buf -> 0..K],
         NEW b \in Buf, ChainedBut(h, rank, b), NEW v \in Bucket, v # 0,
         NEW g, g = HASHinsert(h, b, v)
  PROVE  \E top \in [Buf -> 0..(K + 1)] : Chained(g, top)
<1> DEFINE top == [c \in Buf |-> IF c = b THEN K + 1 ELSE rank[c]]
<1>0. BNULL \notin Buf /\ b # BNULL
  BY Buffers
<1>1. PICK f \in Buf \cup {BNULL} : f = h.array[v]
  BY DEF HashTable
<1>2. /\ \A w \in Bucket : g.array[w] = IF w = v THEN b ELSE h.array[w]
      /\ \A c \in Buf : /\ g.val[c] = IF c = b THEN v ELSE h.val[c]
                        /\ g.fwd[c] = IF c = b THEN f ELSE h.fwd[c]
                        /\ g.back[c] = IF c = f THEN b ELSE h.back[c]
  BY <1>1 DEF HASHinsert, HashTable
<1>3. /\ \A c \in Buf : /\ h.fwd[c] \in Buf \cup {BNULL} /\ h.back[c] \in Buf \cup {BNULL}
                        /\ h.val[c] \in Bucket
                        /\ top[c] \in 0..(K + 1) /\ (c # b => top[c] = rank[c] /\ top[c] < top[b])
      /\ \A w \in Bucket : h.array[w] \in Buf \cup {BNULL}
  BY DEF HashTable
<1>4. top \in [Buf -> 0..(K + 1)]
  BY <1>3
<1> HIDE DEF top
<1>5. f # b /\ (f # BNULL => h.val[f] = v /\ h.back[f] = BNULL)
  BY <1>1 DEF ChainedBut, HeadOK
<1>6. h.fwd[b] = BNULL /\ h.back[b] = BNULL
  BY DEF ChainedBut
<1>7. LinkOK(g, top, b)
  <2>1. g.val[b] = v /\ g.fwd[b] = f /\ g.back[b] = BNULL /\ g.array[v] = b
    BY <1>2, <1>5, <1>6
  <2>2. f # BNULL => g.val[f] = v /\ g.back[f] = b
    BY <1>2, <1>5
  <2>3. QED
    BY <2>1, <2>2 DEF LinkOK
<1>8. ASSUME NEW c \in Buf, c # b PROVE LinkOK(g, top, c)
  <2>1. h.fwd[c] # b /\ h.back[c] # b /\ LinkOK(h, rank, c)
    BY <1>8 DEF ChainedBut
  <2>2. g.val[c] = h.val[c] /\ g.fwd[c] = h.fwd[c]
    BY <1>2, <1>8
  <2>3. CASE c = f
    <3>1. g.back[c] = b /\ h.val[c] = v /\ h.back[c] = BNULL
      BY <1>0, <1>2, <1>5, <2>3
    <3>2. g.val[b] = v /\ g.fwd[b] = c /\ top[b] > top[c]
      BY <1>2, <1>3, <1>8, <2>3
    <3>3. g.fwd[c] # BNULL => g.val[g.fwd[c]] = g.val[c] /\ g.back[g.fwd[c]] = c
      <4>1. SUFFICES ASSUME h.fwd[c] # BNULL
                     PROVE  g.val[h.fwd[c]] = h.val[c] /\ g.back[h.fwd[c]] = c
        BY <2>2
      <4>2. h.fwd[c] \in Buf /\ h.fwd[c] # b /\ h.val[h.fwd[c]] = h.val[c] /\ h.back[h.fwd[c]] = c
        BY <1>3, <2>1, <4>1 DEF LinkOK
      <4>3. h.fwd[c] # f
        BY <1>0, <2>3, <3>1, <4>2
      <4>4. QED
        BY <1>2, <4>2, <4>3
    <3>4. QED
      BY <1>0, <2>2, <3>1, <3>2, <3>3 DEF LinkOK
  <2>4. CASE c # f
    <3>1. g.back[c] = h.back[c]
      BY <1>2, <2>4
    <3>2. g.fwd[c] # BNULL => g.val[g.fwd[c]] = g.val[c] /\ g.back[g.fwd[c]] = c
      <4>1. SUFFICES ASSUME h.fwd[c] # BNULL
                     PROVE  g.val[h.fwd[c]] = h.val[c] /\ g.back[h.fwd[c]] = c
        BY <2>2
      <4>2. h.fwd[c] \in Buf /\ h.fwd[c] # b /\ h.val[h.fwd[c]] = h.val[c] /\ h.back[h.fwd[c]] = c
        BY <1>3, <2>1, <4>1 DEF LinkOK
      <4>3. h.fwd[c] # f
        BY <1>0, <1>5, <4>2
      <4>4. QED
        BY <1>2, <4>2, <4>3
    <3>3. g.back[c] # BNULL => /\ g.val[g.back[c]] = g.val[c] /\ g.fwd[g.back[c]] = c
                               /\ top[g.back[c]] > top[c]
      <4>1. SUFFICES ASSUME h.back[c] # BNULL
                     PROVE  /\ g.val[h.back[c]] = h.val[c] /\ g.fwd[h.back[c]] = c
                            /\ top[h.back[c]] > top[c]
        BY <2>2, <3>1
      <4>2. /\ h.back[c] \in Buf /\ h.back[c] # b
            /\ h.val[h.back[c]] = h.val[c] /\ h.fwd[h.back[c]] = c /\ rank[h.back[c]] > rank[c]
        BY <1>3, <2>1, <4>1 DEF LinkOK
      <4>3. top[h.back[c]] = rank[h.back[c]] /\ top[c] = rank[c]
        BY <1>3, <1>8, <4>2
      <4>4. QED
        BY <1>2, <4>2, <4>3
    <3>4. g.val[c] # 0 /\ g.back[c] = BNULL => g.array[g.val[c]] = c
      <4>1. SUFFICES ASSUME h.val[c] # 0, h.back[c] = BNULL PROVE g.array[h.val[c]] = c
        BY <2>2, <3>1
      <4>2. h.array[h.val[c]] = c
        BY <2>1, <4>1 DEF LinkOK
      <4>3. h.val[c] # v /\ h.val[c] \in Bucket
        BY <1>1, <1>3, <2>4, <4>2
      <4>4. QED
        BY <1>2, <4>2, <4>3
    <3>5. g.val[c] = 0 => g.fwd[c] = BNULL /\ g.back[c] = BNULL
      BY <2>1, <2>2, <3>1 DEF LinkOK
    <3>6. QED
      BY <3>2, <3>3, <3>4, <3>5 DEF LinkOK
  <2>5. QED
    BY <2>3, <2>4
<1>9. ASSUME NEW w \in Bucket PROVE HeadOK(g, w)
  <2>1. CASE w = v
    BY <1>2, <1>5, <1>6, <2>1 DEF HeadOK
  <2>2. CASE w # v
    <3>1. g.array[w] = h.array[w] /\ h.array[w] # b /\ HeadOK(h, w)
      BY <1>2, <2>2 DEF ChainedBut
    <3>2. SUFFICES ASSUME h.array[w] # BNULL
                   PROVE  w # 0 /\ g.val[h.array[w]] = w /\ g.back[h.array[w]] = BNULL
      BY <3>1 DEF HeadOK
    <3>3. h.array[w] \in Buf /\ w # 0 /\ h.val[h.array[w]] = w /\ h.back[h.array[w]] = BNULL
      BY <1>3, <3>1, <3>2 DEF HeadOK
    <3>4. h.array[w] # f
      BY <1>0, <1>5, <2>2, <3>3
    <3>5. QED
      BY <1>2, <3>1, <3>3, <3>4
  <2>3. QED
    BY <2>1, <2>2
<1>10. Chained(g, top)
  BY <1>7, <1>8, <1>9 DEF Chained
<1>11. QED
  BY <1>4, <1>10

(* A walk that ends where a chain ends meets every buffer of the chain. *)
LEMMA WalkFinds ==
  ASSUME HashType, NEW K \in Nat, NEW rank \in [Buf -> 0..K], Chained(hash, rank),
         NEW b \in Buf, hash.val[b] # 0
  PROVE  \E n \in 0..NBUF : Walk(hash.val[b])[n] = b
<1>0. BNULL \notin Buf /\ NBUF \in Nat \ {0}
  BY Names, Buffers
<1>1. PICK v \in Bucket : v = hash.val[b]
  BY DEF HashType
<1>2. PICK w : w = Walk(v)
  OBVIOUS
<1>3. /\ w \in [0..NBUF -> Buf \cup {BNULL}] /\ w[0] = hash.array[v]
      /\ \A n \in 1..NBUF : w[n] = Onward(w[n - 1])
  BY <1>2, WalkIs
<1>4. ASSUME NEW n \in 0..NBUF, n < NBUF
      PROVE  /\ w[n + 1] = Onward(w[n]) /\ n + 1 \in 0..NBUF
             /\ w[n] \in Buf \cup {BNULL} /\ w[n + 1] \in Buf \cup {BNULL}
  <2>1. n + 1 \in 1..NBUF /\ n + 1 \in 0..NBUF /\ (n + 1) - 1 = n
    BY <1>0, <1>4
  <2>2. QED
    BY <1>3, <2>1
<1>5. w[NBUF] = BNULL
  <2>1. SUFFICES ASSUME w[NBUF] # BNULL PROVE FALSE
    OBVIOUS
  <2>2. ASSUME NEW n \in 0..NBUF, w[n] = BNULL PROVE FALSE
    <3> DEFINE S == {m \in Nat : n + m \in 0..NBUF => w[n + m] = BNULL}
    <3>1. 0 \in S
      BY <2>2
    <3>2. ASSUME NEW m \in Nat, m \in S PROVE m + 1 \in S
      <4>1. SUFFICES ASSUME n + (m + 1) \in 0..NBUF PROVE w[n + (m + 1)] = BNULL
        OBVIOUS
      <4>2. n + m \in 0..NBUF /\ n + m < NBUF /\ n + (m + 1) = (n + m) + 1
        BY <1>0, <4>1
      <4>3. w[n + m] = BNULL
        BY <3>2, <4>2
      <4>4. w[(n + m) + 1] = Onward(w[n + m])
        BY <1>4, <4>2
      <4>5. QED
        BY <4>2, <4>3, <4>4 DEF Onward
    <3> HIDE DEF S
    <3>3. NBUF - n \in Nat /\ Nat \subseteq S
      BY <1>0, <3>1, <3>2, Induction
    <3>4. w[n + (NBUF - n)] = BNULL
      BY <1>0, <3>3 DEF S
    <3>5. n + (NBUF - n) = NBUF
      BY <1>0
    <3>6. QED
      BY <2>1, <3>4, <3>5
  <2>3. \A n \in 0..NBUF : w[n] \in Buf
    BY <1>3, <2>2
  <2>4. ASSUME NEW n \in 0..NBUF, n < NBUF PROVE rank[w[n + 1]] < rank[w[n]]
    <3>1. w[n] \in Buf /\ w[n + 1] \in Buf /\ w[n + 1] = hash.fwd[w[n]]
      BY <1>0, <1>4, <2>3, <2>4 DEF Onward
    <3>2. LinkOK(hash, rank, w[n]) /\ LinkOK(hash, rank, w[n + 1])
      BY <3>1 DEF Chained
    <3>3. hash.back[w[n + 1]] = w[n]
      BY <1>0, <3>1, <3>2 DEF LinkOK
    <3>4. QED
      BY <1>0, <3>1, <3>2, <3>3 DEF LinkOK
  <2>5. ASSUME NEW i \in 0..NBUF, NEW j \in 0..NBUF, i < j PROVE rank[w[j]] < rank[w[i]]
    <3> DEFINE S == {m \in Nat : i + (m + 1) \in 0..NBUF => rank[w[i + (m + 1)]] < rank[w[i]]}
    <3>1. 0 \in S
      <4>1. i + (0 + 1) = i + 1
        OBVIOUS
      <4>2. i + 1 \in 0..NBUF => i < NBUF
        BY <1>0
      <4>3. QED
        BY <2>4, <4>1, <4>2
    <3>2. ASSUME NEW m \in Nat, m \in S PROVE m + 1 \in S
      <4>1. SUFFICES ASSUME i + ((m + 1) + 1) \in 0..NBUF
                     PROVE  rank[w[i + ((m + 1) + 1)]] < rank[w[i]]
        OBVIOUS
      <4>2. /\ i + (m + 1) \in 0..NBUF /\ i + (m + 1) < NBUF
            /\ i + ((m + 1) + 1) = (i + (m + 1)) + 1
        BY <1>0, <4>1
      <4>3. rank[w[i + (m + 1)]] < rank[w[i]]
        BY <3>2, <4>2
      <4>4. rank[w[(i + (m + 1)) + 1]] < rank[w[i + (m + 1)]]
        BY <2>4, <4>2
      <4>5. /\ rank[w[i]] \in Nat /\ rank[w[i + (m + 1)]] \in Nat
            /\ rank[w[(i + (m + 1)) + 1]] \in Nat
        <5>1. \A c \in Buf : rank[c] \in Nat
          OBVIOUS
        <5>2. (i + (m + 1)) + 1 \in 0..NBUF
          BY <4>1, <4>2
        <5>3. QED
          BY <2>3, <4>2, <5>1, <5>2
      <4>6. QED
        BY <4>2, <4>3, <4>4, <4>5
    <3> HIDE DEF S
    <3>3. (j - i) - 1 \in Nat /\ Nat \subseteq S /\ i + (((j - i) - 1) + 1) = j
      BY <2>5, <3>1, <3>2, Induction
    <3>4. QED
      BY <3>3 DEF S
  <2>6. ASSUME NEW i \in 0..NBUF, NEW j \in 0..NBUF, i # j PROVE w[i] # w[j]
    <3>1. \A c \in Buf : rank[c] \in Nat
      OBVIOUS
    <3>2. i < j \/ j < i
      BY <2>6
    <3>3. QED
      BY <2>3, <2>5, <3>1, <3>2
  <2>7. /\ IsFiniteSet(0..NBUF) /\ Cardinality(0..NBUF) = NBUF + 1
        /\ IsFiniteSet(Buf) /\ Cardinality(Buf) = NBUF
    <3>1. 0 \in Int /\ 1 \in Int /\ NBUF \in Int
      BY <1>0
    <3>2. QED
      BY <1>0, <3>1, FS_Interval DEF Buf
  <2>8. w \in [0..NBUF -> Buf]
    BY <1>3, <2>3
  <2>9. \E i, j \in 0..NBUF : i # j /\ w[i] = w[j]
    BY <1>0, <2>7, <2>8, FS_PigeonHole
  <2>10. QED
    BY <2>6, <2>9
<1>6. SUFFICES ASSUME \A n \in 0..NBUF : w[n] # b PROVE FALSE
  BY <1>1, <1>2
<1> DEFINE Missed == {c \in Buf : hash.val[c] = v /\ \A n \in 0..NBUF : w[n] # c}
           ranks == {rank[c] : c \in Missed}
<1>7. ranks \subseteq 0..K /\ ranks # {}
  BY <1>1, <1>6
<1>8. PICK c \in Missed : \A d \in Missed : rank[c] >= rank[d]
  <2> HIDE DEF ranks
  <2>1. Max(ranks) \in ranks /\ \A y \in ranks : Max(ranks) >= y
    BY <1>7, MaxIs
  <2>2. QED
    BY <2>1 DEF ranks
<1>9. c \in Buf /\ hash.val[c] = v /\ v # 0 /\ LinkOK(hash, rank, c)
  BY <1>1, <1>8 DEF Chained
<1>10. hash.back[c] # BNULL
  <2>1. SUFFICES ASSUME hash.back[c] = BNULL PROVE FALSE
    OBVIOUS
  <2>2. w[0] = c /\ 0 \in 0..NBUF
    BY <1>0, <1>3, <1>9, <2>1 DEF LinkOK
  <2>3. QED
    BY <1>8, <2>2
<1>11. PICK d \in Buf : d = hash.back[c]
  BY <1>9, <1>10 DEF HashType
<1>12. hash.val[d] = v /\ hash.fwd[d] = c /\ rank[d] > rank[c]
  BY <1>9, <1>10, <1>11 DEF LinkOK
<1>13. d \notin Missed
  <2>1. rank[c] \in Nat /\ rank[d] \in Nat
    BY <1>9
  <2>2. QED
    BY <1>8, <1>12, <2>1
<1>14. PICK n \in 0..NBUF : w[n] = d
  BY <1>12, <1>13
<1>15. n < NBUF
  BY <1>0, <1>5, <1>14
<1>16. w[n + 1] = c /\ n + 1 \in 0..NBUF
  BY <1>0, <1>4, <1>12, <1>14, <1>15 DEF Onward
<1>17. QED
  BY <1>8, <1>16

LEMMA CachedFinds ==
  ASSUME HashType, NEW K \in Nat, NEW rank \in [Buf -> 0..K], Chained(hash, rank),
         NEW x \in Block, Hash[x] # 0, NEW b \in Buf, hash.val[b] = Hash[x], buf[b].blk = x
  PROVE  Cached(x) # BNULL
<1> DEFINE w == Walk(Hash[x])
           hits == {n \in 0..NBUF : w[n] # BNULL /\ buf[w[n]].blk = x}
<1>1. PICK n \in 0..NBUF : w[n] = b
  BY WalkFinds
<1>2. hits # {}
  BY <1>1, Buffers
<1>3. Min(hits) \in hits
  BY <1>2, Names, MinIs
<1> HIDE DEF w
<1>4. QED
  BY <1>2, <1>3 DEF Cached, w

-----------------------------------------------------------------------------
(* A block has one buffer. *)

(* Not in the cache, and on the way to a buffer. *)
Waits(p) == st[p].pc \in {"need", "scan"}

(* Who waits for a buffer waits for a block that nobody else waits for, and
   that is not cached; a cached block is on the chain it is looked for. *)
UniqueInv ==
  /\ OneBufferPerBlock
  /\ \A p \in Proc : Waits(p) => \A b \in Buf : buf[b].blk # st[p].want
  /\ \A p, q \in Proc : Waits(p) /\ Waits(q) /\ p # q => st[p].want # st[q].want
  /\ \A b \in Buf : buf[b].blk # NODEV => hash.val[b] = Hash[buf[b].blk]
  /\ \E K \in Nat : \E rank \in [Buf -> 0..K] : Chained(hash, rank)

(* No buffer gets another block, and nobody starts to wait. *)
Quiet ==
  /\ hash' = hash
  /\ \A b \in Buf : buf'[b].blk = buf[b].blk \/ buf'[b].blk = NODEV
  /\ \A p \in Proc : Waits(p)' => Waits(p) /\ st'[p].want = st[p].want

(* bclaim() takes a buffer, or goes to sleep. *)
ScanStep(p, x, op) ==
  /\ Scan(p, x, op)
  /\ \/ st[p].pc = "idle" /\ Undisturbed(x) /\ Cached(x) = BNULL
     \/ st[p].pc = "scan" /\ st[p].want = x

LEMMA QuietMove ==
  ASSUME Typed, NEW p \in Proc, NEW r, st' = [st EXCEPT ![p] = r] \/ st' = st,
         r.pc \notin {"need", "scan"}, hash' = hash,
         \A b \in Buf : buf'[b].blk = buf[b].blk \/ buf'[b].blk = NODEV
  PROVE  Quiet
BY DEF Quiet, Waits, Typed

(* A change of the flags, of the data or of the place of a process. *)
LEMMA FlagsOfBuffer ==
  ASSUME Typed, NEW b \in Buf, NEW h \in Header, buf' = [buf EXCEPT ![b] = h] \/ buf' = buf,
         h.blk = buf[b].blk \/ h.blk = NODEV
  PROVE  \A c \in Buf : buf'[c].blk = buf[c].blk \/ buf'[c].blk = NODEV
BY DEF Typed

LEMMA SyncQuiet ==
  ASSUME Typed, NEW p \in Proc, NEW n \in 0..NBUF, NEW gates, SyncFrom(p, n, gates), hash' = hash
  PROVE  Quiet
<1>1. \A m : At("sgate", NODEV, m, "read").pc = "sgate" /\ At("sio", NODEV, m, "read").pc = "sio"
  BY DEF At
<1> DEFINE dirty == {c \in Buf : c <= n /\ buf[c].mod}
           m == Max(dirty)
<1>2. dirty # {} => m \in Buf
  <2>1. SUFFICES ASSUME dirty # {} PROVE m \in dirty
    OBVIOUS
  <2>2. dirty \subseteq 0..NBUF
    BY DEF Buf
  <2>3. QED
    BY <2>1, <2>2, Names, MaxIs
<1>3. \E r : (st' = [st EXCEPT ![p] = r]) /\ r.pc \notin {"need", "scan"}
  BY <1>1, IdleIs DEF SyncFrom
<1>4. buf' = buf \/ (m \in Buf /\ buf' = [buf EXCEPT ![m].asy = FALSE, ![m].ntp = TRUE])
  BY <1>2 DEF SyncFrom
<1> HIDE DEF m
<1>5. \A b \in Buf : buf'[b].blk = buf[b].blk
  <2>1. buf \in [Buf -> Header]
    BY DEF Typed
  <2>2. CASE m \in Buf /\ buf' = [buf EXCEPT ![m].asy = FALSE, ![m].ntp = TRUE]
    BY <2>1, <2>2 DEF Header
  <2>3. QED
    BY <1>4, <2>2
<1>6. QED
  BY <1>3, <1>5, QuietMove

LEMMA Steps ==
  ASSUME CacheInv, [Next]_vars
  PROVE  Quiet \/ \E p \in Proc, x \in Block, op \in Ops : ScanStep(p, x, op)
<1>1. Typed /\ TransferInv /\ HashType /\ st \in [Proc -> PlaceType] /\ buf \in [Buf -> Header]
  BY DEF CacheInv, Typed
<1>2. CASE UNCHANGED vars
  BY <1>2 DEF vars, buffers, Quiet, Waits
<1>3. ASSUME NEW p \in Proc, NEW x \in Block, NEW b \in Buf, NEW op \in {"read", "fill"},
             gate[b] = Free, Locked(p, x, b, op)
      PROVE  Quiet
  <2>1. CASE UNCHANGED <<buffers, st>>
    BY <2>1 DEF buffers, Quiet, Waits
  <2>2. CASE /\ UNCHANGED <<hash, buf>>
             /\ st' = [st EXCEPT ![p] = At(IF op = "read" THEN "use" ELSE "fill", x, b, op)]
    <3> DEFINE r == At(IF op = "read" THEN "use" ELSE "fill", x, b, op)
    <3>1. r.pc \notin {"need", "scan"}
      BY AtIs DEF Pcs, Ops
    <3> HIDE DEF r
    <3>2. QED
      BY <1>1, <2>2, <3>1, QuietMove DEF r
  <2>3. QED
    BY <1>1, <1>3, <2>1, <2>2, LockedIs
<1>4. ASSUME NEW p \in Proc, NEW x \in Block, NEW op \in {"read", "fill"}, Claim(p, x, op)
      PROVE  Quiet \/ ScanStep(p, x, op)
  <2>1. PICK b : b = Cached(x)
    OBVIOUS
  <2>2. CASE b = BNULL
    BY <1>4, <2>1, <2>2 DEF Claim, ScanStep, Is
  <2>3. CASE b # BNULL /\ gate[b] = Free
    BY <1>1, <1>3, <1>4, <2>1, <2>3, CachedIs DEF Claim
  <2>4. CASE b # BNULL /\ gate[b] # Free
    <3>1. b \in Buf /\ "gate" \in Pcs /\ op \in Ops
      BY <1>1, <2>1, <2>4, CachedIs DEF Pcs, Ops
    <3>2. At("gate", x, b, op).pc = "gate"
      BY <3>1, AtIs
    <3>3. st' = [st EXCEPT ![p] = At("gate", x, b, op)] /\ hash' = hash /\ buf' = buf
      BY <1>4, <2>1, <2>4 DEF Claim, buffers
    <3>4. QED
      BY <1>1, <3>2, <3>3, QuietMove
  <2>5. QED
    BY <2>2, <2>3, <2>4
<1>5. ASSUME NEW p \in Proc, NEW x \in Block, ReadAhead(p, x)
      PROVE  Quiet \/ ScanStep(p, x, "ahead")
  <2>1. CASE Cached(x) = BNULL
    BY <1>5, <2>1 DEF ReadAhead, ScanStep, Is
  <2>2. CASE Cached(x) # BNULL
    <3>1. PICK b \in Buf : b = Cached(x)
      BY <1>1, <2>2, CachedIs
    <3>2. ~(buf[b].ntp /\ gate[b] = Free)
      BY <1>1 DEF TransferInv, GoodBuffer
    <3>3. UNCHANGED <<hash, buf, st>>
      BY <1>5, <2>2, <3>1, <3>2 DEF ReadAhead
    <3>4. QED
      BY <3>3 DEF Quiet, Waits
  <2>3. QED
    BY <2>1, <2>2
<1>6. ASSUME NEW p \in Proc, LockGate(p) PROVE Quiet
  <2>1. /\ st[p].want \in Block /\ st[p].buf \in Buf /\ st[p].op \in {"read", "fill"}
        /\ gate[st[p].buf] = Free /\ Locked(p, st[p].want, st[p].buf, st[p].op)
    BY <1>1, <1>6 DEF LockGate, Is, GoodPlace, TransferInv
  <2>2. QED
    BY <1>3, <2>1
<1>7. ASSUME NEW p \in Proc, Rescan(p)
      PROVE  \E x \in Block, op \in Ops : ScanStep(p, x, op)
  <2>1. st[p].want \in Block /\ st[p].op \in Ops /\ Scan(p, st[p].want, st[p].op) /\ st[p].pc = "scan"
    BY <1>1, <1>7 DEF Rescan, Is, GoodPlace, TransferInv, PlaceType
  <2>2. ScanStep(p, st[p].want, st[p].op)
    BY <2>1 DEF ScanStep
  <2>3. QED
    BY <2>1, <2>2
<1>8. ASSUME NEW p \in Proc, NEW r, st' = [st EXCEPT ![p] = r], r.pc \notin {"need", "scan"},
             hash' = hash, NEW b \in Buf, NEW h \in Header,
             buf' = [buf EXCEPT ![b] = h] \/ buf' = buf, h.blk = buf[b].blk \/ h.blk = NODEV
      PROVE  Quiet
  <2>1. \A c \in Buf : buf'[c].blk = buf[c].blk \/ buf'[c].blk = NODEV
    BY <1>1, <1>8, FlagsOfBuffer
  <2>2. QED
    BY <1>1, <1>8, <2>1, QuietMove
<1>9. ASSUME NEW p \in Proc, st[p].pc \in Owning PROVE st[p].buf \in Buf
  BY <1>1, <1>9 DEF TransferInv, Owns
<1>10. ASSUME NEW p \in Proc, NEW pc \in Pcs PROVE [st[p] EXCEPT !.pc = pc].pc = pc
  BY <1>1 DEF PlaceType
<1>11. ASSUME NEW p \in Proc, ReadDone(p) \/ Release(p) \/ WriteDone(p) PROVE Quiet
  <2>1. PICK b \in Buf : b = st[p].buf
    BY <1>9, <1>11 DEF ReadDone, Release, WriteDone, Is, Owning
  <2>2. hash' = hash
    BY <1>11 DEF ReadDone, Release, WriteDone
  <2>3. CASE Brelease(b, buf[b]) /\ st' = [st EXCEPT ![p] = Idle]
    <3>1. PICK h : h = Released(buf[b])
      OBVIOUS
    <3>2. buf' = [buf EXCEPT ![b] = h]
      BY <2>3, <3>1 DEF Brelease, Released
    <3>3. h \in Header /\ h.blk = IF buf[b].err THEN NODEV ELSE buf[b].blk
      BY <1>1, <3>1, ReleasedHeader
    <3>4. Idle.pc \notin {"need", "scan"}
      BY IdleIs
    <3>5. QED
      BY <1>8, <2>2, <2>3, <3>2, <3>3, <3>4
  <2>4. CASE st' = [st EXCEPT ![p].pc = "use"] /\ buf' = buf
    <3>1. st' = [st EXCEPT ![p] = [st[p] EXCEPT !.pc = "use"]]
      BY <2>4
    <3>2. [st[p] EXCEPT !.pc = "use"].pc \notin {"need", "scan"}
      BY <1>10 DEF Pcs
    <3>3. QED
      BY <1>1, <2>2, <2>4, <3>1, <3>2, QuietMove
  <2>5. QED
    BY <1>11, <2>1, <2>3, <2>4 DEF ReadDone, Release, WriteDone
<1>12. ASSUME NEW p \in Proc, NEW d \in Data, Modify(p, d) PROVE Quiet
  <2>1. PICK b \in Buf : b = st[p].buf
    BY <1>9, <1>12 DEF Modify, Is, Owning
  <2>2. /\ st' = [st EXCEPT ![p] = [st[p] EXCEPT !.pc = "use"]] /\ hash' = hash
        /\ buf' = [buf EXCEPT ![b].data = d, ![b].mod = TRUE]
    BY <1>12, <2>1 DEF Modify
  <2>3. \A c \in Buf : buf'[c].blk = buf[c].blk
    BY <1>1, <2>2 DEF Header
  <2>4. [st[p] EXCEPT !.pc = "use"].pc \notin {"need", "scan"}
    BY <1>10 DEF Pcs
  <2>5. QED
    BY <1>1, <2>2, <2>3, <2>4, QuietMove
<1>13. ASSUME NEW p \in Proc, WriteBehind(p) \/ WriteThrough(p) PROVE Quiet
  <2>1. PICK b \in Buf : b = st[p].buf
    BY <1>9, <1>13 DEF WriteBehind, WriteThrough, Is, Owning
  <2>2. /\ hash' = hash
        /\ \E a \in BOOLEAN : buf' = [buf EXCEPT ![b].asy = a, ![b].ntp = TRUE]
        /\ \E pc \in {"wio"} : \/ st' = [st EXCEPT ![p] = [st[p] EXCEPT !.pc = pc]]
                               \/ st' = [st EXCEPT ![p] = Idle]
    BY <1>13, <2>1 DEF WriteBehind, WriteThrough
  <2>3. \A c \in Buf : buf'[c].blk = buf[c].blk
    BY <1>1, <2>2 DEF Header
  <2>4. [st[p] EXCEPT !.pc = "wio"].pc \notin {"need", "scan"} /\ Idle.pc \notin {"need", "scan"}
    BY <1>10, IdleIs DEF Pcs
  <2>5. QED
    BY <1>1, <2>2, <2>3, <2>4, QuietMove
<1>14. ASSUME NEW p \in Proc, Sync(p) \/ SyncLocked(p) \/ SyncWritten(p) PROVE Quiet
  <2>1. hash' = hash
    BY <1>14 DEF Sync, SyncLocked, SyncWritten
  <2>2. CASE Sync(p)
    BY <1>1, <2>1, <2>2, SyncQuiet, Names DEF Sync
  <2>3. CASE SyncLocked(p)
    <3>1. st[p].buf \in 0..NBUF
      BY <1>1, <2>3, Names DEF SyncLocked, Is, GoodPlace, TransferInv, Buf
    <3>2. QED
      BY <1>1, <2>1, <2>3, <3>1, SyncQuiet DEF SyncLocked
  <2>4. CASE SyncWritten(p)
    <3>1. st[p].buf - 1 \in 0..NBUF
      BY <1>9, <2>4, Names DEF SyncWritten, Is, Owning, Buf
    <3>2. QED
      BY <1>1, <2>1, <2>4, <3>1, SyncQuiet DEF SyncWritten
  <2>5. QED
    BY <1>14, <2>2, <2>3, <2>4
<1>15. ASSUME NEW b \in Buf, NEW ok \in BOOLEAN, Bdone(b, ok) PROVE Quiet
  <2>1. /\ \A c \in Buf \ {b} : buf'[c] = buf[c]
        /\ buf'[b].blk = IF ok THEN buf[b].blk ELSE NODEV
        /\ UNCHANGED <<hash, st>>
    BY <1>1, <1>15, BdoneIs
  <2>2. QED
    BY <2>1 DEF Quiet, Waits
<1>16. ASSUME Defend PROVE Quiet
  <2>1. /\ \A p \in Proc : st'[p] = IF st[p].pc = "need" THEN [st[p] EXCEPT !.pc = "scan"] ELSE st[p]
        /\ UNCHANGED <<hash, buf>>
    BY <1>16 DEF Defend, buffers
  <2>2. \A p \in Proc : Waits(p)' => Waits(p) /\ st'[p].want = st[p].want
    BY <1>1, <2>1 DEF Waits, PlaceType
  <2>3. QED
    BY <2>1, <2>2 DEF Quiet
<1>17. QED
  BY <1>2, <1>4, <1>5, <1>6, <1>7, <1>11, <1>12, <1>13, <1>14, <1>15, <1>16 DEF Next, Ops

LEMMA UniqueStep ==
  ASSUME ~Collide, \A x \in Block : Hash[x] # 0, CacheInv, UniqueInv, [Next]_vars
  PROVE  UniqueInv'
<1>1. Typed /\ HashType /\ hash \in HashTable /\ st \in [Proc -> PlaceType] /\ buf \in [Buf -> Header]
  BY DEF CacheInv, Typed, HashType, HashTable
<1>2. PICK K \in Nat : \E rank \in [Buf -> 0..K] : Chained(hash, rank)
  BY DEF UniqueInv
<1>3. PICK rank \in [Buf -> 0..K] : Chained(hash, rank)
  BY <1>2
<1>4. CASE Quiet
  <2>1. OneBufferPerBlock'
    BY <1>4 DEF Quiet, UniqueInv, OneBufferPerBlock
  <2>2. ASSUME NEW p \in Proc, Waits(p)' PROVE \A b \in Buf : buf'[b].blk # st'[p].want
    <3>1. Waits(p) /\ st'[p].want = st[p].want /\ st[p].want \in Block
      BY <1>4, <2>2 DEF Quiet, Waits, CacheInv, TransferInv, GoodPlace
    <3>2. QED
      BY <1>4, <3>1, Names DEF Quiet, UniqueInv
  <2>3. \A p, q \in Proc : Waits(p)' /\ Waits(q)' /\ p # q => st'[p].want # st'[q].want
    BY <1>4 DEF Quiet, UniqueInv
  <2>4. \A b \in Buf : buf'[b].blk # NODEV => hash'.val[b] = Hash[buf'[b].blk]
    BY <1>4 DEF Quiet, UniqueInv
  <2>5. hash' = hash
    BY <1>4 DEF Quiet
  <2>6. (\E k \in Nat : \E r \in [Buf -> 0..k] : Chained(hash, r))'
    BY <1>2, <2>5
  <2>7. QED
    BY <2>1, <2>2, <2>3, <2>4, <2>6 DEF UniqueInv, Waits
<1>5. ASSUME NEW p \in Proc, NEW x \in Block, NEW op \in Ops, ScanStep(p, x, op) PROVE UniqueInv'
  <2>1. /\ \A b \in Buf : buf[b].blk # x
        /\ \A q \in Proc \ {p} : Waits(q) => st[q].want # x
    <3>1. CASE st[p].pc = "idle" /\ Undisturbed(x) /\ Cached(x) = BNULL
      <4>1. ASSUME NEW b \in Buf, buf[b].blk = x PROVE FALSE
        <5>1. hash.val[b] = Hash[x] /\ Hash[x] # 0
          BY <4>1, Names DEF UniqueInv
        <5>2. QED
          BY <1>1, <1>3, <3>1, <4>1, <5>1, CachedFinds
      <4>2. QED
        BY <3>1, <4>1 DEF Undisturbed, Waits
    <3>2. CASE st[p].pc = "scan" /\ st[p].want = x
      BY <3>2 DEF UniqueInv, Waits
    <3>3. QED
      BY <1>5, <3>1, <3>2 DEF ScanStep
  <2>2. ASSUME NEW b \in Buf, Flushed(b) PROVE buf'[b].blk = buf[b].blk
    BY <2>2 DEF Flushed
  <2>3. CASE ScanFails(p, x, op)
    <3>1. \A b \in Buf : buf'[b].blk = buf[b].blk
      BY <2>2, <2>3 DEF ScanFails, Same
    <3>2. st'[p] = At("need", x, BNULL, op) /\ \A q \in Proc \ {p} : st'[q] = st[q]
      BY <1>1, <2>3 DEF ScanFails
    <3>3. st'[p].want = x
      <4>1. At("need", x, BNULL, op).want = x
        BY DEF At
      <4>2. QED
        BY <3>2, <4>1
    <3>4. hash' = hash
      BY <2>3 DEF ScanFails
    <3>5. OneBufferPerBlock'
      BY <3>1 DEF UniqueInv, OneBufferPerBlock
    <3>6. ASSUME NEW q \in Proc, Waits(q)' PROVE \A b \in Buf : buf'[b].blk # st'[q].want
      <4>1. CASE q = p
        BY <2>1, <3>1, <3>3, <4>1
      <4>2. CASE q # p
        BY <3>1, <3>2, <3>6, <4>2 DEF UniqueInv, Waits
      <4>3. QED
        BY <4>1, <4>2
    <3>7. ASSUME NEW q \in Proc, NEW r \in Proc, Waits(q)', Waits(r)', q # r
          PROVE  st'[q].want # st'[r].want
      BY <2>1, <3>2, <3>3, <3>7 DEF UniqueInv, Waits
    <3>8. \A b \in Buf : buf'[b].blk # NODEV => hash'.val[b] = Hash[buf'[b].blk]
      BY <3>1, <3>4 DEF UniqueInv
    <3>9. (\E k \in Nat : \E r \in [Buf -> 0..k] : Chained(hash, r))'
      BY <1>2, <3>4
    <3>10. QED
      BY <3>5, <3>6, <3>7, <3>8, <3>9 DEF UniqueInv, Waits
  <2>4. ASSUME NEW v \in Buf, ScanTakes(p, x, op, v) PROVE UniqueInv'
    <3>1. buf'[v].blk = x /\ \A b \in Buf \ {v} : buf'[b].blk = buf[b].blk
      BY <2>2, <2>4 DEF ScanTakes, Same, Taken
    <3>2. ~Waits(p)' /\ \A q \in Proc \ {p} : st'[q] = st[q]
      <4>1. st' = [st EXCEPT ![p] = CASE op = "read" -> At("io", x, v, op)
                                      [] op = "fill" -> At("fill", x, v, op)
                                      [] op = "ahead" -> Idle]
        BY <2>4 DEF ScanTakes
      <4>2. At("io", x, v, op).pc = "io" /\ At("fill", x, v, op).pc = "fill" /\ Idle.pc = "idle"
        BY AtIs, IdleIs DEF Pcs
      <4>3. op = "read" \/ op = "fill" \/ op = "ahead"
        BY DEF Ops
      <4>4. QED
        BY <1>1, <4>1, <4>2, <4>3 DEF Waits
    <3>3. PICK g : g = HASHdelete(hash, v)
      OBVIOUS
    <3>4. hash' = HASHinsert(g, v, Hash[x]) /\ Hash[x] \in Bucket /\ Hash[x] # 0
      BY <2>4, <3>3, Names DEF ScanTakes
    <3>5. ChainedBut(g, rank, v) /\ g \in HashTable
      BY <1>1, <1>3, <3>3, DeleteKeeps
    <3>6. \E top \in [Buf -> 0..(K + 1)] : Chained(hash', top)
      BY <3>4, <3>5, InsertKeeps
    <3>7. (\E k \in Nat : \E r \in [Buf -> 0..k] : Chained(hash, r))'
      <4>1. K + 1 \in Nat
        OBVIOUS
      <4>2. QED
        BY <3>6, <4>1
    <3>8. \A b \in Buf : hash'.val[b] = IF b = v THEN Hash[x] ELSE hash.val[b]
      <4>1. g.val = hash.val
        BY <3>3 DEF HASHdelete
      <4>2. hash'.val = [g.val EXCEPT ![v] = Hash[x]]
        BY <3>4 DEF HASHinsert
      <4>3. QED
        BY <1>1, <4>1, <4>2 DEF HashTable
    <3>9. \A b \in Buf : buf'[b].blk # NODEV => hash'.val[b] = Hash[buf'[b].blk]
      BY <3>1, <3>8 DEF UniqueInv
    <3>10. OneBufferPerBlock'
      BY <2>1, <3>1 DEF UniqueInv, OneBufferPerBlock
    <3>11. ASSUME NEW q \in Proc, Waits(q)' PROVE \A b \in Buf : buf'[b].blk # st'[q].want
      BY <2>1, <3>1, <3>2, <3>11 DEF UniqueInv, Waits
    <3>12. ASSUME NEW q \in Proc, NEW r \in Proc, Waits(q)', Waits(r)', q # r
           PROVE  st'[q].want # st'[r].want
      BY <3>2, <3>12 DEF UniqueInv, Waits
    <3>13. QED
      BY <3>7, <3>9, <3>10, <3>11, <3>12 DEF UniqueInv, Waits
  <2>5. QED
    BY <1>1, <1>5, <2>3, <2>4, ScanIs DEF ScanStep
<1>6. QED
  BY <1>4, <1>5, Steps

LEMMA UniqueInit == Init => UniqueInv
<1> SUFFICES ASSUME Init PROVE UniqueInv
  OBVIOUS
<1>1. \A b \in Buf : buf[b].blk = NODEV
  BY DEF Init
<1>2. \A p \in Proc : ~Waits(p)
  BY IdleIs DEF Init, Waits
<1>3. hash = [array |-> [h \in Bucket |-> BNULL], val |-> [b \in Buf |-> 0],
              fwd |-> [b \in Buf |-> BNULL], back |-> [b \in Buf |-> BNULL]]
  BY DEF Init
<1>4. Chained(hash, [b \in Buf |-> 0])
  BY <1>3 DEF Chained, LinkOK, HeadOK
<1>5. [b \in Buf |-> 0] \in [Buf -> 0..0] /\ 0 \in Nat
  OBVIOUS
<1>6. \E K \in Nat : \E rank \in [Buf -> 0..K] : Chained(hash, rank)
  BY <1>4, <1>5
<1>7. QED
  BY <1>1, <1>2, <1>6 DEF UniqueInv, OneBufferPerBlock

(* A block has one buffer, as bclaim() has it: the search of the hash chain
   finds what is cached, for any hash function that leaves bucket 0 alone,
   and provided that nobody asks for a block that another waits to have a
   buffer for. *)
THEOREM OneBufferKept ==
  ASSUME ~Collide, \A x \in Block : Hash[x] # 0
  PROVE  Spec => []OneBufferPerBlock
<1>1. CacheInv /\ UniqueInv /\ [Next]_vars => UniqueInv'
  BY UniqueStep
<1>2. UniqueInv => OneBufferPerBlock
  BY DEF UniqueInv
<1>3. QED
  BY <1>1, <1>2, UniqueInit, AlwaysInv, PTL DEF Spec

-----------------------------------------------------------------------------
(* The cache is a store of blocks. *)

(* A read of block x is given what buffer b has. *)
Shows(b, x) == buf[b].blk = x /\ (buf[b].mod \/ ~buf[b].ntp)

(* Data that are valid and not modified are those of the device. *)
CleanInv ==
  \A b \in Buf : buf[b].blk # NODEV /\ ~buf[b].mod /\ ~buf[b].ntp => buf[b].data = disk[buf[b].blk]

(* A process has block x to itself. *)
InUse(p, x) == st[p].pc \in {"use", "fill"} /\ st[p].want = x

StoreInv == CacheInv /\ OneBufferPerBlock /\ CleanInv

LEMMA ContentIs ==
  OneBufferPerBlock =>
    \A x \in Block : /\ \A b \in Buf : Shows(b, x) => Content[x] = buf[b].data
                     /\ (\A b \in Buf : ~Shows(b, x)) => Content[x] = disk[x]
<1> SUFFICES ASSUME OneBufferPerBlock, NEW x \in Block
             PROVE  /\ \A b \in Buf : Shows(b, x) => Content[x] = buf[b].data
                    /\ (\A b \in Buf : ~Shows(b, x)) => Content[x] = disk[x]
  OBVIOUS
<1> DEFINE own == {b \in Buf : buf[b].blk = x /\ (buf[b].mod \/ ~buf[b].ntp)}
<1>1. Content[x] = IF own = {} THEN disk[x] ELSE buf[CHOOSE b \in own : TRUE].data
  BY DEF Content
<1>2. ASSUME NEW b \in Buf, Shows(b, x) PROVE Content[x] = buf[b].data
  <2>1. b \in own
    BY <1>2 DEF Shows
  <2>2. \A c \in own : c = b
    BY <2>1, Names DEF OneBufferPerBlock
  <2>3. (CHOOSE c \in own : TRUE) = b
    BY <2>1, <2>2
  <2>4. QED
    BY <1>1, <2>1, <2>3
<1>3. ASSUME \A b \in Buf : ~Shows(b, x) PROVE Content[x] = disk[x]
  <2>1. own = {}
    BY <1>3 DEF Shows
  <2>2. QED
    BY <1>1, <2>1
<1>4. QED
  BY <1>2, <1>3

LEMMA ContentWillBe ==
  (OneBufferPerBlock =>
     \A x \in Block : /\ \A b \in Buf : Shows(b, x) => Content[x] = buf[b].data
                      /\ (\A b \in Buf : ~Shows(b, x)) => Content[x] = disk[x])'
BY ContentIs, PTL

LEMMA HolderIs ==
  CacheInv /\ OneBufferPerBlock =>
    \A x \in Block : /\ \A p \in Proc : InUse(p, x) => Holder[x] = p
                     /\ (\A p \in Proc : ~InUse(p, x)) => Holder[x] = Free
<1> SUFFICES ASSUME CacheInv, OneBufferPerBlock, NEW x \in Block
             PROVE  /\ \A p \in Proc : InUse(p, x) => Holder[x] = p
                    /\ (\A p \in Proc : ~InUse(p, x)) => Holder[x] = Free
  OBVIOUS
<1> DEFINE own == {p \in Proc : st[p].pc \in {"use", "fill"} /\ buf[st[p].buf].blk = x}
<1>1. Holder[x] = IF own = {} THEN Free ELSE CHOOSE p \in own : TRUE
  BY DEF Holder
<1>2. \A p \in Proc : p \in own <=> InUse(p, x)
  BY DEF InUse, CacheInv, TransferInv, GoodPlace
<1>3. \A p \in own : st[p].buf \in Buf /\ gate[st[p].buf] = p /\ buf[st[p].buf].blk = x
  BY DEF CacheInv, TransferInv, Owns, Owning
<1>4. \A p, q \in own : p = q
  BY <1>3, Names DEF OneBufferPerBlock
<1> HIDE DEF own
<1>5. ASSUME NEW p \in Proc, InUse(p, x) PROVE Holder[x] = p
  <2>1. p \in own
    BY <1>2, <1>5
  <2>2. (CHOOSE q \in own : TRUE) = p
    BY <1>4, <2>1
  <2>3. QED
    BY <1>1, <2>1, <2>2
<1>6. ASSUME \A p \in Proc : ~InUse(p, x) PROVE Holder[x] = Free
  <2>1. own = {}
    BY <1>2, <1>6 DEF own
  <2>2. QED
    BY <1>1, <2>1
<1>7. QED
  BY <1>5, <1>6

LEMMA HolderWillBe ==
  (CacheInv /\ OneBufferPerBlock =>
     \A x \in Block : /\ \A p \in Proc : InUse(p, x) => Holder[x] = p
                      /\ (\A p \in Proc : ~InUse(p, x)) => Holder[x] = Free)'
BY HolderIs, PTL

LEMMA StoreFunctions ==
  /\ Content = [x \in Block |-> Content[x]] /\ Content' = [x \in Block |-> Content'[x]]
  /\ Holder = [x \in Block |-> Holder[x]] /\ Holder' = [x \in Block |-> Holder'[x]]
<1>1. Content = [x \in Block |-> Content[x]]
  BY DEF Content
<1>2. Holder = [x \in Block |-> Holder[x]]
  BY DEF Holder
<1>3. (Content = [x \in Block |-> Content[x]])'
  BY <1>1, PTL
<1>4. (Holder = [x \in Block |-> Holder[x]])'
  BY <1>2, PTL
<1>5. QED
  BY <1>1, <1>2, <1>3, <1>4

(* Nothing happens to a buffer that a read could tell. *)
Steady(b) ==
  /\ buf'[b].blk = buf[b].blk /\ buf'[b].data = buf[b].data
  /\ (buf'[b].mod \/ ~buf'[b].ntp) <=> (buf[b].mod \/ ~buf[b].ntp)
  /\ ~buf'[b].mod /\ ~buf'[b].ntp => ~buf[b].mod /\ ~buf[b].ntp

(* What a read of block x is given if no other buffer than b has it. *)
Value(b, x) == IF Shows(b, x) THEN buf[b].data ELSE disk[x]

LEMMA ContentStays ==
  ASSUME OneBufferPerBlock, OneBufferPerBlock', NEW b \in Buf, \A c \in Buf \ {b} : Steady(c),
         \A x \in Block : Value(b, x)' = Value(b, x)
  PROVE  Content' = Content
<1>1. ASSUME NEW x \in Block PROVE Content'[x] = Content[x]
  <2>1. \A c \in Buf \ {b} : (Shows(c, x)' <=> Shows(c, x)) /\ buf'[c].data = buf[c].data
    BY DEF Steady, Shows
  <2>2. CASE \E c \in Buf \ {b} : Shows(c, x)
    BY <2>1, <2>2, ContentIs, ContentWillBe
  <2>3. CASE \A c \in Buf \ {b} : ~Shows(c, x)
    <3>1. Content[x] = Value(b, x)
      BY <2>3, ContentIs DEF Value
    <3>2. Content'[x] = Value(b, x)'
      BY <2>1, <2>3, ContentWillBe DEF Value
    <3>3. QED
      BY <3>1, <3>2
  <2>4. QED
    BY <2>2, <2>3
<1>2. QED
  BY <1>1, StoreFunctions

LEMMA SteadyStays ==
  ASSUME OneBufferPerBlock, OneBufferPerBlock', CleanInv, \A b \in Buf : Steady(b), disk' = disk
  PROVE  Content' = Content /\ CleanInv'
<1>1. \A x \in Block : Value(1, x)' = Value(1, x)
  BY Buffers DEF Steady, Value, Shows
<1>2. Content' = Content
  BY <1>1, Buffers, ContentStays
<1>3. CleanInv'
  BY DEF CleanInv, Steady
<1>4. QED
  BY <1>2, <1>3

(* Who has which block changes as the process p moves. *)
LEMMA Stutters ==
  ASSUME StoreInv, StoreInv', Content' = Content,
         \A p \in Proc, x \in Block : InUse(p, x)' <=> InUse(p, x)
  PROVE  UNCHANGED <<Content, Holder>>
<1>1. ASSUME NEW x \in Block PROVE Holder'[x] = Holder[x]
  <2>1. CASE \E p \in Proc : InUse(p, x)
    BY <2>1, HolderIs, HolderWillBe DEF StoreInv
  <2>2. CASE \A p \in Proc : ~InUse(p, x)
    BY <2>2, HolderIs, HolderWillBe DEF StoreInv
  <2>3. QED
    BY <2>1, <2>2
<1>2. Holder' = Holder
  BY <1>1, StoreFunctions
<1>3. QED
  BY <1>2

LEMMA Gets ==
  ASSUME StoreInv, StoreInv', Content' = Content, NEW p \in Proc, NEW x \in Block,
         InUse(p, x)', \A y \in Block : ~InUse(p, y), \A y \in Block \ {x} : ~InUse(p, y)',
         \A q \in Proc \ {p} : st'[q] = st[q]
  PROVE  Promise!Next
<1>1. \A q \in Proc \ {p}, y \in Block : InUse(q, y)' <=> InUse(q, y)
  BY DEF InUse
<1>2. Holder'[x] = p
  BY HolderWillBe DEF StoreInv
<1>3. \A q \in Proc : ~InUse(q, x)
  BY <1>1, <1>2, HolderWillBe DEF StoreInv
<1>4. Holder[x] = Free
  BY <1>3, HolderIs DEF StoreInv
<1>5. ASSUME NEW y \in Block \ {x} PROVE Holder'[y] = Holder[y]
  <2>1. CASE \E q \in Proc : InUse(q, y)
    BY <1>1, <2>1, HolderIs, HolderWillBe DEF StoreInv
  <2>2. CASE \A q \in Proc : ~InUse(q, y)
    BY <1>1, <2>2, HolderIs, HolderWillBe DEF StoreInv
  <2>3. QED
    BY <2>1, <2>2
<1>6. Holder' = [Holder EXCEPT ![x] = p]
  BY <1>2, <1>5, StoreFunctions
<1>7. Promise!Get(x)
  BY <1>4, <1>6 DEF Promise!Get
<1>8. QED
  BY <1>7 DEF Promise!Next

LEMMA Puts ==
  ASSUME StoreInv, StoreInv', Content' = Content, NEW p \in Proc, NEW x \in Block,
         InUse(p, x), \A y \in Block : ~InUse(p, y)',
         \A q \in Proc \ {p} : st'[q] = st[q]
  PROVE  Promise!Next
<1>1. \A q \in Proc \ {p}, y \in Block : InUse(q, y)' <=> InUse(q, y)
  BY DEF InUse
<1>2. Holder[x] = p /\ \A y \in Block \ {x} : ~InUse(p, y)
  BY HolderIs DEF StoreInv, InUse
<1>3. \A q \in Proc : ~InUse(q, x)'
  BY <1>1, <1>2, HolderIs DEF StoreInv
<1>4. Holder'[x] = Free
  BY <1>3, HolderWillBe DEF StoreInv
<1>5. ASSUME NEW y \in Block \ {x} PROVE Holder'[y] = Holder[y]
  <2>1. CASE \E q \in Proc : InUse(q, y)
    BY <1>1, <1>2, <2>1, HolderIs, HolderWillBe DEF StoreInv
  <2>2. CASE \A q \in Proc : ~InUse(q, y)
    BY <1>1, <2>2, HolderIs, HolderWillBe DEF StoreInv
  <2>3. QED
    BY <2>1, <2>2
<1>6. Holder' = [Holder EXCEPT ![x] = Free]
  BY <1>4, <1>5, StoreFunctions
<1>7. Promise!Put(x)
  BY <1>2, <1>6, Names DEF Promise!Put
<1>8. QED
  BY <1>7 DEF Promise!Next

(* A process that has no block before a step, and none after it. *)
LEMMA MoveStays ==
  ASSUME Typed, NEW p \in Proc, NEW r, st' = [st EXCEPT ![p] = r],
         st[p].pc \notin {"use", "fill"}, r.pc \notin {"use", "fill"}
  PROVE  \A q \in Proc, x \in Block : InUse(q, x)' <=> InUse(q, x)
BY DEF Typed, InUse

LEMMA MoveGets ==
  ASSUME StoreInv, StoreInv', Content' = Content, NEW p \in Proc, NEW r,
         st' = [st EXCEPT ![p] = r],
         st[p].pc \notin {"use", "fill"}, r.pc \in {"use", "fill"}, r.want \in Block
  PROVE  Promise!Next
<1>1. st'[p] = r /\ \A q \in Proc \ {p} : st'[q] = st[q]
  BY DEF StoreInv, CacheInv, Typed
<1>2. InUse(p, r.want)' /\ \A y \in Block \ {r.want} : ~InUse(p, y)'
  BY <1>1 DEF InUse
<1>3. \A y \in Block : ~InUse(p, y)
  BY DEF InUse
<1>4. QED
  BY <1>1, <1>2, <1>3, Gets

LEMMA MovePuts ==
  ASSUME StoreInv, StoreInv', Content' = Content, NEW p \in Proc, NEW r,
         st' = [st EXCEPT ![p] = r],
         st[p].pc \in {"use", "fill"}, st[p].want \in Block, r.pc \notin {"use", "fill"}
  PROVE  Promise!Next
<1>1. st'[p] = r /\ \A q \in Proc \ {p} : st'[q] = st[q]
  BY DEF StoreInv, CacheInv, Typed
<1>2. InUse(p, st[p].want) /\ \A y \in Block : ~InUse(p, y)'
  BY <1>1 DEF InUse
<1>3. QED
  BY <1>1, <1>2, Puts

LEMMA ScanStore ==
  ASSUME StoreInv, CacheInv', OneBufferPerBlock', NEW p \in Proc, NEW x \in Block, NEW op \in Ops,
         Scan(p, x, op), disk' = disk, st[p].pc \notin {"use", "fill"}
  PROVE  CleanInv' /\ [Promise!Next]_<<Content, Holder>>
<1>1. Typed /\ TransferInv /\ OneBufferPerBlock /\ CleanInv
  BY DEF StoreInv, CacheInv
<1>2. ASSUME NEW b \in Buf, Same(b) \/ Flushed(b) PROVE Steady(b)
  <2>1. CASE Same(b)
    BY <2>1 DEF Same, Steady
  <2>2. CASE Flushed(b)
    BY <2>2 DEF Flushed, Steady
  <2>3. QED
    BY <1>2, <2>1, <2>2
<1>3. CASE ScanFails(p, x, op)
  <2>1. \A b \in Buf : Steady(b)
    BY <1>2, <1>3 DEF ScanFails
  <2>2. Content' = Content /\ CleanInv'
    BY <1>1, <2>1, SteadyStays
  <2>3. At("need", x, BNULL, op).pc \notin {"use", "fill"}
    BY DEF At
  <2>4. \A q \in Proc, y \in Block : InUse(q, y)' <=> InUse(q, y)
    BY <1>1, <1>3, <2>3, MoveStays DEF ScanFails
  <2>5. StoreInv'
    BY <2>2 DEF StoreInv
  <2>6. QED
    BY <2>2, <2>4, <2>5, Stutters
<1>4. ASSUME NEW v \in Buf, ScanTakes(p, x, op, v)
      PROVE  CleanInv' /\ [Promise!Next]_<<Content, Holder>>
  <2>1. \A b \in Buf \ {v} : Steady(b)
    BY <1>2, <1>4 DEF ScanTakes
  <2>2. ~buf[v].mod /\ ~buf[v].ntp /\ ~buf'[v].mod /\ buf'[v].ntp
    BY <1>1, <1>4, Names DEF ScanTakes, Taken, TransferInv, GoodBuffer
  <2>3. ASSUME NEW y \in Block PROVE Value(v, y)' = Value(v, y)
    <3>1. ~Shows(v, y)' /\ disk'[y] = disk[y]
      BY <2>2 DEF Shows
    <3>2. Shows(v, y) => buf[v].data = disk[y]
      BY <1>1, <2>2, Names DEF Shows, CleanInv
    <3>3. QED
      BY <3>1, <3>2 DEF Value
  <2>4. Content' = Content
    BY <1>1, <2>1, <2>3, ContentStays
  <2>5. CleanInv'
    BY <1>1, <2>1, <2>2 DEF CleanInv, Steady
  <2>6. StoreInv'
    BY <2>5 DEF StoreInv
  <2>7. CASE op = "fill"
    <3>1. st' = [st EXCEPT ![p] = At("fill", x, v, op)]
      BY <1>4, <2>7 DEF ScanTakes
    <3>2. At("fill", x, v, op).pc = "fill" /\ At("fill", x, v, op).want = x
      BY DEF At
    <3>3. Promise!Next
      BY <2>4, <2>6, <3>1, <3>2, MoveGets
    <3>4. QED
      BY <2>5, <3>3
  <2>8. CASE op # "fill"
    <3>1. op = "read" \/ op = "ahead"
      BY <2>8 DEF Ops
    <3>2. st' = [st EXCEPT ![p] = At("io", x, v, op)] \/ st' = [st EXCEPT ![p] = Idle]
      BY <1>4, <3>1 DEF ScanTakes
    <3>3. At("io", x, v, op).pc = "io" /\ Idle.pc = "idle"
      BY IdleIs DEF At
    <3>4. \A q \in Proc, y \in Block : InUse(q, y)' <=> InUse(q, y)
      BY <1>1, <3>2, <3>3, MoveStays
    <3>5. QED
      BY <2>4, <2>5, <2>6, <3>4, Stutters
  <2>9. QED
    BY <2>7, <2>8
<1>5. QED
  BY <1>1, <1>3, <1>4, ScanIs

LEMMA LockedStore ==
  ASSUME StoreInv, CacheInv', OneBufferPerBlock', NEW p \in Proc, NEW x \in Block, NEW b \in Buf,
         gate[b] = Free, NEW op \in {"read", "fill"}, Locked(p, x, b, op), disk' = disk,
         st[p].pc \notin {"use", "fill"}
  PROVE  CleanInv' /\ [Promise!Next]_<<Content, Holder>>
<1>1. Typed /\ TransferInv /\ OneBufferPerBlock /\ CleanInv
  BY DEF StoreInv, CacheInv
<1>2. PICK r : r = At(IF op = "read" THEN "use" ELSE "fill", x, b, op)
  OBVIOUS
<1>3. buf' = buf /\ (st' = st \/ st' = [st EXCEPT ![p] = r])
  BY <1>1, <1>2, LockedIs DEF buffers
<1>4. Content' = Content /\ CleanInv'
  BY <1>1, <1>3, SteadyStays DEF Steady
<1>5. StoreInv'
  BY <1>4 DEF StoreInv
<1>6. CASE st' = st
  <2>1. \A q \in Proc, y \in Block : InUse(q, y)' <=> InUse(q, y)
    BY <1>6 DEF InUse
  <2>2. QED
    BY <1>4, <1>5, <2>1, Stutters
<1>7. CASE st' = [st EXCEPT ![p] = r]
  <2>1. r.pc \in {"use", "fill"} /\ r.want = x
    BY <1>2 DEF At
  <2>2. Promise!Next
    BY <1>4, <1>5, <1>7, <2>1, MoveGets
  <2>3. QED
    BY <1>4, <2>2
<1>8. QED
  BY <1>3, <1>6, <1>7

LEMMA BdoneStore ==
  ASSUME StoreInv, CacheInv', OneBufferPerBlock', NEW b \in Buf, NEW ok \in BOOLEAN, Bdone(b, ok)
  PROVE  CleanInv' /\ [Promise!Next]_<<Content, Holder>>
<1>1. Typed /\ TransferInv /\ OneBufferPerBlock /\ CleanInv /\ GoodBuffer(b)
  BY DEF StoreInv, CacheInv, TransferInv
<1>2. /\ req[b] \in {"read", "write"} /\ (req[b] = "read" \/ ok)
      /\ buf[b].ntp /\ buf[b].blk \in Block
      /\ disk' = (IF req[b] = "write" THEN [disk EXCEPT ![buf[b].blk] = buf[b].data] ELSE disk)
      /\ \A c \in Buf \ {b} : buf'[c] = buf[c]
      /\ buf'[b].blk = IF ok THEN buf[b].blk ELSE NODEV
      /\ buf'[b].data = IF req[b] = "read" /\ ok THEN disk[buf[b].blk] ELSE buf[b].data
      /\ ~buf'[b].ntp /\ ~buf'[b].mod /\ st' = st
  BY <1>1, BdoneIs
<1>3. disk \in [Block -> Data]
  BY <1>1 DEF Typed
<1>4. \A c \in Buf \ {b} : Steady(c)
  BY <1>2 DEF Steady
<1>5. (req[b] = "read" => ~buf[b].mod) /\ (req[b] = "write" => buf[b].mod)
  BY <1>1 DEF GoodBuffer
<1>6. ASSUME NEW x \in Block PROVE Value(b, x)' = Value(b, x)
  <2>1. CASE req[b] = "read"
    <3>1. Value(b, x) = disk[x]
      BY <1>2, <1>5, <2>1 DEF Value, Shows
    <3>2. Shows(b, x)' => buf'[b].data = disk[x]
      BY <1>2, <2>1, Names DEF Shows
    <3>3. disk' = disk
      BY <1>2, <2>1
    <3>4. QED
      BY <3>1, <3>2, <3>3 DEF Value
  <2>2. CASE req[b] = "write"
    <3>1. ok /\ buf'[b].blk = buf[b].blk /\ buf'[b].data = buf[b].data
          /\ disk' = [disk EXCEPT ![buf[b].blk] = buf[b].data]
      BY <1>2, <2>2
    <3>2. Shows(b, x)' <=> Shows(b, x)
      BY <1>2, <1>5, <2>2, <3>1 DEF Shows
    <3>3. buf[b].blk # x => disk'[x] = disk[x]
      BY <1>3, <3>1
    <3>4. buf[b].blk = x => Shows(b, x)
      BY <1>5, <2>2 DEF Shows
    <3>5. QED
      BY <3>1, <3>2, <3>3, <3>4 DEF Value
  <2>3. QED
    BY <1>2, <2>1, <2>2
<1>7. Content' = Content
  BY <1>1, <1>4, <1>6, ContentStays
<1>8. CleanInv'
  <2>1. ASSUME NEW c \in Buf, buf'[c].blk # NODEV, ~buf'[c].mod, ~buf'[c].ntp
        PROVE  buf'[c].data = disk'[buf'[c].blk]
    <3>1. CASE c = b
      <4>1. ok
        BY <1>2, <2>1, <3>1
      <4>2. QED
        BY <1>2, <1>3, <3>1, <4>1
    <3>2. CASE c # b
      <4>1. buf'[c] = buf[c] /\ buf[c].data = disk[buf[c].blk]
        BY <1>1, <1>2, <2>1, <3>2 DEF CleanInv
      <4>2. buf[c].blk # buf[b].blk /\ buf[c].blk \in Block
        <5>1. buf[c].blk \in Block \cup {NODEV}
          BY <1>1 DEF Typed, Header
        <5>2. QED
          BY <1>1, <2>1, <3>2, <4>1, <5>1 DEF OneBufferPerBlock
      <4>3. disk'[buf[c].blk] = disk[buf[c].blk]
        BY <1>2, <1>3, <4>2
      <4>4. QED
        BY <4>1, <4>3
    <3>3. QED
      BY <3>1, <3>2
  <2>2. QED
    BY <2>1 DEF CleanInv
<1>9. StoreInv'
  BY <1>8 DEF StoreInv
<1>10. \A q \in Proc, y \in Block : InUse(q, y)' <=> InUse(q, y)
  BY <1>2 DEF InUse
<1>11. QED
  BY <1>7, <1>8, <1>9, <1>10, Stutters

LEMMA ModifyStore ==
  ASSUME StoreInv, CacheInv', OneBufferPerBlock', NEW p \in Proc, NEW d \in Data, Modify(p, d)
  PROVE  CleanInv' /\ [Promise!Next]_<<Content, Holder>>
<1>1. Typed /\ TransferInv /\ OneBufferPerBlock /\ CleanInv
  BY DEF StoreInv, CacheInv
<1>2. st[p].pc \in {"use", "fill"} /\ GoodPlace(p) /\ Owns(p) /\ st[p] \in PlaceType
  BY <1>1 DEF Modify, Is, TransferInv, Typed
<1>3. PICK b \in Buf : b = st[p].buf
  BY <1>2 DEF Owns, Owning
<1>4. PICK x \in Block : x = st[p].want
  BY <1>2 DEF GoodPlace
<1>5. buf[b].blk = x
  BY <1>2, <1>3, <1>4 DEF GoodPlace
<1>6. /\ buf' = [buf EXCEPT ![b].data = d, ![b].mod = TRUE] /\ disk' = disk
      /\ st' = [st EXCEPT ![p] = [st[p] EXCEPT !.pc = "use"]]
  BY <1>3 DEF Modify
<1>7. /\ \A c \in Buf \ {b} : buf'[c] = buf[c]
      /\ buf'[b].blk = x /\ buf'[b].data = d /\ buf'[b].mod
  <2>1. buf \in [Buf -> Header]
    BY <1>1 DEF Typed
  <2>2. QED
    BY <1>5, <1>6, <2>1 DEF Header
<1>8. CleanInv'
  BY <1>1, <1>6, <1>7 DEF CleanInv
<1>9. StoreInv'
  BY <1>8 DEF StoreInv
<1>10. \A q \in Proc, y \in Block : InUse(q, y)' <=> InUse(q, y)
  <2>1. st'[p].pc = "use" /\ st'[p].want = st[p].want /\ \A q \in Proc \ {p} : st'[q] = st[q]
    BY <1>1, <1>2, <1>6 DEF Typed, PlaceType
  <2>2. QED
    BY <1>2, <2>1 DEF InUse
<1>11. \A y \in Block : Holder'[y] = Holder[y]
  <2>1. ASSUME NEW y \in Block PROVE Holder'[y] = Holder[y]
    <3>1. CASE \E q \in Proc : InUse(q, y)
      BY <1>9, <1>10, <3>1, HolderIs, HolderWillBe DEF StoreInv
    <3>2. CASE \A q \in Proc : ~InUse(q, y)
      BY <1>9, <1>10, <3>2, HolderIs, HolderWillBe DEF StoreInv
    <3>3. QED
      BY <3>1, <3>2
  <2>2. QED
    BY <2>1
<1>12. Holder' = Holder
  BY <1>11, StoreFunctions
<1>13. Holder[x] # Free
  <2>1. InUse(p, x)
    BY <1>2, <1>4 DEF InUse
  <2>2. Holder[x] = p
    BY <2>1, HolderIs DEF StoreInv
  <2>3. QED
    BY <2>2, Names
<1>14. Content' = [Content EXCEPT ![x] = d]
  <2>1. Content'[x] = d
    <3>1. Shows(b, x)'
      BY <1>7 DEF Shows
    <3>2. QED
      BY <1>7, <3>1, ContentWillBe
  <2>2. ASSUME NEW y \in Block \ {x} PROVE Content'[y] = Content[y]
    <3>1. ~Shows(b, y) /\ ~Shows(b, y)'
      BY <1>5, <1>7 DEF Shows
    <3>2. \A c \in Buf \ {b} : (Shows(c, y)' <=> Shows(c, y)) /\ buf'[c].data = buf[c].data
      BY <1>7 DEF Shows
    <3>3. CASE \E c \in Buf \ {b} : Shows(c, y)
      BY <1>1, <3>2, <3>3, ContentIs, ContentWillBe
    <3>4. CASE \A c \in Buf \ {b} : ~Shows(c, y)
      BY <1>1, <1>6, <3>1, <3>2, <3>4, ContentIs, ContentWillBe
    <3>5. QED
      BY <3>3, <3>4
  <2>3. QED
    BY <2>1, <2>2, StoreFunctions
<1>15. Promise!Write(x)
  BY <1>12, <1>13, <1>14 DEF Promise!Write
<1>16. QED
  BY <1>8, <1>15 DEF Promise!Next

(* The buffers are left as a read finds them, and the process p moves. *)
LEMMA SteadyStore ==
  ASSUME StoreInv, CacheInv', OneBufferPerBlock', \A b \in Buf : Steady(b), disk' = disk,
         NEW p \in Proc, NEW r, st' = [st EXCEPT ![p] = r],
         \/ st[p].pc \notin {"use", "fill"} /\ r.pc \notin {"use", "fill"}
         \/ st[p].pc \notin {"use", "fill"} /\ r.pc \in {"use", "fill"} /\ r.want \in Block
         \/ st[p].pc \in {"use", "fill"} /\ r.pc \notin {"use", "fill"}
  PROVE  CleanInv' /\ [Promise!Next]_<<Content, Holder>>
<1>1. Typed /\ OneBufferPerBlock /\ CleanInv /\ GoodPlace(p)
  BY DEF StoreInv, CacheInv, TransferInv
<1>2. Content' = Content /\ CleanInv'
  BY <1>1, SteadyStays
<1>3. StoreInv'
  BY <1>2 DEF StoreInv
<1>4. CASE st[p].pc \notin {"use", "fill"} /\ r.pc \notin {"use", "fill"}
  <2>1. \A q \in Proc, x \in Block : InUse(q, x)' <=> InUse(q, x)
    BY <1>1, <1>4, MoveStays
  <2>2. QED
    BY <1>2, <1>3, <2>1, Stutters
<1>5. CASE st[p].pc \notin {"use", "fill"} /\ r.pc \in {"use", "fill"} /\ r.want \in Block
  <2>1. Promise!Next
    BY <1>2, <1>3, <1>5, MoveGets
  <2>2. QED
    BY <1>2, <2>1
<1>6. CASE st[p].pc \in {"use", "fill"} /\ r.pc \notin {"use", "fill"}
  <2>1. st[p].want \in Block
    BY <1>1, <1>6 DEF GoodPlace
  <2>2. Promise!Next
    BY <1>2, <1>3, <1>6, <2>1, MovePuts
  <2>3. QED
    BY <1>2, <2>2
<1>7. QED
  BY <1>4, <1>5, <1>6

LEMMA ReleaseStore ==
  ASSUME StoreInv, CacheInv', OneBufferPerBlock', NEW p \in Proc,
         ReadDone(p) \/ Release(p) \/ WriteDone(p)
  PROVE  CleanInv' /\ [Promise!Next]_<<Content, Holder>>
<1>1. st[p] \in PlaceType /\ buf \in [Buf -> Header] /\ GoodPlace(p) /\ Owns(p)
  BY DEF StoreInv, CacheInv, TransferInv, Typed
<1>2. st[p].pc \in {"io", "use", "wio"} /\ disk' = disk
  BY DEF ReadDone, Release, WriteDone, Is
<1>3. PICK b \in Buf : b = st[p].buf
  BY <1>1, <1>2 DEF Owns, Owning
<1>4. GoodBuffer(b)
  BY DEF StoreInv, CacheInv, TransferInv
<1>5. CASE Brelease(b, buf[b]) /\ st' = [st EXCEPT ![p] = Idle]
  <2>1. PICK h : h = Released(buf[b])
    OBVIOUS
  <2>2. buf' = [buf EXCEPT ![b] = h]
    BY <1>5, <2>1 DEF Brelease, Released
  <2>3. /\ h.data = buf[b].data /\ h.blk = IF buf[b].err THEN NODEV ELSE buf[b].blk
        /\ ~h.ntp /\ (h.mod <=> buf[b].mod)
    BY <1>1, <2>1, ReleasedHeader
  <2>4. (buf[b].err => buf[b].blk = NODEV) /\ (buf[b].ntp => buf[b].mod)
    <3>1. CASE ReadDone(p) \/ WriteDone(p)
      BY <1>3, <1>4, <3>1 DEF GoodBuffer, ReadDone, WriteDone
    <3>2. CASE Release(p)
      BY <1>1, <1>3, <1>4, <3>2 DEF GoodBuffer, GoodPlace, Release, Is
    <3>3. QED
      BY <3>1, <3>2
  <2>5. \A c \in Buf : Steady(c)
    BY <1>1, <2>2, <2>3, <2>4 DEF Steady
  <2>6. Idle.pc \notin {"use", "fill"}
    BY IdleIs
  <2>7. QED
    BY <1>2, <1>5, <2>5, <2>6, SteadyStore
<1>6. CASE ReadDone(p) /\ st' = [st EXCEPT ![p].pc = "use"] /\ buf' = buf
  <2>1. PICK r : r = [st[p] EXCEPT !.pc = "use"]
    OBVIOUS
  <2>2. r.pc = "use" /\ r.want = st[p].want
    BY <1>1, <2>1 DEF PlaceType
  <2>3. st[p].pc = "io" /\ st[p].want \in Block
    BY <1>1, <1>6 DEF ReadDone, Is, GoodPlace
  <2>4. st' = [st EXCEPT ![p] = r]
    BY <1>6, <2>1
  <2>5. \A c \in Buf : Steady(c)
    BY <1>6 DEF Steady
  <2>6. QED
    BY <1>2, <2>2, <2>3, <2>4, <2>5, SteadyStore
<1>7. QED
  BY <1>3, <1>5, <1>6 DEF ReadDone, Release, WriteDone

LEMMA WriteStore ==
  ASSUME StoreInv, CacheInv', OneBufferPerBlock', NEW p \in Proc, WriteBehind(p) \/ WriteThrough(p)
  PROVE  CleanInv' /\ [Promise!Next]_<<Content, Holder>>
<1>1. st[p] \in PlaceType /\ buf \in [Buf -> Header] /\ Owns(p)
  BY DEF StoreInv, CacheInv, TransferInv, Typed
<1>2. st[p].pc = "use" /\ disk' = disk
  BY DEF WriteBehind, WriteThrough, Is
<1>3. PICK b \in Buf : b = st[p].buf
  BY <1>1, <1>2 DEF Owns, Owning
<1>4. PICK a \in BOOLEAN : buf' = [buf EXCEPT ![b].asy = a, ![b].ntp = TRUE]
  BY <1>3 DEF WriteBehind, WriteThrough
<1>5. buf[b].mod
  BY <1>3 DEF WriteBehind, WriteThrough
<1>6. \A c \in Buf : Steady(c)
  BY <1>1, <1>4, <1>5 DEF Header, Steady
<1>7. \E r : (st' = [st EXCEPT ![p] = r]) /\ r.pc \notin {"use", "fill"}
  <2>1. [st[p] EXCEPT !.pc = "wio"].pc = "wio"
    BY <1>1 DEF PlaceType
  <2>2. \/ st' = [st EXCEPT ![p] = [st[p] EXCEPT !.pc = "wio"]]
        \/ st' = [st EXCEPT ![p] = Idle]
    BY DEF WriteBehind, WriteThrough
  <2>3. QED
    BY <2>1, <2>2, IdleIs
<1>8. QED
  BY <1>2, <1>6, <1>7, SteadyStore

LEMMA SyncFromStore ==
  ASSUME StoreInv, CacheInv', OneBufferPerBlock', NEW p \in Proc, NEW n \in 0..NBUF, NEW gates,
         SyncFrom(p, n, gates), disk' = disk, st[p].pc \notin {"use", "fill"}
  PROVE  CleanInv' /\ [Promise!Next]_<<Content, Holder>>
<1>1. buf \in [Buf -> Header]
  BY DEF StoreInv, CacheInv, Typed
<1> DEFINE dirty == {c \in Buf : c <= n /\ buf[c].mod}
           m == Max(dirty)
<1>2. dirty # {} => m \in Buf /\ buf[m].mod
  <2>1. SUFFICES ASSUME dirty # {} PROVE m \in dirty
    OBVIOUS
  <2>2. dirty \subseteq 0..NBUF
    BY DEF Buf
  <2>3. QED
    BY <2>1, <2>2, Names, MaxIs
<1>3. \A c : At("sgate", NODEV, c, "read").pc = "sgate" /\ At("sio", NODEV, c, "read").pc = "sio"
  BY DEF At
<1>4. \E r : (st' = [st EXCEPT ![p] = r]) /\ r.pc \notin {"use", "fill"}
  BY <1>3, IdleIs DEF SyncFrom
<1>5. \/ buf' = buf
      \/ m \in Buf /\ buf[m].mod /\ buf' = [buf EXCEPT ![m].asy = FALSE, ![m].ntp = TRUE]
  BY <1>2 DEF SyncFrom
<1> HIDE DEF m
<1>6. \A c \in Buf : Steady(c)
  <2>1. CASE m \in Buf /\ buf[m].mod /\ buf' = [buf EXCEPT ![m].asy = FALSE, ![m].ntp = TRUE]
    BY <1>1, <2>1 DEF Header, Steady
  <2>2. CASE buf' = buf
    BY <2>2 DEF Steady
  <2>3. QED
    BY <1>5, <2>1, <2>2
<1>7. QED
  BY <1>4, <1>6, SteadyStore

LEMMA SyncStore ==
  ASSUME StoreInv, CacheInv', OneBufferPerBlock', NEW p \in Proc,
         Sync(p) \/ SyncLocked(p) \/ SyncWritten(p)
  PROVE  CleanInv' /\ [Promise!Next]_<<Content, Holder>>
<1>1. GoodPlace(p) /\ Owns(p)
  BY DEF StoreInv, CacheInv, TransferInv
<1>2. disk' = disk /\ st[p].pc \notin {"use", "fill"}
  BY DEF Sync, SyncLocked, SyncWritten, Is
<1>3. CASE Sync(p)
  BY <1>2, <1>3, SyncFromStore, Names DEF Sync
<1>4. CASE SyncLocked(p)
  <2>1. st[p].buf \in 0..NBUF
    BY <1>1, <1>4, Names DEF SyncLocked, Is, GoodPlace, Buf
  <2>2. QED
    BY <1>2, <1>4, <2>1, SyncFromStore DEF SyncLocked
<1>5. CASE SyncWritten(p)
  <2>1. st[p].buf - 1 \in 0..NBUF
    BY <1>1, <1>5, Names DEF SyncWritten, Is, Owns, Owning, Buf
  <2>2. QED
    BY <1>2, <1>5, <2>1, SyncFromStore DEF SyncWritten
<1>6. QED
  BY <1>3, <1>4, <1>5

LEMMA ClaimStore ==
  ASSUME StoreInv, CacheInv', OneBufferPerBlock', NEW p \in Proc, NEW x \in Block,
         NEW op \in {"read", "fill"}, Claim(p, x, op)
  PROVE  CleanInv' /\ [Promise!Next]_<<Content, Holder>>
<1>1. Typed /\ HashType /\ op \in Ops
  BY DEF StoreInv, CacheInv, Typed, Ops
<1>2. disk' = disk /\ st[p].pc \notin {"use", "fill"}
  BY DEF Claim, Is
<1>3. PICK b : b = Cached(x)
  OBVIOUS
<1>4. CASE b = BNULL
  BY <1>1, <1>2, <1>3, <1>4, ScanStore DEF Claim
<1>5. CASE b # BNULL /\ gate[b] = Free
  <2>1. b \in Buf /\ Locked(p, x, b, op)
    BY <1>1, <1>3, <1>5, CachedIs DEF Claim
  <2>2. QED
    BY <1>2, <1>5, <2>1, LockedStore
<1>6. CASE b # BNULL /\ gate[b] # Free
  <2>1. st' = [st EXCEPT ![p] = At("gate", x, b, op)] /\ buf' = buf
    BY <1>3, <1>6 DEF Claim, buffers
  <2>2. At("gate", x, b, op).pc \notin {"use", "fill"}
    BY DEF At
  <2>3. \A c \in Buf : Steady(c)
    BY <2>1 DEF Steady
  <2>4. QED
    BY <1>2, <2>1, <2>2, <2>3, SteadyStore
<1>7. QED
  BY <1>4, <1>5, <1>6

(* Neither the buffers nor the processes that have one change. *)
LEMMA NothingStore ==
  ASSUME StoreInv, CacheInv', OneBufferPerBlock', buf' = buf, disk' = disk,
         \A p \in Proc, x \in Block : InUse(p, x)' <=> InUse(p, x)
  PROVE  CleanInv' /\ [Promise!Next]_<<Content, Holder>>
<1>1. Content' = Content /\ CleanInv'
  BY SteadyStays DEF Steady, StoreInv
<1>2. QED
  BY <1>1, Stutters DEF StoreInv

LEMMA ReadAheadStore ==
  ASSUME StoreInv, CacheInv', OneBufferPerBlock', NEW p \in Proc, NEW x \in Block, ReadAhead(p, x)
  PROVE  CleanInv' /\ [Promise!Next]_<<Content, Holder>>
<1>1. Typed /\ HashType
  BY DEF StoreInv, CacheInv, Typed
<1>2. disk' = disk /\ st[p].pc \notin {"use", "fill"}
  BY DEF ReadAhead, Is
<1>3. CASE Cached(x) = BNULL
  BY <1>2, <1>3, ScanStore DEF ReadAhead, Ops
<1>4. CASE Cached(x) # BNULL
  <2>1. PICK b \in Buf : b = Cached(x)
    BY <1>1, <1>4, CachedIs
  <2>2. ~(buf[b].ntp /\ gate[b] = Free)
    BY DEF StoreInv, CacheInv, TransferInv, GoodBuffer
  <2>3. UNCHANGED <<buf, st>>
    BY <1>4, <2>1, <2>2 DEF ReadAhead
  <2>4. QED
    BY <1>2, <2>3, NothingStore DEF InUse
<1>5. QED
  BY <1>3, <1>4

LEMMA WokenStore ==
  ASSUME StoreInv, CacheInv', OneBufferPerBlock', NEW p \in Proc, LockGate(p) \/ Rescan(p)
  PROVE  CleanInv' /\ [Promise!Next]_<<Content, Holder>>
<1>1. GoodPlace(p) /\ st[p] \in PlaceType
  BY DEF StoreInv, CacheInv, TransferInv, Typed
<1>2. disk' = disk
  BY DEF LockGate, Rescan
<1>3. CASE LockGate(p)
  <2>1. /\ st[p].want \in Block /\ st[p].buf \in Buf /\ st[p].op \in {"read", "fill"}
        /\ st[p].pc \notin {"use", "fill"}
        /\ gate[st[p].buf] = Free /\ Locked(p, st[p].want, st[p].buf, st[p].op)
    BY <1>1, <1>3 DEF LockGate, Is, GoodPlace
  <2>2. QED
    BY <1>2, <2>1, LockedStore
<1>4. CASE Rescan(p)
  <2>1. /\ st[p].want \in Block /\ st[p].op \in Ops /\ st[p].pc \notin {"use", "fill"}
        /\ Scan(p, st[p].want, st[p].op)
    BY <1>1, <1>4 DEF Rescan, Is, GoodPlace, PlaceType
  <2>2. QED
    BY <1>2, <2>1, ScanStore
<1>5. QED
  BY <1>3, <1>4

LEMMA DefendStore ==
  ASSUME StoreInv, CacheInv', OneBufferPerBlock', Defend
  PROVE  CleanInv' /\ [Promise!Next]_<<Content, Holder>>
<1>1. st \in [Proc -> PlaceType]
  BY DEF StoreInv, CacheInv, Typed
<1>2. /\ \A p \in Proc : st'[p] = IF st[p].pc = "need" THEN [st[p] EXCEPT !.pc = "scan"] ELSE st[p]
      /\ UNCHANGED <<buf, disk>>
  BY DEF Defend, buffers
<1>3. \A p \in Proc, x \in Block : InUse(p, x)' <=> InUse(p, x)
  BY <1>1, <1>2 DEF InUse, PlaceType
<1>4. QED
  BY <1>2, <1>3, NothingStore

LEMMA StoreStep ==
  ASSUME StoreInv, CacheInv', OneBufferPerBlock', [Next]_vars
  PROVE  CleanInv' /\ [Promise!Next]_<<Content, Holder>>
<1>1. CASE UNCHANGED vars
  BY <1>1, NothingStore DEF vars, buffers, InUse
<1>2. CASE Next
  BY <1>2, ClaimStore, ReadAheadStore, WokenStore, ReleaseStore, ModifyStore, WriteStore,
     SyncStore, BdoneStore, DefendStore DEF Next
<1>3. QED
  BY <1>1, <1>2

LEMMA StoreInit == Init => CleanInv /\ Promise!Init
<1> SUFFICES ASSUME Init PROVE CleanInv /\ Promise!Init
  OBVIOUS
<1>1. \A b \in Buf : buf[b].blk = NODEV
  BY DEF Init
<1>2. CleanInv
  BY <1>1 DEF CleanInv
<1>3. OneBufferPerBlock /\ CacheInv
  BY <1>1, StartsRight DEF OneBufferPerBlock
<1>4. disk \in [Block -> Data]
  BY DEF Init
<1>5. \A x \in Block : Content[x] = disk[x]
  BY <1>1, <1>3, ContentIs, Names DEF Shows
<1>6. \A x \in Block : Holder[x] = Free
  BY <1>3, HolderIs, IdleIs DEF InUse, Init
<1>7. Content \in [Block -> Data] /\ Holder = [x \in Block |-> Free]
  BY <1>4, <1>5, <1>6, StoreFunctions
<1>8. QED
  BY <1>2, <1>7 DEF Promise!Init

(* The cache keeps what it promises of the blocks of the device: a process has
   a block to itself from bread() or bclaim() to brelease() or bwrite(), and
   what is read is what was written last, through eviction, write behind,
   bsync() and reading ahead, whatever order the driver completes them in. *)
THEOREM CacheIsBlockStore ==
  ASSUME ~Collide, \A x \in Block : Hash[x] # 0
  PROVE  Spec => ImplementsBlockStore
<1>1. CacheInv /\ UniqueInv /\ [Next]_vars => UniqueInv'
  BY UniqueStep
<1>2. UniqueInv => OneBufferPerBlock
  BY DEF UniqueInv
<1>3. OneBufferPerBlock /\ CacheInv /\ CleanInv /\ CacheInv' /\ OneBufferPerBlock' /\ [Next]_vars
        => CleanInv' /\ [Promise!Next]_<<Content, Holder>>
  BY StoreStep DEF StoreInv
<1>4. Init => CleanInv /\ Promise!Init
  BY StoreInit
<1>5. UniqueInv' => OneBufferPerBlock'
  BY <1>2, PTL
<1>6. QED
  BY <1>1, <1>2, <1>3, <1>4, <1>5, UniqueInit, AlwaysInv, PTL
     DEF Spec, ImplementsBlockStore, Promise!Spec
=============================================================================
