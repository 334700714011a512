--------------------------- MODULE PipeRingProofs ---------------------------
(***************************************************************************)
(* Theorems about the ring of a pipe, for every set of processes and of    *)
(* open files, every size of the ring and every size of reads and writes.  *)
(***************************************************************************)
EXTENDS Pipe, TLAPS

LEMMA RingHasSize == PIPSIZE \in Nat \ {0}
BY PipeAssumption

USE RingHasSize

Ops == {"none", "open", "read", "write", "poll"}
States == {"run", "asleep", "woken", "signalled", "again", "eintr"}

(* What a process's entry in call may be. *)
GoodCall ==
  {c \in [op : Ops, st : States, want : 0..(2 * PIPSIZE), todo : Seq(Byte),
          on : SUBSET {"iev", "oev"}] :
     /\ c.op = "none" => c = NoCall
     /\ c.op = "write" <=> c.todo # <<>>
     /\ c.op = "read" => c.want > 0
     /\ c.op = "poll" <=> c.on # {}
     /\ c.op = "poll" => c.st \in {"asleep", "woken", "signalled"}}

(* TypeOK without the counters' signs, and what the calls have to do with the
   gate of the inode. *)
Typed ==
  /\ pnc \in 0..PIPSIZE /\ prx \in Cell /\ pwx \in Cell
  /\ buf \in [Cell -> Byte \cup {Junk}]
  /\ par \in Int /\ paw \in Int /\ psr \in Int /\ psw \in Int
  /\ inode \in Proc \cup {NoProc}
  /\ fd \in [Proc -> File \cup {NoFile}]
  /\ mode \in [File -> {"none", "r", "w", "rw"}]
  /\ call \in [Proc -> GoodCall]
  /\ deferred \subseteq {"psr", "psw", "iev", "oev"}
  /\ panicked \in BOOLEAN

-----------------------------------------------------------------------------
LEMMA LeastOf ==
  ASSUME NEW a \in Nat, NEW b \in Nat, NEW c \in Nat
  PROVE  /\ Least({a, b, c}) \in Nat /\ Least({a, b, c}) \in {a, b, c}
         /\ Least({a, b, c}) <= a /\ Least({a, b, c}) <= b /\ Least({a, b, c}) <= c
<1>1. \E x \in {a, b, c} : \A y \in {a, b, c} : x <= y
  OBVIOUS
<1>2. Least({a, b, c}) \in {a, b, c} /\ \A y \in {a, b, c} : Least({a, b, c}) <= y
  BY <1>1 DEF Least
<1>3. QED
  BY <1>2

(* How much one turn of the copying loops moves. *)
ReadSize(p) == Least({PIPSIZE - prx, call[p].want, pnc})

(* Entries of call: none, a new one, and the changes of an old one. *)
LEMMA NoCallGood == NoCall \in GoodCall
BY DEF NoCall, GoodCall, Ops, States

LEMMA OpenGood == Call("open", 0, <<>>) \in GoodCall
<1>1. 0 \in 0..(2 * PIPSIZE) /\ <<>> \in Seq(Byte)
  OBVIOUS
<1>2. QED
  BY <1>1 DEF Call, GoodCall, NoCall, Ops, States

LEMMA ReadGood ==
  ASSUME NEW n \in ReadSizes PROVE Call("read", n, <<>>) \in GoodCall
<1>1. n \in 1..(2 * PIPSIZE)
  BY PipeAssumption
<1>2. <<>> \in Seq(Byte) /\ n \in 0..(2 * PIPSIZE) /\ n > 0
  BY <1>1
<1>3. QED
  BY <1>2 DEF Call, GoodCall, NoCall, Ops, States

LEMMA WriteGood ==
  ASSUME NEW p \in Proc, NEW n \in WriteSizes
  PROVE  LET m == [i \in 1..n |-> <<p, i>>]
         IN  Call("write", 0, m) \in GoodCall /\ Len(m) = n
<1> DEFINE m == [i \in 1..n |-> <<p, i>>]
<1>1. n \in 1..(2 * PIPSIZE)
  BY PipeAssumption
<1>2. m \in Seq(Byte) /\ Len(m) = n /\ m # <<>>
  <2>1. \A i \in 1..n : m[i] \in Byte
    BY <1>1 DEF Byte
  <2>2. m \in [1..n -> Byte] /\ n \in Nat
    BY <2>1, <1>1
  <2>3. m \in Seq(Byte) /\ Len(m) = n
    BY <2>2
  <2>4. QED
    BY <2>3, <1>1
<1>3. 0 \in 0..(2 * PIPSIZE)
  OBVIOUS
<1> HIDE DEF m
<1>4. Call("write", 0, m) \in GoodCall
  BY <1>2, <1>3 DEF Call, GoodCall, NoCall, Ops, States
<1>5. QED
  BY <1>2, <1>4 DEF m

LEMMA StateGood ==
  ASSUME NEW c \in GoodCall, NEW s \in States, c.op # "none",
         c.op = "poll" => s \in {"asleep", "woken", "signalled"}
  PROVE  [c EXCEPT !.st = s] \in GoodCall
BY DEF GoodCall, NoCall

LEMMA WantGood ==
  ASSUME NEW c \in GoodCall, NEW n \in Nat, c.op = "read", n < c.want
  PROVE  [c EXCEPT !.want = c.want - n] \in GoodCall
<1>1. c.want - n \in 0..(2 * PIPSIZE) /\ c.want - n > 0
  BY DEF GoodCall
<1>2. QED
  BY <1>1 DEF GoodCall, NoCall

LEMMA TodoGood ==
  ASSUME NEW c \in GoodCall, NEW n \in Nat, c.op = "write", n < Len(c.todo)
  PROVE  [c EXCEPT !.todo = SubSeq(c.todo, n + 1, Len(c.todo))] \in GoodCall
<1> DEFINE t == SubSeq(c.todo, n + 1, Len(c.todo))
<1>1. c.todo \in Seq(Byte)
  BY DEF GoodCall
<1>2. t \in Seq(Byte) /\ Len(t) = Len(c.todo) - n
  BY <1>1
<1>3. t # <<>>
  <2>1. Len(t) > 0
    BY <1>1, <1>2
  <2> HIDE DEF t
  <2>2. Len(<<>>) = 0
    OBVIOUS
  <2>3. QED
    BY <2>1, <2>2
<1> HIDE DEF t
<1>4. [c EXCEPT !.todo = t] \in GoodCall
  BY <1>2, <1>3 DEF GoodCall, NoCall
<1>5. QED
  BY <1>4 DEF t

LEMMA PollGood ==
  ASSUME NEW on \in (SUBSET {"iev", "oev"}) \ {{}}
  PROVE  Polls(on) \in GoodCall
<1>1. 0 \in 0..(2 * PIPSIZE) /\ <<>> \in Seq(Byte)
  OBVIOUS
<1>2. QED
  BY <1>1 DEF Polls, NoCall, GoodCall, Ops, States
-----------------------------------------------------------------------------
(* The ring.  The i-th cell after r, for which Content has a remainder. *)
At(r, i) == IF r + i < PIPSIZE THEN r + i ELSE r + i - PIPSIZE

LEMMA ModSmall == ASSUME NEW w \in Nat \ {0}, NEW n \in 0..(w - 1) PROVE n % w = n
OBVIOUS

LEMMA ModAbove == ASSUME NEW w \in Nat \ {0}, NEW n \in w..(2 * w - 1) PROVE n % w = n - w
OBVIOUS

LEMMA ModBelow == ASSUME NEW w \in Nat \ {0}, NEW n \in (-w)..(-1) PROVE n % w = n + w
OBVIOUS

LEMMA AtIsMod ==
  ASSUME NEW r \in Cell, NEW i \in 0..PIPSIZE PROVE (r + i) % PIPSIZE = At(r, i)
<1>1. CASE r + i < PIPSIZE
  <2>1. r + i \in 0..(PIPSIZE - 1)
    BY <1>1 DEF Cell
  <2>2. QED
    BY <1>1, <2>1, ModSmall DEF At
<1>2. CASE r + i >= PIPSIZE
  <2>1. PICK s \in PIPSIZE..(2 * PIPSIZE - 1) : s = r + i
    BY <1>2 DEF Cell
  <2>2. s % PIPSIZE = s - PIPSIZE
    BY ModAbove
  <2>3. QED
    BY <1>2, <2>1, <2>2 DEF At, Cell
<1>3. QED
  BY <1>1, <1>2 DEF Cell

(* The characters in the ring are behind the reader's offset, and all other
   cells are Junk; an empty ring starts at 0 again, unless chsize() emptied it. *)
RingInv ==
  /\ pwx = At(prx, pnc)
  /\ \A i \in Cell : /\ i >= pnc => buf[At(prx, i)] = Junk
                     /\ ~Resizing /\ i < pnc => buf[At(prx, i)] # Junk
  /\ ~Resizing /\ pnc = 0 => prx = 0

RingType ==
  /\ pnc \in 0..PIPSIZE /\ prx \in Cell /\ pwx \in Cell
  /\ buf \in [Cell -> Byte \cup {Junk}]

LEMMA ContentIs ==
  ASSUME NEW n \in 0..PIPSIZE, NEW r \in Cell, NEW b
  PROVE  [i \in 1..n |-> b[(r + i - 1) % PIPSIZE]] = [i \in 1..n |-> b[At(r, i - 1)]]
<1>1. \A i \in 1..n : (r + i - 1) % PIPSIZE = At(r, i - 1)
  <2> TAKE i \in 1..n
  <2>1. i - 1 \in 0..PIPSIZE /\ r + (i - 1) = r + i - 1
    BY DEF Cell
  <2>2. QED
    BY <2>1, AtIsMod
<1>2. QED
  BY <1>1

LEMMA ContentAt == ASSUME RingType PROVE Content = [i \in 1..pnc |-> buf[At(prx, i - 1)]]
BY ContentIs DEF Content, RingType

LEMMA RingIsRingOK == ASSUME RingType, RingInv PROVE RingOK
<1>1. (prx + pnc) % PIPSIZE = pwx
  BY AtIsMod DEF RingType, RingInv
<1>2. ASSUME ~Resizing, NEW i \in 1..pnc PROVE Content[i] # Junk
  <2>1. i - 1 \in Cell /\ i - 1 < pnc
    BY DEF RingType, Cell
  <2>2. Content[i] = buf[At(prx, i - 1)]
    BY ContentAt
  <2>3. QED
    BY <1>2, <2>1, <2>2 DEF RingInv
<1>3. QED
  BY <1>1, <1>2 DEF RingOK

LEMMA TakeRing ==
  ASSUME RingType, RingInv, NEW n \in 1..pnc, prx + n <= PIPSIZE, Take(n)
  PROVE  RingType' /\ RingInv' /\ Content' = SubSeq(Content, n + 1, pnc)
<1>1. /\ pnc' = pnc - n
      /\ prx' = IF pnc' = 0 \/ prx + n = PIPSIZE THEN 0 ELSE prx + n
      /\ pwx' = IF pnc' = 0 THEN 0 ELSE pwx
      /\ buf' = [c \in Cell |-> IF c \in prx..(prx + n - 1) THEN Junk ELSE buf[c]]
  BY DEF Take
<1>2. RingType'
  BY <1>1 DEF RingType, Cell
<1>3. pwx' = At(prx', pnc')
  BY <1>1 DEF RingType, RingInv, At, Cell
<1>4. ASSUME NEW c \in Cell
      PROVE  buf'[c] = IF c \in prx..(prx + n - 1) THEN Junk ELSE buf[c]
  BY <1>1
<1>5. CASE pnc' = 0
  <2>1. ASSUME NEW c \in Cell PROVE buf'[c] = Junk
    <3>1. CASE c >= prx
      <4>1. c - prx \in Cell /\ At(prx, c - prx) = c
        BY <3>1 DEF RingType, At, Cell
      <4>2. c - prx >= pnc => buf[c] = Junk
        BY <4>1 DEF RingInv
      <4>3. QED
        BY <1>1, <1>4, <1>5, <3>1, <4>2 DEF RingType, Cell
    <3>2. CASE c < prx
      <4>1. c - prx + PIPSIZE \in Cell /\ At(prx, c - prx + PIPSIZE) = c
        BY <3>2 DEF RingType, At, Cell
      <4>2. c - prx + PIPSIZE >= pnc
        BY <1>1, <1>5 DEF RingType, Cell
      <4>3. QED
        BY <1>4, <4>1, <4>2, <3>2 DEF RingInv, RingType, Cell
    <3>3. QED
      BY <3>1, <3>2 DEF RingType, Cell
  <2>2. \A i \in Cell : At(prx', i) \in Cell
    BY <1>1, <1>5 DEF At, Cell
  <2>3. Content' = SubSeq(Content, n + 1, pnc)
    <3>1. Content' = <<>>
      BY <1>5 DEF Content
    <3>2. SubSeq(Content, n + 1, pnc) = <<>>
      BY <1>1, <1>5 DEF RingType
    <3>3. QED
      BY <3>1, <3>2
  <2>4. QED
    BY <1>1, <1>2, <1>3, <1>5, <2>1, <2>2, <2>3 DEF RingInv, Cell
<1>6. CASE pnc' # 0
  <2>1. ASSUME NEW i \in Cell, i + n < PIPSIZE
        PROVE  At(prx', i) = At(prx, i + n) /\ At(prx', i) \in Cell
                 /\ At(prx', i) \notin prx..(prx + n - 1)
    BY <1>1, <1>6, <2>1 DEF RingType, At, Cell
  <2>2. ASSUME NEW i \in Cell, i + n < PIPSIZE
        PROVE  i + n \in Cell /\ buf'[At(prx', i)] = buf[At(prx, i + n)]
    <3>1. i + n \in Cell
      BY <2>2 DEF RingType, Cell
    <3>2. QED
      BY <3>1, <2>1, <2>2, <1>4
  <2>3. ASSUME NEW i \in Cell, i + n >= PIPSIZE
        PROVE  buf'[At(prx', i)] = Junk
    BY <1>1, <1>4, <1>6, <2>3 DEF RingType, At, Cell
  <2>4. ASSUME NEW i \in Cell
        PROVE  /\ i >= pnc' => buf'[At(prx', i)] = Junk
               /\ ~Resizing /\ i < pnc' => buf'[At(prx', i)] # Junk
    <3>1. CASE i + n < PIPSIZE
      <4>1. /\ i + n >= pnc => buf[At(prx, i + n)] = Junk
            /\ ~Resizing /\ i + n < pnc => buf[At(prx, i + n)] # Junk
        BY <2>2, <3>1 DEF RingInv
      <4>2. (i >= pnc' <=> i + n >= pnc) /\ (i < pnc' <=> i + n < pnc)
        BY <1>1 DEF RingType, Cell
      <4>3. QED
        BY <4>1, <4>2, <2>2, <3>1
    <3>2. CASE i + n >= PIPSIZE
      <4>1. ~ (i < pnc')
        BY <1>1, <3>2 DEF RingType, Cell
      <4>2. QED
        BY <4>1, <2>3, <3>2
    <3>3. QED
      BY <3>1, <3>2 DEF Cell
  <2>5. Content' = SubSeq(Content, n + 1, pnc)
    <3>1. Content' = [i \in 1..pnc' |-> buf'[At(prx', i - 1)]]
      BY <1>2, ContentIs DEF Content, RingType
    <3>2. Content = [i \in 1..pnc |-> buf[At(prx, i - 1)]]
      BY ContentAt
    <3>3. \A j \in 1..pnc' : Content'[j] = Content[j + n]
      <4> TAKE j \in 1..pnc'
      <4>1. j - 1 \in Cell /\ j - 1 + n < PIPSIZE /\ j + n \in 1..pnc
        BY <1>1 DEF RingType, Cell
      <4>2. Content'[j] = buf'[At(prx', j - 1)] /\ Content[j + n] = buf[At(prx, j + n - 1)]
        BY <3>1, <3>2, <4>1
      <4>3. QED
        BY <2>2, <4>1, <4>2
    <3>4. SubSeq(Content, n + 1, pnc) = [j \in 1..pnc' |-> Content[j + n]]
      BY <1>1 DEF RingType
    <3>5. QED
      BY <3>1, <3>3, <3>4
  <2>6. QED
    BY <1>2, <1>3, <1>6, <2>4, <2>5 DEF RingInv
<1>7. QED
  BY <1>5, <1>6
(* The bytes that a turn of pwrite() puts in. *)
Put(n, bytes) ==
  /\ buf' = [c \in Cell |-> IF c \in pwx..(pwx + n - 1) THEN bytes[c - pwx + 1] ELSE buf[c]]
  /\ pwx' = (pwx + n) % PIPSIZE
  /\ pnc' = pnc + n
  /\ prx' = prx

LEMMA PutRing ==
  ASSUME RingType, RingInv, NEW bytes \in Seq(Byte), NEW n \in 1..Len(bytes),
         pwx + n <= PIPSIZE, pnc + n <= PIPSIZE, Put(n, bytes)
  PROVE  RingType' /\ RingInv' /\ Content' = Content \o SubSeq(bytes, 1, n)
<1>1. n \in 1..PIPSIZE /\ n \in Nat
  BY DEF RingType, Cell
<1>2. pwx' = At(pwx, n)
  BY <1>1, AtIsMod DEF Put, RingType
<1>3. pwx' \in Cell /\ pwx' = At(prx, pnc + n)
  BY <1>1, <1>2 DEF RingType, RingInv, At, Cell
<1>4. \A k \in 1..n : bytes[k] \in Byte /\ bytes[k] # Junk
  BY PipeAssumption DEF Byte
<1>5. ASSUME NEW c \in Cell
      PROVE  /\ c \in pwx..(pwx + n - 1) =>
                  buf'[c] = bytes[c - pwx + 1] /\ c - pwx + 1 \in 1..n
             /\ c \notin pwx..(pwx + n - 1) => buf'[c] = buf[c]
  BY <1>1 DEF Put, RingType, Cell
<1>6. RingType'
  <2>1. \A c \in Cell : buf'[c] \in Byte \cup {Junk}
    BY <1>4, <1>5 DEF RingType
  <2>2. buf' \in [Cell -> Byte \cup {Junk}]
    BY <2>1 DEF Put
  <2>3. QED
    BY <1>1, <1>3, <2>2 DEF Put, RingType
<1>7. ASSUME NEW i \in Cell
      PROVE  /\ At(prx, i) \in Cell
             /\ i < pnc \/ i >= pnc + n => buf'[At(prx, i)] = buf[At(prx, i)]
             /\ i >= pnc /\ i < pnc + n => /\ buf'[At(prx, i)] = bytes[i - pnc + 1]
                                          /\ i - pnc + 1 \in 1..n
  <2>1. At(prx, i) \in Cell
    BY DEF RingType, At, Cell
  <2>2. ASSUME i < pnc \/ i >= pnc + n
        PROVE  At(prx, i) \notin pwx..(pwx + n - 1)
    BY <1>1, <2>2 DEF RingType, RingInv, At, Cell
  <2>3. ASSUME i >= pnc, i < pnc + n
        PROVE  At(prx, i) = pwx + (i - pnc)
    BY <1>1, <2>3 DEF RingType, RingInv, At, Cell
  <2>4. ASSUME i >= pnc, i < pnc + n
        PROVE  At(prx, i) \in pwx..(pwx + n - 1) /\ At(prx, i) - pwx + 1 = i - pnc + 1
    BY <1>1, <2>3, <2>4 DEF RingType, Cell
  <2>5. QED
    BY <1>5, <2>1, <2>2, <2>4
<1>8. RingInv'
  <2>1. pnc' = pnc + n /\ prx' = prx /\ pnc' # 0
    BY <1>1 DEF Put, RingType
  <2>2. ASSUME NEW i \in Cell
        PROVE  /\ i >= pnc' => buf'[At(prx', i)] = Junk
               /\ ~Resizing /\ i < pnc' => buf'[At(prx', i)] # Junk
    <3>1. CASE i < pnc
      <4>1. ~ (i >= pnc')
        BY <1>1, <2>1, <3>1 DEF RingType, Cell
      <4>2. ~Resizing => buf[At(prx, i)] # Junk
        BY <3>1 DEF RingInv
      <4>3. QED
        BY <1>7, <2>1, <3>1, <4>1, <4>2
    <3>2. CASE i >= pnc + n
      <4>1. ~ (i < pnc') /\ i >= pnc
        BY <1>1, <2>1, <3>2 DEF RingType, Cell
      <4>2. buf[At(prx, i)] = Junk
        BY <4>1 DEF RingInv
      <4>3. QED
        BY <1>7, <2>1, <3>2, <4>1, <4>2
    <3>3. CASE i >= pnc /\ i < pnc + n
      <4>1. buf'[At(prx, i)] # Junk
        BY <1>4, <1>7, <3>3
      <4>2. QED
        BY <2>1, <3>3, <4>1 DEF RingType, Cell
    <3>4. QED
      BY <1>1, <3>1, <3>2, <3>3 DEF RingType, Cell
  <2>3. QED
    BY <1>3, <2>1, <2>2 DEF RingInv
<1>9. Content' = Content \o SubSeq(bytes, 1, n)
  <2>1. Content' = [i \in 1..(pnc + n) |-> buf'[At(prx, i - 1)]]
    <3>1. Content' = [i \in 1..pnc' |-> buf'[At(prx', i - 1)]]
      BY <1>6, ContentIs DEF Content, RingType
    <3>2. QED
      BY <3>1 DEF Put
  <2>2. Content = [i \in 1..pnc |-> buf[At(prx, i - 1)]]
    BY ContentAt
  <2>3. SubSeq(bytes, 1, n) = [i \in 1..n |-> bytes[i]]
    BY <1>1
  <2>4. Content \in Seq(Byte \cup {Junk}) /\ Len(Content) = pnc
    <3>1. \A i \in 1..pnc : i - 1 \in Cell /\ At(prx, i - 1) \in Cell
      BY DEF RingType, At, Cell
    <3>2. Content \in [1..pnc -> Byte \cup {Junk}] /\ pnc \in Nat
      BY <2>2, <3>1 DEF RingType
    <3>3. QED
      BY <3>2
  <2>5. Content \o SubSeq(bytes, 1, n)
          = [i \in 1..(pnc + n) |-> IF i <= pnc THEN Content[i] ELSE bytes[i - pnc]]
    <3>1. SubSeq(bytes, 1, n) \in Seq(Byte) /\ Len(SubSeq(bytes, 1, n)) = n
      BY <1>1
    <3>2. \A i \in 1..(pnc + n) : i > pnc => SubSeq(bytes, 1, n)[i - pnc] = bytes[i - pnc]
      BY <1>1, <2>3 DEF RingType
    <3>3. QED
      BY <2>4, <3>1, <3>2, SMTT(60) DEF RingType
  <2>6. ASSUME NEW i \in 1..(pnc + n)
        PROVE  buf'[At(prx, i - 1)] = IF i <= pnc THEN Content[i] ELSE bytes[i - pnc]
    <3>1. i - 1 \in Cell
      BY <1>1 DEF RingType, Cell
    <3>2. CASE i <= pnc
      <4>1. i - 1 < pnc /\ i \in 1..pnc
        BY <3>2 DEF RingType
      <4>2. QED
        BY <1>7, <2>2, <3>1, <3>2, <4>1
    <3>3. CASE i > pnc
      <4>1. i - 1 >= pnc /\ i - 1 < pnc + n /\ i - 1 - pnc + 1 = i - pnc
        BY <1>1, <3>3 DEF RingType
      <4>2. ~ (i <= pnc)
        BY <3>3 DEF RingType
      <4>3. QED
        BY <1>7, <3>1, <4>1, <4>2
    <3>4. QED
      BY <3>2, <3>3 DEF RingType
  <2>7. QED
    BY <2>1, <2>5, <2>6
<1>10. QED
  BY <1>6, <1>8, <1>9

(* chsize() of the pipe: what remains, then cells of no meaning. *)
Resized(size) ==
  /\ pnc' = size /\ prx' = prx
  /\ pwx' = (pwx + size - pnc) % PIPSIZE
  /\ buf' = [c \in Cell |-> IF (c - prx) % PIPSIZE < size THEN buf[c] ELSE Junk]

LEMMA ChsizeRing ==
  ASSUME RingType, RingInv, NEW size \in 0..PIPSIZE, Resizing, Resized(size)
  PROVE  /\ RingType' /\ RingInv'
         /\ Content' = [i \in 1..size |-> IF i <= Len(Content) THEN Content[i] ELSE Junk]
<1>1. pwx' = At(prx, size)
  <2>1. PICK s \in Int : s = pwx + size - pnc
    BY DEF RingType, Cell
  <2>2. \/ s \in 0..(PIPSIZE - 1) /\ s = At(prx, size)
        \/ s \in PIPSIZE..(2 * PIPSIZE - 1) /\ s - PIPSIZE = At(prx, size)
        \/ s \in (-PIPSIZE)..(-1) /\ s + PIPSIZE = At(prx, size)
    BY <2>1 DEF RingType, RingInv, At, Cell
  <2>3. s % PIPSIZE = At(prx, size)
    BY <2>2, ModSmall, ModAbove, ModBelow
  <2>4. QED
    BY <2>1, <2>3 DEF Resized
<1>2. ASSUME NEW i \in Cell
      PROVE  /\ At(prx, i) \in Cell
             /\ buf'[At(prx, i)] = IF i < size THEN buf[At(prx, i)] ELSE Junk
  <2>1. PICK s \in Int : s = At(prx, i) - prx
    BY DEF RingType, At, Cell
  <2>2. \/ s \in 0..(PIPSIZE - 1) /\ s = i
        \/ s \in (-PIPSIZE)..(-1) /\ s + PIPSIZE = i
    BY <2>1 DEF RingType, At, Cell
  <2>3. s % PIPSIZE = i
    BY <2>2, ModSmall, ModBelow
  <2>4. At(prx, i) \in Cell
    BY DEF RingType, At, Cell
  <2>5. QED
    BY <2>1, <2>3, <2>4 DEF Resized
<1>3. RingType'
  <2>1. pwx' \in Cell
    BY <1>1 DEF RingType, At, Cell
  <2>2. buf' \in [Cell -> Byte \cup {Junk}]
    BY DEF Resized, RingType
  <2>3. QED
    BY <2>1, <2>2 DEF Resized, RingType
<1>4. RingInv'
  <2>1. pnc' = size /\ prx' = prx
    BY DEF Resized
  <2>2. ASSUME NEW i \in Cell, i >= size PROVE buf'[At(prx, i)] = Junk
    <3>1. ~ (i < size)
      BY <2>2 DEF Cell
    <3>2. QED
      BY <1>2, <3>1
  <2>3. QED
    BY <1>1, <2>1, <2>2 DEF RingInv
<1>5. Content' = [i \in 1..size |-> IF i <= Len(Content) THEN Content[i] ELSE Junk]
  <2>1. Content' = [i \in 1..size |-> buf'[At(prx, i - 1)]]
    BY <1>3, ContentIs DEF Content, RingType, Resized
  <2>2. Content = [i \in 1..pnc |-> buf[At(prx, i - 1)]]
    BY ContentAt
  <2>3. Len(Content) = pnc
    BY DEF Content, RingType
  <2>4. ASSUME NEW i \in 1..size
        PROVE  buf'[At(prx, i - 1)] = IF i <= pnc THEN Content[i] ELSE Junk
    <3>1. i - 1 \in Cell /\ i - 1 < size
      BY DEF Cell
    <3>2. buf'[At(prx, i - 1)] = buf[At(prx, i - 1)]
      BY <1>2, <3>1
    <3>3. CASE i <= pnc
      BY <2>2, <3>2, <3>3 DEF RingType
    <3>4. CASE ~ (i <= pnc)
      <4>1. i - 1 >= pnc
        BY <3>4 DEF RingType
      <4>2. QED
        BY <3>1, <3>2, <3>4, <4>1 DEF RingInv
    <3>5. QED
      BY <3>3, <3>4
  <2>5. QED
    BY <2>1, <2>3, <2>4
<1>6. QED
  BY <1>3, <1>4, <1>5

LEMMA ClearRing ==
  ASSUME Clear
  PROVE  RingType' /\ RingInv' /\ Content' = <<>>
<1>1. pnc' = 0 /\ prx' = 0 /\ pwx' = 0 /\ buf' = [c \in Cell |-> Junk]
  BY DEF Clear
<1>2. RingType'
  BY <1>1 DEF RingType, Cell
<1>3. RingInv'
  BY <1>1 DEF RingInv, At, Cell
<1>4. Content' = <<>>
  BY <1>1 DEF Content
<1>5. QED
  BY <1>2, <1>3, <1>4
-----------------------------------------------------------------------------
(* Every step leaves the state well typed.  Others: all but the ring. *)
Others ==
  /\ par \in Int /\ paw \in Int /\ psr \in Int /\ psw \in Int
  /\ inode \in Proc \cup {NoProc}
  /\ fd \in [Proc -> File \cup {NoFile}]
  /\ mode \in [File -> {"none", "r", "w", "rw"}]
  /\ call \in [Proc -> GoodCall]
  /\ deferred \subseteq {"psr", "psw", "iev", "oev"}
  /\ panicked \in BOOLEAN

LEMMA TypedIs == Typed <=> RingType /\ Others
BY DEF Typed, RingType, Others

LEMMA WakeType ==
  ASSUME NEW n, NEW readers
  PROVE  /\ WakeReaders(n) \subseteq {"psr", "psw", "iev", "oev"}
         /\ WakeWriters(n, readers) \subseteq {"psr", "psw", "iev", "oev"}
BY DEF WakeReaders, WakeWriters, Deferred

LEMMA CountType == ASSUME NEW b PROVE Count(b) \in {0, 1}
BY DEF Count

LEMMA ReturnType ==
  ASSUME Others, NEW p \in Proc, Return(p)
  PROVE  call' \in [Proc -> GoodCall] /\ inode' \in Proc \cup {NoProc}
BY NoCallGood DEF Others, Return

LEMMA PSleepOthers ==
  ASSUME Others, NEW p \in Proc, PSleep(p), call[p].op \in {"open", "read", "write"}
  PROVE  Others'
<1>1. call' \in [Proc -> GoodCall]
  <2>1. call[p] \in GoodCall
    BY DEF Others
  <2>2. [call[p] EXCEPT !.st = "eintr"] \in GoodCall /\ [call[p] EXCEPT !.st = "asleep"] \in GoodCall
    BY <2>1, StateGood DEF States
  <2>3. \/ call' = [call EXCEPT ![p] = [call[p] EXCEPT !.st = "eintr"]]
        \/ call' = [call EXCEPT ![p] = [call[p] EXCEPT !.st = "asleep"]]
    BY DEF PSleep
  <2>4. QED
    BY <2>2, <2>3 DEF Others
<1>2. par' \in Int /\ paw' \in Int /\ psr' \in Int /\ psw' \in Int
  BY DEF PSleep, Others, counters
<1>3. inode' \in Proc \cup {NoProc} /\ UNCHANGED <<fd, mode, deferred, panicked>>
  BY DEF PSleep, files
<1>4. QED
  BY <1>1, <1>2, <1>3 DEF Others

LEMMA FailOpenOthers ==
  ASSUME Others, NEW p \in Proc, FailOpen(p)
  PROVE  Others'
<1>1. call' \in [Proc -> GoodCall] /\ inode' \in Proc \cup {NoProc}
  BY ReturnType DEF FailOpen
<1>2. par' \in Int /\ paw' \in Int /\ UNCHANGED <<psr, psw, deferred, panicked>>
  BY CountType DEF FailOpen, Others
<1>3. fd' \in [Proc -> File \cup {NoFile}] /\ mode' \in [File -> {"none", "r", "w", "rw"}]
  BY DEF FailOpen, Others
<1>4. QED
  BY <1>1, <1>2, <1>3 DEF Others

LEMMA StartOpenOthers ==
  ASSUME Others, NEW p \in Proc, NEW f \in File, NEW m \in Modes[p], StartOpen(p, f, m)
  PROVE  Others'
<1>1. m \in {"r", "w", "rw"}
  BY PipeAssumption
<1>2. par' \in Int /\ paw' \in Int /\ UNCHANGED <<psr, psw, panicked>>
  BY CountType DEF StartOpen, Others
<1>3. fd' \in [Proc -> File \cup {NoFile}] /\ mode' \in [File -> {"none", "r", "w", "rw"}]
  BY <1>1 DEF StartOpen, Others
<1>4. deferred' \subseteq {"psr", "psw", "iev", "oev"}
  BY WakeType DEF StartOpen, Others
<1>5. call' \in [Proc -> GoodCall] /\ inode' \in Proc \cup {NoProc}
  BY OpenGood DEF StartOpen, Others
<1>6. QED
  BY <1>2, <1>3, <1>4, <1>5 DEF Others

(* The routines of pipe.c. *)
LEMMA RoutineOthers ==
  ASSUME Typed, NEW p \in Proc, Step(p)
  PROVE  Others'
<1>0. Others /\ RingType
  BY TypedIs
<1>1. CASE OpenRead(p)
  <2>1. CASE PSleep(p)
    BY <1>0, <1>1, <2>1, PSleepOthers DEF OpenRead, Opening
  <2>2. CASE ~PSleep(p)
    <3>1. Return(p) /\ deferred' = deferred \cup WakeWriters(pnc, Readers)
            /\ UNCHANGED <<counters, files, panicked>>
      BY <1>1, <2>2 DEF OpenRead
    <3>2. deferred' \subseteq {"psr", "psw", "iev", "oev"}
      BY <1>0, <3>1, WakeType DEF Others
    <3>3. QED
      BY <1>0, <3>1, <3>2, ReturnType DEF Others, counters, files
  <2>3. QED
    BY <2>1, <2>2
<1>2. CASE OpenWrite(p)
  <2>1. CASE PSleep(p)
    BY <1>0, <1>2, <2>1, PSleepOthers DEF OpenWrite, Opening
  <2>2. CASE FailOpen(p)
    BY <1>0, <2>2, FailOpenOthers
  <2>3. CASE ~PSleep(p) /\ ~FailOpen(p)
    <3>1. Return(p) /\ deferred' = deferred \cup WakeReaders(pnc)
            /\ UNCHANGED <<counters, files, panicked>>
      BY <1>2, <2>3 DEF OpenWrite
    <3>2. deferred' \subseteq {"psr", "psw", "iev", "oev"}
      BY <1>0, <3>1, WakeType DEF Others
    <3>3. QED
      BY <1>0, <3>1, <3>2, ReturnType DEF Others, counters, files
  <2>4. QED
    BY <2>1, <2>2, <2>3
<1>3. CASE ReadEmpty(p)
  <2>1. CASE PSleep(p)
    BY <1>0, <1>3, <2>1, PSleepOthers DEF ReadEmpty, Going
  <2>2. CASE Return(p) /\ UNCHANGED <<ring, counters, files, deferred, panicked>>
    BY <1>0, <2>2, ReturnType DEF Others, counters, files
  <2>3. QED
    BY <1>3, <2>1, <2>2 DEF ReadEmpty
<1>4. CASE ReadChunk(p)
  <2> DEFINE n == ReadSize(p)
  <2>1. call[p] \in GoodCall /\ call[p].op = "read" /\ call[p].want \in Nat
    BY <1>0, <1>4 DEF Others, ReadChunk, Going, GoodCall
  <2>2. n \in Nat /\ n <= call[p].want
    <3>1. PIPSIZE - prx \in Nat /\ pnc \in Nat
      BY <1>0 DEF RingType, Cell
    <3>2. QED
      BY <2>1, <3>1, LeastOf DEF ReadSize
  <2>3. \/ Return(p)
        \/ /\ n # call[p].want /\ inode' = p
           /\ call' = [call EXCEPT ![p] = [call[p] EXCEPT !.want = call[p].want - n]]
    BY <1>4 DEF ReadChunk, ReadSize
  <2> HIDE DEF n
  <2>4. call' \in [Proc -> GoodCall] /\ inode' \in Proc \cup {NoProc}
    <3>1. n # call[p].want => [call[p] EXCEPT !.want = call[p].want - n] \in GoodCall
      BY <2>1, <2>2, WantGood
    <3>2. QED
      BY <1>0, <2>3, <3>1, ReturnType DEF Others
  <2>5. deferred' \subseteq {"psr", "psw", "iev", "oev"}
    BY <1>0, <1>4, WakeType DEF Others, ReadChunk
  <2>6. QED
    BY <1>0, <1>4, <2>4, <2>5 DEF Others, ReadChunk, counters, files
<1>5. CASE WriteBroken(p)
  BY <1>0, <1>5, ReturnType DEF WriteBroken, Others, counters, files
<1>6. CASE WriteBlocked(p)
  <2>1. CASE PSleep(p)
    BY <1>0, <1>6, <2>1, PSleepOthers DEF WriteBlocked, Going
  <2>2. CASE Return(p) /\ UNCHANGED <<ring, counters, files, deferred, panicked>>
    BY <1>0, <2>2, ReturnType DEF Others, counters, files
  <2>3. QED
    BY <1>6, <2>1, <2>2 DEF WriteBlocked
<1>7. CASE WriteChunk(p)
  <2> DEFINE n == Room(p)
             todo == call[p].todo
  <2>1. call[p] \in GoodCall /\ call[p].op = "write" /\ todo \in Seq(Byte)
    BY <1>0, <1>7 DEF Others, WriteChunk, Going, GoodCall
  <2>2. n \in Nat /\ n <= Len(todo)
    <3>1. PIPSIZE - pwx \in Nat /\ PIPSIZE - pnc \in Nat /\ Len(todo) \in Nat
      BY <1>0, <2>1 DEF RingType, Cell
    <3>2. QED
      BY <3>1, LeastOf DEF Room
  <2>3. \/ Return(p)
        \/ /\ n # Len(todo) /\ inode' = p
           /\ call' = [call EXCEPT ![p] =
                         [call[p] EXCEPT !.todo = SubSeq(call[p].todo, n + 1, Len(call[p].todo))]]
    BY <1>7 DEF WriteChunk
  <2> HIDE DEF n
  <2>4. call' \in [Proc -> GoodCall] /\ inode' \in Proc \cup {NoProc}
    <3>1. n # Len(todo) =>
            [call[p] EXCEPT !.todo = SubSeq(call[p].todo, n + 1, Len(call[p].todo))] \in GoodCall
      <4>1. n # Len(todo) => n < Len(call[p].todo)
        BY <2>1, <2>2
      <4>2. QED
        BY <2>1, <2>2, <4>1, TodoGood
    <3>2. QED
      BY <1>0, <2>3, <3>1, ReturnType DEF Others
  <2>5. deferred' \subseteq {"psr", "psw", "iev", "oev"}
    BY <1>0, <1>7, WakeType DEF Others, WriteChunk
  <2>6. QED
    BY <1>0, <1>7, <2>4, <2>5 DEF Others, WriteChunk, counters, files
<1>8. CASE Abort(p)
  <2>1. CASE FailOpen(p)
    BY <1>0, <2>1, FailOpenOthers
  <2>2. CASE Return(p) /\ UNCHANGED <<ring, counters, files, deferred, panicked>>
    BY <1>0, <2>2, ReturnType DEF Others, counters, files
  <2>3. QED
    BY <1>8, <2>1, <2>2 DEF Abort
<1>9. QED
  BY <1>1, <1>2, <1>3, <1>4, <1>5, <1>6, <1>7, <1>8 DEF Step
LEMMA StateOthers ==
  ASSUME Others, NEW p \in Proc, NEW s \in {"asleep", "woken", "signalled", "again", "eintr"},
         call[p].op # "none", call[p].op = "poll" => s \in {"asleep", "woken", "signalled"},
         call' = [call EXCEPT ![p].st = s]
  PROVE  call' \in [Proc -> GoodCall]
<1>1. call[p] \in GoodCall
  BY DEF Others
<1>2. [call[p] EXCEPT !.st = s] \in GoodCall
  BY <1>1, StateGood DEF States
<1>3. QED
  BY <1>2 DEF Others

LEMMA BackOthers ==
  ASSUME Others, NEW p \in Proc, Back(p)
  PROVE  Others'
<1>1. call[p].op \notin {"none", "poll"}
  BY DEF Back, Resume, InPSleep, Others, GoodCall, NoCall
<1>2. \/ call' = [call EXCEPT ![p].st = "again"]
      \/ call' = [call EXCEPT ![p].st = "eintr"]
  BY DEF Back, Resume
<1>3. call' \in [Proc -> GoodCall]
  BY <1>1, <1>2, StateOthers
<1>4. par' \in Int /\ paw' \in Int /\ psr' \in Int /\ psw' \in Int
  BY DEF Back, Others
<1>5. QED
  BY <1>3, <1>4 DEF Back, Resume, Others, files

LEMMA TransferOthers ==
  ASSUME Others, NEW p \in Proc, Transfer(p)
  PROVE  Others'
<1>1. CASE \E n \in ReadSizes : StartRead(p, n)
  <2>1. PICK n \in ReadSizes : StartRead(p, n)
    BY <1>1
  <2>2. call' \in [Proc -> GoodCall]
    BY <2>1, ReadGood DEF StartRead, Others
  <2>3. QED
    BY <2>1, <2>2 DEF StartRead, Others, counters, files
<1>2. CASE \E n \in WriteSizes : StartWrite(p, n)
  <2>1. PICK n \in WriteSizes : StartWrite(p, n)
    BY <1>2
  <2>2. Call("write", 0, [i \in 1..n |-> <<p, i>>]) \in GoodCall
    BY WriteGood
  <2>3. call' = [call EXCEPT ![p] = Call("write", 0, [i \in 1..n |-> <<p, i>>])]
    BY <2>1 DEF StartWrite
  <2>4. call' \in [Proc -> GoodCall]
    BY <2>2, <2>3 DEF Others
  <2>5. QED
    BY <2>1, <2>4 DEF StartWrite, Others, counters, files
<1>3. QED
  BY <1>1, <1>2 DEF Transfer

LEMMA CloseOthers ==
  ASSUME Others, NEW p \in Proc, Close(p)
  PROVE  Others'
<1>1. fd' \in [Proc -> File \cup {NoFile}] /\ UNCHANGED <<inode, call>>
  BY DEF Close, Others
<1>2. CASE \E q \in Proc \ {p} : fd[q] = fd[p]
  BY <1>1, <1>2 DEF Close, Others, counters
<1>3. CASE ~ \E q \in Proc \ {p} : fd[q] = fd[p]
  <2>1. /\ mode' = [mode EXCEPT ![fd[p]] = "none"]
        /\ deferred' = deferred \cup WakeReaders(pnc) \cup WakeWriters(pnc, Readers)
        /\ par' = par - Count(Reads(Mode(p)))
        /\ paw' = paw - Count(Writes(Mode(p)))
        /\ panicked' = (par' < 0 \/ paw' < 0)
        /\ UNCHANGED <<psr, psw>>
    BY <1>3 DEF Close
  <2>2. par' \in Int /\ paw' \in Int
    BY <2>1, CountType DEF Others
  <2>3. deferred' \subseteq {"psr", "psw", "iev", "oev"}
    BY <2>1, WakeType DEF Others
  <2>4. QED
    BY <1>1, <2>1, <2>2, <2>3 DEF Others
<1>4. QED
  BY <1>2, <1>3

LEMMA ForkOthers ==
  ASSUME Others, NEW p \in Proc, NEW q \in Proc, Fork(p, q)
  PROVE  Others'
BY DEF Fork, Others, counters

LEMMA ChsizeOthers ==
  ASSUME Others, NEW p \in Proc, NEW n \in 0..PIPSIZE, Chsize(p, n)
  PROVE  Others'
<1>1. deferred' \subseteq {"psr", "psw", "iev", "oev"}
  <2>1. deferred' = deferred \cup (IF n > 0 THEN WakeReaders(n) ELSE {})
                          \cup (IF n < PIPSIZE THEN WakeWriters(n, Readers) ELSE {})
    BY DEF Chsize
  <2>2. QED
    BY <2>1, WakeType DEF Others
<1>2. QED
  BY <1>1 DEF Chsize, Others, counters, files

LEMMA SignalOthers ==
  ASSUME Others, NEW p \in Proc, Signal(p) \/ PollTimeout(p)
  PROVE  Others'
<1>1. call[p].op # "none"
  BY DEF Signal, PollTimeout, Others, GoodCall, NoCall
<1>2. \/ call' = [call EXCEPT ![p].st = "signalled"]
      \/ call' = [call EXCEPT ![p].st = "woken"]
  BY DEF Signal, PollTimeout
<1>3. call' \in [Proc -> GoodCall]
  BY <1>1, <1>2, StateOthers
<1>4. QED
  BY <1>3 DEF Signal, PollTimeout, Others, counters, files

(* Defend and DPollWake. *)
LEMMA WokenOthers ==
  ASSUME Others, NEW S, S \subseteq {p \in Proc : call[p].st = "asleep"},
         call' = [p \in Proc |-> IF p \in S THEN [call[p] EXCEPT !.st = "woken"] ELSE call[p]]
  PROVE  call' \in [Proc -> GoodCall]
<1>1. ASSUME NEW p \in S PROVE [call[p] EXCEPT !.st = "woken"] \in GoodCall
  <2>1. call[p] \in GoodCall /\ call[p].op # "none"
    BY DEF Others, GoodCall, NoCall
  <2>2. QED
    BY <2>1, StateGood DEF States
<1>2. QED
  BY <1>1 DEF Others

LEMMA DefendIs ==
  ASSUME NEW c, Defend(c)
  PROVE  LET S == {p \in Proc : Asleep(p) /\ AsReader(p) = (c = "psw")}
         IN  call' = [p \in Proc |-> IF p \in S THEN [call[p] EXCEPT !.st = "woken"] ELSE call[p]]
BY DEF Defend

LEMMA DPollWakeIs ==
  ASSUME NEW q, DPollWake(q)
  PROVE  LET S == {p \in Proc : call[p].st = "asleep" /\ q \in call[p].on}
         IN  call' = [p \in Proc |-> IF p \in S THEN [call[p] EXCEPT !.st = "woken"] ELSE call[p]]
BY DEF DPollWake

LEMMA WakeOthers ==
  ASSUME Others, NEW c, Defend(c) \/ DPollWake(c)
  PROVE  Others'
<1>1. call' \in [Proc -> GoodCall]
  <2>1. CASE Defend(c)
    <3> DEFINE S == {p \in Proc : Asleep(p) /\ AsReader(p) = (c = "psw")}
    <3>1. S \subseteq {p \in Proc : call[p].st = "asleep"}
      BY DEF Asleep
    <3>2. call' = [p \in Proc |-> IF p \in S THEN [call[p] EXCEPT !.st = "woken"] ELSE call[p]]
      BY <2>1, DefendIs
    <3> HIDE DEF S
    <3>3. QED
      BY <3>1, <3>2, WokenOthers
  <2>2. CASE DPollWake(c)
    <3> DEFINE S == {p \in Proc : call[p].st = "asleep" /\ c \in call[p].on}
    <3>1. S \subseteq {p \in Proc : call[p].st = "asleep"}
      OBVIOUS
    <3>2. call' = [p \in Proc |-> IF p \in S THEN [call[p] EXCEPT !.st = "woken"] ELSE call[p]]
      BY <2>2, DPollWakeIs
    <3> HIDE DEF S
    <3>3. QED
      BY <3>1, <3>2, WokenOthers
  <2>3. QED
    BY <2>1, <2>2
<1>2. deferred' = deferred \ {c} /\ UNCHANGED <<counters, inode, files, panicked>>
  BY DEF Defend, DPollWake
<1>3. QED
  BY <1>1, <1>2 DEF Others, counters, files

LEMMA PollOthers ==
  ASSUME Others, NEW p \in Proc,
         PollAgain(p) \/ \E on \in (SUBSET {"iev", "oev"}) \ {{}} : Poll(p, on)
  PROVE  Others'
<1>1. \/ call' = [call EXCEPT ![p] = NoCall]
      \/ \E on \in (SUBSET {"iev", "oev"}) \ {{}} : call' = [call EXCEPT ![p] = Polls(on)]
  <2>1. CASE PollAgain(p)
    <3>1. call[p].on \in (SUBSET {"iev", "oev"}) \ {{}}
      BY <2>1 DEF PollAgain, Others, GoodCall
    <3>2. QED
      BY <2>1, <3>1 DEF PollAgain, PollSleep
  <2>2. QED
    BY <2>1 DEF Poll, PollSleep
<1>2. call' \in [Proc -> GoodCall]
  BY <1>1, NoCallGood, PollGood DEF Others
<1>3. UNCHANGED <<counters, inode, files, deferred, panicked>>
  BY DEF PollAgain, Poll
<1>4. QED
  BY <1>2, <1>3 DEF Others, counters, files

LEMMA OthersStep ==
  ASSUME Typed, [Next]_vars
  PROVE  Others'
<1>0. Others
  BY TypedIs
<1>1. CASE UNCHANGED vars
  BY <1>0, <1>1 DEF Others, vars, counters, files
<1>2. ASSUME NEW p \in Proc, Step(p) \/ Back(p) \/ Transfer(p) \/ Close(p) \/ Signal(p)
      PROVE  Others'
  BY <1>0, <1>2, RoutineOthers, BackOthers, TransferOthers, CloseOthers, SignalOthers
<1>3. ASSUME NEW p \in Proc, NEW f \in File, NEW m \in Modes[p], StartOpen(p, f, m)
      PROVE  Others'
  BY <1>0, <1>3, StartOpenOthers
<1>4. ASSUME NEW p \in Proc, NEW q \in Proc, Fork(p, q) PROVE Others'
  BY <1>0, <1>4, ForkOthers
<1>5. ASSUME NEW p \in Proc, NEW n \in 0..PIPSIZE, Chsize(p, n) PROVE Others'
  BY <1>0, <1>5, ChsizeOthers
<1>6. ASSUME NEW c, Defend(c) \/ DPollWake(c) PROVE Others'
  BY <1>0, <1>6, WakeOthers
<1>7. ASSUME NEW p \in Proc, NEW on \in (SUBSET {"iev", "oev"}) \ {{}}, Poll(p, on)
      PROVE  Others'
  BY <1>0, <1>7, PollOthers
<1>8. ASSUME NEW p \in Proc, PollAgain(p) \/ PollTimeout(p) PROVE Others'
  BY <1>0, <1>8, PollOthers, SignalOthers
<1>9. QED
  BY <1>1, <1>2, <1>3, <1>4, <1>5, <1>6, <1>7, <1>8 DEF Next
-----------------------------------------------------------------------------
(* Every step does to the ring what the FIFO allows. *)
Todo == [p \in Proc |-> call[p].todo]
FifoNext == [Promise!Next]_<<Content, Todo>>

LEMMA SameRing ==
  ASSUME RingType, RingInv, UNCHANGED ring
  PROVE  RingType' /\ RingInv' /\ Content' = Content
BY DEF RingType, RingInv, Content, ring

LEMMA CallTodo ==
  ASSUME Others, NEW p \in Proc, NEW c, call' = [call EXCEPT ![p] = c]
  PROVE  Todo' = [Todo EXCEPT ![p] = c.todo]
BY DEF Others, Todo

LEMMA ReturnTodo ==
  ASSUME Others, NEW p \in Proc, Return(p)
  PROVE  Todo' = [Todo EXCEPT ![p] = <<>>]
<1>1. Todo' = [Todo EXCEPT ![p] = NoCall.todo]
  BY CallTodo DEF Return
<1>2. NoCall.todo = <<>>
  BY DEF NoCall
<1>3. QED
  BY <1>1, <1>2

LEMMA StateTodo ==
  ASSUME Others, NEW p \in Proc, NEW s, call' = [call EXCEPT ![p].st = s]
  PROVE  Todo' = Todo
BY DEF Others, Todo, GoodCall

LEMMA PSleepTodo ==
  ASSUME Others, NEW p \in Proc, PSleep(p)
  PROVE  Todo' = Todo
BY StateTodo DEF PSleep

LEMMA NoTodo ==
  ASSUME Others, NEW p \in Proc, call[p].op # "write"
  PROVE  call[p].todo = <<>> /\ Todo[p] = <<>>
BY DEF Others, GoodCall, Todo

(* The steps that leave the ring alone. *)
LEMMA QuietStep ==
  ASSUME Typed, UNCHANGED ring, NEW p \in Proc,
         Return(p) \/ PSleep(p) \/ Todo' = Todo
  PROVE  FifoNext
<1>1. Content' = Content
  BY DEF Content, ring
<1>2. CASE Return(p)
  BY <1>1, <1>2, ReturnTodo, TypedIs DEF Promise!GiveUp, Promise!Next, FifoNext, Todo
<1>3. CASE PSleep(p) \/ Todo' = Todo
  BY <1>1, <1>3, PSleepTodo, TypedIs DEF FifoNext
<1>4. QED
  BY <1>2, <1>3

LEMMA ReadStep ==
  ASSUME Typed, RingInv, NEW p \in Proc, ReadChunk(p)
  PROVE  RingType' /\ RingInv' /\ FifoNext
<1> DEFINE n == ReadSize(p)
<1>0. Others /\ RingType
  BY TypedIs
<1>1. /\ call[p].op = "read" /\ pnc > 0 /\ Take(n)
      /\ Return(p) \/ call' = [call EXCEPT ![p].want = @ - n]
  BY DEF ReadChunk, ReadSize, Going
<1>2. n \in 1..pnc /\ prx + n <= PIPSIZE
  <2>1. call[p].want \in Nat /\ call[p].want > 0
    BY <1>0, <1>1 DEF Others, GoodCall
  <2>2. PIPSIZE - prx \in Nat /\ PIPSIZE - prx > 0 /\ pnc \in Nat /\ prx \in Nat
    BY <1>0 DEF RingType, Cell
  <2>3. n \in {PIPSIZE - prx, call[p].want, pnc} /\ n <= PIPSIZE - prx /\ n <= pnc
    BY <2>1, <2>2, LeastOf DEF ReadSize
  <2> HIDE DEF n
  <2>4. QED
    BY <1>1, <2>1, <2>2, <2>3
<1>3. Todo' = Todo
  <2>1. CASE Return(p)
    BY <1>0, <1>1, <2>1, ReturnTodo, NoTodo DEF Todo
  <2>2. CASE call' = [call EXCEPT ![p].want = @ - n]
    BY <1>0, <2>2 DEF Others, Todo, GoodCall
  <2>3. QED
    BY <1>1, <2>1, <2>2
<1> HIDE DEF n
<1>4. RingType' /\ RingInv' /\ Content' = SubSeq(Content, n + 1, pnc)
  BY <1>0, <1>1, <1>2, TakeRing
<1>5. Len(Content) = pnc /\ n \in 1..PIPSIZE
  BY <1>0, <1>2 DEF Content, RingType
<1>6. Promise!Get(n)
  BY <1>2, <1>3, <1>4, <1>5 DEF Promise!Get, Todo
<1>7. QED
  BY <1>4, <1>5, <1>6 DEF Promise!Next, FifoNext

LEMMA WriteStep ==
  ASSUME Typed, RingInv, NEW p \in Proc, WriteChunk(p)
  PROVE  RingType' /\ RingInv' /\ FifoNext
<1> DEFINE n == Room(p)
           todo == call[p].todo
<1>0. Others /\ RingType
  BY TypedIs
<1>1. /\ call[p].op = "write" /\ ~Blocked(p) /\ Put(n, todo)
      /\ \/ n = Len(todo) /\ Return(p)
         \/ call' = [call EXCEPT ![p].todo = SubSeq(@, n + 1, Len(@))]
  BY DEF WriteChunk, Going, Put
<1>2. /\ todo \in Seq(Byte) /\ n \in 1..Len(todo)
      /\ pwx + n <= PIPSIZE /\ pnc + n <= PIPSIZE
      /\ Len(todo) <= PIPSIZE => n = Len(todo)
  <2>1. todo \in Seq(Byte) /\ Len(todo) \in Nat
    BY <1>0, <1>1 DEF Others, GoodCall
  <2>2. PIPSIZE - pwx \in Nat /\ PIPSIZE - pnc \in Nat /\ pnc \in Nat /\ pwx \in Nat
    BY <1>0 DEF RingType, Cell
  <2>3. n \in Nat /\ n <= PIPSIZE - pwx /\ n <= Len(todo) /\ n <= PIPSIZE - pnc
    BY <2>1, <2>2, LeastOf DEF Room
  <2>4. n # 0 /\ (Len(todo) <= PIPSIZE => n = Len(todo))
    BY <1>1 DEF Blocked
  <2> HIDE DEF n, todo
  <2>5. QED
    BY <2>1, <2>2, <2>3, <2>4
<1>3. Todo' = [Todo EXCEPT ![p] = SubSeq(todo, n + 1, Len(todo))]
  <2>1. CASE n = Len(todo) /\ Return(p)
    <3>1. SubSeq(todo, n + 1, Len(todo)) = <<>>
      BY <1>2, <2>1
    <3>2. QED
      BY <1>0, <2>1, <3>1, ReturnTodo
  <2>2. CASE call' = [call EXCEPT ![p].todo = SubSeq(@, n + 1, Len(@))]
    BY <1>0, <2>2 DEF Others, Todo, GoodCall
  <2>3. QED
    BY <1>1, <2>1, <2>2
<1>4. Todo[p] = todo
  BY DEF Todo
<1> HIDE DEF n, todo
<1>5. RingType' /\ RingInv' /\ Content' = Content \o SubSeq(todo, 1, n)
  BY <1>0, <1>1, <1>2, PutRing
<1>6. Len(Content) = pnc /\ n \in 1..PIPSIZE /\ pnc \in Nat
  BY <1>0, <1>2 DEF Content, RingType, Cell
<1>7. PICK m \in 1..PIPSIZE : m = n
  BY <1>6
<1>8. Promise!Put(p, m)
  BY <1>2, <1>3, <1>4, <1>5, <1>6, <1>7 DEF Promise!Put, Todo
<1>9. Promise!Next
  BY <1>7, <1>8 DEF Promise!Next
<1>10. QED
  BY <1>5, <1>9 DEF FifoNext

LEMMA TransferStep ==
  ASSUME Typed, NEW p \in Proc, Transfer(p)
  PROVE  UNCHANGED ring /\ FifoNext
<1>0. Others
  BY TypedIs
<1>1. call[p] = NoCall /\ UNCHANGED ring
  BY DEF Transfer, StartRead, StartWrite
<1>2. Todo[p] = <<>> /\ Content' = Content
  BY <1>1 DEF Todo, NoCall, Content, ring
<1>3. CASE \E n \in ReadSizes : StartRead(p, n)
  <2>1. PICK n \in ReadSizes : call' = [call EXCEPT ![p] = Call("read", n, <<>>)]
    BY <1>3 DEF StartRead
  <2>2. Todo' = Todo
    BY <1>0, <1>2, <2>1, CallTodo DEF Call, Todo
  <2>3. QED
    BY <1>1, <1>2, <2>2 DEF FifoNext
<1>4. CASE \E n \in WriteSizes : StartWrite(p, n)
  <2>1. PICK n \in WriteSizes :
          call' = [call EXCEPT ![p] = Call("write", 0, [i \in 1..n |-> <<p, i>>])]
    BY <1>4 DEF StartWrite
  <2>2. n \in 1..(2 * PIPSIZE)
    BY PipeAssumption
  <2>3. Todo' = [Todo EXCEPT ![p] = Promise!Message(p, n)]
    BY <1>0, <2>1, CallTodo DEF Call, Promise!Message
  <2>4. Promise!Begin(p, Promise!Message(p, n))
    BY <1>2, <2>3 DEF Promise!Begin, Todo
  <2>5. QED
    BY <1>1, <2>2, <2>4 DEF Promise!Next, FifoNext
<1>5. QED
  BY <1>3, <1>4 DEF Transfer

LEMMA CloseStep ==
  ASSUME Typed, RingInv, NEW p \in Proc, Close(p)
  PROVE  RingType' /\ RingInv' /\ FifoNext
<1>0. RingType /\ Todo' = Todo
  BY TypedIs DEF Close, Todo
<1>1. CASE Clear
  <2>1. RingType' /\ RingInv' /\ Content' = <<>>
    BY <1>1, ClearRing
  <2>2. QED
    BY <1>0, <2>1 DEF Promise!Clear, Promise!Next, FifoNext, Todo
<1>2. CASE UNCHANGED ring
  BY <1>0, <1>2, SameRing DEF FifoNext
<1>3. QED
  BY <1>1, <1>2 DEF Close

LEMMA ChsizeStep ==
  ASSUME Typed, RingInv, NEW p \in Proc, NEW n \in 0..PIPSIZE, Chsize(p, n)
  PROVE  RingType' /\ RingInv' /\ FifoNext
<1>0. RingType /\ Todo' = Todo /\ Resizing /\ Resized(n)
  BY TypedIs DEF Chsize, Todo, Resized
<1>1. /\ RingType' /\ RingInv'
      /\ Content' = [i \in 1..n |-> IF i <= Len(Content) THEN Content[i] ELSE Junk]
  BY <1>0, ChsizeRing
<1>2. Promise!Resize(n)
  BY <1>0, <1>1 DEF Promise!Resize, Todo
<1>3. QED
  BY <1>1, <1>2 DEF Promise!Next, FifoNext

(* Signals, wakeups and polls. *)
LEMMA WokenTodo ==
  ASSUME Others, NEW S,
         call' = [p \in Proc |-> IF p \in S THEN [call[p] EXCEPT !.st = "woken"] ELSE call[p]]
  PROVE  Todo' = Todo
BY DEF Others, Todo, GoodCall

LEMMA WakeTodo ==
  ASSUME Others, NEW c, Defend(c) \/ DPollWake(c)
  PROVE  Todo' = Todo
<1>1. CASE Defend(c)
  <2> DEFINE S == {p \in Proc : Asleep(p) /\ AsReader(p) = (c = "psw")}
  <2>1. call' = [p \in Proc |-> IF p \in S THEN [call[p] EXCEPT !.st = "woken"] ELSE call[p]]
    BY <1>1, DefendIs
  <2> HIDE DEF S
  <2>2. QED
    BY <2>1, WokenTodo
<1>2. CASE DPollWake(c)
  <2> DEFINE S == {p \in Proc : call[p].st = "asleep" /\ c \in call[p].on}
  <2>1. call' = [p \in Proc |-> IF p \in S THEN [call[p] EXCEPT !.st = "woken"] ELSE call[p]]
    BY <1>2, DPollWakeIs
  <2> HIDE DEF S
  <2>2. QED
    BY <2>1, WokenTodo
<1>3. QED
  BY <1>1, <1>2

LEMMA PollTodo ==
  ASSUME Others, NEW p \in Proc,
         PollAgain(p) \/ \E on \in (SUBSET {"iev", "oev"}) \ {{}} : Poll(p, on)
  PROVE  Todo' = Todo
<1>1. call[p].op # "write"
  BY DEF PollAgain, Poll, NoCall
<1>2. \E c : call' = [call EXCEPT ![p] = c] /\ c.todo = <<>>
  BY DEF PollAgain, Poll, PollSleep, NoCall, Polls
<1>3. QED
  BY <1>1, <1>2, CallTodo, NoTodo DEF Todo

(* The routines of pipe.c. *)
LEMMA RoutineStep ==
  ASSUME Typed, RingInv, NEW p \in Proc, Step(p)
  PROVE  RingType' /\ RingInv' /\ FifoNext
<1>0. RingType /\ Others
  BY TypedIs
<1>1. CASE ReadChunk(p)
  BY <1>1, ReadStep
<1>2. CASE WriteChunk(p)
  BY <1>2, WriteStep
<1>3. CASE UNCHANGED ring /\ (Return(p) \/ PSleep(p))
  BY <1>0, <1>3, SameRing, QuietStep
<1>4. CASE OpenRead(p) \/ OpenWrite(p) \/ ReadEmpty(p) \/ WriteBroken(p)
             \/ WriteBlocked(p) \/ Abort(p)
  <2>1. UNCHANGED ring /\ (Return(p) \/ PSleep(p))
    BY <1>4 DEF OpenRead, OpenWrite, ReadEmpty, WriteBroken, WriteBlocked, Abort,
                FailOpen, PSleep
  <2>2. QED
    BY <1>3, <2>1
<1>5. QED
  BY <1>1, <1>2, <1>4 DEF Step

(* What happens around the pipe. *)
LEMMA QuietActions ==
  ASSUME Typed, NEW p \in Proc,
         \/ Back(p) \/ Signal(p) \/ PollAgain(p) \/ PollTimeout(p)
         \/ \E f \in File, m \in Modes[p] : StartOpen(p, f, m)
         \/ \E q \in Proc : Fork(p, q)
         \/ \E c : Defend(c) \/ DPollWake(c)
         \/ \E on \in (SUBSET {"iev", "oev"}) \ {{}} : Poll(p, on)
  PROVE  UNCHANGED ring /\ Todo' = Todo
<1>0. Others
  BY TypedIs
<1>1. CASE Back(p) \/ Signal(p) \/ PollTimeout(p)
  <2>1. UNCHANGED ring
    BY <1>1 DEF Back, Resume, Signal, PollTimeout
  <2>2. \E s : call' = [call EXCEPT ![p].st = s]
    BY <1>1 DEF Back, Resume, Signal, PollTimeout
  <2>3. QED
    BY <1>0, <2>1, <2>2, StateTodo
<1>2. CASE PollAgain(p) \/ \E on \in (SUBSET {"iev", "oev"}) \ {{}} : Poll(p, on)
  <2>1. UNCHANGED ring
    BY <1>2 DEF PollAgain, Poll
  <2>2. QED
    BY <1>0, <1>2, <2>1, PollTodo
<1>3. CASE \E c : Defend(c) \/ DPollWake(c)
  <2>1. UNCHANGED ring
    BY <1>3 DEF Defend, DPollWake
  <2>2. QED
    BY <1>0, <1>3, <2>1, WakeTodo
<1>4. CASE \E f \in File, m \in Modes[p] : StartOpen(p, f, m)
  <2>1. PICK f \in File, m \in Modes[p] : StartOpen(p, f, m)
    BY <1>4
  <2>2. UNCHANGED ring /\ call[p] = NoCall
    BY <2>1 DEF StartOpen
  <2>3. CASE m = "rw"
    BY <2>1, <2>2, <2>3 DEF StartOpen, Todo
  <2>4. CASE m # "rw"
    <3>1. call' = [call EXCEPT ![p] = Call("open", 0, <<>>)]
      BY <2>1, <2>4 DEF StartOpen
    <3>2. Todo' = [Todo EXCEPT ![p] = Call("open", 0, <<>>).todo]
      BY <1>0, <3>1, CallTodo
    <3>3. Todo[p] = <<>> /\ Call("open", 0, <<>>).todo = <<>>
      BY <2>2 DEF NoCall, Call, Todo
    <3>4. QED
      BY <2>2, <3>2, <3>3 DEF Todo
  <2>5. QED
    BY <2>3, <2>4
<1>5. CASE \E q \in Proc : Fork(p, q)
  BY <1>5 DEF Fork, Todo
<1>6. QED
  BY <1>1, <1>2, <1>3, <1>4, <1>5

LEMMA RingStep ==
  ASSUME Typed, RingInv, [Next]_vars
  PROVE  RingType' /\ RingInv' /\ FifoNext
<1>0. RingType
  BY TypedIs
<1>1. ASSUME UNCHANGED ring, Todo' = Todo PROVE RingType' /\ RingInv' /\ FifoNext
  BY <1>0, <1>1, SameRing DEF FifoNext
<1>2. CASE UNCHANGED vars
  BY <1>1, <1>2 DEF vars, Todo
<1>3. ASSUME NEW p \in Proc, Step(p) PROVE RingType' /\ RingInv' /\ FifoNext
  BY <1>3, RoutineStep
<1>4. ASSUME NEW p \in Proc, Transfer(p) PROVE RingType' /\ RingInv' /\ FifoNext
  BY <1>0, <1>4, TransferStep, SameRing
<1>5. ASSUME NEW p \in Proc, Close(p) PROVE RingType' /\ RingInv' /\ FifoNext
  BY <1>5, CloseStep
<1>6. ASSUME NEW p \in Proc, NEW n \in 0..PIPSIZE, Chsize(p, n)
      PROVE  RingType' /\ RingInv' /\ FifoNext
  BY <1>6, ChsizeStep
<1>7. ASSUME NEW p \in Proc,
             \/ Back(p) \/ Signal(p) \/ PollAgain(p) \/ PollTimeout(p)
             \/ \E f \in File, m \in Modes[p] : StartOpen(p, f, m)
             \/ \E q \in Proc : Fork(p, q)
             \/ \E on \in (SUBSET {"iev", "oev"}) \ {{}} : Poll(p, on)
      PROVE  RingType' /\ RingInv' /\ FifoNext
  BY <1>1, <1>7, QuietActions
<1>8. ASSUME NEW c, Defend(c) \/ DPollWake(c)
      PROVE  RingType' /\ RingInv' /\ FifoNext
  <2>1. UNCHANGED ring
    BY <1>8 DEF Defend, DPollWake
  <2>2. Todo' = Todo
    BY <1>8, TypedIs, WakeTodo
  <2>3. QED
    BY <1>1, <2>1, <2>2
<1>9. QED
  BY <1>2, <1>3, <1>4, <1>5, <1>6, <1>7, <1>8 DEF Next

-----------------------------------------------------------------------------
LEMMA InitTyped == Init => Typed /\ RingInv
<1> SUFFICES ASSUME Init PROVE Typed /\ RingInv
  OBVIOUS
<1>1. RingType
  BY DEF Init, RingType, Cell
<1>2. Others
  <2>1. call \in [Proc -> GoodCall] /\ fd \in [Proc -> File \cup {NoFile}]
    BY NoCallGood DEF Init
  <2>2. mode \in [File -> {"none", "r", "w", "rw"}]
    BY DEF Init
  <2>3. deferred \subseteq {"psr", "psw", "iev", "oev"} /\ inode \in Proc \cup {NoProc}
    BY DEF Init
  <2>4. par \in Int /\ paw \in Int /\ psr \in Int /\ psw \in Int
    BY DEF Init
  <2>5. panicked \in BOOLEAN
    BY Zenon DEF Init
  <2>6. QED
    BY <2>1, <2>2, <2>3, <2>4, <2>5 DEF Others
<1>3. RingInv
  BY DEF Init, RingInv, At, Cell
<1>4. QED
  BY <1>1, <1>2, <1>3, TypedIs

LEMMA NextTyped ==
  ASSUME Typed, RingInv, [Next]_vars
  PROVE  Typed' /\ RingInv'
<1>1. RingType' /\ RingInv' /\ Others'
  BY RingStep, OthersStep
<1>2. Typed'
  BY <1>1 DEF Typed, RingType, Others
<1>3. QED
  BY <1>1, <1>2

LEMMA RingInvariant == Spec => [](Typed /\ RingInv)
<1>1. Typed /\ RingInv /\ [Next]_vars => (Typed /\ RingInv)'
  BY NextTyped
<1>2. QED
  BY <1>1, InitTyped, PTL DEF Spec

(* The ring is never torn: pread() and pwrite() agree on where the unread bytes
   are, whoever sleeps, is interrupted or closes, and none is overwritten or
   read as what the block held before. *)
THEOREM RingKept == Spec => []RingOK
<1>1. Typed /\ RingInv => RingOK
  BY RingIsRingOK, TypedIs
<1>2. QED
  BY <1>1, RingInvariant, PTL

(* The pipe is a FIFO of bytes: what pread() takes is what pwrite() put in, in
   that order, each byte once, and a write of up to PIPSIZE bytes goes in as one
   piece or not at all. *)
THEOREM PipeIsFifo == Spec => ImplementsFifo
<1>1. Init => Promise!Init
  BY DEF Init, Promise!Init, Content, NoCall
<1>2. Typed /\ RingInv /\ [Next]_vars => [Promise!Next]_<<Content, [p \in Proc |-> call[p].todo]>>
  BY RingStep DEF FifoNext, Todo
<1>3. QED
  BY <1>1, <1>2, RingInvariant, PTL DEF Spec, ImplementsFifo, Promise!Spec
=============================================================================
