-------------------------- MODULE RecordLockProofs --------------------------
(***************************************************************************)
(* Theorems about record locks.                                            *)
(***************************************************************************)
EXTENDS RecordLock, FiniteSetTheorems, WellFoundedInduction, TLAPS

(* What a lock on the list of a file is. *)
GoodRl == {e \in RLOCK : e.start <= e.end /\ e.end # EOF - 1}

LEMMA Names ==
  /\ IsFiniteSet(Proc) /\ IsFiniteSet(Inode) /\ EOF \in Nat \ {0} /\ RLOCKS \in Nat
  /\ NoRl \notin [ino : Inode, rl : RLOCK]
BY RecordLockAssumption

LEMMA RequestIs ==
  ASSUME NEW p \in Proc, NEW r \in Requests(p)
  PROVE  r \in GoodRl /\ r.proc = p
<1>1. PICK a \in Asked[p] : r = [proc |-> p, type |-> a.type, start |-> a.start, end |-> a.end]
  BY DEF Requests
<1>2. /\ a \in [type : Types, start : 0..(EOF - 1), end : (0..EOF) \ {EOF - 1}]
      /\ a.start <= a.end
  BY RecordLockAssumption
<1>3. QED
  BY <1>1, <1>2 DEF GoodRl, RLOCK

-----------------------------------------------------------------------------
(* Least and greatest numbers, and induction. *)

LEMMA LeastNumber ==
  ASSUME NEW T, T \subseteq Nat, T # {}
  PROVE  \E x \in T : \A y \in T : x <= y
<1> DEFINE R == {ss \in Nat \X Nat : ss[1] < ss[2]}
<1>1. IsWellFoundedOn(R, Nat)
  BY NatLessThanWellFounded DEF OpToRel
<1>2. \A x, y \in Nat : y < x => <<y, x>> \in R
  OBVIOUS
<1> HIDE DEF R
<1>3. PICK x \in T : \A y \in T : ~ (<<y, x>> \in R)
  BY <1>1, WFMin
<1>4. \A y \in T : ~ (y < x)
  BY <1>2, <1>3
<1>5. QED
  BY <1>4

LEMMA Induction ==
  ASSUME NEW S, 0 \in S, \A n \in Nat : n \in S => n + 1 \in S
  PROVE  Nat \subseteq S
<1> SUFFICES ASSUME Nat \ S # {} PROVE FALSE
  OBVIOUS
<1>1. PICK x \in Nat \ S : \A y \in Nat \ S : x <= y
  BY LeastNumber
<1>2. x - 1 \in Nat /\ x - 1 \in S
  BY <1>1
<1>3. (x - 1) + 1 \in S
  BY <1>2
<1>4. QED
  BY <1>1, <1>3

LEMMA MinIs ==
  ASSUME NEW T, T \subseteq Nat, T # {}
  PROVE  Min(T) \in T /\ \A y \in T : Min(T) <= y
BY LeastNumber DEF Min

LEMMA MaxIs ==
  ASSUME NEW n \in Nat, NEW T, T \subseteq 0..n, T # {}
  PROVE  Max(T) \in T /\ \A y \in T : Max(T) >= y
<1> DEFINE D == {n - x : x \in T}
<1>1. D \subseteq Nat /\ D # {}
  <2>1. \A x \in T : n - x \in Nat
    OBVIOUS
  <2>2. QED
    BY <2>1
<1>2. PICK d \in D : \A e \in D : d <= e
  BY <1>1, LeastNumber
<1>3. PICK x \in T : d = n - x
  BY <1>2
<1>4. \A y \in T : x >= y
  <2> TAKE y \in T
  <2>1. n - x <= n - y
    BY <1>2, <1>3
  <2>2. QED
    BY <2>1
<1>5. QED
  BY <1>4 DEF Max

-----------------------------------------------------------------------------
(* The loops over a list: what FoldLeft() computes.  A step of the loop of
   remlock(), or of the one of addlock(), as w says. *)

RemStep(r, s, e) ==
  LET rest == Extract(e, r) IN
  IF ~s.ok \/ e.proc # r.proc \/ ~Meets(e, r)
  THEN [s EXCEPT !.q = Append(@, e)]
  ELSE IF Len(rest) > s.free + 1
  THEN [s EXCEPT !.q = Append(@, e), !.ok = FALSE]
  ELSE [q |-> s.q \o rest, free |-> s.free + 1 - Len(rest), ok |-> TRUE]

Wide(r) == [r EXCEPT !.start = IF @ = 0 THEN @ ELSE @ - 1,
                     !.end = IF @ = EOF THEN @ ELSE @ + 1]
Joins(r, e) == e.proc = r.proc /\ e.type = r.type /\ Meets(e, Wide(r))
KeepStep(r, s, e) == IF Joins(r, e) THEN s ELSE Append(s, e)

Step(w, s, e) == IF w.rem THEN RemStep(w.r, s, e) ELSE KeepStep(w.r, s, e)

(* The recursion of the fold over the sets of positions of list q. *)
Folds(w, base, q, f) ==
  f = [s \in SUBSET DOMAIN q |->
         IF s = {} THEN base ELSE Step(w, f[s \ {Max(s)}], q[Max(s)])]

LEMMA MaxOf ==
  ASSUME NEW m \in Nat, NEW s, s \subseteq 1..(m + 1), m + 1 \in s
  PROVE  Max(s) = m + 1 /\ s \ {Max(s)} \in SUBSET (1..m)
<1>1. s \subseteq 0..(m + 1) /\ s # {} /\ m + 1 \in Nat
  OBVIOUS
<1>2. Max(s) \in s /\ \A y \in s : Max(s) >= y
  BY <1>1, MaxIs
<1>3. Max(s) = m + 1
  <2>1. Max(s) >= m + 1 /\ Max(s) \in 1..(m + 1)
    BY <1>2
  <2>2. QED
    BY <2>1
<1>4. QED
  BY <1>3

LEMMA FoldExists ==
  ASSUME NEW w, NEW base, NEW q, NEW n \in Nat, DOMAIN q = 1..n
  PROVE  \E f : Folds(w, base, q, f)
<1> DEFINE Good(m, f) == f = [s \in SUBSET (1..m) |->
                                IF s = {} THEN base ELSE Step(w, f[s \ {Max(s)}], q[Max(s)])]
           S == {m \in Nat : \E f : Good(m, f)}
<1>1. 0 \in S
  <2>1. Good(0, [s \in SUBSET (1..0) |-> base])
    OBVIOUS
  <2>2. QED
    BY <2>1
<1>2. ASSUME NEW m \in Nat, m \in S PROVE m + 1 \in S
  <2>1. PICK f : Good(m, f)
    BY <1>2
  <2> DEFINE g == [s \in SUBSET (1..(m + 1)) |->
                     IF m + 1 \in s THEN Step(w, f[s \ {m + 1}], q[m + 1]) ELSE f[s]]
  <2>2. ASSUME NEW s \in SUBSET (1..(m + 1))
        PROVE  g[s] = IF s = {} THEN base ELSE Step(w, g[s \ {Max(s)}], q[Max(s)])
    <3>1. CASE m + 1 \in s
      <4>1. Max(s) = m + 1 /\ s \ {m + 1} \in SUBSET (1..m)
        BY <3>1, MaxOf
      <4>2. s \ {m + 1} \in SUBSET (1..(m + 1)) /\ m + 1 \notin s \ {m + 1}
        OBVIOUS
      <4>3. g[s \ {m + 1}] = f[s \ {m + 1}]
        BY <4>2
      <4>4. g[s] = Step(w, f[s \ {m + 1}], q[m + 1])
        BY <3>1
      <4> HIDE DEF g
      <4>5. QED
        BY <3>1, <4>1, <4>3, <4>4
    <3>2. CASE m + 1 \notin s
      <4>1. s \in SUBSET (1..m) /\ s \ {Max(s)} \in SUBSET (1..m)
        <5>1. \A i \in s : i \in 1..m
          BY <3>2
        <5>2. QED
          BY <5>1
      <4>2. f[s] = IF s = {} THEN base ELSE Step(w, f[s \ {Max(s)}], q[Max(s)])
        BY <2>1, <4>1
      <4>3. g[s] = f[s]
        BY <3>2
      <4>4. g[s \ {Max(s)}] = f[s \ {Max(s)}]
        BY <3>2, <4>1
      <4> HIDE DEF g
      <4>5. QED
        BY <4>2, <4>3, <4>4
    <3>3. QED
      BY <3>1, <3>2
  <2>3. Good(m + 1, g)
    BY <2>2
  <2> HIDE DEF Good, g
  <2>4. \E f1 : Good(m + 1, f1)
    BY <2>3
  <2>5. QED
    BY <2>4
<1>3. n \in S
  <2> HIDE DEF S
  <2>1. QED
    BY <1>1, <1>2, Induction
<1>4. QED
  BY <1>3 DEF Folds

(* The states of the loop, after each number of turns, and the last. *)
Turns(w, base, q, n, last, t) ==
  /\ t[0] = base /\ t[n] = last
  /\ \A k \in 1..n : t[k] = Step(w, t[k - 1], q[k])

LEMMA FoldTrace ==
  ASSUME NEW w, NEW base, NEW q, NEW n \in Nat, DOMAIN q = 1..n, NEW f, Folds(w, base, q, f)
  PROVE  \E t : Turns(w, base, q, n, f[DOMAIN q], t)
<1> DEFINE t == [k \in 0..n |-> f[1..k]]
<1>1. t[0] = base
  <2>1. f[{}] = base
    BY DEF Folds
  <2>2. 1..0 = {} /\ 0 \in 0..n
    OBVIOUS
  <2>3. QED
    BY <2>1, <2>2
<1>2. t[n] = f[DOMAIN q]
  OBVIOUS
<1>3. ASSUME NEW k \in 1..n PROVE t[k] = Step(w, t[k - 1], q[k])
  <2>1. k - 1 \in Nat /\ k = (k - 1) + 1 /\ k - 1 \in 0..n /\ k \in 0..n
    OBVIOUS
  <2>2. Max(1..k) = k
    <3>1. k \in 1..k /\ 1..k \in SUBSET (1..k)
      OBVIOUS
    <3>2. QED
      BY <2>1, <3>1, MaxOf
  <2>3. 1..k \in SUBSET (1..n) /\ 1..k # {} /\ (1..k) \ {k} = 1..(k - 1)
    OBVIOUS
  <2>4. f[1..k] = Step(w, f[1..(k - 1)], q[k])
    BY <2>2, <2>3 DEF Folds
  <2>5. QED
    BY <2>1, <2>4
<1> HIDE DEF t
<1>4. Turns(w, base, q, n, f[DOMAIN q], t)
  BY <1>1, <1>2, <1>3 DEF Turns
<1>5. QED
  BY <1>4

-----------------------------------------------------------------------------
(* Lists of locks. *)

LEMMA RangeAppend ==
  ASSUME NEW S, NEW q \in Seq(S), NEW e \in S
  PROVE  /\ Append(q, e) \in Seq(S) /\ Len(Append(q, e)) = Len(q) + 1
         /\ Range(Append(q, e)) = Range(q) \cup {e}
<1>1. /\ Append(q, e) \in Seq(S) /\ Len(Append(q, e)) = Len(q) + 1
      /\ \A i \in 1..Len(q) : Append(q, e)[i] = q[i]
      /\ Append(q, e)[Len(q) + 1] = e
  OBVIOUS
<1>2. DOMAIN q = 1..Len(q) /\ DOMAIN Append(q, e) = 1..(Len(q) + 1) /\ Len(q) \in Nat
  BY <1>1
<1>3. QED
  BY <1>1, <1>2 DEF Range

LEMMA RangeJoin ==
  ASSUME NEW S, NEW q \in Seq(S), NEW r \in Seq(S)
  PROVE  /\ q \o r \in Seq(S) /\ Len(q \o r) = Len(q) + Len(r)
         /\ Range(q \o r) = Range(q) \cup Range(r)
<1>1. /\ q \o r \in Seq(S) /\ Len(q \o r) = Len(q) + Len(r)
      /\ \A i \in 1..Len(q) : (q \o r)[i] = q[i]
      /\ \A i \in 1..Len(r) : (q \o r)[Len(q) + i] = r[i]
  OBVIOUS
<1>2. /\ DOMAIN q = 1..Len(q) /\ DOMAIN r = 1..Len(r) /\ DOMAIN (q \o r) = 1..(Len(q) + Len(r))
      /\ Len(q) \in Nat /\ Len(r) \in Nat
  BY <1>1
<1>3. ASSUME NEW i \in 1..(Len(q) + Len(r)) PROVE (q \o r)[i] \in Range(q) \cup Range(r)
  <2>1. CASE i <= Len(q)
    BY <1>1, <1>2, <2>1 DEF Range
  <2>2. CASE i > Len(q)
    <3>1. i - Len(q) \in 1..Len(r) /\ Len(q) + (i - Len(q)) = i
      BY <1>2, <2>2
    <3>2. QED
      BY <1>1, <1>2, <3>1 DEF Range
  <2>3. QED
    BY <1>2, <2>1, <2>2
<1>4. \A i \in 1..Len(q) : i \in 1..(Len(q) + Len(r))
  BY <1>2
<1>5. \A i \in 1..Len(r) : Len(q) + i \in 1..(Len(q) + Len(r))
  BY <1>2
<1>6. Range(q \o r) \subseteq Range(q) \cup Range(r)
  BY <1>2, <1>3 DEF Range
<1>7. Range(q) \subseteq Range(q \o r)
  BY <1>1, <1>2, <1>4 DEF Range
<1>8. Range(r) \subseteq Range(q \o r)
  <2>1. ASSUME NEW i \in 1..Len(r) PROVE r[i] \in Range(q \o r)
    BY <1>1, <1>2, <1>5 DEF Range
  <2>2. QED
    BY <1>2, <2>1 DEF Range
<1>9. QED
  BY <1>1, <1>6, <1>7, <1>8

LEMMA RangeOne ==
  /\ \A S : \A e \in S : <<e>> \in Seq(S)
  /\ \A e : Len(<<e>>) = 1 /\ Range(<<e>>) = {e}
  /\ \A S : <<>> \in Seq(S)
  /\ Len(<<>>) = 0 /\ Range(<<>>) = {}
<1>1. \A e : DOMAIN <<e>> = {1} /\ <<e>>[1] = e /\ Len(<<e>>) = 1
  OBVIOUS
<1>2. \A e : Range(<<e>>) = {e}
  BY <1>1 DEF Range
<1>3. DOMAIN <<>> = {} /\ Len(<<>>) = 0
  OBVIOUS
<1>4. Range(<<>>) = {}
  BY <1>3 DEF Range
<1>5. QED
  BY <1>1, <1>2, <1>3, <1>4

(* The lock e is on a byte. *)
Covers(e, b) == e.start <= b /\ b <= e.end

(* A part of the lock d. *)
Part(e, d) == e.proc = d.proc /\ e.type = d.type /\ d.start <= e.start /\ e.end <= d.end

LEMMA PieceBefore ==
  ASSUME NEW d \in GoodRl, NEW z \in 0..EOF, d.start <= z, z # EOF - 1,
         NEW e, e = [d EXCEPT !.end = z]
  PROVE  e \in GoodRl /\ e.proc = d.proc /\ e.type = d.type /\ e.start = d.start /\ e.end = z
BY DEF GoodRl, RLOCK

LEMMA PieceAfter ==
  ASSUME NEW d \in GoodRl, NEW a \in 0..(EOF - 1), a <= d.end,
         NEW e, e = [d EXCEPT !.start = a]
  PROVE  e \in GoodRl /\ e.proc = d.proc /\ e.type = d.type /\ e.start = a /\ e.end = d.end
BY DEF GoodRl, RLOCK

(* extract(): what is left of a lock is outside the range taken out of it. *)
LEMMA ExtractIs ==
  ASSUME NEW d \in GoodRl, NEW r \in GoodRl, Meets(d, r), NEW x, x = Extract(d, r)
  PROVE  /\ x \in Seq(GoodRl) /\ Len(x) \in 0..2
         /\ \A e \in Range(x) : Part(e, d) /\ ~Meets(e, r)
         /\ \A b \in Nat : Covers(d, b) /\ ~Covers(r, b) => \E e \in Range(x) : Covers(e, b)
<1>1. /\ d.start \in 0..(EOF - 1) /\ r.start \in 0..(EOF - 1) /\ d.end \in 0..EOF /\ r.end \in 0..EOF
      /\ d.start <= d.end /\ r.start <= r.end /\ d.end # EOF - 1 /\ r.end # EOF - 1 /\ EOF \in Nat \ {0}
  BY Names DEF GoodRl, RLOCK
<1>2. d.start <= r.end /\ r.start <= d.end
  BY DEF Meets
<1> DEFINE e1 == [d EXCEPT !.end = r.start - 1]
           e2 == [d EXCEPT !.start = r.end + 1]
           x1 == IF d.start < r.start THEN <<e1>> ELSE <<>>
           x2 == IF r.end < d.end THEN <<e2>> ELSE <<>>
<1>3. d.start < r.start =>
        /\ e1 \in GoodRl /\ e1.proc = d.proc /\ e1.type = d.type
        /\ e1.start = d.start /\ e1.end = r.start - 1
  <2>1. SUFFICES ASSUME d.start < r.start
                 PROVE  /\ e1 \in GoodRl /\ e1.proc = d.proc /\ e1.type = d.type
                        /\ e1.start = d.start /\ e1.end = r.start - 1
    OBVIOUS
  <2>2. r.start - 1 \in 0..EOF /\ d.start <= r.start - 1 /\ r.start - 1 # EOF - 1
    BY <1>1, <2>1
  <2>3. QED
    BY <2>2, PieceBefore
<1>4. r.end < d.end =>
        /\ e2 \in GoodRl /\ e2.proc = d.proc /\ e2.type = d.type
        /\ e2.start = r.end + 1 /\ e2.end = d.end
  <2>1. SUFFICES ASSUME r.end < d.end
                 PROVE  /\ e2 \in GoodRl /\ e2.proc = d.proc /\ e2.type = d.type
                        /\ e2.start = r.end + 1 /\ e2.end = d.end
    OBVIOUS
  <2>2. r.end + 1 \in 0..(EOF - 1) /\ r.end + 1 <= d.end
    BY <1>1, <2>1
  <2>3. QED
    BY <2>2, PieceAfter
<1>5. x = x1 \o x2
  BY DEF Extract
<1> HIDE DEF e1, e2
<1>6. /\ x1 \in Seq(GoodRl) /\ x2 \in Seq(GoodRl) /\ Len(x1) \in 0..1 /\ Len(x2) \in 0..1
      /\ Range(x1) = (IF d.start < r.start THEN {e1} ELSE {})
      /\ Range(x2) = (IF r.end < d.end THEN {e2} ELSE {})
  <2>1. x1 \in Seq(GoodRl) /\ Len(x1) \in 0..1 /\ Range(x1) = IF d.start < r.start THEN {e1} ELSE {}
    <3>1. CASE d.start < r.start
      <4>1. x1 = <<e1>> /\ e1 \in GoodRl
        BY <1>3, <3>1
      <4> HIDE DEF x1
      <4>2. QED
        BY <3>1, <4>1, RangeOne
    <3>2. CASE ~(d.start < r.start)
      <4>1. x1 = <<>>
        BY <3>2
      <4> HIDE DEF x1
      <4>2. QED
        BY <3>2, <4>1, RangeOne
    <3>3. QED
      BY <3>1, <3>2
  <2>2. x2 \in Seq(GoodRl) /\ Len(x2) \in 0..1 /\ Range(x2) = IF r.end < d.end THEN {e2} ELSE {}
    <3>1. CASE r.end < d.end
      <4>1. x2 = <<e2>> /\ e2 \in GoodRl
        BY <1>4, <3>1
      <4> HIDE DEF x2
      <4>2. QED
        BY <3>1, <4>1, RangeOne
    <3>2. CASE ~(r.end < d.end)
      <4>1. x2 = <<>>
        BY <3>2
      <4> HIDE DEF x2
      <4>2. QED
        BY <3>2, <4>1, RangeOne
    <3>3. QED
      BY <3>1, <3>2
  <2>3. QED
    BY <2>1, <2>2
<1> HIDE DEF x1, x2
<1>7. /\ x \in Seq(GoodRl) /\ Len(x) = Len(x1) + Len(x2)
      /\ Range(x) = Range(x1) \cup Range(x2)
  BY <1>5, <1>6, RangeJoin
<1>8. Len(x) \in 0..2
  <2>1. \A m, n \in 0..1 : m + n \in 0..2
    OBVIOUS
  <2>2. QED
    BY <1>6, <1>7, <2>1
<1>9. ASSUME NEW e \in Range(x) PROVE Part(e, d) /\ ~Meets(e, r)
  <2>1. CASE e = e1 /\ d.start < r.start
    BY <1>1, <1>2, <1>3, <2>1 DEF Part, Meets
  <2>2. CASE e = e2 /\ r.end < d.end
    BY <1>1, <1>2, <1>4, <2>2 DEF Part, Meets
  <2>3. QED
    BY <1>6, <1>7, <1>9, <2>1, <2>2
<1>10. ASSUME NEW b \in Nat, Covers(d, b), ~Covers(r, b) PROVE \E e \in Range(x) : Covers(e, b)
  <2>1. CASE b < r.start
    <3>1. e1 \in Range(x) /\ e1.start = d.start /\ e1.end = r.start - 1
      BY <1>1, <1>3, <1>6, <1>7, <1>10, <2>1 DEF Covers
    <3>2. Covers(e1, b)
      BY <1>1, <1>10, <2>1, <3>1 DEF Covers
    <3>3. QED
      BY <3>1, <3>2
  <2>2. CASE b > r.end
    <3>1. e2 \in Range(x) /\ e2.start = r.end + 1 /\ e2.end = d.end
      BY <1>1, <1>4, <1>6, <1>7, <1>10, <2>2 DEF Covers
    <3>2. Covers(e2, b)
      BY <1>1, <1>10, <2>2, <3>1 DEF Covers
    <3>3. QED
      BY <3>1, <3>2
  <2>3. QED
    BY <1>1, <1>10, <2>1, <2>2 DEF Covers
<1>11. QED
  BY <1>7, <1>8, <1>9, <1>10

(* remlock() after k turns of its loop over list l: other processes' locks
   are all there, of the caller's own the parts outside r, and no others
   unless the structures have run out. *)
RemState == [q : Seq(GoodRl), free : Nat, ok : BOOLEAN]
RemInv(l, r, free, k, s) ==
  /\ s \in RemState
  /\ s.free + Len(s.q) = free + k
  /\ \A e \in Range(s.q) : \E j \in 1..k : Part(e, l[j]) /\ (e.proc # r.proc => e = l[j])
  /\ \A j \in 1..k : l[j].proc # r.proc => l[j] \in Range(s.q)
  /\ \A j \in 1..k, b \in Nat : Covers(l[j], b) /\ ~Covers(r, b) =>
       \E e \in Range(s.q) : e.proc = l[j].proc /\ e.type = l[j].type /\ Covers(e, b)
  /\ s.ok => \A e \in Range(s.q) : e.proc = r.proc => ~Meets(e, r)
  /\ ~s.ok => s.free = 0

(* The turn for lock d leaves x of it. *)
Turn(r, free, k, s, d, x, t) ==
  /\ t \in RemState /\ t.q \in Seq(GoodRl) /\ Range(t.q) = Range(s.q) \cup Range(x)
  /\ t.free + Len(t.q) = free + (k + 1)
  /\ \A e \in Range(x) : Part(e, d) /\ (e.proc # r.proc => e = d)
  /\ d.proc # r.proc => d \in Range(x)
  /\ \A b \in Nat : Covers(d, b) /\ ~Covers(r, b) => \E e \in Range(x) : Covers(e, b)
  /\ t.ok => s.ok /\ \A e \in Range(x) : e.proc = r.proc => ~Meets(e, r)
  /\ ~t.ok => t.free = 0

LEMMA RemTurn ==
  ASSUME NEW l, NEW r \in GoodRl, NEW free \in Nat, NEW k \in Nat, NEW s, RemInv(l, r, free, k, s),
         NEW d \in GoodRl, d = l[k + 1], NEW x, NEW t, Turn(r, free, k, s, d, x, t)
  PROVE  RemInv(l, r, free, k + 1, t)
<1> USE DEF Turn
<1>1. \A j \in 1..(k + 1) : j \in 1..k \/ j = k + 1
  OBVIOUS
<1>2. \A j \in 1..k : j \in 1..(k + 1)
  OBVIOUS
<1>3. k + 1 \in 1..(k + 1)
  OBVIOUS
<1>4. \A e \in Range(t.q) : \E j \in 1..(k + 1) : Part(e, l[j]) /\ (e.proc # r.proc => e = l[j])
  <2>1. ASSUME NEW e \in Range(s.q)
        PROVE  \E j \in 1..(k + 1) : Part(e, l[j]) /\ (e.proc # r.proc => e = l[j])
    BY <1>2 DEF RemInv
  <2>2. ASSUME NEW e \in Range(x)
        PROVE  \E j \in 1..(k + 1) : Part(e, l[j]) /\ (e.proc # r.proc => e = l[j])
    BY <1>3
  <2>3. QED
    BY <2>1, <2>2
<1>5. \A j \in 1..(k + 1) : l[j].proc # r.proc => l[j] \in Range(t.q)
  BY <1>1 DEF RemInv
<1>6. ASSUME NEW j \in 1..(k + 1), NEW b \in Nat, Covers(l[j], b), ~Covers(r, b)
      PROVE  \E e \in Range(t.q) : e.proc = l[j].proc /\ e.type = l[j].type /\ Covers(e, b)
  <2>1. CASE j \in 1..k
    BY <1>6, <2>1 DEF RemInv
  <2>2. CASE j = k + 1
    <3>1. PICK e \in Range(x) : Covers(e, b)
      BY <1>6, <2>2
    <3>2. e.proc = d.proc /\ e.type = d.type
      BY DEF Part
    <3>3. QED
      BY <2>2, <3>1, <3>2
  <2>3. QED
    BY <1>1, <2>1, <2>2
<1>7. t.ok => \A e \in Range(t.q) : e.proc = r.proc => ~Meets(e, r)
  BY DEF RemInv
<1>8. QED
  BY <1>4, <1>5, <1>6, <1>7 DEF RemInv

LEMMA RemStepKeeps ==
  ASSUME NEW l, NEW r \in GoodRl, NEW free \in Nat, NEW k \in Nat, NEW s, RemInv(l, r, free, k, s),
         l[k + 1] \in GoodRl, NEW t, t = RemStep(r, s, l[k + 1])
  PROVE  RemInv(l, r, free, k + 1, t)
<1>1. PICK d \in GoodRl : d = l[k + 1]
  OBVIOUS
<1>2. /\ s \in RemState /\ s.q \in Seq(GoodRl) /\ Len(s.q) \in Nat /\ s.free \in Nat /\ s.ok \in BOOLEAN
      /\ s.free + Len(s.q) = free + k /\ (~s.ok => s.free = 0)
  BY DEF RemInv, RemState
<1>3. PICK rest : rest = Extract(d, r)
  OBVIOUS
<1>4. PICK x : x = <<d>>
  OBVIOUS
<1>5. /\ Append(s.q, d) \in Seq(GoodRl) /\ Len(Append(s.q, d)) = Len(s.q) + 1
      /\ Range(Append(s.q, d)) = Range(s.q) \cup Range(x) /\ x \in Seq(GoodRl)
      /\ Range(x) = {d} /\ Part(d, d)
  <2>1. Part(d, d)
    BY DEF Part, GoodRl, RLOCK
  <2>2. QED
    BY <1>2, <1>4, <2>1, RangeAppend, RangeOne
<1>6. \A a, b, m \in Nat : a + b = m => a + (b + 1) = m + 1
  OBVIOUS
<1>7. free + (k + 1) = (free + k) + 1 /\ free + k \in Nat
  OBVIOUS
<1>8. s.free + (Len(s.q) + 1) = free + (k + 1)
  BY <1>2, <1>6, <1>7, SMTT(60)
<1>9. ASSUME t \in RemState, t.q = Append(s.q, d), t.free = s.free, ~t.ok => t.free = 0,
             t.ok => s.ok /\ (d.proc = r.proc => ~Meets(d, r))
      PROVE  RemInv(l, r, free, k + 1, t)
  <2>1. t.free + Len(t.q) = free + (k + 1)
    BY <1>5, <1>8, <1>9
  <2>2. t.q \in Seq(GoodRl) /\ Range(t.q) = Range(s.q) \cup Range(x)
    BY <1>5, <1>9
  <2>3. \A e \in Range(x) : Part(e, d) /\ (e.proc # r.proc => e = d)
    BY <1>5
  <2>4. t.ok => s.ok /\ \A e \in Range(x) : e.proc = r.proc => ~Meets(e, r)
    BY <1>5, <1>9
  <2>5. d \in Range(x) /\ (d.proc # r.proc => d \in Range(x)) /\ x \in Seq(GoodRl)
    BY <1>5
  <2>6. \A b \in Nat : Covers(d, b) /\ ~Covers(r, b) => \E e \in Range(x) : Covers(e, b)
    BY <2>5
  <2>7. (~t.ok => t.free = 0) /\ t \in RemState
    BY <1>9
  <2>8. Turn(r, free, k, s, d, x, t)
    BY <2>1, <2>2, <2>3, <2>4, <2>5, <2>6, <2>7 DEF Turn
  <2>9. QED
    BY <1>1, <2>8, RemTurn
<1>10. CASE ~s.ok \/ d.proc # r.proc \/ ~Meets(d, r)
  <2>1. t = [s EXCEPT !.q = Append(s.q, d)]
    BY <1>1, <1>10 DEF RemStep
  <2>2. t \in RemState /\ t.q = Append(s.q, d) /\ t.free = s.free /\ t.ok = s.ok
    BY <1>2, <1>5, <2>1 DEF RemState
  <2>3. QED
    BY <1>2, <1>9, <1>10, <2>2
<1>11. CASE s.ok /\ d.proc = r.proc /\ Meets(d, r) /\ Len(rest) > s.free + 1
  <2>1. t = [s EXCEPT !.q = Append(s.q, d), !.ok = FALSE]
    BY <1>1, <1>3, <1>11 DEF RemStep
  <2>2. t \in RemState /\ t.q = Append(s.q, d) /\ t.free = s.free /\ t.ok = FALSE
    BY <1>2, <1>5, <2>1 DEF RemState
  <2>3. Len(rest) \in 0..2
    BY <1>3, <1>11, ExtractIs
  <2>4. \A m \in 0..2, f \in Nat : m > f + 1 => f = 0
    OBVIOUS
  <2>5. s.free = 0
    BY <1>2, <1>11, <2>3, <2>4
  <2>6. QED
    BY <1>9, <2>2, <2>5
<1>12. CASE s.ok /\ d.proc = r.proc /\ Meets(d, r) /\ ~(Len(rest) > s.free + 1)
  <2>1. t = [q |-> s.q \o rest, free |-> s.free + 1 - Len(rest), ok |-> TRUE]
    BY <1>1, <1>3, <1>12 DEF RemStep
  <2>2. /\ rest \in Seq(GoodRl) /\ Len(rest) \in 0..2
        /\ \A e \in Range(rest) : Part(e, d) /\ ~Meets(e, r)
        /\ \A b \in Nat : Covers(d, b) /\ ~Covers(r, b) => \E e \in Range(rest) : Covers(e, b)
    BY <1>3, <1>12, ExtractIs
  <2>3. /\ s.q \o rest \in Seq(GoodRl) /\ Len(s.q \o rest) = Len(s.q) + Len(rest)
        /\ Range(s.q \o rest) = Range(s.q) \cup Range(rest)
    BY <1>2, <2>2, RangeJoin
  <2>4. s.free + 1 - Len(rest) \in Nat
    <3>1. \A m \in 0..2, f \in Nat : ~(m > f + 1) => f + 1 - m \in Nat
      OBVIOUS
    <3>2. QED
      BY <1>2, <1>12, <2>2, <3>1
  <2>5. t \in RemState /\ t.q = s.q \o rest /\ t.free = s.free + 1 - Len(rest) /\ t.ok = TRUE
    BY <2>1, <2>3, <2>4 DEF RemState
  <2>6. t.free + Len(t.q) = free + (k + 1)
    <3>1. \A a, b \in Nat, m \in 0..2 : (a + 1 - m) + (b + m) = a + (b + 1)
      OBVIOUS
    <3>2. QED
      <4>1. t.free + Len(t.q) = (s.free + 1 - Len(rest)) + (Len(s.q) + Len(rest))
        BY <2>3, <2>5
      <4>2. QED
        BY <1>2, <1>8, <2>2, <3>1, <4>1
  <2>7. \A e \in Range(rest) : Part(e, d) /\ (e.proc # r.proc => e = d)
    BY <1>12, <2>2 DEF Part
  <2>8. Range(t.q) = Range(s.q) \cup Range(rest) /\ t.q \in Seq(GoodRl)
    BY <2>3, <2>5
  <2>9. t.ok => s.ok /\ \A e \in Range(rest) : e.proc = r.proc => ~Meets(e, r)
    BY <1>12, <2>2
  <2>10. \A b \in Nat : Covers(d, b) /\ ~Covers(r, b) => \E e \in Range(rest) : Covers(e, b)
    BY <2>2
  <2>11. t \in RemState /\ (~t.ok => t.free = 0) /\ (d.proc # r.proc => d \in Range(rest))
    BY <1>12, <2>5
  <2>12. Turn(r, free, k, s, d, rest, t)
    BY <2>6, <2>7, <2>8, <2>9, <2>10, <2>11 DEF Turn
  <2>13. QED
    BY <1>1, <2>12, RemTurn
<1>13. QED
  BY <1>2, <1>10, <1>11, <1>12

(* remlock() *)
LEMMA RemLockIs ==
  ASSUME NEW r \in GoodRl, NEW free \in Nat, NEW l \in Seq(GoodRl)
  PROVE  RemInv(l, r, free, Len(l), RemLock(free, l, r))
<1> DEFINE w == [rem |-> TRUE, r |-> r]
           base == [q |-> <<>>, free |-> free, ok |-> TRUE]
           Rec(f) == f = [s \in SUBSET DOMAIN l |->
                            IF s = {} THEN base ELSE RemStep(r, f[s \ {Max(s)}], l[Max(s)])]
<1>1. Len(l) \in Nat /\ DOMAIN l = 1..Len(l) /\ \A i \in 1..Len(l) : l[i] \in GoodRl
  OBVIOUS
<1>2. \A s, e : Step(w, s, e) = RemStep(r, s, e)
  BY DEF Step
<1> HIDE DEF w
<1>3. \A f : Rec(f) <=> Folds(w, base, l, f)
  BY <1>2 DEF Folds
<1> HIDE DEF base
<1>4. \E f : Rec(f)
  BY <1>1, <1>3, FoldExists
<1>5. RemLock(free, l, r) = (CHOOSE f : Rec(f))[DOMAIN l]
  BY DEF RemLock, FoldLeft, MapThenFoldSet, RemStep, base
<1>6. PICK f : Rec(f) /\ RemLock(free, l, r) = f[DOMAIN l]
  <2> HIDE DEF Rec
  <2>1. QED
    BY <1>4, <1>5
<1>7. PICK t : /\ t[0] = base /\ t[Len(l)] = f[DOMAIN l]
               /\ \A k \in 1..Len(l) : t[k] = RemStep(r, t[k - 1], l[k])
  <2>1. Folds(w, base, l, f)
    BY <1>3, <1>6
  <2>2. PICK n \in Nat : n = Len(l) /\ DOMAIN l = 1..n
    BY <1>1
  <2>3. PICK t : Turns(w, base, l, n, f[DOMAIN l], t)
    BY <2>1, <2>2, FoldTrace
  <2> HIDE DEF Rec
  <2>4. QED
    BY <1>2, <2>2, <2>3 DEF Turns
<1> DEFINE S == {k \in Nat : k <= Len(l) => RemInv(l, r, free, k, t[k])}
<1>8. 0 \in S
  <2>1. base \in RemState /\ base.q = <<>> /\ base.free = free /\ base.ok = TRUE
    BY RangeOne DEF base, RemState
  <2>2. RemInv(l, r, free, 0, base)
    BY <2>1, RangeOne DEF RemInv
  <2>3. QED
    BY <1>7, <2>2
<1>9. ASSUME NEW k \in Nat, k \in S PROVE k + 1 \in S
  <2>1. SUFFICES ASSUME k + 1 <= Len(l) PROVE RemInv(l, r, free, k + 1, t[k + 1])
    OBVIOUS
  <2>2. k <= Len(l) /\ k + 1 \in 1..Len(l) /\ (k + 1) - 1 = k
    BY <1>1, <2>1
  <2>3. RemInv(l, r, free, k, t[k])
    BY <1>9, <2>2
  <2>4. t[k + 1] = RemStep(r, t[k], l[k + 1]) /\ l[k + 1] \in GoodRl
    BY <1>1, <1>7, <2>2
  <2> HIDE DEF S
  <2>5. QED
    BY <2>3, <2>4, RemStepKeeps
<1> HIDE DEF S
<1>10. Len(l) \in S
  BY <1>1, <1>8, <1>9, Induction
<1>11. QED
  BY <1>1, <1>6, <1>7, <1>10 DEF S

(* addlock() frees the locks that it combines with r and keeps the others. *)
Kept(r, l) == FoldLeft(LAMBDA s, e : IF Joins(r, e) THEN s ELSE Append(s, e), <<>>, l)

KeepInv(l, r, k, s) ==
  /\ s \in Seq(GoodRl) /\ Len(s) <= k
  /\ \A e : e \in Range(s) <=> \E j \in 1..k : e = l[j] /\ ~Joins(r, e)

LEMMA KeepStepKeeps ==
  ASSUME NEW l, NEW r, NEW k \in Nat, NEW s, KeepInv(l, r, k, s),
         l[k + 1] \in GoodRl, NEW t, t = KeepStep(r, s, l[k + 1])
  PROVE  KeepInv(l, r, k + 1, t)
<1>1. PICK d \in GoodRl : d = l[k + 1]
  OBVIOUS
<1>2. \A j : j \in 1..(k + 1) <=> j \in 1..k \/ j = k + 1
  OBVIOUS
<1>3. s \in Seq(GoodRl) /\ Len(s) \in Nat /\ Len(s) <= k
  BY DEF KeepInv
<1>4. CASE Joins(r, d)
  <2>1. t = s
    BY <1>1, <1>4 DEF KeepStep
  <2>2. Len(t) <= k + 1
    BY <1>3, <2>1
  <2>3. ASSUME NEW e PROVE e \in Range(t) <=> \E j \in 1..(k + 1) : e = l[j] /\ ~Joins(r, e)
    BY <1>1, <1>2, <1>4, <2>1 DEF KeepInv
  <2>4. QED
    BY <1>3, <2>1, <2>2, <2>3 DEF KeepInv
<1>5. CASE ~Joins(r, d)
  <2>1. t = Append(s, d)
    BY <1>1, <1>5 DEF KeepStep
  <2>2. t \in Seq(GoodRl) /\ Len(t) = Len(s) + 1 /\ Range(t) = Range(s) \cup {d}
    BY <1>3, <2>1, RangeAppend
  <2>3. Len(t) <= k + 1
    BY <1>3, <2>2
  <2>4. ASSUME NEW e PROVE e \in Range(t) <=> \E j \in 1..(k + 1) : e = l[j] /\ ~Joins(r, e)
    BY <1>1, <1>2, <1>5, <2>2 DEF KeepInv
  <2>5. QED
    BY <2>2, <2>3, <2>4 DEF KeepInv
<1>6. QED
  BY <1>4, <1>5

LEMMA KeptIs ==
  ASSUME NEW r, NEW l \in Seq(GoodRl)
  PROVE  /\ Kept(r, l) \in Seq(GoodRl) /\ Len(Kept(r, l)) <= Len(l)
         /\ \A e : e \in Range(Kept(r, l)) <=> e \in Range(l) /\ ~Joins(r, e)
<1> DEFINE w == [rem |-> FALSE, r |-> r]
           base == <<>>
           Rec(f) == f = [s \in SUBSET DOMAIN l |->
                            IF s = {} THEN base ELSE KeepStep(r, f[s \ {Max(s)}], l[Max(s)])]
<1>1. Len(l) \in Nat /\ DOMAIN l = 1..Len(l) /\ \A i \in 1..Len(l) : l[i] \in GoodRl
  OBVIOUS
<1>2. \A s, e : Step(w, s, e) = KeepStep(r, s, e)
  BY DEF Step
<1> HIDE DEF w
<1>3. \A f : Rec(f) <=> Folds(w, base, l, f)
  BY <1>2 DEF Folds
<1> HIDE DEF base
<1>4. \E f : Rec(f)
  BY <1>1, <1>3, FoldExists
<1>5. Kept(r, l) = (CHOOSE f : Rec(f))[DOMAIN l]
  BY DEF Kept, FoldLeft, MapThenFoldSet, KeepStep, base
<1>6. PICK f : Rec(f) /\ Kept(r, l) = f[DOMAIN l]
  <2> HIDE DEF Rec
  <2>1. QED
    BY <1>4, <1>5
<1>7. PICK t : /\ t[0] = base /\ t[Len(l)] = f[DOMAIN l]
               /\ \A k \in 1..Len(l) : t[k] = KeepStep(r, t[k - 1], l[k])
  <2>1. Folds(w, base, l, f)
    BY <1>3, <1>6
  <2>2. PICK n \in Nat : n = Len(l) /\ DOMAIN l = 1..n
    BY <1>1
  <2>3. PICK t : Turns(w, base, l, n, f[DOMAIN l], t)
    BY <2>1, <2>2, FoldTrace
  <2> HIDE DEF Rec
  <2>4. QED
    BY <1>2, <2>2, <2>3 DEF Turns
<1> DEFINE S == {k \in Nat : k <= Len(l) => KeepInv(l, r, k, t[k])}
<1>8. 0 \in S
  <2>1. KeepInv(l, r, 0, <<>>)
    BY RangeOne DEF KeepInv
  <2>2. QED
    BY <1>7, <2>1 DEF base
<1>9. ASSUME NEW k \in Nat, k \in S PROVE k + 1 \in S
  <2>1. SUFFICES ASSUME k + 1 <= Len(l) PROVE KeepInv(l, r, k + 1, t[k + 1])
    OBVIOUS
  <2>2. k <= Len(l) /\ k + 1 \in 1..Len(l) /\ (k + 1) - 1 = k
    BY <1>1, <2>1
  <2>3. KeepInv(l, r, k, t[k])
    BY <1>9, <2>2
  <2>4. t[k + 1] = KeepStep(r, t[k], l[k + 1]) /\ l[k + 1] \in GoodRl
    BY <1>1, <1>7, <2>2
  <2> HIDE DEF S
  <2>5. QED
    BY <2>3, <2>4, KeepStepKeeps
<1> HIDE DEF S
<1>10. Len(l) \in S
  BY <1>1, <1>8, <1>9, Induction
<1>11. KeepInv(l, r, Len(l), Kept(r, l))
  BY <1>1, <1>6, <1>7, <1>10 DEF S
<1>12. \A e : e \in Range(l) <=> \E j \in 1..Len(l) : e = l[j]
  BY <1>1 DEF Range
<1>13. QED
  BY <1>11, <1>12 DEF KeepInv

(* The lock that addlock() makes of r and the locks it combines with it. *)
Joined(r, l) == {e \in Range(l) : Joins(r, e)}
New(r, l) == [r EXCEPT !.start = Min({@} \cup {e.start : e \in Joined(r, l)}),
                       !.end = Max({@} \cup {e.end : e \in Joined(r, l)})]

LEMMA NewIs ==
  ASSUME NEW r \in GoodRl, NEW l \in Seq(GoodRl), NEW z, z = New(r, l)
  PROVE  /\ z \in GoodRl /\ z.proc = r.proc /\ z.type = r.type
         /\ z.start <= r.start /\ r.end <= z.end
         /\ \A e \in Joined(r, l) : z.start <= e.start /\ e.end <= z.end
         /\ \A b \in Nat : Covers(z, b) =>
              Covers(r, b) \/ \E e \in Joined(r, l) : Covers(e, b)
<1> DEFINE J == Joined(r, l)
           T == {r.start} \cup {e.start : e \in J}
           U == {r.end} \cup {e.end : e \in J}
<1>1. \A e \in J : e \in GoodRl /\ e.proc = r.proc /\ e.type = r.type /\ Meets(e, Wide(r))
  BY DEF Joined, Joins, Range
<1> HIDE DEF J
<1>2. ASSUME NEW e \in GoodRl
      PROVE  /\ e.start \in 0..(EOF - 1) /\ e.end \in 0..EOF /\ e.end # EOF - 1 /\ e.start <= e.end
             /\ e.start \in Nat /\ e.end \in Nat
  BY Names DEF GoodRl, RLOCK
<1>3. T \subseteq 0..(EOF - 1) /\ T \subseteq Nat /\ T # {}
  BY <1>1, <1>2
<1>4. U \subseteq 0..EOF /\ U # {} /\ EOF \in Nat
  BY <1>1, <1>2, Names
<1>5. Min(T) \in T /\ (\A y \in T : Min(T) <= y) /\ Max(U) \in U /\ \A y \in U : Max(U) >= y
  BY <1>3, <1>4, MinIs, MaxIs
<1>6. PICK a, c : a = Min(T) /\ c = Max(U)
  OBVIOUS
<1>7. z = [r EXCEPT !.start = a, !.end = c]
  BY <1>6 DEF New, J
<1>8. a \in 0..(EOF - 1) /\ c \in 0..EOF /\ a <= r.start /\ r.end <= c
  BY <1>3, <1>4, <1>5, <1>6
<1>9. \A e \in J : a <= e.start /\ e.end <= c
  BY <1>5, <1>6
<1>10. PICK e1 \in J \cup {r} : a = e1.start
  BY <1>5, <1>6
<1>11. PICK e2 \in J \cup {r} : c = e2.end
  BY <1>5, <1>6
<1> HIDE DEF T, U
<1>12. c # EOF - 1
  BY <1>1, <1>2, <1>11
<1>13. a <= c
  BY <1>2, <1>8
<1>14. z \in GoodRl /\ z.proc = r.proc /\ z.type = r.type /\ z.start = a /\ z.end = c
  BY <1>7, <1>8, <1>12, <1>13 DEF GoodRl, RLOCK
<1>15. ASSUME NEW e \in J
       PROVE  r.start <= e.end + 1 /\ e.start <= r.end + 1
  <2>1. /\ Wide(r).start = (IF r.start = 0 THEN r.start ELSE r.start - 1)
        /\ Wide(r).end = (IF r.end = EOF THEN r.end ELSE r.end + 1)
    BY DEF Wide, GoodRl, RLOCK
  <2>2. e.start <= Wide(r).end /\ Wide(r).start <= e.end
    BY <1>1 DEF Meets
  <2>3. QED
    BY <1>1, <1>2, <2>1, <2>2
<1>16. ASSUME NEW b \in Nat, Covers(z, b) PROVE Covers(r, b) \/ \E e \in J : Covers(e, b)
  <2>1. a <= b /\ b <= c
    BY <1>14, <1>16 DEF Covers
  <2>2. CASE b < r.start
    <3>1. e1 \in J
      BY <1>2, <1>10, <2>1, <2>2
    <3>2. e1.start <= b /\ b <= e1.end
      BY <1>1, <1>2, <1>10, <1>15, <2>1, <2>2, <3>1
    <3>3. QED
      BY <3>1, <3>2 DEF Covers
  <2>3. CASE b > r.end
    <3>1. e2 \in J
      BY <1>2, <1>11, <2>1, <2>3
    <3>2. e2.start <= b /\ b <= e2.end
      BY <1>1, <1>2, <1>11, <1>15, <2>1, <2>3, <3>1
    <3>3. QED
      BY <3>1, <3>2 DEF Covers
  <2>4. CASE r.start <= b /\ b <= r.end
    BY <2>4 DEF Covers
  <2>5. QED
    BY <1>2, <2>2, <2>3, <2>4
<1>17. QED
  BY <1>8, <1>9, <1>14, <1>16 DEF J

LEMMA AddLockDef ==
  ASSUME NEW r, NEW l, NEW free, NEW room, room = free + Len(l) - Len(Kept(r, l)),
         NEW a, a = AddLock(free, l, r)
  PROVE  IF room = 0
         THEN a = [q |-> l, free |-> free, ok |-> FALSE]
         ELSE a = [RemLock(room - 1, Kept(r, l), New(r, l)) EXCEPT !.q = <<New(r, l)>> \o @]
BY DEF AddLock, Kept, New, Joined, Joins, Wide

(* What a call of process p's for the locks of list l makes of them, b free
   structures, in list m: with the locks of others, and structures, as
   before; and what is p's on a byte outside what r asks for. *)
Conserves(r, l, free, m, left) ==
  /\ m \in Seq(GoodRl) /\ left \in Nat /\ left + Len(m) = free + Len(l)
  /\ \A e : e.proc # r.proc => (e \in Range(m) <=> e \in Range(l))

(* The owner of r has a lock of type t on byte b. *)
Has(l, p, t, b) == \E e \in Range(l) : e.proc = p /\ e.type = t /\ Covers(e, b)

(* remlock(): the caller keeps what it has outside r, and has nothing else
   unless there is no structure left. *)
Removed(r, l, free, s) ==
  /\ Conserves(r, l, free, s.q, s.free)
  /\ s.ok \in BOOLEAN /\ (~s.ok => s.free = 0)
  /\ \A t : \A b \in Nat : Has(s.q, r.proc, t, b) => Has(l, r.proc, t, b)
  /\ \A t : \A b \in Nat : Has(l, r.proc, t, b) /\ ~Covers(r, b) => Has(s.q, r.proc, t, b)
  /\ s.ok => \A t : \A b \in Nat : Covers(r, b) => ~Has(s.q, r.proc, t, b)

LEMMA RemLockDoes ==
  ASSUME NEW r \in GoodRl, NEW free \in Nat, NEW l \in Seq(GoodRl), NEW s, s = RemLock(free, l, r)
  PROVE  Removed(r, l, free, s)
<1>1. RemInv(l, r, free, Len(l), s)
  BY RemLockIs
<1>2. Len(l) \in Nat /\ DOMAIN l = 1..Len(l) /\ \A i \in 1..Len(l) : l[i] \in GoodRl
  OBVIOUS
<1>3. \A e : e \in Range(l) <=> \E j \in 1..Len(l) : e = l[j]
  BY <1>2 DEF Range
<1>4. s.q \in Seq(GoodRl) /\ s.free \in Nat /\ s.ok \in BOOLEAN /\ s.free + Len(s.q) = free + Len(l)
  BY <1>1 DEF RemInv, RemState
<1>5. \A e \in Range(s.q) : e \in GoodRl
  BY <1>4 DEF Range
<1>6. \A e \in GoodRl : e.start \in Nat /\ e.end \in Nat
  BY Names DEF GoodRl, RLOCK
<1>7. \A e : e.proc # r.proc => (e \in Range(s.q) <=> e \in Range(l))
  <2>1. ASSUME NEW e, e.proc # r.proc, e \in Range(s.q) PROVE e \in Range(l)
    BY <1>1, <1>3, <2>1 DEF RemInv
  <2>2. ASSUME NEW e, e.proc # r.proc, e \in Range(l) PROVE e \in Range(s.q)
    BY <1>1, <1>3, <2>2 DEF RemInv
  <2>3. QED
    BY <2>1, <2>2
<1>8. ASSUME NEW t, NEW b \in Nat, Has(s.q, r.proc, t, b) PROVE Has(l, r.proc, t, b)
  <2>1. PICK e \in Range(s.q) : e.proc = r.proc /\ e.type = t /\ Covers(e, b)
    BY <1>8 DEF Has
  <2>2. PICK j \in 1..Len(l) : Part(e, l[j])
    BY <1>1, <2>1 DEF RemInv
  <2>3. Covers(l[j], b)
    BY <1>2, <1>5, <1>6, <2>1, <2>2 DEF Covers, Part
  <2>4. QED
    BY <1>3, <2>1, <2>2, <2>3 DEF Has, Part
<1>9. ASSUME NEW t, NEW b \in Nat, Has(l, r.proc, t, b), ~Covers(r, b) PROVE Has(s.q, r.proc, t, b)
  <2>1. PICK j \in 1..Len(l) : l[j].proc = r.proc /\ l[j].type = t /\ Covers(l[j], b)
    BY <1>3, <1>9 DEF Has
  <2>2. PICK e \in Range(s.q) : e.proc = l[j].proc /\ e.type = l[j].type /\ Covers(e, b)
    BY <1>1, <1>9, <2>1 DEF RemInv
  <2>3. QED
    BY <2>1, <2>2 DEF Has
<1>10. ASSUME s.ok, NEW t, NEW b \in Nat, Covers(r, b) PROVE ~Has(s.q, r.proc, t, b)
  <2>1. \A e \in Range(s.q) : e.proc = r.proc => ~Meets(e, r)
    BY <1>1, <1>10 DEF RemInv
  <2>2. \A e \in Range(s.q) : Covers(e, b) => Meets(e, r)
    BY <1>5, <1>6, <1>10 DEF Covers, Meets
  <2>3. QED
    BY <2>1, <2>2 DEF Has
<1>11. Conserves(r, l, free, s.q, s.free)
  BY <1>4, <1>7 DEF Conserves
<1>12. QED
  BY <1>1, <1>4, <1>8, <1>9, <1>10, <1>11 DEF RemInv, Removed

(* addlock(): nothing happens if there is no structure left; otherwise the
   caller has what it asked for, and on any byte only what it had before or
   asked for; it has nothing else where it asked unless there is no structure
   left; and it keeps the type of lock it had where it did not, save that of
   two types one may go. *)
LEMMA AddLockDoes ==
  ASSUME NEW r \in GoodRl, NEW free \in Nat, NEW l \in Seq(GoodRl), NEW a, a = AddLock(free, l, r)
  PROVE  /\ Conserves(r, l, free, a.q, a.free)
         /\ \/ a.q = l /\ a.free = free
            \/ /\ \A t : \A b \in Nat : Has(a.q, r.proc, t, b) =>
                    Has(l, r.proc, t, b) \/ (t = r.type /\ Covers(r, b))
               /\ \A b \in Nat : Covers(r, b) => Has(a.q, r.proc, r.type, b)
               /\ \A t : \A b \in Nat : /\ t # r.type /\ Covers(r, b)
                                    /\ Has(a.q, r.proc, t, b)
                    => a.free = 0
               /\ \A t : \A b \in Nat : Has(l, r.proc, t, b) =>
                    \/ Has(a.q, r.proc, t, b)
                    \/ /\ Covers(r, b) \/ Has(l, r.proc, r.type, b)
                       /\ Has(a.q, r.proc, r.type, b)
<1>1. PICK k : k = Kept(r, l)
  OBVIOUS
<1>2. PICK z : z = New(r, l)
  OBVIOUS
<1>3. /\ k \in Seq(GoodRl) /\ Len(k) \in Nat /\ Len(k) <= Len(l) /\ Len(l) \in Nat
      /\ \A e : e \in Range(k) <=> e \in Range(l) /\ ~Joins(r, e)
  BY <1>1, KeptIs
<1>4. /\ z \in GoodRl /\ z.proc = r.proc /\ z.type = r.type
      /\ z.start <= r.start /\ r.end <= z.end
      /\ \A e \in Joined(r, l) : z.start <= e.start /\ e.end <= z.end
      /\ \A b \in Nat : Covers(z, b) =>
           Covers(r, b) \/ \E e \in Joined(r, l) : Covers(e, b)
  BY <1>2, NewIs
<1>5. PICK room \in Nat : room = free + Len(l) - Len(k)
  <2>1. \A m, n, f \in Nat : m <= n => f + n - m \in Nat
    OBVIOUS
  <2>2. QED
    BY <1>3, <2>1
<1>6. CASE room = 0
  <2>1. a = [q |-> l, free |-> free, ok |-> FALSE]
    BY <1>1, <1>5, <1>6, AddLockDef
  <2>2. a.q = l /\ a.free = free
    BY <2>1
  <2>3. QED
    BY <2>2 DEF Conserves
<1>7. CASE room # 0
  <2>1. PICK s : s = RemLock(room - 1, k, z)
    OBVIOUS
  <2>2. a = [s EXCEPT !.q = <<z>> \o @] /\ room - 1 \in Nat
    BY <1>1, <1>2, <1>5, <1>7, <2>1, AddLockDef
  <2>3. /\ Conserves(z, k, room - 1, s.q, s.free)
        /\ s.ok \in BOOLEAN /\ (~s.ok => s.free = 0)
        /\ \A t : \A b \in Nat : Has(s.q, r.proc, t, b) => Has(k, r.proc, t, b)
        /\ \A t : \A b \in Nat : Has(k, r.proc, t, b) /\ ~Covers(z, b) => Has(s.q, r.proc, t, b)
        /\ s.ok => \A t : \A b \in Nat : Covers(z, b) => ~Has(s.q, r.proc, t, b)
    <3>1. Removed(z, k, room - 1, s)
      BY <1>3, <1>4, <2>1, <2>2, RemLockDoes
    <3>2. QED
      BY <1>4, <3>1 DEF Removed
  <2>4. s \in RemState
    BY <1>3, <1>4, <2>1, <2>2, RemLockIs DEF RemInv
  <2>5. a.q = <<z>> \o s.q /\ a.free = s.free
    BY <2>2, <2>4 DEF RemState
  <2>6. /\ a.q \in Seq(GoodRl) /\ Len(a.q) = 1 + Len(s.q) /\ Range(a.q) = {z} \cup Range(s.q)
    <3>1. <<z>> \in Seq(GoodRl) /\ Len(<<z>>) = 1 /\ Range(<<z>>) = {z}
      BY <1>4, RangeOne
    <3>2. s.q \in Seq(GoodRl)
      BY <2>4 DEF RemState
    <3>3. /\ <<z>> \o s.q \in Seq(GoodRl) /\ Len(<<z>> \o s.q) = Len(<<z>>) + Len(s.q)
          /\ Range(<<z>> \o s.q) = Range(<<z>>) \cup Range(s.q)
      <4>1. PICK y : y = <<z>>
        OBVIOUS
      <4>2. y \in Seq(GoodRl)
        BY <3>1, <4>1
      <4>3. /\ y \o s.q \in Seq(GoodRl) /\ Len(y \o s.q) = Len(y) + Len(s.q)
            /\ Range(y \o s.q) = Range(y) \cup Range(s.q)
        BY <3>2, <4>2, RangeJoin
      <4>4. QED
        BY <4>1, <4>3
    <3>4. QED
      BY <2>5, <3>1, <3>3
  <2>7. Conserves(r, l, free, a.q, a.free)
    <3>1. a.free + Len(a.q) = free + Len(l)
      <4>1. s.free \in Nat /\ Len(s.q) \in Nat /\ s.free + Len(s.q) = (room - 1) + Len(k)
        BY <2>3, <2>4 DEF Conserves, RemState
      <4>2. PICK x \in Nat, m \in Nat, n \in Nat, o \in Nat : x = Len(l) /\ m = Len(k) /\ n = s.free /\ o = Len(s.q)
        BY <1>3, <4>1
      <4>3. room = free + x - m /\ n + o = (room - 1) + m
        BY <1>5, <4>1, <4>2
      <4>4. n + (1 + o) = free + x
        BY <4>3
      <4>5. a.free = n /\ Len(a.q) = 1 + o
        BY <2>5, <2>6, <4>2
      <4>6. QED
        BY <4>2, <4>4, <4>5
    <3>2. \A e : e.proc # r.proc => (e \in Range(a.q) <=> e \in Range(l))
      BY <1>3, <1>4, <2>3, <2>6 DEF Conserves, Joins
    <3>3. a.free \in Nat
      BY <2>4, <2>5 DEF RemState
    <3>4. QED
      BY <2>6, <3>1, <3>2, <3>3 DEF Conserves
  <2>8. \A t, b : Has(a.q, r.proc, t, b) <=> (t = r.type /\ Covers(z, b)) \/ Has(s.q, r.proc, t, b)
    BY <1>4, <2>6 DEF Has
  <2>9. \A t, b : Has(k, r.proc, t, b) => Has(l, r.proc, t, b)
    BY <1>3 DEF Has
  <2>10. \A b \in Nat : Covers(z, b) => Covers(r, b) \/ Has(l, r.proc, r.type, b)
    <3>1. \A e \in Joined(r, l) : e \in Range(l) /\ e.proc = r.proc /\ e.type = r.type
      BY DEF Joined, Joins
    <3>2. QED
      BY <1>4, <3>1 DEF Has
  <2>11. \A e \in GoodRl : e.start \in Nat /\ e.end \in Nat
    BY Names DEF GoodRl, RLOCK
  <2>12. \A b \in Nat : Covers(r, b) => Covers(z, b)
    BY <1>4, <2>11 DEF Covers
  <2>13. ASSUME NEW t, NEW b \in Nat, Has(l, r.proc, t, b)
         PROVE  Has(k, r.proc, t, b) \/ (t = r.type /\ Covers(z, b))
    <3>1. PICK e \in Range(l) : e.proc = r.proc /\ e.type = t /\ Covers(e, b)
      BY <2>13 DEF Has
    <3>2. CASE Joins(r, e)
      <4>1. e \in Joined(r, l) /\ e \in GoodRl /\ t = r.type
        BY <3>1, <3>2 DEF Joined, Joins, Range
      <4>2. z.start <= e.start /\ e.end <= z.end
        BY <1>4, <4>1
      <4>3. Covers(z, b)
        BY <1>4, <2>11, <3>1, <4>1, <4>2 DEF Covers
      <4>4. QED
        BY <4>1, <4>3
    <3>3. CASE ~Joins(r, e)
      BY <1>3, <3>1, <3>3 DEF Has
    <3>4. QED
      BY <3>2, <3>3
  <2>14. \A t : \A b \in Nat : Has(a.q, r.proc, t, b) =>
           Has(l, r.proc, t, b) \/ (t = r.type /\ Covers(r, b))
    BY <2>3, <2>8, <2>9, <2>10
  <2>15. \A b \in Nat : Covers(r, b) => Has(a.q, r.proc, r.type, b)
    BY <2>8, <2>12
  <2>16. ASSUME NEW t, NEW b \in Nat, t # r.type, Covers(r, b), Has(a.q, r.proc, t, b)
         PROVE  a.free = 0
    BY <2>3, <2>5, <2>8, <2>12, <2>16
  <2>17. ASSUME NEW t, NEW b \in Nat, Has(l, r.proc, t, b), ~Has(a.q, r.proc, t, b)
         PROVE  (Covers(r, b) \/ Has(l, r.proc, r.type, b)) /\ Has(a.q, r.proc, r.type, b)
    BY <2>3, <2>8, <2>10, <2>13, <2>17
  <2>18. QED
    BY <2>7, <2>14, <2>15, <2>16, <2>17
<1>8. QED
  BY <1>6, <1>7

-----------------------------------------------------------------------------
(* No two processes have locks that conflict. *)

Peaceful(l) == \A e \in Range(l) : Blocking(l, e) = {}

LEMMA ConflictByte ==
  ASSUME NEW e \in GoodRl, NEW f \in GoodRl
  PROVE  Meets(e, f) <=> \E b \in Nat : Covers(e, b) /\ Covers(f, b)
<1>1. /\ e.start \in Nat /\ e.end \in Nat /\ f.start \in Nat /\ f.end \in Nat
      /\ e.start <= e.end /\ f.start <= f.end
  BY Names DEF GoodRl, RLOCK
<1>2. ASSUME Meets(e, f) PROVE \E b \in Nat : Covers(e, b) /\ Covers(f, b)
  <2>1. CASE e.start <= f.start
    <3>1. Covers(e, f.start) /\ Covers(f, f.start)
      BY <1>1, <1>2, <2>1 DEF Meets, Covers
    <3>2. QED
      BY <1>1, <3>1
  <2>2. CASE f.start <= e.start
    <3>1. Covers(e, e.start) /\ Covers(f, e.start)
      BY <1>1, <1>2, <2>2 DEF Meets, Covers
    <3>2. QED
      BY <1>1, <3>1
  <2>3. QED
    BY <1>1, <2>1, <2>2
<1>3. ASSUME NEW b \in Nat, Covers(e, b), Covers(f, b) PROVE Meets(e, f)
  BY <1>1, <1>3 DEF Meets, Covers
<1>4. QED
  BY <1>2, <1>3

(* The locks of others than p, and what p has on a byte, are those of l, or
   what r asks for and nobody keeps p from. *)
LEMMA StaysPeaceful ==
  ASSUME NEW r \in GoodRl, NEW l \in Seq(GoodRl), NEW m \in Seq(GoodRl), Peaceful(l),
         \A e : e.proc # r.proc => (e \in Range(m) <=> e \in Range(l)),
         \A t : \A b \in Nat : Has(m, r.proc, t, b) =>
            \/ Has(l, r.proc, t, b)
            \/ t = r.type /\ Covers(r, b) /\ Blocking(l, r) = {}
  PROVE  Peaceful(m)
<1>1. (\A e \in Range(l) : e \in GoodRl) /\ \A e \in Range(m) : e \in GoodRl
  BY DEF Range
<1>2. ASSUME NEW e \in Range(m), NEW f \in Range(m), e.proc = r.proc, f.proc # r.proc,
             Meets(e, f), e.type = "write" \/ f.type = "write"
      PROVE  FALSE
  <2>1. PICK b \in Nat : Covers(e, b) /\ Covers(f, b)
    BY <1>1, <1>2, ConflictByte
  <2>2. f \in Range(l) /\ Has(m, r.proc, e.type, b)
    BY <1>2, <2>1 DEF Has
  <2>3. CASE Has(l, r.proc, e.type, b)
    <3>1. PICK d \in Range(l) : d.proc = r.proc /\ d.type = e.type /\ Covers(d, b)
      BY <2>3 DEF Has
    <3>2. Meets(f, d)
      BY <1>1, <2>1, <3>1, ConflictByte
    <3>3. f \in Blocking(l, d)
      BY <1>2, <2>2, <3>1, <3>2 DEF Blocking
    <3>4. QED
      BY <3>1, <3>3 DEF Peaceful
  <2>4. CASE e.type = r.type /\ Covers(r, b) /\ Blocking(l, r) = {}
    <3>1. Meets(f, r)
      BY <1>1, <2>1, <2>4, ConflictByte
    <3>2. f \in Blocking(l, r)
      BY <1>2, <2>2, <2>4, <3>1 DEF Blocking
    <3>3. QED
      BY <2>4, <3>2
  <2>5. QED
    BY <2>2, <2>3, <2>4
<1>3. ASSUME NEW e \in Range(m), NEW f \in Range(m), f.proc # e.proc,
             Meets(f, e), e.type = "write" \/ f.type = "write"
      PROVE  FALSE
  <2>1. Meets(e, f)
    BY <1>3 DEF Meets
  <2>2. CASE e.proc = r.proc
    BY <1>2, <1>3, <2>1, <2>2
  <2>3. CASE f.proc = r.proc
    BY <1>2, <1>3, <2>3
  <2>4. CASE e.proc # r.proc /\ f.proc # r.proc
    <3>1. e \in Range(l) /\ f \in Range(l)
      BY <2>4
    <3>2. f \in Blocking(l, e)
      BY <1>3, <3>1 DEF Blocking
    <3>3. QED
      BY <3>1, <3>2 DEF Peaceful
  <2>5. QED
    BY <2>2, <2>3, <2>4
<1>4. QED
  BY <1>3 DEF Peaceful, Blocking

-----------------------------------------------------------------------------
(* The steps. *)

(* TypeOK, but for the size of the pool; and who waits. *)
LockInv ==
  /\ list \in [Inode -> Seq(GoodRl)]
  /\ freerl \in Nat
  /\ prl \in [Proc -> [ino : Inode, rl : GoodRl] \cup {NoRl}]
  /\ st \in [Proc -> {"run", "asleep", "woken", "signalled"}]
  /\ deferred \subseteq Inode
  /\ \A p \in Proc : st[p] = "run" <=> prl[p] = NoRl
  /\ \A p \in Proc : prl[p] # NoRl => prl[p].rl.proc = p

(* A list changes as remlock(), or as addlock() of a lock that nobody is in
   the way of, has it. *)
Changes(p, i, r, free) ==
  /\ r.proc = p
  /\ \/ Install(i, RemLock(free, list[i], r))
     \/ Blocking(list[i], r) = {} /\ Install(i, AddLock(free, list[i], r))

LEMMA ChangesIs ==
  ASSUME list \in [Inode -> Seq(GoodRl)], NEW p, NEW i \in Inode, NEW r \in GoodRl, NEW free \in Nat,
         Changes(p, i, r, free)
  PROVE  /\ list' \in [Inode -> Seq(GoodRl)] /\ freerl' \in Nat
         /\ \A j \in Inode \ {i} : list'[j] = list[j]
         /\ freerl' + Len(list'[i]) = free + Len(list[i])
         /\ \A e : e.proc # p => (e \in Range(list'[i]) <=> e \in Range(list[i]))
         /\ Peaceful(list[i]) => Peaceful(list'[i])
<1>1. PICK l \in Seq(GoodRl) : l = list[i]
  OBVIOUS
<1>2. CASE Install(i, RemLock(free, list[i], r))
  <2>1. PICK s : s = RemLock(free, l, r)
    OBVIOUS
  <2>2. Removed(r, l, free, s)
    BY <2>1, RemLockDoes
  <2>3. list' = [list EXCEPT ![i] = s.q] /\ freerl' = s.free
    BY <1>1, <1>2, <2>1 DEF Install
  <2>4. /\ s.q \in Seq(GoodRl) /\ s.free \in Nat /\ s.free + Len(s.q) = free + Len(l)
        /\ \A e : e.proc # r.proc => (e \in Range(s.q) <=> e \in Range(l))
    BY <2>2 DEF Removed, Conserves
  <2>5. Peaceful(l) => Peaceful(s.q)
    BY <2>2, <2>4, StaysPeaceful DEF Removed
  <2>6. QED
    BY <1>1, <2>3, <2>4, <2>5 DEF Changes
<1>3. CASE Blocking(list[i], r) = {} /\ Install(i, AddLock(free, list[i], r))
  <2>1. PICK s : s = AddLock(free, l, r)
    OBVIOUS
  <2>2. /\ Conserves(r, l, free, s.q, s.free)
        /\ \A t : \A b \in Nat : Has(s.q, r.proc, t, b) =>
             Has(l, r.proc, t, b) \/ (t = r.type /\ Covers(r, b))
    BY <2>1, AddLockDoes
  <2>3. list' = [list EXCEPT ![i] = s.q] /\ freerl' = s.free
    BY <1>1, <1>3, <2>1 DEF Install
  <2>4. /\ s.q \in Seq(GoodRl) /\ s.free \in Nat /\ s.free + Len(s.q) = free + Len(l)
        /\ \A e : e.proc # r.proc => (e \in Range(s.q) <=> e \in Range(l))
    BY <2>2 DEF Conserves
  <2>5. Peaceful(l) => Peaceful(s.q)
    BY <1>1, <1>3, <2>2, <2>4, StaysPeaceful
  <2>6. QED
    BY <1>1, <2>3, <2>4, <2>5 DEF Changes
<1>4. QED
  BY <1>2, <1>3 DEF Changes

(* What the actions come to. *)
Granted(p, i, r) ==
  /\ st[p] = "run" /\ Changes(p, i, r, freerl)
  /\ deferred' = deferred \cup {i} /\ UNCHANGED <<prl, st>>
Refused(i) == deferred' = deferred \cup {i} /\ UNCHANGED <<list, freerl, prl, st>>
Ends(p) ==
  /\ prl[p] # NoRl /\ Cleanup(p)
  /\ \/ Changes(p, prl[p].ino, prl[p].rl, freerl + 1)
     \/ freerl' = freerl + 1 /\ list' = list
Sleeps(p) ==
  /\ prl[p] # NoRl /\ Blocking(list[prl[p].ino], prl[p].rl) # {}
  /\ st' = [st EXCEPT ![p] = "asleep"] /\ UNCHANGED <<list, freerl, prl, deferred>>

LEMMA Steps ==
  ASSUME LockInv, [Next]_vars
  PROVE  \/ \E p \in Proc, i \in Inode, r \in GoodRl :
              r \in Requests(p) /\ (Granted(p, i, r) \/ WaitLock(p, i, r))
         \/ \E i \in Inode : Refused(i) \/ Defend(i)
         \/ \E p \in Proc : Ends(p) \/ Sleeps(p) \/ Signal(p)
         \/ UNCHANGED vars
<1>1. ASSUME NEW p \in Proc, NEW i \in Inode, NEW r \in Requests(p),
             SetLk(p, i, r) \/ WaitLock(p, i, r) \/ Unlock(p, i, r)
      PROVE  Granted(p, i, r) \/ Refused(i) \/ WaitLock(p, i, r)
  <2>1. r.proc = p
    BY RequestIs
  <2>2. CASE SetLk(p, i, r)
    BY <2>1, <2>2 DEF SetLk, Granted, Refused, Changes
  <2>3. CASE Unlock(p, i, r)
    BY <2>1, <2>3 DEF Unlock, Granted, Changes
  <2>4. QED
    BY <1>1, <2>2, <2>3
<1>2. ASSUME NEW p \in Proc, Retry(p) PROVE Ends(p) \/ Sleeps(p)
  <2>1. prl[p] # NoRl /\ prl[p].rl.proc = p
    BY <1>2 DEF LockInv, Retry
  <2>2. QED
    BY <1>2, <2>1 DEF Retry, Ends, Sleeps, Changes
<1>3. ASSUME NEW p \in Proc, Interrupted(p) PROVE Ends(p)
  <2>1. prl[p] # NoRl
    BY <1>3 DEF LockInv, Interrupted
  <2>2. QED
    BY <1>3, <2>1 DEF Interrupted, Ends
<1>4. \A p \in Proc : \A r \in Requests(p) : r \in GoodRl
  BY RequestIs
<1>5. CASE Next
  <2>1. CASE \E p \in Proc, i \in Inode : \E r \in Requests(p) :
               SetLk(p, i, r) \/ WaitLock(p, i, r) \/ Unlock(p, i, r)
    BY <1>1, <1>4, <2>1
  <2>2. CASE \E p \in Proc : Retry(p) \/ Interrupted(p) \/ Signal(p)
    BY <1>2, <1>3, <2>2
  <2>3. CASE \E i \in Inode : Defend(i)
    BY <2>3
  <2>4. QED
    BY <1>5, <2>1, <2>2, <2>3 DEF Next
<1>6. QED
  BY <1>5

LEMMA LockStep ==
  ASSUME LockInv, [Next]_vars
  PROVE  LockInv'
<1>1. ASSUME NEW p \in Proc, NEW i \in Inode, NEW r \in GoodRl, Granted(p, i, r) PROVE LockInv'
  <2>1. list' \in [Inode -> Seq(GoodRl)] /\ freerl' \in Nat
    BY <1>1, ChangesIs DEF LockInv, Granted
  <2>2. QED
    BY <1>1, <2>1 DEF LockInv, Granted
<1>2. ASSUME NEW i \in Inode, Refused(i) PROVE LockInv'
  BY <1>2 DEF LockInv, Refused
<1>3. ASSUME NEW p \in Proc, NEW i \in Inode, NEW r \in GoodRl, r \in Requests(p), WaitLock(p, i, r)
      PROVE  LockInv'
  <2>1. PICK w : w = [ino |-> i, rl |-> r]
    OBVIOUS
  <2>2. w \in [ino : Inode, rl : GoodRl] /\ w.rl = r /\ w # NoRl /\ r.proc = p
    <3>1. w \in [ino : Inode, rl : GoodRl] /\ w.rl = r
      BY <2>1
    <3>2. w \in [ino : Inode, rl : RLOCK]
      BY <3>1 DEF GoodRl
    <3>3. QED
      BY <1>3, <3>1, <3>2, Names, RequestIs
  <2>3. prl' = [prl EXCEPT ![p] = w] /\ st' = [st EXCEPT ![p] = "asleep"]
    BY <1>3, <2>1 DEF WaitLock
  <2>4. freerl' \in Nat /\ list' = list /\ deferred' = deferred
    BY <1>3 DEF LockInv, WaitLock
  <2>5. QED
    BY <2>2, <2>3, <2>4 DEF LockInv
<1>4. ASSUME NEW p \in Proc, Ends(p) PROVE LockInv'
  <2>1. prl[p] \in [ino : Inode, rl : GoodRl] /\ freerl + 1 \in Nat
    BY <1>4 DEF LockInv, Ends
  <2>2. list' \in [Inode -> Seq(GoodRl)] /\ freerl' \in Nat
    <3>1. CASE Changes(p, prl[p].ino, prl[p].rl, freerl + 1)
      BY <2>1, <3>1, ChangesIs DEF LockInv
    <3>2. CASE freerl' = freerl + 1 /\ list' = list
      BY <2>1, <3>2 DEF LockInv
    <3>3. QED
      BY <1>4, <3>1, <3>2 DEF Ends
  <2>3. /\ prl' = [prl EXCEPT ![p] = NoRl] /\ st' = [st EXCEPT ![p] = "run"]
        /\ deferred' \subseteq Inode
    BY <1>4, <2>1 DEF LockInv, Ends, Cleanup
  <2>4. QED
    BY <2>2, <2>3 DEF LockInv
<1>5. ASSUME NEW p \in Proc, Sleeps(p) \/ Signal(p) PROVE LockInv'
  BY <1>5 DEF LockInv, Sleeps, Signal
<1>6. ASSUME NEW i \in Inode, Defend(i) PROVE LockInv'
  BY <1>6 DEF LockInv, Defend
<1>7. CASE UNCHANGED vars
  BY <1>7 DEF LockInv, vars
<1>8. QED
  BY <1>1, <1>2, <1>3, <1>4, <1>5, <1>6, <1>7, Steps

LEMMA LockInit == Init => LockInv
<1>1. \A i \in Inode : <<>> \in Seq(GoodRl)
  BY RangeOne
<1>2. QED
  BY <1>1, Names DEF Init, LockInv

LEMMA LockAlways == Spec => []LockInv
<1>1. LockInv /\ [Next]_vars => LockInv'
  BY LockStep
<1>2. QED
  BY <1>1, LockInit, PTL DEF Spec

LEMMA NoConflictIs == NoConflict <=> \A i \in Inode : Peaceful(list[i])
BY DEF NoConflict, Peaceful

LEMMA NoConflictWillBe == NoConflict' <=> \A i \in Inode : Peaceful(list'[i])
<1>1. (NoConflict <=> \A i \in Inode : Peaceful(list[i]))'
  BY NoConflictIs, PTL
<1>2. QED
  BY <1>1

LEMMA PeaceStep ==
  ASSUME LockInv, NoConflict, [Next]_vars
  PROVE  NoConflict'
<1>1. ASSUME NEW p \in Proc, NEW i \in Inode, NEW r \in GoodRl, NEW free \in Nat, Changes(p, i, r, free)
      PROVE  NoConflict'
  <2>1. (\A j \in Inode \ {i} : list'[j] = list[j]) /\ (Peaceful(list[i]) => Peaceful(list'[i]))
    BY <1>1, ChangesIs DEF LockInv
  <2>2. QED
    BY <2>1, NoConflictIs, NoConflictWillBe
<1>2. CASE list' = list
  BY <1>2, NoConflictIs, NoConflictWillBe
<1>3. CASE \E p \in Proc, i \in Inode, r \in GoodRl : Granted(p, i, r)
  BY <1>1, <1>3 DEF Granted, LockInv
<1>4. CASE \E p \in Proc : Ends(p)
  <2>1. PICK p \in Proc : Ends(p)
    BY <1>4
  <2>2. prl[p] \in [ino : Inode, rl : GoodRl] /\ freerl + 1 \in Nat
    BY <2>1 DEF LockInv, Ends
  <2>3. QED
    BY <1>1, <1>2, <2>1, <2>2 DEF Ends
<1>5. QED
  BY <1>2, <1>3, <1>4, Steps DEF WaitLock, Refused, Defend, Sleeps, Signal, vars

(* Two processes never have locks on a byte of which one is a write lock, for
   any number of processes, files, ranges and lock structures: rlock() with
   its joining and splitting of ranges, also when the structures run out in
   the middle of it. *)
THEOREM NoConflictEver == Spec => []NoConflict
<1>1. Init => NoConflict
  <2>1. ASSUME Init PROVE \A i \in Inode : Peaceful(list[i])
    BY <2>1, RangeOne DEF Init, Peaceful
  <2>2. QED
    BY <2>1, NoConflictIs
<1>2. LockInv /\ NoConflict /\ [Next]_vars => NoConflict'
  BY PeaceStep
<1>3. QED
  BY <1>1, <1>2, LockAlways, PTL DEF Spec

-----------------------------------------------------------------------------
(* Who sleeps for a lock. *)

StrandedAt(p) ==
  /\ st[p] = "asleep"
  /\ Blocking(list[prl[p].ino], prl[p].rl) = {} /\ prl[p].ino \notin deferred

LEMMA StrandedIs == NobodyStranded <=> \A p \in Proc : ~StrandedAt(p)
BY DEF NobodyStranded, StrandedAt

LEMMA StrandedWillBe == NobodyStranded' <=> \A p \in Proc : ~(StrandedAt(p)')
<1>1. (NobodyStranded <=> \A p \in Proc : ~StrandedAt(p))'
  BY StrandedIs, PTL
<1>2. QED
  BY <1>1

(* Nobody is stranded by a step that defers the wakeup of the file it changes
   and puts nobody to sleep. *)
LEMMA StrandedNot ==
  ASSUME LockInv, NobodyStranded, NEW i \in Inode, deferred' = deferred \cup {i},
         \A j \in Inode \ {i} : list'[j] = list[j],
         \A p \in Proc : st'[p] = "asleep" => st[p] = "asleep" /\ prl'[p] = prl[p]
  PROVE  NobodyStranded'
<1> SUFFICES ASSUME NEW p \in Proc, StrandedAt(p)' PROVE FALSE
  BY StrandedWillBe
<1>1. /\ st'[p] = "asleep" /\ Blocking(list'[prl'[p].ino], prl'[p].rl) = {}
      /\ prl'[p].ino \notin deferred'
  BY DEF StrandedAt, Blocking, Meets
<1>2. st[p] = "asleep" /\ prl'[p] = prl[p]
  BY <1>1
<1>3. prl[p] \in [ino : Inode, rl : GoodRl]
  BY <1>2 DEF LockInv
<1>4. prl[p].ino \in Inode \ {i} /\ prl[p].ino \notin deferred
  BY <1>1, <1>2, <1>3
<1>5. Blocking(list[prl[p].ino], prl[p].rl) = {}
  BY <1>1, <1>2, <1>4
<1>6. StrandedAt(p)
  BY <1>2, <1>4, <1>5 DEF StrandedAt
<1>7. QED
  BY <1>6, StrandedIs

LEMMA StrandedStep ==
  ASSUME LockInv, NobodyStranded, [Next]_vars
  PROVE  NobodyStranded'
<1>1. ASSUME NEW p \in Proc, NEW i \in Inode, NEW r \in GoodRl, Granted(p, i, r) PROVE NobodyStranded'
  <2>1. \A j \in Inode \ {i} : list'[j] = list[j]
    BY <1>1, ChangesIs DEF LockInv, Granted
  <2>2. QED
    BY <1>1, <2>1, StrandedNot DEF Granted
<1>2. ASSUME NEW i \in Inode, Refused(i) PROVE NobodyStranded'
  BY <1>2, StrandedNot DEF Refused
<1>3. ASSUME NEW p \in Proc, Ends(p) PROVE NobodyStranded'
  <2>1. PICK i \in Inode : i = prl[p].ino
    BY <1>3 DEF LockInv, Ends
  <2>2. prl[p] \in [ino : Inode, rl : GoodRl] /\ freerl + 1 \in Nat
    BY <1>3 DEF LockInv, Ends
  <2>3. \A j \in Inode \ {i} : list'[j] = list[j]
    <3>1. CASE Changes(p, prl[p].ino, prl[p].rl, freerl + 1)
      BY <2>1, <2>2, <3>1, ChangesIs DEF LockInv
    <3>2. QED
      BY <1>3, <3>1 DEF Ends
  <2>4. \A o \in Proc : st'[o] = "asleep" => st[o] = "asleep" /\ prl'[o] = prl[o]
    BY <1>3 DEF Ends, Cleanup, LockInv
  <2>5. QED
    BY <1>3, <2>1, <2>3, <2>4, StrandedNot DEF Ends, Cleanup
<1>4. ASSUME NEW q \in Proc,
             Sleeps(q) \/ Signal(q) \/ \E i \in Inode, r \in GoodRl : WaitLock(q, i, r)
      PROVE  NobodyStranded'
  <2> SUFFICES ASSUME NEW p \in Proc, StrandedAt(p)' PROVE FALSE
    BY StrandedWillBe
  <2>1. /\ st'[p] = "asleep" /\ Blocking(list'[prl'[p].ino], prl'[p].rl) = {}
        /\ prl'[p].ino \notin deferred'
    BY DEF StrandedAt, Blocking, Meets
  <2>2. list' = list /\ deferred' = deferred
    BY <1>4 DEF Sleeps, Signal, WaitLock
  <2>3. CASE st[p] = "asleep" /\ prl'[p] = prl[p]
    BY <2>1, <2>2, <2>3, StrandedIs DEF StrandedAt
  <2>4. CASE p # q
    BY <1>4, <2>1, <2>3, <2>4 DEF Sleeps, Signal, WaitLock, LockInv
  <2>5. CASE p = q /\ Sleeps(q)
    BY <2>1, <2>2, <2>5 DEF Sleeps
  <2>6. CASE p = q /\ Signal(q)
    BY <2>1, <2>6 DEF Signal, LockInv
  <2>7. CASE p = q /\ \E i \in Inode, r \in GoodRl : WaitLock(q, i, r)
    <3>1. PICK i \in Inode, r \in GoodRl : WaitLock(q, i, r)
      BY <2>7
    <3>2. prl'[q] = [ino |-> i, rl |-> r] /\ Blocking(list[i], r) # {}
      BY <3>1 DEF WaitLock, LockInv
    <3>3. QED
      BY <2>1, <2>2, <2>7, <3>2
  <2>8. QED
    BY <1>4, <2>4, <2>5, <2>6, <2>7
<1>5. ASSUME NEW i \in Inode, Defend(i) PROVE NobodyStranded'
  <2> SUFFICES ASSUME NEW p \in Proc, StrandedAt(p)' PROVE FALSE
    BY StrandedWillBe
  <2>1. /\ st'[p] = "asleep" /\ Blocking(list'[prl'[p].ino], prl'[p].rl) = {}
        /\ prl'[p].ino \notin deferred'
    BY DEF StrandedAt, Blocking, Meets
  <2>2. st[p] = "asleep" /\ prl[p].ino # i /\ prl' = prl /\ list' = list /\ deferred' = deferred \ {i}
    BY <1>5, <2>1 DEF Defend, LockInv
  <2>3. QED
    BY <2>1, <2>2, StrandedIs DEF StrandedAt
<1>6. CASE UNCHANGED vars
  BY <1>6 DEF NobodyStranded, vars
<1>7. QED
  BY <1>1, <1>2, <1>3, <1>4, <1>5, <1>6, Steps

(* Who sleeps for a record lock is kept from it by a lock of somebody's, or a
   wakeup of the file's waiters is on its way: every way a call of rlock()
   ends, and that its locks change, wakes those who wait for that file. *)
THEOREM NobodyStrandedHolds == Spec => []NobodyStranded
<1>1. Init => NobodyStranded
  BY DEF Init, NobodyStranded
<1>2. LockInv /\ NobodyStranded /\ [Next]_vars => NobodyStranded'
  BY StrandedStep
<1>3. QED
  BY <1>1, <1>2, LockAlways, PTL DEF Spec

-----------------------------------------------------------------------------
(* Sums over a finite set. *)

First(s) == CHOOSE x \in s : TRUE

(* The recursion that adds the numbers g[x] up. *)
Sums(g, S, f) ==
  f = [s \in SUBSET S |-> IF s = {} THEN 0 ELSE g[First(s)] + f[s \ {First(s)}]]

LEMMA FirstOf ==
  ASSUME NEW m \in Nat, NEW s, IsFiniteSet(s), Cardinality(s) = m + 1
  PROVE  /\ s # {} /\ First(s) \in s /\ IsFiniteSet(s \ {First(s)})
         /\ Cardinality(s \ {First(s)}) = m
<1>1. s # {}
  BY FS_EmptySet
<1>2. First(s) \in s
  BY <1>1 DEF First
<1>3. QED
  BY <1>1, <1>2, FS_RemoveElement

LEMMA SumExists ==
  ASSUME NEW g, NEW S, IsFiniteSet(S)
  PROVE  \E f : Sums(g, S, f)
<1> DEFINE Value(f, s) == IF s = {} THEN 0 ELSE g[First(s)] + f[s \ {First(s)}]
           Good(m, f) == /\ f = [s \in SUBSET S |-> f[s]]
                         /\ \A s \in SUBSET S : Cardinality(s) <= m => f[s] = Value(f, s)
           T == {m \in Nat : \E f : Good(m, f)}
<1>1. \A s \in SUBSET S : IsFiniteSet(s) /\ Cardinality(s) \in Nat /\ Cardinality(s) <= Cardinality(S)
  BY FS_Subset, FS_CardinalityType
<1>2. 0 \in T
  <2> DEFINE f == [s \in SUBSET S |-> 0]
  <2>1. \A s \in SUBSET S : Cardinality(s) <= 0 => s = {}
    BY <1>1, FS_EmptySet
  <2>2. Good(0, f)
    BY <2>1
  <2>3. QED
    BY <2>2
<1>3. ASSUME NEW m \in Nat, m \in T PROVE m + 1 \in T
  <2>1. PICK f : Good(m, f)
    BY <1>3
  <2> DEFINE h == [s \in SUBSET S |-> IF Cardinality(s) <= m THEN f[s] ELSE Value(f, s)]
  <2>2. ASSUME NEW s \in SUBSET S, Cardinality(s) <= m + 1 PROVE h[s] = Value(h, s)
    <3>1. s = {} \/ (/\ s # {} /\ s \ {First(s)} \in SUBSET S
                     /\ Cardinality(s \ {First(s)}) <= m)
      <4>1. CASE s # {}
        <5>1. First(s) \in s
          BY <4>1 DEF First
        <5>2. Cardinality(s \ {First(s)}) = Cardinality(s) - 1
          BY <1>1, <5>1, FS_RemoveElement
        <5>3. QED
          BY <1>1, <2>2, <4>1, <5>2
      <4>2. QED
        BY <4>1
    <3>2. h[s] = Value(f, s)
      BY <2>1
    <3>3. s # {} => h[s \ {First(s)}] = f[s \ {First(s)}]
      BY <3>1
    <3> HIDE DEF h
    <3>4. QED
      BY <3>2, <3>3
  <2>3. h = [s \in SUBSET S |-> h[s]]
    OBVIOUS
  <2> HIDE DEF h, Value
  <2>4. Good(m + 1, h)
    BY <2>2, <2>3
  <2> HIDE DEF Good
  <2>5. QED
    BY <2>4
<1>4. PICK m \in Nat : m = Cardinality(S)
  BY FS_CardinalityType
<1>5. m \in T
  <2> HIDE DEF T
  <2>1. QED
    BY <1>2, <1>3, Induction
<1>6. PICK f : Good(m, f)
  BY <1>5
<1>7. \A s \in SUBSET S : f[s] = Value(f, s)
  <2> HIDE DEF Value
  <2>1. QED
    BY <1>1, <1>4, <1>6
<1>8. Sums(g, S, f)
  BY <1>6, <1>7 DEF Sums
<1>9. QED
  BY <1>8

(* Where one number changes, the sum changes by as much. *)
OneChanges(S, g, h, i) ==
  /\ g \in [S -> Nat] /\ h \in [S -> Nat] /\ i \in S
  /\ \A x \in S \ {i} : h[x] = g[x]

LEMMA SumChanges ==
  ASSUME NEW S, IsFiniteSet(S), NEW g, NEW h, NEW i, OneChanges(S, g, h, i),
         NEW f, Sums(g, S, f), NEW k, Sums(h, S, k)
  PROVE  f[S] \in Nat /\ k[S] \in Nat /\ f[S] + h[i] = k[S] + g[i]
<1> DEFINE Fine(s) == /\ f[s] \in Nat /\ k[s] \in Nat
                      /\ i \in s => f[s] + h[i] = k[s] + g[i]
                      /\ i \notin s => f[s] = k[s]
           T == {m \in Nat : \A s \in SUBSET S : Cardinality(s) = m => Fine(s)}
<1>1. \A s \in SUBSET S : IsFiniteSet(s) /\ Cardinality(s) \in Nat
  BY FS_Subset, FS_CardinalityType
<1>2. 0 \in T
  <2>1. \A s \in SUBSET S : Cardinality(s) = 0 => s = {}
    BY <1>1, FS_EmptySet
  <2>2. f[{}] = 0 /\ k[{}] = 0
    BY DEF Sums
  <2>3. QED
    BY <2>1, <2>2
<1>3. ASSUME NEW m \in Nat, m \in T PROVE m + 1 \in T
  <2> SUFFICES ASSUME NEW s \in SUBSET S, Cardinality(s) = m + 1 PROVE Fine(s)
    OBVIOUS
  <2>1. PICK x, d : x = First(s) /\ d = s \ {x}
    OBVIOUS
  <2>2. s # {} /\ x \in s /\ d \in SUBSET S /\ Cardinality(d) = m
    BY <1>1, <2>1, FirstOf
  <2>3. Fine(d)
    BY <1>3, <2>2
  <2>4. f[s] = g[x] + f[d] /\ k[s] = h[x] + k[d]
    BY <2>1, <2>2 DEF Sums
  <2>5. g[x] \in Nat /\ h[x] \in Nat /\ (x # i => h[x] = g[x])
    BY <2>2 DEF OneChanges
  <2>6. CASE x = i
    <3>1. i \notin d /\ i \in s
      BY <2>1, <2>2, <2>6
    <3>2. f[d] = k[d] /\ f[d] \in Nat
      BY <2>3, <3>1
    <3>3. QED
      BY <2>4, <2>5, <2>6, <3>1, <3>2
  <2>7. CASE x # i
    <3>1. i \in d <=> i \in s
      BY <2>1, <2>7
    <3>2. h[x] = g[x]
      BY <2>5, <2>7
    <3>3. h[i] \in Nat /\ g[i] \in Nat
      BY DEF OneChanges
    <3>4. QED
      BY <2>3, <2>4, <2>5, <3>1, <3>2, <3>3
  <2>8. QED
    BY <2>6, <2>7
<1>4. PICK m \in Nat : m = Cardinality(S)
  BY FS_CardinalityType
<1>5. m \in T
  <2> HIDE DEF T
  <2>1. QED
    BY <1>2, <1>3, Induction
<1>6. Fine(S) /\ i \in S
  BY <1>4, <1>5 DEF OneChanges
<1>7. QED
  BY <1>6

-----------------------------------------------------------------------------
(* The structures. *)

Lengths == [i \in Inode |-> Len(list[i])]
Total == MapThenSumSet(LAMBDA i : Len(list[i]), Inode)
Waiters == {p \in Proc : prl[p] # NoRl}

LEMMA TotalIs == \E f : Sums(Lengths, Inode, f) /\ Total = f[Inode]
<1> DEFINE Rec(f) == f = [s \in SUBSET Inode |->
                            IF s = {} THEN 0
                            ELSE Len(list[CHOOSE x \in s : TRUE]) + f[s \ {CHOOSE x \in s : TRUE}]]
<1>1. \A s \in SUBSET Inode : s # {} => (CHOOSE x \in s : TRUE) \in Inode
  OBVIOUS
<1>2. \A f : Rec(f) <=> Sums(Lengths, Inode, f)
  BY <1>1 DEF Sums, First, Lengths
<1>3. Total = (CHOOSE f : Rec(f))[Inode]
  BY DEF Total, MapThenSumSet, MapThenFoldSet
<1> HIDE DEF Rec
<1>4. \E f : Rec(f)
  BY <1>2, SumExists, Names
<1>5. PICK f : Rec(f) /\ Total = f[Inode]
  BY <1>3, <1>4
<1>6. QED
  BY <1>2, <1>5

LEMMA TotalWillBe == \E f : Sums([i \in Inode |-> Len(list'[i])], Inode, f) /\ Total' = f[Inode]
<1>1. (\E f : Sums(Lengths, Inode, f) /\ Total = f[Inode])'
  BY TotalIs, PTL
<1>2. QED
  BY <1>1 DEF Lengths, Sums, First

LEMMA SumOfNone ==
  ASSUME NEW S, IsFiniteSet(S), NEW g, \A x \in S : g[x] = 0, NEW f, Sums(g, S, f)
  PROVE  f[S] = 0
<1> DEFINE T == {m \in Nat : \A s \in SUBSET S : Cardinality(s) = m => f[s] = 0}
<1>1. \A s \in SUBSET S : IsFiniteSet(s) /\ Cardinality(s) \in Nat
  BY FS_Subset, FS_CardinalityType
<1>2. 0 \in T
  <2>1. \A s \in SUBSET S : Cardinality(s) = 0 => s = {}
    BY <1>1, FS_EmptySet
  <2>2. f[{}] = 0
    BY DEF Sums
  <2>3. QED
    BY <2>1, <2>2
<1>3. ASSUME NEW m \in Nat, m \in T PROVE m + 1 \in T
  <2> SUFFICES ASSUME NEW s \in SUBSET S, Cardinality(s) = m + 1 PROVE f[s] = 0
    OBVIOUS
  <2>1. PICK x, d : x = First(s) /\ d = s \ {x}
    OBVIOUS
  <2>2. s # {} /\ x \in s /\ d \in SUBSET S /\ Cardinality(d) = m
    BY <1>1, <2>1, FirstOf
  <2>3. f[d] = 0 /\ g[x] = 0
    BY <1>3, <2>2
  <2>4. f[s] = g[x] + f[d]
    BY <2>1, <2>2 DEF Sums
  <2>5. QED
    BY <2>3, <2>4
<1>4. PICK m \in Nat : m = Cardinality(S)
  BY FS_CardinalityType
<1>5. m \in T
  <2> HIDE DEF T
  <2>1. QED
    BY <1>2, <1>3, Induction
<1>6. QED
  BY <1>4, <1>5

LEMMA TotalChanges ==
  ASSUME list \in [Inode -> Seq(GoodRl)], list' \in [Inode -> Seq(GoodRl)],
         NEW i \in Inode, \A j \in Inode \ {i} : list'[j] = list[j]
  PROVE  Total \in Nat /\ Total' \in Nat /\ Total + Len(list'[i]) = Total' + Len(list[i])
<1>1. PICK g, h : g = [j \in Inode |-> Len(list[j])] /\ h = [j \in Inode |-> Len(list'[j])]
  OBVIOUS
<1>2. OneChanges(Inode, g, h, i)
  BY <1>1 DEF OneChanges
<1>3. PICK f : Sums(g, Inode, f) /\ Total = f[Inode]
  BY <1>1, TotalIs DEF Lengths
<1>4. PICK k : Sums(h, Inode, k) /\ Total' = k[Inode]
  BY <1>1, TotalWillBe
<1>5. f[Inode] \in Nat /\ k[Inode] \in Nat /\ f[Inode] + h[i] = k[Inode] + g[i]
  BY <1>2, <1>3, <1>4, Names, SumChanges
<1>6. QED
  BY <1>1, <1>3, <1>4, <1>5

LEMMA TotalNat ==
  ASSUME list \in [Inode -> Seq(GoodRl)]
  PROVE  Total \in Nat /\ (list' = list => Total' = Total)
<1>1. list' = list => Total' = Total
  BY DEF Total, MapThenSumSet, MapThenFoldSet
<1>2. PICK f : Sums(Lengths, Inode, f) /\ Total = f[Inode]
  BY TotalIs
<1>3. CASE Inode = {}
  <2>1. f[{}] = 0
    BY <1>2 DEF Sums
  <2>2. QED
    BY <1>1, <1>2, <1>3, <2>1
<1>4. CASE Inode # {}
  <2>1. PICK g : g = Lengths
    OBVIOUS
  <2>2. Sums(g, Inode, f) /\ \A i \in Inode : OneChanges(Inode, g, g, i)
    BY <1>2, <2>1 DEF Lengths, OneChanges
  <2>3. f[Inode] \in Nat
    BY <1>4, <2>2, Names, SumChanges
  <2>4. QED
    BY <1>1, <1>2, <2>3
<1>5. QED
  BY <1>1, <1>3, <1>4

LEMMA Balance ==
  ASSUME NEW free \in Nat, NEW left \in Nat, NEW a \in Nat, NEW b \in Nat,
         NEW t \in Nat, NEW u \in Nat, left + b = free + a, t + b = u + a
  PROVE  left + u = free + t
OBVIOUS

LEMMA WaitersFinite == IsFiniteSet(Waiters) /\ Cardinality(Waiters) \in Nat
BY Names, FS_Subset, FS_CardinalityType DEF Waiters

PoolInv == freerl + Total + Cardinality(Waiters) = RLOCKS

LEMMA PoolIs == PoolOK <=> PoolInv
BY DEF PoolOK, PoolInv, Total, Waiters

LEMMA PoolStep ==
  ASSUME LockInv, PoolInv, [Next]_vars
  PROVE  PoolInv'
<1>1. ASSUME NEW p \in Proc, NEW i \in Inode, NEW r \in GoodRl, Granted(p, i, r) PROVE PoolInv'
  <2>1. /\ list' \in [Inode -> Seq(GoodRl)] /\ freerl' \in Nat
        /\ \A j \in Inode \ {i} : list'[j] = list[j]
        /\ freerl' + Len(list'[i]) = freerl + Len(list[i])
    BY <1>1, ChangesIs DEF LockInv, Granted
  <2>2. Total \in Nat /\ Total' \in Nat /\ Total + Len(list'[i]) = Total' + Len(list[i])
    BY <2>1, TotalChanges DEF LockInv
  <2>3. Waiters' = Waiters
    BY <1>1 DEF Granted, Waiters
  <2>4. freerl \in Nat /\ Len(list[i]) \in Nat /\ Len(list'[i]) \in Nat
    BY <2>1 DEF LockInv
  <2>5. freerl' + Total' = freerl + Total
    <3>1. PICK a, b, t, u : a = Len(list[i]) /\ b = Len(list'[i]) /\ t = Total /\ u = Total'
      OBVIOUS
    <3>2. a \in Nat /\ b \in Nat /\ t \in Nat /\ u \in Nat /\ t + b = u + a
      BY <2>2, <2>4, <3>1
    <3>3. freerl' + b = freerl + a
      BY <2>1, <3>1
    <3>4. freerl' + u = freerl + t
      <4>1. PICK x \in Nat, y \in Nat : x = freerl /\ y = freerl'
        BY <2>1, <2>4
      <4>2. y + b = x + a
        BY <3>3, <4>1
      <4>3. y + u = x + t
        BY <3>2, <4>2
      <4>4. QED
        BY <4>1, <4>3
    <3>5. QED
      BY <3>1, <3>4
  <2>6. QED
    BY <2>3, <2>5 DEF PoolInv
<1>2. ASSUME NEW p \in Proc, NEW i \in Inode, NEW r \in GoodRl, r \in Requests(p), WaitLock(p, i, r)
      PROVE  PoolInv'
  <2>1. Total \in Nat /\ Total' = Total
    BY <1>2, TotalNat DEF LockInv, WaitLock
  <2>2. [ino |-> i, rl |-> r] # NoRl
    <3>1. [ino |-> i, rl |-> r] \in [ino : Inode, rl : RLOCK]
      BY DEF GoodRl
    <3>2. QED
      BY <3>1, Names
  <2>3. p \notin Waiters /\ Waiters' = Waiters \cup {p}
    BY <1>2, <2>2 DEF Waiters, WaitLock, LockInv
  <2>4. Cardinality(Waiters') = Cardinality(Waiters) + 1
    BY <2>3, WaitersFinite, FS_AddElement
  <2>5. freerl' = freerl - 1 /\ freerl \in Nat
    BY <1>2 DEF WaitLock, LockInv
  <2>6. QED
    BY <2>1, <2>4, <2>5, WaitersFinite DEF PoolInv
<1>3. ASSUME NEW p \in Proc, Ends(p) PROVE PoolInv'
  <2>1. PICK i \in Inode, r \in GoodRl : prl[p] = [ino |-> i, rl |-> r]
    BY <1>3 DEF LockInv, Ends
  <2>2. freerl \in Nat /\ freerl + 1 \in Nat
    BY DEF LockInv
  <2>3. p \in Waiters /\ Waiters' = Waiters \ {p}
    BY <1>3 DEF Waiters, Ends, Cleanup, LockInv
  <2>4. Cardinality(Waiters') = Cardinality(Waiters) - 1
    BY <2>3, WaitersFinite, FS_RemoveElement
  <2>5. CASE Changes(p, prl[p].ino, prl[p].rl, freerl + 1)
    <3>1. /\ list' \in [Inode -> Seq(GoodRl)] /\ freerl' \in Nat
          /\ \A j \in Inode \ {i} : list'[j] = list[j]
          /\ freerl' + Len(list'[i]) = (freerl + 1) + Len(list[i])
      <4>1. Changes(p, i, r, freerl + 1)
        BY <2>1, <2>5
      <4>2. QED
        BY <2>2, <4>1, ChangesIs DEF LockInv
    <3>2. Total \in Nat /\ Total' \in Nat /\ Total + Len(list'[i]) = Total' + Len(list[i])
      BY <3>1, TotalChanges DEF LockInv
    <3>3. Len(list[i]) \in Nat /\ Len(list'[i]) \in Nat
      BY <3>1 DEF LockInv
    <3>4. freerl' + Total' = (freerl + 1) + Total
      <4>1. PICK a, b, t, u : a = Len(list[i]) /\ b = Len(list'[i]) /\ t = Total /\ u = Total'
        OBVIOUS
      <4>2. a \in Nat /\ b \in Nat /\ t \in Nat /\ u \in Nat /\ t + b = u + a
        BY <3>2, <3>3, <4>1
      <4>3. freerl' + b = (freerl + 1) + a
        BY <3>1, <4>1
      <4>4. freerl' + u = (freerl + 1) + t
        <5>1. freerl' \in Nat /\ freerl + 1 \in Nat
          BY <2>2, <3>1
        <5>2. QED
          BY <4>2, <4>3, <5>1, Balance
      <4>5. QED
        BY <4>1, <4>4
    <3>5. Cardinality(Waiters) \in Nat /\ (freerl + Total) + Cardinality(Waiters) = RLOCKS
      BY WaitersFinite DEF PoolInv
    <3>6. (freerl' + Total') + Cardinality(Waiters') = RLOCKS
      BY <2>2, <2>4, <3>2, <3>4, <3>5
    <3>7. QED
      BY <3>6 DEF PoolInv
  <2>6. CASE freerl' = freerl + 1 /\ list' = list
    <3>1. Total \in Nat /\ Total' = Total
      BY <2>6, TotalNat DEF LockInv
    <3>2. QED
      BY <2>2, <2>4, <2>6, <3>1, WaitersFinite DEF PoolInv
  <2>7. QED
    BY <1>3, <2>5, <2>6 DEF Ends
<1>4. ASSUME list' = list, freerl' = freerl, prl' = prl PROVE PoolInv'
  <2>1. Total' = Total
    BY <1>4, TotalNat DEF LockInv
  <2>2. QED
    BY <1>4, <2>1 DEF PoolInv, Waiters
<1>5. QED
  BY <1>1, <1>2, <1>3, <1>4, Steps DEF Refused, Defend, Sleeps, Signal, vars

(* Every lock structure is on the free list, on one file's list, or the
   request of one process that waits: none is lost and none is in two places,
   whichever way rlock() ends and whatever its ranges join or split. *)
THEOREM PoolKept == Spec => []PoolOK
<1>1. Init => PoolInv
  <2> SUFFICES ASSUME Init PROVE PoolInv
    OBVIOUS
  <2>1. PICK f : Sums(Lengths, Inode, f) /\ Total = f[Inode]
    BY TotalIs
  <2>2. \A i \in Inode : Lengths[i] = 0
    BY DEF Lengths, Init
  <2>3. Total = 0
    BY <2>1, <2>2, SumOfNone, Names
  <2>4. Waiters = {}
    BY DEF Waiters, Init
  <2>5. QED
    BY <2>3, <2>4, FS_EmptySet, Names DEF PoolInv, Init
<1>2. LockInv /\ PoolInv /\ [Next]_vars => PoolInv'
  BY PoolStep
<1>3. QED
  BY <1>1, <1>2, LockAlways, PoolIs, PTL DEF Spec

(* The locks on a file's list are well formed, ranges in order and owned by a
   process; a process has a request where it waits, and nowhere else; and the
   free list never has more structures than there are. *)
THEOREM TypesKept == Spec => []TypeOK
<1>1. LockInv /\ PoolOK => TypeOK
  <2> SUFFICES ASSUME LockInv, PoolOK PROVE TypeOK
    OBVIOUS
  <2>1. freerl \in 0..RLOCKS
    <3>1. Total \in Nat
      BY TotalNat DEF LockInv
    <3>2. QED
      BY <3>1, PoolIs, WaitersFinite, Names DEF PoolInv, LockInv
  <2>2. \A l \in Seq(GoodRl) : l \in Seq(RLOCK)
    BY DEF GoodRl
  <2>3. QED
    BY <2>1, <2>2 DEF LockInv, TypeOK, GoodRl
<1>2. QED
  BY <1>1, LockAlways, PoolKept, PTL

-----------------------------------------------------------------------------
(* The bytes that are locked. *)

(* What processes ask for while they wait is what they asked for. *)
AskedInv == \A p \in Proc : prl[p] # NoRl => prl[p].rl \in Requests(p)

LEMMA AskedStep ==
  ASSUME LockInv, AskedInv, [Next]_vars
  PROVE  AskedInv'
<1>1. ASSUME NEW p \in Proc, NEW i \in Inode, NEW r \in GoodRl, r \in Requests(p), WaitLock(p, i, r)
      PROVE  AskedInv'
  <2>1. prl' = [prl EXCEPT ![p] = [ino |-> i, rl |-> r]]
    BY <1>1 DEF WaitLock
  <2>2. [ino |-> i, rl |-> r].rl = r
    OBVIOUS
  <2>3. QED
    BY <1>1, <2>1, <2>2 DEF LockInv, AskedInv, Requests
<1>2. ASSUME \A p \in Proc : prl'[p] = prl[p] \/ prl'[p] = NoRl PROVE AskedInv'
  BY <1>2 DEF AskedInv, Requests
<1>3. CASE \E p \in Proc : Ends(p)
  BY <1>2, <1>3 DEF Ends, Cleanup, LockInv
<1>4. QED
  BY <1>1, <1>2, <1>3, Steps DEF Granted, Refused, Defend, Sleeps, Signal, vars

Holds(l, p, b) == {t \in Types : Has(l, p, t, b)}

LEMMA HeldIs ==
  list \in [Inode -> Seq(GoodRl)] =>
    Held = [i \in Inode |-> [p \in Proc |-> [b \in Byte |-> Holds(list[i], p, b)]]]
<1> SUFFICES ASSUME list \in [Inode -> Seq(GoodRl)]
             PROVE  Held = [i \in Inode |-> [p \in Proc |-> [b \in Byte |-> Holds(list[i], p, b)]]]
  OBVIOUS
<1>1. ASSUME NEW i \in Inode, NEW p \in Proc, NEW b \in Byte
      PROVE  {e.type : e \in {x \in Range(list[i]) :
                                x.proc = p /\ x.start <= b /\ b <= x.end}} = Holds(list[i], p, b)
  <2>1. \A e \in Range(list[i]) : e.type \in Types
    <3>1. list[i] \in Seq(GoodRl)
      OBVIOUS
    <3>2. \A e \in Range(list[i]) : e \in GoodRl
      BY <3>1 DEF Range
    <3>3. QED
      BY <3>2 DEF GoodRl, RLOCK
  <2>2. QED
    BY <2>1 DEF Holds, Has, Covers
<1>2. QED
  BY <1>1 DEF Held

LEMMA HeldWillBe ==
  list' \in [Inode -> Seq(GoodRl)] =>
    Held' = [i \in Inode |-> [p \in Proc |-> [b \in Byte |-> Holds(list'[i], p, b)]]]
<1>1. (list \in [Inode -> Seq(GoodRl)] =>
         Held = [i \in Inode |-> [p \in Proc |-> [b \in Byte |-> Holds(list[i], p, b)]]])'
  BY HeldIs, PTL
<1>2. QED
  BY <1>1 DEF Holds, Has, Covers

(* What all the calls do: the locks of others stay. *)
LEMMA OthersKept ==
  ASSUME list \in [Inode -> Seq(GoodRl)], list' \in [Inode -> Seq(GoodRl)],
         NEW p \in Proc, NEW i \in Inode,
         \A j \in Inode \ {i} : list'[j] = list[j],
         \A e : e.proc # p => (e \in Range(list'[i]) <=> e \in Range(list[i]))
  PROVE  Promise!OthersKeep(p, i)
<1>1. ASSUME NEW j \in Inode, NEW q \in Proc, <<j, q>> # <<i, p>>
      PROVE  Held'[j][q] = Held[j][q]
  <2>1. \A b \in Byte : Holds(list'[j], q, b) = Holds(list[j], q, b)
    <3>1. CASE j # i
      BY <3>1
    <3>2. CASE j = i
      <4>1. q # p
        BY <1>1, <3>2
      <4>2. \A t, b : Has(list'[j], q, t, b) <=> Has(list[j], q, t, b)
        BY <3>2, <4>1 DEF Has
      <4>3. QED
        BY <4>2 DEF Holds
    <3>3. QED
      BY <3>1, <3>2
  <2>2. QED
    BY <2>1, HeldIs, HeldWillBe
<1>2. QED
  BY <1>1 DEF Promise!OthersKeep

RangeOf(r) == (r.start..r.end) \cap Byte

LEMMA RangeIs ==
  ASSUME NEW r \in GoodRl
  PROVE  \A b \in Byte : b \in RangeOf(r) <=> Covers(r, b)
BY Names DEF RangeOf, Covers, Byte, GoodRl, RLOCK

LEMMA ByteIs == Byte \subseteq Nat
BY Names DEF Byte

LEMMA ReleaseIs ==
  ASSUME list \in [Inode -> Seq(GoodRl)], NEW p \in Proc, NEW i \in Inode, NEW r \in GoodRl,
         r.proc = p, NEW free \in Nat, Install(i, RemLock(free, list[i], r))
  PROVE  Promise!Release(p, i, RangeOf(r))
<1>1. PICK l \in Seq(GoodRl) : l = list[i]
  OBVIOUS
<1>2. PICK s : s = RemLock(free, l, r)
  OBVIOUS
<1>3. Removed(r, l, free, s)
  BY <1>2, RemLockDoes
<1>4. list' = [list EXCEPT ![i] = s.q] /\ freerl' = s.free
  BY <1>1, <1>2 DEF Install
<1>5. s.q \in Seq(GoodRl) /\ \A e : e.proc # p => (e \in Range(s.q) <=> e \in Range(l))
  BY <1>3 DEF Removed, Conserves
<1>6. list' \in [Inode -> Seq(GoodRl)]
  BY <1>4, <1>5
<1>7. Promise!OthersKeep(p, i)
  BY <1>1, <1>4, <1>5, <1>6, OthersKept
<1>8. \A b \in Byte : Held[i][p][b] = Holds(l, p, b) /\ Held'[i][p][b] = Holds(s.q, p, b)
  BY <1>1, <1>4, <1>6, HeldIs, HeldWillBe
<1>9. ASSUME NEW b \in RangeOf(r)
      PROVE  Held'[i][p][b] = {} \/ (freerl' = 0 /\ Held'[i][p][b] \subseteq Held[i][p][b])
  <2>1. b \in Byte /\ b \in Nat /\ Covers(r, b)
    BY RangeIs, ByteIs DEF RangeOf
  <2>2. CASE s.ok
    BY <1>3, <1>8, <2>1, <2>2 DEF Removed, Holds
  <2>3. CASE ~s.ok
    BY <1>3, <1>4, <1>8, <2>1, <2>3 DEF Removed, Holds
  <2>4. QED
    BY <2>2, <2>3
<1>10. ASSUME NEW b \in Byte \ RangeOf(r) PROVE Held'[i][p][b] = Held[i][p][b]
  <2>1. b \in Byte /\ b \in Nat /\ ~Covers(r, b)
    BY RangeIs, ByteIs
  <2>2. QED
    BY <1>3, <1>8, <2>1 DEF Removed, Holds
<1>11. QED
  BY <1>7, <1>9, <1>10 DEF Promise!Release

LEMMA GrantIs ==
  ASSUME list \in [Inode -> Seq(GoodRl)], NEW p \in Proc, NEW i \in Inode, NEW r \in GoodRl,
         r.proc = p, NEW free \in Nat, Blocking(list[i], r) = {},
         Install(i, AddLock(free, list[i], r))
  PROVE  Held' = Held \/ Promise!Grant(p, i, r.type, RangeOf(r))
<1>1. PICK l \in Seq(GoodRl) : l = list[i]
  OBVIOUS
<1>2. PICK a : a = AddLock(free, l, r)
  OBVIOUS
<1>3. list' = [list EXCEPT ![i] = a.q] /\ freerl' = a.free
  BY <1>1, <1>2 DEF Install
<1>4. /\ Conserves(r, l, free, a.q, a.free)
      /\ \/ a.q = l /\ a.free = free
         \/ /\ \A t : \A b \in Nat : Has(a.q, p, t, b) =>
                 Has(l, p, t, b) \/ (t = r.type /\ Covers(r, b))
            /\ \A b \in Nat : Covers(r, b) => Has(a.q, p, r.type, b)
            /\ \A t : \A b \in Nat : t # r.type /\ Covers(r, b) /\ Has(a.q, p, t, b) => a.free = 0
            /\ \A t : \A b \in Nat : Has(l, p, t, b) =>
                 \/ Has(a.q, p, t, b)
                 \/ /\ Covers(r, b) \/ Has(l, p, r.type, b)
                    /\ Has(a.q, p, r.type, b)
  BY <1>2, AddLockDoes
<1>5. a.q \in Seq(GoodRl) /\ \A e : e.proc # p => (e \in Range(a.q) <=> e \in Range(l))
  BY <1>4 DEF Conserves
<1>6. list' \in [Inode -> Seq(GoodRl)]
  BY <1>3, <1>5
<1>7. CASE a.q = l
  <2>1. list' = list
    BY <1>1, <1>3, <1>7
  <2>2. QED
    BY <2>1 DEF Held
<1>8. CASE a.q # l
  <2>1. Promise!OthersKeep(p, i)
    BY <1>1, <1>3, <1>5, <1>6, OthersKept
  <2>2. \A b \in Byte : Held[i][p][b] = Holds(l, p, b) /\ Held'[i][p][b] = Holds(a.q, p, b)
    BY <1>1, <1>3, <1>6, HeldIs, HeldWillBe
  <2>3. r.type \in Types
    BY DEF GoodRl, RLOCK
  <2>4. ASSUME NEW b \in RangeOf(r) PROVE Promise!Compatible(p, i, r.type, b)
    <3>1. b \in Byte /\ Covers(r, b)
      BY RangeIs DEF RangeOf
    <3>2. \A e \in Range(l) : e \in GoodRl
      BY DEF Range
    <3>3. ASSUME NEW q \in Proc \ {p}, NEW t \in Types, Has(l, q, t, b)
          PROVE  r.type = "read" /\ t = "read"
      <4>1. PICK e \in Range(l) : e.proc = q /\ e.type = t /\ Covers(e, b)
        BY <3>3 DEF Has
      <4>2. Meets(e, r)
        BY <3>1, <3>2, <4>1, ByteIs, Names DEF Covers, Meets, GoodRl, RLOCK
      <4>3. ~(t = "write" \/ r.type = "write")
        BY <1>1, <4>1, <4>2 DEF Blocking
      <4>4. QED
        BY <2>3, <4>3 DEF Types
    <3>4. \A q \in Proc : Held[i][q][b] = Holds(l, q, b)
      BY <1>1, <3>1, HeldIs
    <3>5. ASSUME NEW q \in Proc \ {p}
          PROVE  Held[i][q][b] = {} \/ (r.type = "read" /\ Held[i][q][b] = {"read"})
      BY <3>3, <3>4 DEF Holds
    <3>6. QED
      BY <3>5 DEF Promise!Compatible
  <2>5. ASSUME NEW b \in RangeOf(r)
        PROVE  \/ Held'[i][p][b] = {r.type}
               \/ freerl' = 0 /\ Held'[i][p][b] = Held[i][p][b] \cup {r.type}
    <3>1. b \in Byte /\ b \in Nat /\ Covers(r, b)
      BY RangeIs, ByteIs DEF RangeOf
    <3>2. PICK h, k : h = Holds(l, p, b) /\ k = Holds(a.q, p, b)
      OBVIOUS
    <3>3. r.type \in k /\ k \subseteq h \cup {r.type}
      BY <1>4, <1>8, <2>3, <3>1, <3>2 DEF Holds
    <3>4. (\E t \in k : t # r.type) => freerl' = 0
      BY <1>3, <1>4, <1>8, <3>1, <3>2 DEF Holds
    <3>5. h \subseteq Types /\ \A t, u \in Types : t # r.type /\ u # r.type => t = u
      BY <2>3, <3>2 DEF Holds, Types
    <3>6. k = {r.type} \/ (freerl' = 0 /\ k = h \cup {r.type})
      BY <3>3, <3>4, <3>5
    <3>7. QED
      BY <2>2, <3>1, <3>2, <3>6
  <2>6. ASSUME NEW b \in Byte \ RangeOf(r)
        PROVE  \/ Held'[i][p][b] = Held[i][p][b]
               \/ Held[i][p][b] = Types /\ Held'[i][p][b] # {}
    <3>1. b \in Byte /\ b \in Nat /\ ~Covers(r, b)
      BY RangeIs, ByteIs
    <3>2. PICK h, k : h = Holds(l, p, b) /\ k = Holds(a.q, p, b)
      OBVIOUS
    <3>3. k \subseteq h
      BY <1>4, <1>8, <3>1, <3>2 DEF Holds
    <3>4. ASSUME NEW t \in h, t \notin k PROVE r.type \in h /\ r.type \in k
      BY <1>4, <1>8, <2>3, <3>1, <3>2, <3>4 DEF Holds
    <3>5. h \subseteq Types /\ \A t \in Types : t # r.type => Types = {t, r.type}
      BY <2>3, <3>2 DEF Holds, Types
    <3>6. k = h \/ (h = Types /\ k # {})
      BY <3>3, <3>4, <3>5
    <3>7. QED
      BY <2>2, <3>1, <3>2, <3>6
  <2>7. Promise!Types = Types
    BY DEF Promise!Types, Types
  <2>8. QED
    BY <2>1, <2>4, <2>5, <2>6, <2>7 DEF Promise!Grant
<1>9. QED
  BY <1>7, <1>8

LEMMA AskedRange ==
  ASSUME NEW p \in Proc, NEW r \in Requests(p)
  PROVE  RangeOf(r) \in {(a.start..a.end) \cap Byte : a \in UNION {Asked[q] : q \in Proc}}
<1>1. PICK a \in Asked[p] : r = [proc |-> p, type |-> a.type, start |-> a.start, end |-> a.end]
  BY DEF Requests
<1>2. a \in UNION {Asked[q] : q \in Proc} /\ RangeOf(r) = (a.start..a.end) \cap Byte
  BY <1>1 DEF RangeOf
<1>3. QED
  BY <1>2

(* A change of a list is a step of the promise. *)
LEMMA ChangesPromised ==
  ASSUME list \in [Inode -> Seq(GoodRl)], NEW p \in Proc, NEW i \in Inode, NEW r \in GoodRl,
         r \in Requests(p), NEW free \in Nat, Changes(p, i, r, free)
  PROVE  Promise!Next
<1>1. PICK R : /\ R = RangeOf(r)
               /\ R \in {(a.start..a.end) \cap Byte : a \in UNION {Asked[q] : q \in Proc}}
  BY AskedRange
<1>2. r.proc = p /\ r.type \in Promise!Types
  BY DEF Changes, GoodRl, RLOCK, Types, Promise!Types
<1>3. CASE Install(i, RemLock(free, list[i], r))
  BY <1>1, <1>2, <1>3, ReleaseIs DEF Promise!Next
<1>4. CASE Blocking(list[i], r) = {} /\ Install(i, AddLock(free, list[i], r))
  <2>1. Held' = Held \/ Promise!Grant(p, i, r.type, RangeOf(r))
    BY <1>2, <1>4, GrantIs
  <2>2. QED
    BY <1>1, <1>2, <2>1 DEF Promise!Next, Promise!Pool
<1>5. QED
  BY <1>3, <1>4 DEF Changes

LEMMA PromiseStep ==
  ASSUME LockInv, AskedInv, [Next]_vars
  PROVE  [Promise!Next]_<<Held, freerl = 0>>
<1>1. CASE list' = list
  BY <1>1 DEF Promise!Next, Promise!Pool, Held
<1>2. CASE \E p \in Proc, i \in Inode, r \in GoodRl : r \in Requests(p) /\ Granted(p, i, r)
  BY <1>2, ChangesPromised DEF Granted, LockInv
<1>3. CASE \E p \in Proc : Ends(p)
  <2>1. PICK p \in Proc : Ends(p)
    BY <1>3
  <2>2. PICK i \in Inode, r \in GoodRl : i = prl[p].ino /\ r = prl[p].rl
    BY <2>1 DEF LockInv, Ends
  <2>3. r \in Requests(p) /\ freerl + 1 \in Nat
    BY <2>1, <2>2 DEF AskedInv, Ends, LockInv
  <2>4. Changes(p, i, r, freerl + 1) \/ list' = list
    BY <2>1, <2>2 DEF Ends
  <2>5. QED
    BY <1>1, <2>3, <2>4, ChangesPromised DEF LockInv
<1>4. QED
  BY <1>1, <1>2, <1>3, Steps DEF WaitLock, Refused, Defend, Sleeps, Signal, vars

(* Byte by byte, rlock() gives what record locks promise: its lists of ranges,
   which it splits and joins while it walks them, are one set of bytes for
   each process and type of lock, a grant is compatible with the locks of
   others, and a call changes the caller's locks alone and only where it
   asked, save for what the pool of structures is too full for. *)
THEOREM LocksAreRangeLocks == Spec => ImplementsRangeLocks
<1>1. Init => AskedInv
  BY DEF Init, AskedInv
<1>2. LockInv /\ AskedInv /\ [Next]_vars => AskedInv'
  BY AskedStep
<1>3. Init => Promise!Init
  <2> SUFFICES ASSUME Init PROVE Promise!Init
    OBVIOUS
  <2>1. \A i \in Inode : list[i] = <<>> /\ <<>> \in Seq(GoodRl) /\ Range(<<>>) = {}
    BY RangeOne DEF Init
  <2>2. list \in [Inode -> Seq(GoodRl)]
    BY LockInit DEF LockInv
  <2>3. \A i \in Inode, p \in Proc, b \in Byte : Holds(list[i], p, b) = {}
    BY <2>1 DEF Holds, Has
  <2>4. QED
    BY <2>2, <2>3, HeldIs DEF Promise!Init
<1>4. LockInv /\ AskedInv /\ [Next]_vars => [Promise!Next]_<<Held, freerl = 0>>
  BY PromiseStep
<1>5. QED
  BY <1>1, <1>2, <1>3, <1>4, LockAlways, PTL DEF Spec, ImplementsRangeLocks, Promise!Spec

-----------------------------------------------------------------------------
(* The recursion of waiting(), which is the transitive closure of who waits
   for whom. *)

(* Whom one reaches through one more. *)
Further(W, S, d) == [p \in S |-> W[p] \cup UNION {d[q] : q \in W[p]}]
Reaches(W, S, f) == f = [n \in Nat |-> IF n = 0 THEN W ELSE Further(W, S, f[n - 1])]

LEMMA ReachExists ==
  ASSUME NEW W, NEW S
  PROVE  \E f : Reaches(W, S, f)
<1> DEFINE Pre(m, f) == f[0] = W /\ \A n \in Nat : n < m => f[n + 1] = Further(W, S, f[n])
           T == {m \in Nat : \E f : Pre(m, f)}
           F == [m \in Nat |-> CHOOSE f : Pre(m, f)]
           U == {n \in Nat : \A m, k \in Nat : n <= m /\ n <= k => F[m][n] = F[k][n]}
           g == [n \in Nat |-> F[n][n]]
<1>1. 0 \in T
  <2>1. Pre(0, [n \in Nat |-> W])
    OBVIOUS
  <2>2. QED
    BY <2>1
<1>2. ASSUME NEW m \in Nat, m \in T PROVE m + 1 \in T
  <2>1. PICK f : Pre(m, f)
    BY <1>2
  <2>2. PICK h : h = [n \in Nat |-> IF n = m + 1 THEN Further(W, S, f[m]) ELSE f[n]]
    OBVIOUS
  <2>3. h[0] = W
    BY <2>1, <2>2
  <2>4. ASSUME NEW n \in Nat, n < m + 1 PROVE h[n + 1] = Further(W, S, h[n])
    <3>1. h[n] = f[n]
      BY <2>2, <2>4
    <3>2. CASE n = m
      BY <2>2, <3>1, <3>2
    <3>3. CASE n # m
      <4>1. n < m /\ n + 1 # m + 1 /\ n + 1 \in Nat
        BY <2>4, <3>3
      <4>2. h[n + 1] = f[n + 1]
        BY <2>2, <4>1
      <4>3. f[n + 1] = Further(W, S, f[n])
        BY <2>1, <4>1
      <4>4. QED
        BY <3>1, <4>2, <4>3
    <3>4. QED
      BY <3>2, <3>3
  <2>5. Pre(m + 1, h)
    BY <2>3, <2>4
  <2> HIDE DEF Pre
  <2>6. QED
    BY <2>5
<1>3. \A m \in Nat : \E f : Pre(m, f)
  <2>1. \A m \in Nat : m \in T
    <3> HIDE DEF T
    <3>1. QED
      BY <1>1, <1>2, Induction
  <2> HIDE DEF Pre
  <2>2. QED
    BY <2>1
<1>4. \A m \in Nat : Pre(m, F[m])
  <2> HIDE DEF Pre
  <2>1. QED
    BY <1>3
<1> HIDE DEF F
<1>5. 0 \in U
  BY <1>4
<1>6. ASSUME NEW n \in Nat, n \in U PROVE n + 1 \in U
  <2> SUFFICES ASSUME NEW m \in Nat, NEW k \in Nat, n + 1 <= m, n + 1 <= k
               PROVE  F[m][n + 1] = F[k][n + 1]
    OBVIOUS
  <2>1. n < m /\ n < k /\ n <= m /\ n <= k
    OBVIOUS
  <2>2. F[m][n + 1] = Further(W, S, F[m][n]) /\ F[k][n + 1] = Further(W, S, F[k][n])
    BY <1>4, <2>1
  <2>3. F[m][n] = F[k][n]
    BY <1>6, <2>1
  <2>4. QED
    BY <2>2, <2>3
<1>7. \A n \in Nat : n \in U
  <2> HIDE DEF U
  <2>1. QED
    BY <1>5, <1>6, Induction
<1>8. g[0] = W
  BY <1>4
<1>9. ASSUME NEW n \in Nat PROVE g[n + 1] = Further(W, S, g[n])
  <2>1. n <= n /\ n <= n + 1 /\ n < n + 1 /\ n + 1 \in Nat
    OBVIOUS
  <2>2. F[n + 1][n + 1] = Further(W, S, F[n + 1][n])
    BY <1>4, <2>1
  <2>3. F[n + 1][n] = F[n][n]
    BY <1>7, <2>1
  <2>4. QED
    BY <2>1, <2>2, <2>3
<1>10. g = [n \in Nat |-> IF n = 0 THEN W ELSE Further(W, S, g[n - 1])]
  <2>1. \A n \in Nat : n # 0 => n - 1 \in Nat /\ (n - 1) + 1 = n
    OBVIOUS
  <2>2. \A n \in Nat : g[n] = IF n = 0 THEN W ELSE Further(W, S, g[n - 1])
    <3> HIDE DEF g
    <3>1. QED
      BY <1>8, <1>9, <2>1
  <2>3. QED
    BY <2>2
<1>11. Reaches(W, S, g)
  BY <1>10 DEF Reaches
<1>12. QED
  BY <1>11

(* What the recursion finds: C[p] is what p reaches. *)
Transitive(S, Q) == \A p \in S : \A q \in Q[p] : Q[q] \subseteq Q[p]
Closure(W, S, C) ==
  /\ C \in [S -> SUBSET S] /\ Transitive(S, C)
  /\ \A p \in S : W[p] \subseteq C[p]
  /\ \A Q \in [S -> SUBSET S] :
       Transitive(S, Q) /\ (\A p \in S : W[p] \subseteq Q[p]) => \A p \in S : C[p] \subseteq Q[p]

LEMMA ReachIs ==
  ASSUME NEW S, IsFiniteSet(S), NEW W \in [S -> SUBSET S], NEW f, Reaches(W, S, f)
  PROVE  Closure(W, S, f[Cardinality(S)])
<1>1. /\ f[0] = W
      /\ \A n \in Nat : f[n + 1] = Further(W, S, f[n])
  <2>1. \A n \in Nat : f[n] = IF n = 0 THEN W ELSE Further(W, S, f[n - 1])
    BY DEF Reaches
  <2>2. \A n \in Nat : n + 1 \in Nat /\ n + 1 # 0 /\ (n + 1) - 1 = n
    OBVIOUS
  <2>3. QED
    BY <2>1, <2>2
<1>2. PICK N \in Nat : N = Cardinality(S)
  BY FS_CardinalityType
<1>3. \A n \in Nat : f[n] \in [S -> SUBSET S]
  <2> DEFINE T == {n \in Nat : f[n] \in [S -> SUBSET S]}
  <2>1. 0 \in T
    BY <1>1
  <2>2. ASSUME NEW n \in Nat, n \in T PROVE n + 1 \in T
    <3>1. PICK d : d = f[n] /\ d \in [S -> SUBSET S]
      BY <2>2
    <3>2. f[n + 1] = [p \in S |-> W[p] \cup UNION {d[q] : q \in W[p]}]
      BY <1>1, <3>1 DEF Further
    <3>3. ASSUME NEW p \in S PROVE W[p] \cup UNION {d[q] : q \in W[p]} \in SUBSET S
      BY <3>1
    <3>4. QED
      BY <3>2, <3>3
  <2>3. \A n \in Nat : n \in T
    <3> HIDE DEF T
    <3>1. QED
      BY <2>1, <2>2, Induction
  <2>4. QED
    BY <2>3
<1>4. \A n \in Nat : \A p, t \in S :
        t \in f[n + 1][p] <=> t \in W[p] \/ \E q \in W[p] : t \in f[n][q]
  <2> SUFFICES ASSUME NEW n \in Nat, NEW p \in S, NEW t \in S
               PROVE  t \in f[n + 1][p] <=> t \in W[p] \/ \E q \in W[p] : t \in f[n][q]
    OBVIOUS
  <2>1. PICK d : d = f[n]
    OBVIOUS
  <2>2. f[n + 1] = [x \in S |-> W[x] \cup UNION {d[q] : q \in W[x]}]
    BY <1>1, <2>1 DEF Further
  <2>3. f[n + 1][p] = W[p] \cup UNION {d[q] : q \in W[p]}
    BY <2>2
  <2>4. t \in UNION {d[q] : q \in W[p]} <=> \E q \in W[p] : t \in d[q]
    OBVIOUS
  <2>5. QED
    BY <2>1, <2>3, <2>4
<1> DEFINE Within(n) == \A p \in S : f[n][p] \subseteq f[n + 1][p]
<1>5. \A n \in Nat : Within(n)
  <2> DEFINE T == {n \in Nat : Within(n)}
  <2>1. 0 \in T
    BY <1>1, <1>3, <1>4
  <2>2. ASSUME NEW n \in Nat, n \in T PROVE n + 1 \in T
    <3>1. n + 1 \in Nat
      OBVIOUS
    <3>2. ASSUME NEW p \in S, NEW t \in f[n + 1][p] PROVE t \in f[(n + 1) + 1][p]
      <4>1. t \in S
        BY <1>3, <3>1
      <4>2. t \in W[p] \/ \E q \in W[p] : t \in f[n][q]
        BY <1>4, <3>2, <4>1
      <4>3. t \in W[p] \/ \E q \in W[p] : t \in f[n + 1][q]
        BY <2>2, <4>2
      <4>4. QED
        BY <1>4, <3>1, <4>1, <4>3
    <3>3. QED
      BY <3>2
  <2>3. \A n \in Nat : n \in T
    <3> HIDE DEF T
    <3>1. QED
      BY <2>1, <2>2, Induction
  <2>4. QED
    BY <2>3
<1>6. \A n \in Nat : \A p \in S : W[p] \subseteq f[n][p]
  <2> DEFINE T == {n \in Nat : \A p \in S : W[p] \subseteq f[n][p]}
  <2>1. 0 \in T
    BY <1>1
  <2>2. ASSUME NEW n \in Nat, n \in T PROVE n + 1 \in T
    BY <1>4, <2>2
  <2>3. \A n \in Nat : n \in T
    <3> HIDE DEF T
    <3>1. QED
      BY <2>1, <2>2, Induction
  <2>4. QED
    BY <2>3
<1>7. ASSUME NEW t \in S, NEW p \in S, NEW q \in W[p], t \in f[N][q] PROVE t \in f[N][p]
  <2> DEFINE L(n) == {x \in S : t \in f[n][x]}
             Shut(n) == \A x \in S : (\E y \in W[x] : y \in L(n)) => x \in L(n)
             T == {n \in Nat : Shut(n) \/ Cardinality(L(n)) >= n + 1}
  <2>1. \A n \in Nat : IsFiniteSet(L(n)) /\ Cardinality(L(n)) \in Nat /\ Cardinality(L(n)) <= N
    <3>1. \A n \in Nat : L(n) \in SUBSET S
      OBVIOUS
    <3> HIDE DEF L
    <3>2. QED
      BY <1>2, <3>1, FS_Subset, FS_CardinalityType
  <2>2. \A n \in Nat : L(n) \subseteq L(n + 1)
    BY <1>5
  <2>3. \A n \in Nat : \A x \in S : x \in L(n + 1) <=> t \in W[x] \/ \E y \in W[x] : y \in L(n)
    BY <1>4
  <2>4. \A n \in Nat : \A x \in S : t \in W[x] => x \in L(n)
    BY <1>6
  <2>5. \A n \in Nat : L(n) \subseteq S
    OBVIOUS
  <2>6. 0 \in T
    <3>1. CASE L(0) = {}
      BY <3>1
    <3>2. CASE L(0) # {}
      <4> HIDE DEF L
      <4>1. Cardinality(L(0)) # 0
        BY <2>1, <3>2, FS_EmptySet
      <4>2. Cardinality(L(0)) >= 0 + 1
        BY <2>1, <4>1
      <4>3. QED
        BY <4>2
    <3>3. QED
      BY <3>1, <3>2
  <2> HIDE DEF L
  <2>7. ASSUME NEW n \in Nat, n \in T PROVE n + 1 \in T
    <3>1. CASE Shut(n)
      <4>1. L(n + 1) = L(n)
        <5>1. ASSUME NEW x \in L(n + 1) PROVE x \in L(n)
          <6>1. x \in S /\ n + 1 \in Nat
            BY <2>5
          <6>2. t \in W[x] \/ \E y \in W[x] : y \in L(n)
            BY <2>3, <5>1, <6>1
          <6>3. QED
            BY <2>4, <3>1, <6>1, <6>2
        <5>2. QED
          BY <2>2, <5>1
      <4>2. Shut(n + 1)
        BY <3>1, <4>1
      <4>3. QED
        BY <4>2
    <3>2. CASE ~Shut(n)
      <4>1. PICK x \in S : (\E y \in W[x] : y \in L(n)) /\ x \notin L(n)
        BY <3>2
      <4>2. L(n) \cup {x} \in SUBSET L(n + 1)
        BY <2>2, <2>3, <4>1
      <4>3. Cardinality(L(n) \cup {x}) = Cardinality(L(n)) + 1
        BY <2>1, <4>1, FS_AddElement
      <4>4. n + 1 \in Nat
        OBVIOUS
      <4>5. Cardinality(L(n) \cup {x}) <= Cardinality(L(n + 1))
        BY <2>1, <4>2, <4>4, FS_Subset
      <4>6. Cardinality(L(n)) >= n + 1
        BY <2>7, <3>2
      <4>7. Cardinality(L(n + 1)) >= (n + 1) + 1
        BY <2>1, <4>3, <4>4, <4>5, <4>6
      <4>8. QED
        BY <4>7
    <3>3. QED
      BY <3>1, <3>2
  <2>8. N \in T
    <3> HIDE DEF T
    <3>1. QED
      BY <2>6, <2>7, Induction
  <2>9. Shut(N)
    BY <2>1, <2>8
  <2>10. q \in L(N) /\ q \in S
    BY <1>7 DEF L
  <2>11. p \in L(N)
    BY <2>9, <2>10
  <2>12. QED
    BY <2>11 DEF L
<1>8. ASSUME NEW Q \in [S -> SUBSET S], Transitive(S, Q), \A p \in S : W[p] \subseteq Q[p]
      PROVE  \A p \in S : f[N][p] \subseteq Q[p]
  <2> DEFINE T == {n \in Nat : \A p \in S : f[n][p] \subseteq Q[p]}
  <2>1. 0 \in T
    BY <1>1, <1>8
  <2>2. ASSUME NEW n \in Nat, n \in T PROVE n + 1 \in T
    <3>1. ASSUME NEW p \in S, NEW t \in f[n + 1][p] PROVE t \in Q[p]
      <4>1. t \in S /\ n + 1 \in Nat
        BY <1>3
      <4>2. t \in W[p] \/ \E q \in W[p] : t \in f[n][q]
        BY <1>4, <3>1, <4>1
      <4>3. ASSUME NEW q \in W[p], t \in f[n][q] PROVE t \in Q[p]
        <5>1. q \in S /\ q \in Q[p]
          BY <1>8
        <5>2. t \in Q[q]
          BY <2>2, <4>3, <5>1
        <5>3. QED
          BY <1>8, <5>1, <5>2 DEF Transitive
      <4>4. QED
        BY <1>8, <4>2, <4>3
    <3>2. QED
      BY <3>1
  <2>3. N \in T
    <3> HIDE DEF T
    <3>1. QED
      BY <2>1, <2>2, Induction
  <2>4. QED
    BY <2>3
<1>9. Transitive(S, f[N])
  <2>1. PICK Q : Q = [p \in S |-> {q \in S : f[N][q] \subseteq f[N][p]}]
    OBVIOUS
  <2>2. Q \in [S -> SUBSET S] /\ Transitive(S, Q)
    BY <2>1 DEF Transitive
  <2>3. \A p \in S : W[p] \subseteq Q[p]
    BY <1>3, <1>7, <2>1
  <2>4. \A p \in S : f[N][p] \subseteq Q[p]
    BY <1>8, <2>2, <2>3
  <2>5. QED
    BY <2>1, <2>4 DEF Transitive
<1>10. QED
  BY <1>2, <1>3, <1>6, <1>8, <1>9 DEF Closure

(* Nobody who waits for nobody closes a circle. *)
LEMMA NoCircle ==
  ASSUME NEW S, NEW W, NEW V, NEW C, NEW D, Closure(W, S, C), Closure(V, S, D),
         \A q \in S : q \notin C[q], NEW p \in S, V[p] = {},
         \A q \in S : V[q] \subseteq W[q] \cup {p}
  PROVE  \A q \in S : q \notin D[q]
<1>1. /\ C \in [S -> SUBSET S] /\ Transitive(S, C)
      /\ \A q \in S : W[q] \subseteq C[q]
  BY DEF Closure
<1>2. PICK Q : Q = [q \in S |-> IF q = p THEN {} ELSE C[q] \cup {p}]
  OBVIOUS
<1>3. Q \in [S -> SUBSET S]
  BY <1>1, <1>2
<1>4. ASSUME NEW q \in S, NEW x \in Q[q] PROVE Q[x] \subseteq Q[q]
  <2>1. q # p /\ (x = p \/ x \in C[q]) /\ x \in S
    BY <1>1, <1>2, <1>4
  <2>2. CASE x = p
    BY <1>2, <2>2
  <2>3. CASE x # p
    <3>1. C[x] \subseteq C[q]
      BY <1>1, <2>1, <2>3 DEF Transitive
    <3>2. QED
      BY <1>2, <2>1, <2>3, <3>1
  <2>4. QED
    BY <2>2, <2>3
<1>5. \A q \in S : V[q] \subseteq Q[q]
  BY <1>1, <1>2
<1>6. \A q \in S : D[q] \subseteq Q[q]
  BY <1>3, <1>4, <1>5 DEF Closure, Transitive
<1>7. QED
  BY <1>2, <1>6

(* Nor does who waits for processes that do not reach him. *)
LEMMA NoCircleMade ==
  ASSUME NEW S, NEW W, NEW V, NEW C, NEW D, Closure(W, S, C), Closure(V, S, D),
         \A q \in S : q \notin C[q], NEW p \in S, NEW B, B \subseteq S \ {p},
         \A b \in B : p \notin C[b],
         V[p] = B, \A q \in S \ {p} : V[q] = W[q]
  PROVE  \A q \in S : q \notin D[q]
<1>1. /\ C \in [S -> SUBSET S] /\ Transitive(S, C)
      /\ \A q \in S : W[q] \subseteq C[q]
  BY DEF Closure
<1>2. PICK A : A = B \cup UNION {C[b] : b \in B}
  OBVIOUS
<1>3. PICK Q : Q = [q \in S |-> IF q = p \/ p \in C[q] THEN C[q] \cup A ELSE C[q]]
  OBVIOUS
<1>4. A \subseteq S /\ B \subseteq A /\ \A b \in B : C[b] \subseteq A
  BY <1>1, <1>2
<1>5. ASSUME NEW x \in A PROVE x # p /\ p \notin C[x] /\ C[x] \subseteq A
  <2>1. CASE x \in B
    BY <1>4, <2>1
  <2>2. CASE x \notin B
    <3>1. PICK b \in B : x \in C[b]
      BY <1>2, <2>2
    <3>2. C[x] \subseteq C[b]
      BY <1>1, <3>1 DEF Transitive
    <3>3. QED
      BY <1>4, <3>1, <3>2
  <2>3. QED
    BY <2>1, <2>2
<1>6. Q \in [S -> SUBSET S]
  BY <1>1, <1>3, <1>4
<1>7. ASSUME NEW q \in S, NEW x \in Q[q] PROVE Q[x] \subseteq Q[q]
  <2>1. x \in S
    BY <1>6
  <2>2. CASE x \in C[q]
    <3>1. C[x] \subseteq C[q]
      BY <1>1, <2>2 DEF Transitive
    <3>2. x = p \/ p \in C[x] => p \in C[q]
      BY <2>2, <3>1
    <3>3. QED
      BY <1>3, <2>1, <3>1, <3>2
  <2>3. CASE x \notin C[q]
    <3>1. x \in A /\ Q[q] = C[q] \cup A
      BY <1>3, <1>7, <2>3
    <3>2. Q[x] = C[x]
      BY <1>3, <1>5, <2>1, <3>1
    <3>3. QED
      BY <1>5, <3>1, <3>2
  <2>4. QED
    BY <2>2, <2>3
<1>8. \A q \in S : V[q] \subseteq Q[q]
  BY <1>1, <1>3, <1>4
<1>9. \A q \in S : D[q] \subseteq Q[q]
  BY <1>6, <1>7, <1>8 DEF Closure, Transitive
<1>10. \A q \in S : q \notin Q[q]
  BY <1>3, <1>5
<1>11. QED
  BY <1>9, <1>10

LEMMA WaitsForIs ==
  ASSUME LockInv
  PROVE  WaitsFor \in [Proc -> SUBSET Proc]
<1>1. ASSUME NEW p \in Proc, prl[p] # NoRl
      PROVE  {e.proc : e \in Blocking(list[prl[p].ino], prl[p].rl)} \subseteq Proc
  <2>1. PICK l \in Seq(GoodRl) : l = list[prl[p].ino]
    BY <1>1 DEF LockInv
  <2>2. \A e \in Range(l) : e \in GoodRl
    BY DEF Range
  <2>3. QED
    BY <2>1, <2>2 DEF Blocking, GoodRl, RLOCK
<1>2. QED
  BY <1>1 DEF WaitsFor

LEMMA WaitingIs == LockInv => Closure(WaitsFor, Proc, Waiting)
<1> SUFFICES ASSUME LockInv PROVE Closure(WaitsFor, Proc, Waiting)
  OBVIOUS
<1> DEFINE Rec(f) == f = [n \in Nat |->
                            IF n = 0 THEN WaitsFor
                            ELSE [p \in Proc |-> WaitsFor[p] \cup UNION {f[n - 1][q] : q \in WaitsFor[p]}]]
<1>1. \A f : Rec(f) <=> Reaches(WaitsFor, Proc, f)
  BY DEF Reaches, Further
<1>2. Waiting = (CHOOSE f : Rec(f))[Cardinality(Proc)]
  BY DEF Waiting
<1> HIDE DEF Rec
<1>3. \E f : Rec(f)
  BY <1>1, ReachExists
<1>4. PICK f : Rec(f) /\ Waiting = f[Cardinality(Proc)]
  BY <1>2, <1>3
<1>5. Reaches(WaitsFor, Proc, f)
  BY <1>1, <1>4
<1>6. QED
  BY <1>4, <1>5, WaitsForIs, ReachIs, Names

LEMMA WaitingWillBe == LockInv' => Closure(WaitsFor', Proc, Waiting')
<1>1. (LockInv => Closure(WaitsFor, Proc, Waiting))'
  BY WaitingIs, PTL
<1>2. QED
  BY <1>1 DEF Closure, Transitive

(* A call that ends, or that does not wait, makes others wait for its caller
   only, and he waits for nobody. *)
LEMMA ChangesNoCircle ==
  ASSUME LockInv, LockInv', NoWaitCycle, NEW p \in Proc, prl'[p] = NoRl,
         \A q \in Proc \ {p} : prl'[q] = prl[q],
         \A i \in Inode : \A e : e.proc # p => (e \in Range(list'[i]) <=> e \in Range(list[i]))
  PROVE  NoWaitCycle'
<1>1. PICK W, V, C, D : W = WaitsFor /\ V = WaitsFor' /\ C = Waiting /\ D = Waiting'
  OBVIOUS
<1>2. Closure(W, Proc, C) /\ Closure(V, Proc, D)
  BY <1>1, WaitingIs, WaitingWillBe
<1>3. V[p] = {}
  BY <1>1 DEF WaitsFor
<1>4. ASSUME NEW q \in Proc PROVE V[q] \subseteq W[q] \cup {p}
  <2>1. CASE q = p \/ prl[q] = NoRl
    BY <1>1, <1>3, <2>1 DEF WaitsFor
  <2>2. CASE q # p /\ prl[q] # NoRl
    <3>5. PICK r : r = prl[q].rl
      OBVIOUS
    <3>1. PICK i \in Inode : i = prl[q].ino /\ r = prl[q].rl
      BY <2>2, <3>5 DEF LockInv
    <3>2. /\ W[q] = {e.proc : e \in Blocking(list[i], r)}
          /\ V[q] = {e.proc : e \in Blocking(list'[i], r)}
      BY <1>1, <2>2, <3>1 DEF WaitsFor, Blocking, Meets
    <3>3. \A e \in Blocking(list'[i], r) : e.proc # p => e \in Blocking(list[i], r)
      BY DEF Blocking
    <3>4. QED
      BY <3>2, <3>3
  <2>3. QED
    BY <2>1, <2>2
<1>5. \A q \in Proc : q \notin C[q]
  BY <1>1 DEF NoWaitCycle
<1>6. \A q \in Proc : q \notin D[q]
  BY <1>2, <1>3, <1>4, <1>5, NoCircle
<1>7. QED
  BY <1>1, <1>6 DEF NoWaitCycle

LEMMA CircleStep ==
  ASSUME LockInv, LockInv', NoWaitCycle, [Next]_vars
  PROVE  NoWaitCycle'
<1>1. ASSUME NEW p \in Proc, NEW i \in Inode, NEW r \in GoodRl, Granted(p, i, r) PROVE NoWaitCycle'
  <2>1. /\ \A j \in Inode \ {i} : list'[j] = list[j]
        /\ \A e : e.proc # p => (e \in Range(list'[i]) <=> e \in Range(list[i]))
    BY <1>1, ChangesIs DEF LockInv, Granted
  <2>2. prl'[p] = NoRl /\ prl' = prl
    BY <1>1 DEF Granted, LockInv
  <2>3. QED
    BY <2>1, <2>2, ChangesNoCircle
<1>2. ASSUME NEW p \in Proc, Ends(p) PROVE NoWaitCycle'
  <2>1. PICK i \in Inode, r \in GoodRl : i = prl[p].ino /\ r = prl[p].rl
    BY <1>2 DEF LockInv, Ends
  <2>2. \A j \in Inode : \A e : e.proc # p => (e \in Range(list'[j]) <=> e \in Range(list[j]))
    <3>1. CASE Changes(p, i, r, freerl + 1)
      <4>1. freerl + 1 \in Nat
        BY DEF LockInv
      <4>2. /\ \A j \in Inode \ {i} : list'[j] = list[j]
            /\ \A e : e.proc # p => (e \in Range(list'[i]) <=> e \in Range(list[i]))
        BY <3>1, <4>1, ChangesIs DEF LockInv
      <4>3. QED
        BY <4>2
    <3>2. QED
      BY <1>2, <2>1, <3>1 DEF Ends
  <2>3. prl'[p] = NoRl /\ \A q \in Proc \ {p} : prl'[q] = prl[q]
    BY <1>2 DEF Ends, Cleanup, LockInv
  <2>4. QED
    BY <2>2, <2>3, ChangesNoCircle
<1>3. ASSUME NEW p \in Proc, NEW i \in Inode, NEW r \in GoodRl, r \in Requests(p), WaitLock(p, i, r)
      PROVE  NoWaitCycle'
  <2>1. PICK W, V, C, D : W = WaitsFor /\ V = WaitsFor' /\ C = Waiting /\ D = Waiting'
    OBVIOUS
  <2>2. Closure(W, Proc, C) /\ Closure(V, Proc, D)
    BY <2>1, WaitingIs, WaitingWillBe
  <2>3. PICK B : B = {e.proc : e \in Blocking(list[i], r)}
    OBVIOUS
  <2>4. /\ prl' = [prl EXCEPT ![p] = [ino |-> i, rl |-> r]] /\ list' = list
        /\ ~Deadlock(r, i) /\ r.proc = p
    BY <1>3, RequestIs DEF WaitLock
  <2>5. PICK w : w = [ino |-> i, rl |-> r] /\ w.ino = i /\ w.rl = r
    <3>1. [ino |-> i, rl |-> r].ino = i /\ [ino |-> i, rl |-> r].rl = r
      OBVIOUS
    <3>2. QED
      BY <3>1
  <2>6. w # NoRl
    <3>1. w \in [ino : Inode, rl : RLOCK]
      BY <2>5 DEF GoodRl
    <3>2. QED
      BY <3>1, Names
  <2>7. B \subseteq Proc \ {p} /\ \A b \in B : p \notin C[b]
    <3>1. PICK l \in Seq(GoodRl) : l = list[i]
      BY DEF LockInv
    <3>2. \A e \in Range(l) : e.proc \in Proc
      BY DEF Range, GoodRl, RLOCK
    <3>3. \A e \in Blocking(list[i], r) : e \in Range(l) /\ e.proc # p
      BY <2>4, <3>1 DEF Blocking
    <3>4. \A e \in Blocking(list[i], r) : p \notin C[e.proc]
      BY <2>1, <2>4 DEF Deadlock
    <3>5. QED
      BY <2>3, <3>2, <3>3, <3>4
  <2>8. V[p] = B
    BY <2>1, <2>3, <2>4, <2>5, <2>6 DEF WaitsFor, LockInv, Blocking, Meets
  <2>9. \A q \in Proc \ {p} : V[q] = W[q]
    BY <2>1, <2>4 DEF WaitsFor, LockInv, Blocking, Meets
  <2>10. \A q \in Proc : q \notin C[q]
    BY <2>1 DEF NoWaitCycle
  <2>11. \A q \in Proc : q \notin D[q]
    BY <2>2, <2>7, <2>8, <2>9, <2>10, NoCircleMade
  <2>12. QED
    BY <2>1, <2>11 DEF NoWaitCycle
<1>4. ASSUME list' = list, prl' = prl PROVE NoWaitCycle'
  <2>1. PICK W, V, C, D : W = WaitsFor /\ V = WaitsFor' /\ C = Waiting /\ D = Waiting'
    OBVIOUS
  <2>2. Closure(W, Proc, C) /\ Closure(V, Proc, D)
    BY <2>1, WaitingIs, WaitingWillBe
  <2>3. V = W
    BY <1>4, <2>1 DEF WaitsFor, Blocking, Meets
  <2>4. \A q \in Proc : D[q] \subseteq C[q]
    BY <2>2, <2>3 DEF Closure
  <2>5. QED
    BY <2>1, <2>4 DEF NoWaitCycle
<1>5. QED
  BY <1>1, <1>2, <1>3, <1>4, Steps DEF Refused, Defend, Sleeps, Signal, vars

(* There is never a circle of processes that wait for each other's locks: the
   walk of waiting(), made from the owners of the locks in the way before a
   process first sleeps, finds every one that would arise, however many
   processes and files it would go through; and locks that are granted, joined
   or split while others sleep close none. *)
THEOREM NoWaitCycleEver == Spec => []NoWaitCycle
<1>1. Init => NoWaitCycle
  <2> SUFFICES ASSUME Init PROVE NoWaitCycle
    OBVIOUS
  <2>1. PICK W, C : W = WaitsFor /\ C = Waiting
    OBVIOUS
  <2>2. Closure(W, Proc, C)
    BY <2>1, LockInit, WaitingIs
  <2>3. PICK Q : Q = [p \in Proc |-> {}]
    OBVIOUS
  <2>4. \A p \in Proc : W[p] = {}
    BY <2>1 DEF WaitsFor, Init
  <2>5. \A p \in Proc : C[p] \subseteq Q[p]
    BY <2>2, <2>3, <2>4 DEF Closure, Transitive
  <2>6. QED
    BY <2>1, <2>3, <2>5 DEF NoWaitCycle
<1>2. LockInv /\ LockInv' /\ NoWaitCycle /\ [Next]_vars => NoWaitCycle'
  BY CircleStep
<1>3. QED
  BY <1>1, <1>2, LockAlways, PTL DEF Spec
=============================================================================
