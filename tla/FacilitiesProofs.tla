-------------------------- MODULE FacilitiesProofs --------------------------
(***************************************************************************)
(* Theorems about the three facilities together.  The lemmas of the first  *)
(* part are about the message queues, those of the second about the        *)
(* process table, for every number of process ids and every set of         *)
(* processes that wait; those about the semaphores are in SemaphoreProofs. *)
(***************************************************************************)
EXTENDS Facilities, Sequences, WellFoundedInduction, TLAPS

-----------------------------------------------------------------------------
(* Induction over the numbers, and the greatest of them. *)

LEMMA LeastNumber ==
  ASSUME NEW T, T \subseteq Nat, T # {}
  PROVE  \E x \in T : \A y \in T : x <= y
<1> DEFINE R == {ss \in Nat \X Nat : ss[1] < ss[2]}
<1>1. IsWellFoundedOn(R, Nat)
  BY NatLessThanWellFounded DEF OpToRel
<1>2. \A x, y \in Nat : y < x => <<y, x>> \in R
  OBVIOUS
<1> HIDE DEF R
<1>3. PICK x \in T : \A y \in T : ~ (<<y, x>> \in R)
  BY <1>1, WFMin
<1>4. \A y \in T : ~ (y < x)
  BY <1>2, <1>3
<1>5. QED
  BY <1>4

LEMMA Induction ==
  ASSUME NEW S, 0 \in S, \A n \in Nat : n \in S => n + 1 \in S
  PROVE  Nat \subseteq S
<1> SUFFICES ASSUME Nat \ S # {} PROVE FALSE
  OBVIOUS
<1>1. PICK x \in Nat \ S : \A y \in Nat \ S : x <= y
  BY LeastNumber
<1>2. x - 1 \in Nat /\ x - 1 \in S
  BY <1>1
<1>3. (x - 1) + 1 \in S
  BY <1>2
<1>4. QED
  BY <1>1, <1>3

LEMMA GreatestOf ==
  ASSUME NEW m \in Nat, NEW s, s \subseteq 1..(m + 1), m + 1 \in s
  PROVE  Msg!Max(s) = m + 1 /\ s \ {Msg!Max(s)} \in SUBSET (1..m)
<1>1. \A y \in s : m + 1 >= y
  OBVIOUS
<1>2. Msg!Max(s) \in s /\ \A y \in s : Msg!Max(s) >= y
  BY <1>1 DEF Msg!Max
<1>3. Msg!Max(s) >= m + 1 /\ Msg!Max(s) \in 1..(m + 1)
  BY <1>2
<1>4. Msg!Max(s) = m + 1
  BY <1>3
<1>5. QED
  BY <1>4

-----------------------------------------------------------------------------
(* The loops of the module, which are folds over a sequence: over the sizes of
   the messages in a queue, over the lengths of the queues, and the search of
   umsgrcv(). *)

Sizes(s) == Msg!FoldLeft(LAMBDA n, m : n + m.size, 0, s)
Total(ms) == Msg!FoldLeft(LAMBDA n, q : n + Len(ms[q - 1]), 0, [q \in 1..NMSQID |-> q])

Better(s, want, i, j) ==
  Msg!Fits(s, want, j) /\ (i = 0 \/ (want < 0 /\ s[j].type < s[i].type))

(* One turn of the loop that w names. *)
Step(w, x, e) ==
  CASE w.loop = "sizes" -> x + e.size
    [] w.loop = "lengths" -> x + Len(w.of[e - 1])
    [] w.loop = "search" -> IF Better(w.of, w.want, x, e) THEN e ELSE x

(* The recursion of the fold over the sets of positions of sequence q. *)
Folds(w, q, f) ==
  f = [s \in SUBSET DOMAIN q |->
         IF s = {} THEN 0 ELSE Step(w, f[s \ {Msg!Max(s)}], q[Msg!Max(s)])]

LEMMA FoldExists ==
  ASSUME NEW w, NEW q, NEW n \in Nat, DOMAIN q = 1..n
  PROVE  \E f : Folds(w, q, f)
<1> DEFINE Good(m, f) == f = [s \in SUBSET (1..m) |->
                                IF s = {} THEN 0
                                ELSE Step(w, f[s \ {Msg!Max(s)}], q[Msg!Max(s)])]
           S == {m \in Nat : \E f : Good(m, f)}
<1>1. 0 \in S
  <2>1. Good(0, [s \in SUBSET (1..0) |-> 0])
    OBVIOUS
  <2>2. QED
    BY <2>1
<1>2. ASSUME NEW m \in Nat, m \in S PROVE m + 1 \in S
  <2>1. PICK f : Good(m, f)
    BY <1>2
  <2> DEFINE g == [s \in SUBSET (1..(m + 1)) |->
                     IF m + 1 \in s THEN Step(w, f[s \ {m + 1}], q[m + 1]) ELSE f[s]]
  <2>2. ASSUME NEW s \in SUBSET (1..(m + 1))
        PROVE  g[s] = IF s = {} THEN 0 ELSE Step(w, g[s \ {Msg!Max(s)}], q[Msg!Max(s)])
    <3>1. CASE m + 1 \in s
      <4>1. Msg!Max(s) = m + 1 /\ s \ {m + 1} \in SUBSET (1..m)
        BY <3>1, GreatestOf
      <4>2. s \ {m + 1} \in SUBSET (1..(m + 1)) /\ m + 1 \notin s \ {m + 1}
        OBVIOUS
      <4>3. g[s \ {m + 1}] = f[s \ {m + 1}]
        BY <4>2
      <4>4. g[s] = Step(w, f[s \ {m + 1}], q[m + 1])
        BY <3>1
      <4> HIDE DEF g
      <4>5. QED
        BY <3>1, <4>1, <4>3, <4>4
    <3>2. CASE m + 1 \notin s
      <4>1. s \in SUBSET (1..m) /\ s \ {Msg!Max(s)} \in SUBSET (1..m)
        <5>1. \A i \in s : i \in 1..m
          BY <3>2
        <5>2. QED
          BY <5>1
      <4>2. f[s] = IF s = {} THEN 0 ELSE Step(w, f[s \ {Msg!Max(s)}], q[Msg!Max(s)])
        BY <2>1, <4>1
      <4>3. g[s] = f[s]
        BY <3>2
      <4>4. g[s \ {Msg!Max(s)}] = f[s \ {Msg!Max(s)}]
        BY <3>2, <4>1
      <4> HIDE DEF g
      <4>5. QED
        BY <4>2, <4>3, <4>4
    <3>3. QED
      BY <3>1, <3>2
  <2>3. Good(m + 1, g)
    BY <2>2
  <2> HIDE DEF Good, g
  <2>4. \E f1 : Good(m + 1, f1)
    BY <2>3
  <2>5. QED
    BY <2>4
<1>3. n \in S
  <2> HIDE DEF S
  <2>1. QED
    BY <1>1, <1>2, Induction
<1>4. QED
  BY <1>3 DEF Folds

(* The states of the loop, after each number of turns, and the last. *)
Turns(w, q, n, last, t) ==
  /\ t[0] = 0 /\ t[n] = last
  /\ \A k \in 1..n : t[k] = Step(w, t[k - 1], q[k])

LEMMA FoldTrace ==
  ASSUME NEW w, NEW q, NEW n \in Nat, DOMAIN q = 1..n, NEW f, Folds(w, q, f)
  PROVE  \E t : Turns(w, q, n, f[DOMAIN q], t)
<1> DEFINE t == [k \in 0..n |-> f[1..k]]
<1>1. t[0] = 0
  <2>1. f[{}] = 0
    BY DEF Folds
  <2>2. 1..0 = {} /\ 0 \in 0..n
    OBVIOUS
  <2>3. QED
    BY <2>1, <2>2
<1>2. t[n] = f[DOMAIN q]
  OBVIOUS
<1>3. ASSUME NEW k \in 1..n PROVE t[k] = Step(w, t[k - 1], q[k])
  <2>1. k - 1 \in Nat /\ k = (k - 1) + 1 /\ k - 1 \in 0..n /\ k \in 0..n
    OBVIOUS
  <2>2. Msg!Max(1..k) = k
    <3>1. k \in 1..k /\ 1..k \in SUBSET (1..k)
      OBVIOUS
    <3>2. QED
      BY <2>1, <3>1, GreatestOf
  <2>3. 1..k \in SUBSET (1..n) /\ 1..k # {} /\ (1..k) \ {k} = 1..(k - 1)
    OBVIOUS
  <2>4. f[1..k] = Step(w, f[1..(k - 1)], q[k])
    BY <2>2, <2>3 DEF Folds
  <2>5. QED
    BY <2>1, <2>4
<1> HIDE DEF t
<1>4. Turns(w, q, n, f[DOMAIN q], t)
  BY <1>1, <1>2, <1>3 DEF Turns
<1>5. QED
  BY <1>4

-----------------------------------------------------------------------------
(* What the loops compute. *)

LEMMA SizesTurns ==
  ASSUME NEW s, NEW n \in Nat, DOMAIN s = 1..n
  PROVE  \E t : /\ t[0] = 0 /\ t[n] = Sizes(s)
                /\ \A k \in 1..n : t[k] = t[k - 1] + s[k].size
<1> DEFINE w == [loop |-> "sizes"]
           Rec(f) == f = [x \in SUBSET DOMAIN s |->
                            IF x = {} THEN 0 ELSE f[x \ {Msg!Max(x)}] + s[Msg!Max(x)].size]
<1>1. \A x, e : Step(w, x, e) = x + e.size
  BY DEF Step
<1> HIDE DEF w
<1>2. \A f : Rec(f) <=> Folds(w, s, f)
  BY <1>1 DEF Folds
<1>3. \E f : Rec(f)
  <2>1. \E f : Folds(w, s, f)
    BY FoldExists
  <2> HIDE DEF Rec
  <2>2. QED
    BY <1>2, <2>1
<1>4. Sizes(s) = (CHOOSE f : Rec(f))[DOMAIN s]
  BY DEF Sizes, Msg!FoldLeft, Msg!MapThenFoldSet
<1>5. PICK f : Rec(f) /\ Sizes(s) = f[DOMAIN s]
  <2> HIDE DEF Rec
  <2>1. QED
    BY <1>3, <1>4
<1>6. PICK t : Turns(w, s, n, f[DOMAIN s], t)
  BY <1>2, <1>5, FoldTrace
<1> HIDE DEF Rec
<1>7. QED
  BY <1>1, <1>5, <1>6 DEF Turns

LEMMA TotalTurns ==
  ASSUME NEW ms, NMSQID \in Nat
  PROVE  \E t : /\ t[0] = 0 /\ t[NMSQID] = Total(ms)
                /\ \A k \in 1..NMSQID : t[k] = t[k - 1] + Len(ms[k - 1])
<1> DEFINE w == [loop |-> "lengths", of |-> ms]
           s == [k \in 1..NMSQID |-> k]
           Rec(f) == f = [x \in SUBSET DOMAIN s |->
                            IF x = {} THEN 0 ELSE f[x \ {Msg!Max(x)}] + Len(ms[s[Msg!Max(x)] - 1])]
<1>1. \A x, e : Step(w, x, e) = x + Len(ms[e - 1])
  BY DEF Step
<1>2. DOMAIN s = 1..NMSQID /\ \A k \in 1..NMSQID : s[k] = k
  OBVIOUS
<1> HIDE DEF w
<1>3. Total(ms) = (CHOOSE f : Rec(f))[DOMAIN s]
  BY DEF Total, Msg!FoldLeft, Msg!MapThenFoldSet
<1> HIDE DEF s
<1>4. \A f : Rec(f) <=> Folds(w, s, f)
  BY <1>1 DEF Folds
<1>5. \E f : Rec(f)
  <2>1. \E f : Folds(w, s, f)
    BY <1>2, FoldExists
  <2> HIDE DEF Rec
  <2>2. QED
    BY <1>4, <2>1
<1>6. PICK f : Rec(f) /\ Total(ms) = f[DOMAIN s]
  <2> HIDE DEF Rec
  <2>1. QED
    BY <1>3, <1>5
<1>7. PICK t : Turns(w, s, NMSQID, f[DOMAIN s], t)
  BY <1>2, <1>4, <1>6, FoldTrace
<1> HIDE DEF Rec
<1>8. QED
  BY <1>1, <1>2, <1>6, <1>7 DEF Turns

LEMMA SearchTurns ==
  ASSUME NEW s, NEW n \in Nat, Len(s) = n, NEW want
  PROVE  \E t : /\ t[0] = 0 /\ t[n] = Msg!Search(s, want)
                /\ \A k \in 1..n : t[k] = IF Better(s, want, t[k - 1], k) THEN k ELSE t[k - 1]
<1> DEFINE w == [loop |-> "search", of |-> s, want |-> want]
           d == [k \in 1..n |-> k]
           Rec(f) == f = [x \in SUBSET DOMAIN d |->
                            IF x = {} THEN 0
                            ELSE IF Better(s, want, f[x \ {Msg!Max(x)}], d[Msg!Max(x)])
                                 THEN d[Msg!Max(x)] ELSE f[x \ {Msg!Max(x)}]]
<1>1. \A x, e : Step(w, x, e) = IF Better(s, want, x, e) THEN e ELSE x
  BY DEF Step
<1>2. DOMAIN d = 1..n /\ \A k \in 1..n : d[k] = k
  OBVIOUS
<1> HIDE DEF w
<1>3. Msg!Search(s, want) = (CHOOSE f : Rec(f))[DOMAIN d]
  BY DEF Msg!Search, Msg!FoldLeft, Msg!MapThenFoldSet, Better
<1> HIDE DEF d
<1>4. \A f : Rec(f) <=> Folds(w, d, f)
  BY <1>1 DEF Folds
<1>5. \E f : Rec(f)
  <2>1. \E f : Folds(w, d, f)
    BY <1>2, FoldExists
  <2> HIDE DEF Rec
  <2>2. QED
    BY <1>4, <2>1
<1>6. PICK f : Rec(f) /\ Msg!Search(s, want) = f[DOMAIN d]
  <2> HIDE DEF Rec
  <2>1. QED
    BY <1>3, <1>5
<1>7. PICK t : Turns(w, d, n, f[DOMAIN d], t)
  BY <1>2, <1>4, <1>6, FoldTrace
<1> HIDE DEF Rec
<1>8. QED
  BY <1>1, <1>2, <1>6, <1>7 DEF Turns

-----------------------------------------------------------------------------
(* Sums.  The numbers d are added up one by one in t. *)

Adds(d, n, t) ==
  t[0] = 0 /\ \A k \in 1..n : d[k] \in Nat /\ t[k] = t[k - 1] + d[k]

LEMMA AddsNat ==
  ASSUME NEW n \in Nat, NEW d, NEW t, Adds(d, n, t)
  PROVE  \A k \in 0..n : t[k] \in Nat
<1> DEFINE S == {k \in Nat : k <= n => t[k] \in Nat}
<1>1. 0 \in S
  BY DEF Adds
<1>2. ASSUME NEW k \in Nat, k \in S PROVE k + 1 \in S
  <2>1. k + 1 <= n => d[k + 1] \in Nat /\ t[k + 1] = t[k] + d[k + 1]
    <3>1. k + 1 <= n => k + 1 \in 1..n /\ (k + 1) - 1 = k
      OBVIOUS
    <3>2. QED
      BY <3>1 DEF Adds
  <2>2. QED
    BY <1>2, <2>1
<1>3. Nat \subseteq S
  <2> HIDE DEF S
  <2>1. QED
    BY <1>1, <1>2, Induction
<1>4. QED
  BY <1>3

LEMMA AddsSame ==
  ASSUME NEW n \in Nat, NEW d, NEW t, Adds(d, n, t),
         NEW m \in Nat, NEW e, NEW u, Adds(e, m, u),
         NEW i \in Nat, i <= n, i <= m, \A k \in 1..i : d[k] = e[k]
  PROVE  t[i] = u[i]
<1> DEFINE S == {k \in Nat : k <= i => t[k] = u[k]}
<1>1. 0 \in S
  BY DEF Adds
<1>2. ASSUME NEW k \in Nat, k \in S PROVE k + 1 \in S
  <2>1. SUFFICES ASSUME k + 1 <= i PROVE t[k + 1] = u[k + 1]
    OBVIOUS
  <2>2. k + 1 \in 1..i /\ k + 1 \in 1..n /\ k + 1 \in 1..m /\ (k + 1) - 1 = k
    BY <2>1
  <2>3. t[k + 1] = t[k] + d[k + 1] /\ u[k + 1] = u[k] + e[k + 1]
    BY <2>2 DEF Adds
  <2>4. t[k] = u[k] /\ d[k + 1] = e[k + 1]
    BY <1>2, <2>1, <2>2
  <2>5. QED
    BY <2>3, <2>4
<1>3. Nat \subseteq S
  <2> HIDE DEF S
  <2>1. QED
    BY <1>1, <1>2, Induction
<1>4. QED
  BY <1>3

LEMMA AddsWithout ==
  ASSUME NEW n \in Nat, NEW m \in Nat, m = n + 1, NEW d, NEW t, Adds(d, m, t), 
         NEW e, NEW u, Adds(e, n, u), NEW i \in 1..m, \A k \in 1..(i - 1) : d[k] = e[k],
         \A k \in i..n : d[k + 1] = e[k]
  PROVE  t[m] = u[n] + d[i]
<1> DEFINE S == {k \in Nat : k <= n /\ i - 1 <= k => t[k + 1] = u[k] + d[i]}
<1>1. t[i - 1] = u[i - 1] /\ t[i] = t[i - 1] + d[i]
  <2>1. i - 1 \in Nat /\ i - 1 <= m /\ i - 1 <= n
    OBVIOUS
  <2>2. \A k \in 1..(i - 1) : d[k] = e[k]
    OBVIOUS
  <2>3. t[i - 1] = u[i - 1]
    BY <2>1, <2>2, AddsSame
  <2>4. QED
    BY <2>3 DEF Adds
<1>2. 0 \in S
  <2>1. CASE i = 1
    BY <1>1, <2>1
  <2>2. CASE i # 1
    BY <2>2
  <2>3. QED
    BY <2>1, <2>2
<1>3. ASSUME NEW k \in Nat, k \in S PROVE k + 1 \in S
  <2>1. SUFFICES ASSUME k + 1 <= n, i - 1 <= k + 1 PROVE t[(k + 1) + 1] = u[k + 1] + d[i]
    OBVIOUS
  <2>2. CASE i - 1 = k + 1
    BY <1>1, <2>2
  <2>3. CASE i - 1 <= k
    <3>1. k + 1 \in i..n /\ k + 1 \in 1..n /\ (k + 1) + 1 \in 1..m
      BY <2>1, <2>3
    <3>2. t[(k + 1) + 1] = t[k + 1] + d[(k + 1) + 1] /\ u[k + 1] = u[k] + e[k + 1]
      <4>1. ((k + 1) + 1) - 1 = k + 1 /\ (k + 1) - 1 = k
        OBVIOUS
      <4>2. QED
        BY <3>1, <4>1 DEF Adds
    <3>3. t[k + 1] = u[k] + d[i] /\ d[(k + 1) + 1] = e[k + 1]
      BY <1>3, <2>1, <2>3, <3>1
    <3>4. u[k] \in Nat /\ d[i] \in Nat /\ e[k + 1] \in Nat
      <4>1. \A j \in 0..n : u[j] \in Nat
        BY AddsNat
      <4>2. k \in 0..n
        BY <3>1
      <4>3. QED
        BY <3>1, <4>1, <4>2 DEF Adds
    <3>5. QED
      BY <3>2, <3>3, <3>4
  <2>4. QED
    BY <2>1, <2>2, <2>3
<1>4. Nat \subseteq S
  <2> HIDE DEF S
  <2>1. QED
    BY <1>2, <1>3, Induction
<1>5. QED
  BY <1>4

LEMMA AddsOther ==
  ASSUME NEW n \in Nat, NEW d, NEW t, Adds(d, n, t), NEW e, NEW u, Adds(e, n, u),
         NEW i \in 1..n, \A k \in 1..n : k # i => d[k] = e[k]
  PROVE  t[n] + e[i] = u[n] + d[i]
<1> DEFINE S == {k \in Nat : k <= n /\ i <= k => t[k] + e[i] = u[k] + d[i]}
<1>1. t[i] + e[i] = u[i] + d[i]
  <2>1. i - 1 \in Nat /\ i - 1 <= n /\ \A k \in 1..(i - 1) : d[k] = e[k]
    OBVIOUS
  <2>2. t[i - 1] = u[i - 1]
    BY <2>1, AddsSame
  <2>3. t[i] = t[i - 1] + d[i] /\ u[i] = u[i - 1] + e[i] /\ d[i] \in Nat /\ e[i] \in Nat
    BY DEF Adds
  <2>4. t[i - 1] \in Nat
    BY <2>1, AddsNat
  <2>5. QED
    BY <2>2, <2>3, <2>4
<1>2. 0 \in S
  OBVIOUS
<1>3. ASSUME NEW k \in Nat, k \in S PROVE k + 1 \in S
  <2>1. SUFFICES ASSUME k + 1 <= n, i <= k + 1 PROVE t[k + 1] + e[i] = u[k + 1] + d[i]
    OBVIOUS
  <2>2. CASE i = k + 1
    BY <1>1, <2>2
  <2>3. CASE i <= k
    <3>1. k + 1 \in 1..n /\ k + 1 # i /\ (k + 1) - 1 = k
      BY <2>1, <2>3
    <3>2. t[k + 1] = t[k] + d[k + 1] /\ u[k + 1] = u[k] + e[k + 1]
      BY <3>1 DEF Adds
    <3>3. t[k] + e[i] = u[k] + d[i] /\ d[k + 1] = e[k + 1]
      BY <1>3, <2>1, <2>3, <3>1
    <3>4. t[k] \in Nat /\ u[k] \in Nat /\ d[i] \in Nat /\ e[i] \in Nat /\ d[k + 1] \in Nat
      <4>1. \A j \in 0..n : t[j] \in Nat /\ u[j] \in Nat
        BY AddsNat
      <4>2. k \in 0..n
        BY <3>1
      <4>3. QED
        BY <3>1, <4>1, <4>2 DEF Adds
    <3>5. QED
      BY <3>2, <3>3, <3>4
  <2>4. QED
    BY <2>1, <2>2, <2>3
<1>4. Nat \subseteq S
  <2> HIDE DEF S
  <2>1. QED
    BY <1>2, <1>3, Induction
<1>5. QED
  BY <1>4

(* Numbers of at most b, one of them less. *)
LEMMA AddsBelow ==
  ASSUME NEW n \in Nat, NEW d, NEW t, Adds(d, n, t), NEW b \in Nat,
         \A k \in 1..n : d[k] <= b, NEW i \in 1..n, d[i] < b
  PROVE  t[n] < n * b
<1> DEFINE S == {k \in Nat : k <= n => /\ t[k] <= k * b
                                       /\ i <= k => t[k] < k * b}
<1>1. 0 \in S
  BY DEF Adds
<1>2. ASSUME NEW k \in Nat, k \in S PROVE k + 1 \in S
  <2>1. SUFFICES ASSUME k + 1 <= n
                 PROVE  t[k + 1] <= (k + 1) * b /\ (i <= k + 1 => t[k + 1] < (k + 1) * b)
    OBVIOUS
  <2>2. k + 1 \in 1..n /\ (k + 1) - 1 = k /\ k \in 0..n
    BY <2>1
  <2>3. t[k + 1] = t[k] + d[k + 1] /\ d[k + 1] \in Nat /\ d[k + 1] <= b /\ t[k] \in Nat
    BY <2>2, AddsNat DEF Adds
  <2>4. t[k] <= k * b /\ (i <= k => t[k] < k * b) /\ (i = k + 1 => d[k + 1] < b)
    BY <1>2, <2>1
  <2>5. PICK z \in Nat : z = k * b /\ (k + 1) * b = z + b
    OBVIOUS
  <2>6. QED
    BY <2>3, <2>4, <2>5
<1>3. Nat \subseteq S
  <2> HIDE DEF S
  <2>1. QED
    BY <1>1, <1>2, Induction
<1>4. QED
  BY <1>3

-----------------------------------------------------------------------------
(* The size and the number of the messages in queues. *)

LEMMA SizesAre ==
  ASSUME NEW s \in Seq(Msg!Message)
  PROVE  \E t, d : /\ Adds(d, Len(s), t) /\ t[Len(s)] = Sizes(s)
                   /\ \A k \in 1..Len(s) : d[k] = s[k].size
<1> DEFINE d == [k \in 1..Len(s) |-> s[k].size]
<1>1. Len(s) \in Nat /\ DOMAIN s = 1..Len(s) /\ \A k \in 1..Len(s) : s[k] \in Msg!Message
  OBVIOUS
<1>2. PICK t : /\ t[0] = 0 /\ t[Len(s)] = Sizes(s)
               /\ \A k \in 1..Len(s) : t[k] = t[k - 1] + s[k].size
  BY <1>1, SizesTurns
<1>3. \A k \in 1..Len(s) : d[k] = s[k].size /\ d[k] \in Nat
  BY <1>1, FacilitiesAssumption DEF Msg!Parameters, Msg!Message
<1> HIDE DEF d
<1>4. Adds(d, Len(s), t)
  BY <1>2, <1>3 DEF Adds
<1>5. QED
  BY <1>2, <1>3, <1>4

LEMMA SizesAppend ==
  ASSUME NEW s \in Seq(Msg!Message), NEW m \in Msg!Message
  PROVE  Sizes(s) \in Nat /\ Sizes(Append(s, m)) = Sizes(s) + m.size
<1>1. PICK n \in Nat : n = Len(s)
  OBVIOUS
<1> PICK o \in Nat : o = n + 1
  OBVIOUS
<1>2. PICK t, d : /\ Adds(d, n, t) /\ t[n] = Sizes(s)
                  /\ \A k \in 1..n : d[k] = s[k].size
  BY <1>1, SizesAre
<1>3. PICK z : z = Append(s, m)
  OBVIOUS
<1>4. /\ z \in Seq(Msg!Message) /\ Len(z) = o /\ z[o] = m
      /\ \A k \in 1..n : z[k] = s[k]
  BY <1>1, <1>3
<1>5. PICK u, e : /\ Adds(e, o, u) /\ u[o] = Sizes(z)
                  /\ \A k \in 1..o : e[k] = z[k].size
  BY <1>4, SizesAre
<1>6. t[n] = u[n]
  <2>1. \A k \in 1..n : d[k] = e[k]
    BY <1>2, <1>4, <1>5
  <2>2. n <= o /\ n <= n
    OBVIOUS
  <2>3. QED
    BY <1>2, <1>5, <2>1, <2>2, AddsSame
<1>7. u[o] = u[n] + m.size
  <2>1. o \in 1..o /\ o - 1 = n
    OBVIOUS
  <2>2. QED
    BY <1>4, <1>5, <2>1 DEF Adds
<1>8. t[n] \in Nat
  BY <1>2, AddsNat
<1>9. QED
  BY <1>2, <1>3, <1>5, <1>6, <1>7, <1>8

LEMMA Concatenation ==
  ASSUME NEW S, NEW a \in Seq(S), NEW b \in Seq(S)
  PROVE  /\ a \o b \in Seq(S) /\ Len(a \o b) = Len(a) + Len(b)
         /\ \A k \in 1..(Len(a) + Len(b)) :
              (a \o b)[k] = IF k <= Len(a) THEN a[k] ELSE b[k - Len(a)]
OBVIOUS

LEMMA RemoveAtIs ==
  ASSUME NEW S, NEW s \in Seq(S), NEW n \in Nat, Len(s) = n + 1, NEW i \in 1..Len(s)
  PROVE  /\ Msg!RemoveAt(s, i) \in Seq(S) /\ Len(Msg!RemoveAt(s, i)) = n
         /\ \A k \in 1..(i - 1) : Msg!RemoveAt(s, i)[k] = s[k]
         /\ \A k \in i..n : Msg!RemoveAt(s, i)[k] = s[k + 1]
<1> DEFINE a == SubSeq(s, 1, i - 1)
           b == SubSeq(s, i + 1, n + 1)
<1>1. a \in Seq(S) /\ Len(a) = i - 1 /\ \A k \in 1..(i - 1) : a[k] = s[k]
  OBVIOUS
<1>2. b \in Seq(S) /\ Len(b) = (n + 1) - i /\ \A k \in 1..((n + 1) - i) : b[k] = s[k + i]
  OBVIOUS
<1>3. Msg!RemoveAt(s, i) = a \o b
  BY DEF Msg!RemoveAt
<1> HIDE DEF a, b
<1>4. /\ a \o b \in Seq(S) /\ Len(a \o b) = n
      /\ \A k \in 1..n : (a \o b)[k] = IF k <= i - 1 THEN a[k] ELSE b[k - (i - 1)]
  <2>1. Len(a) + Len(b) = n
    BY <1>1, <1>2
  <2>2. /\ a \o b \in Seq(S) /\ Len(a \o b) = Len(a) + Len(b)
        /\ \A k \in 1..(Len(a) + Len(b)) :
             (a \o b)[k] = IF k <= Len(a) THEN a[k] ELSE b[k - Len(a)]
    BY <1>1, <1>2, Concatenation
  <2>3. QED
    BY <1>1, <2>1, <2>2
<1>5. \A k \in i..n : (a \o b)[k] = s[k + 1]
  <2> TAKE k \in i..n
  <2>1. k - (i - 1) \in 1..((n + 1) - i) /\ (k - (i - 1)) + i = k + 1 /\ k \in 1..n
    OBVIOUS
  <2>2. (a \o b)[k] = b[k - (i - 1)]
    BY <1>4, <2>1, SMTT(60)
  <2>3. QED
    BY <1>2, <2>1, <2>2
<1>6. \A k \in 1..(i - 1) : (a \o b)[k] = s[k]
  BY <1>1, <1>4
<1>7. QED
  BY <1>3, <1>4, <1>5, <1>6

LEMMA SizesRemove ==
  ASSUME NEW s \in Seq(Msg!Message), NEW i \in 1..Len(s)
  PROVE  Sizes(Msg!RemoveAt(s, i)) \in Nat
         /\ Sizes(s) = Sizes(Msg!RemoveAt(s, i)) + s[i].size
<1>1. PICK n \in Nat : Len(s) = n + 1
  <2>1. Len(s) - 1 \in Nat /\ Len(s) = (Len(s) - 1) + 1
    OBVIOUS
  <2>2. QED
    BY <2>1
<1> PICK m \in Nat : m = n + 1
  OBVIOUS
<1>2. PICK t, d : /\ Adds(d, m, t) /\ t[m] = Sizes(s)
                  /\ \A k \in 1..m : d[k] = s[k].size
  BY <1>1, SizesAre
<1>3. PICK z : z = Msg!RemoveAt(s, i)
  OBVIOUS
<1>4. /\ z \in Seq(Msg!Message) /\ Len(z) = n
      /\ \A k \in 1..(i - 1) : z[k] = s[k]
      /\ \A k \in i..n : z[k] = s[k + 1]
  <2>1. /\ Msg!RemoveAt(s, i) \in Seq(Msg!Message) /\ Len(Msg!RemoveAt(s, i)) = n
        /\ \A k \in 1..(i - 1) : Msg!RemoveAt(s, i)[k] = s[k]
        /\ \A k \in i..n : Msg!RemoveAt(s, i)[k] = s[k + 1]
    <3>1. n \in Nat /\ Len(s) = n + 1 /\ i \in 1..Len(s)
      BY <1>1
    <3>2. QED
      BY <3>1, RemoveAtIs, Zenon
  <2>2. QED
    BY <1>3, <2>1
<1>5. PICK u, e : /\ Adds(e, n, u) /\ u[n] = Sizes(z) /\ \A k \in 1..n : e[k] = z[k].size
  BY <1>4, SizesAre, SMTT(60)
<1>6. \A k \in 1..(i - 1) : d[k] = e[k]
  <2> TAKE k \in 1..(i - 1)
  <2>1. k \in 1..n /\ k \in 1..m
    BY <1>1
  <2>2. QED
    BY <1>2, <1>4, <1>5, <2>1
<1>7. \A k \in i..n : d[k + 1] = e[k]
  <2> TAKE k \in i..n
  <2>1. k \in 1..n /\ k + 1 \in 1..m
    BY <1>1
  <2>2. QED
    BY <1>2, <1>4, <1>5, <2>1
<1>8. i \in 1..m
  BY <1>1
<1>9. t[m] = u[n] + d[i] /\ u[n] \in Nat
  <2>1. t[m] = u[n] + d[i]
    BY <1>2, <1>5, <1>6, <1>7, <1>8, AddsWithout, SMTT(60)
  <2>2. n \in 0..n
    OBVIOUS
  <2>3. QED
    BY <1>5, <2>1, <2>2, AddsNat
<1>10. QED
  BY <1>2, <1>3, <1>5, <1>8, <1>9

LEMMA SizesNone == Sizes(<< >>) = 0
<1>1. PICK t, d : Adds(d, 0, t) /\ t[0] = Sizes(<< >>)
  <2>1. << >> \in Seq(Msg!Message) /\ Len(<< >>) = 0
    OBVIOUS
  <2>2. QED
    BY <2>1, SizesAre
<1>2. QED
  BY <1>1 DEF Adds

(* What the queues hold, as a function on the queues. *)
Contents == [Msg!Queue -> Seq(Msg!Message)]

LEMMA TotalIs ==
  ASSUME NEW ms \in Contents
  PROVE  \E t, d : /\ Adds(d, NMSQID, t) /\ t[NMSQID] = Total(ms)
                   /\ \A k \in 1..NMSQID : d[k] = Len(ms[k - 1])
<1> DEFINE d == [k \in 1..NMSQID |-> Len(ms[k - 1])]
<1>1. NMSQID \in Nat
  BY FacilitiesAssumption DEF Msg!Parameters
<1>2. PICK t : /\ t[0] = 0 /\ t[NMSQID] = Total(ms)
               /\ \A k \in 1..NMSQID : t[k] = t[k - 1] + Len(ms[k - 1])
  BY <1>1, TotalTurns
<1>3. \A k \in 1..NMSQID : d[k] = Len(ms[k - 1]) /\ d[k] \in Nat
  <2> TAKE k \in 1..NMSQID
  <2>1. k - 1 \in Msg!Queue
    BY <1>1 DEF Msg!Queue
  <2>2. ms[k - 1] \in Seq(Msg!Message)
    BY <2>1 DEF Contents
  <2>3. QED
    BY <2>2
<1> HIDE DEF d
<1>4. Adds(d, NMSQID, t)
  BY <1>2, <1>3 DEF Adds
<1>5. QED
  BY <1>2, <1>3, <1>4

LEMMA TotalChanges ==
  ASSUME NEW ms \in Contents, NEW ns \in Contents, NEW q \in Msg!Queue,
         \A x \in Msg!Queue : x # q => ms[x] = ns[x]
  PROVE  Total(ms) \in Nat /\ Total(ns) \in Nat
         /\ Total(ms) + Len(ns[q]) = Total(ns) + Len(ms[q])
<1>1. NMSQID \in Nat
  BY FacilitiesAssumption DEF Msg!Parameters
<1>2. PICK t, d : /\ Adds(d, NMSQID, t) /\ t[NMSQID] = Total(ms)
                  /\ \A k \in 1..NMSQID : d[k] = Len(ms[k - 1])
  BY TotalIs
<1>3. PICK u, e : /\ Adds(e, NMSQID, u) /\ u[NMSQID] = Total(ns)
                  /\ \A k \in 1..NMSQID : e[k] = Len(ns[k - 1])
  BY TotalIs
<1>4. PICK i \in 1..NMSQID : i - 1 = q
  <2>1. q + 1 \in 1..NMSQID /\ (q + 1) - 1 = q
    BY <1>1 DEF Msg!Queue
  <2>2. QED
    BY <2>1
<1>5. \A k \in 1..NMSQID : k # i => d[k] = e[k]
  <2> SUFFICES ASSUME NEW k \in 1..NMSQID, k # i PROVE d[k] = e[k]
    OBVIOUS
  <2>1. k - 1 \in Msg!Queue /\ k - 1 # q
    BY <1>1, <1>4 DEF Msg!Queue
  <2>2. ms[k - 1] = ns[k - 1]
    BY <2>1
  <2>3. QED
    BY <1>2, <1>3, <2>2
<1>6. t[NMSQID] + e[i] = u[NMSQID] + d[i]
  BY <1>1, <1>2, <1>3, <1>5, AddsOther
<1>7. t[NMSQID] \in Nat /\ u[NMSQID] \in Nat
  BY <1>1, <1>2, <1>3, AddsNat
<1>8. d[i] = Len(ms[q]) /\ e[i] = Len(ns[q])
  BY <1>2, <1>3, <1>4
<1>9. QED
  BY <1>2, <1>3, <1>6, <1>7, <1>8

LEMMA TotalBelow ==
  ASSUME NEW ms \in Contents, \A x \in Msg!Queue : Len(ms[x]) <= NMSG,
         NEW q \in Msg!Queue, Len(ms[q]) < NMSG
  PROVE  Total(ms) < NMSQID * NMSG
<1>1. NMSQID \in Nat /\ NMSG \in Nat
  BY FacilitiesAssumption DEF Msg!Parameters
<1>2. PICK t, d : /\ Adds(d, NMSQID, t) /\ t[NMSQID] = Total(ms)
                  /\ \A k \in 1..NMSQID : d[k] = Len(ms[k - 1])
  BY TotalIs
<1>3. \A k \in 1..NMSQID : d[k] <= NMSG
  <2> TAKE k \in 1..NMSQID
  <2>1. k - 1 \in Msg!Queue
    BY <1>1 DEF Msg!Queue
  <2>2. QED
    BY <1>2, <2>1
<1>4. PICK i \in 1..NMSQID : i - 1 = q
  <2>1. q + 1 \in 1..NMSQID /\ (q + 1) - 1 = q
    BY <1>1 DEF Msg!Queue
  <2>2. QED
    BY <2>1
<1>5. d[i] < NMSG
  BY <1>2, <1>4
<1>6. QED
  BY <1>1, <1>2, <1>3, <1>5, AddsBelow

LEMMA TotalNone ==
  ASSUME NEW ms \in Contents, \A x \in Msg!Queue : ms[x] = << >>
  PROVE  Total(ms) = 0
<1>1. NMSQID \in Nat
  BY FacilitiesAssumption DEF Msg!Parameters
<1>2. PICK t, d : /\ Adds(d, NMSQID, t) /\ t[NMSQID] = Total(ms)
                  /\ \A k \in 1..NMSQID : d[k] = Len(ms[k - 1])
  BY TotalIs
<1>3. \A k \in 1..NMSQID : d[k] = 0
  <2> TAKE k \in 1..NMSQID
  <2>1. ms[k - 1] = << >>
    BY <1>1 DEF Msg!Queue
  <2>2. QED
    BY <1>2, <2>1
<1> DEFINE S == {k \in Nat : k <= NMSQID => t[k] = 0}
<1>4. 0 \in S
  BY <1>2 DEF Adds
<1>5. ASSUME NEW k \in Nat, k \in S PROVE k + 1 \in S
  <2>1. SUFFICES ASSUME k + 1 <= NMSQID PROVE t[k + 1] = 0
    OBVIOUS
  <2>2. k + 1 \in 1..NMSQID /\ (k + 1) - 1 = k
    BY <1>1, <2>1
  <2>3. t[k + 1] = t[k] + d[k + 1]
    BY <1>2, <2>2 DEF Adds
  <2>4. QED
    BY <1>1, <1>3, <1>5, <2>1, <2>2, <2>3
<1>6. Nat \subseteq S
  <2> HIDE DEF S
  <2>1. QED
    BY <1>4, <1>5, Induction
<1>7. QED
  BY <1>1, <1>2, <1>6

-----------------------------------------------------------------------------
(* The search of umsgrcv(). *)

(* The message at i is asked for rather than the one at j: it is of a lesser
   type, or of the same and older; without a negative number age alone counts. *)
Best(s, want, i, j) ==
  IF want < 0 THEN s[j].type > s[i].type \/ (s[j].type = s[i].type /\ j >= i)
              ELSE j >= i

Searched(s, want, k, x) ==
  /\ x \in 0..k
  /\ x = 0 => \A j \in 1..k : ~Msg!Fits(s, want, j)
  /\ x # 0 => Msg!Fits(s, want, x) /\ \A j \in 1..k : Msg!Fits(s, want, j) => Best(s, want, x, j)

(* The loop of umsgrcv() finds the oldest message of the least of the types that
   are asked for, and none only if there is none. *)
THEOREM SearchFinds ==
  ASSUME NEW s, NEW n \in Nat, Len(s) = n, NEW want \in Int,
         \A j \in 1..n : s[j].type \in Int
  PROVE  Searched(s, want, n, Msg!Search(s, want))
<1>1. PICK t : /\ t[0] = 0 /\ t[n] = Msg!Search(s, want)
               /\ \A k \in 1..n : t[k] = IF Better(s, want, t[k - 1], k) THEN k ELSE t[k - 1]
  BY SearchTurns
<1> DEFINE S == {k \in Nat : k <= n => Searched(s, want, k, t[k])}
<1>2. 0 \in S
  BY <1>1 DEF Searched
<1>3. ASSUME NEW k \in Nat, k \in S PROVE k + 1 \in S
  <2>1. SUFFICES ASSUME k + 1 <= n PROVE Searched(s, want, k + 1, t[k + 1])
    OBVIOUS
  <2>2. k + 1 \in 1..n /\ (k + 1) - 1 = k
    BY <2>1
  <2>3. PICK x, y : x = t[k] /\ y = t[k + 1]
    OBVIOUS
  <2>4. y = IF Better(s, want, x, k + 1) THEN k + 1 ELSE x
    BY <1>1, <2>2, <2>3
  <2>5. Searched(s, want, k, x)
    BY <1>3, <2>1, <2>3
  <2>6. CASE Better(s, want, x, k + 1)
    <3>1. y = k + 1 /\ Msg!Fits(s, want, k + 1)
      BY <2>4, <2>6 DEF Better
    <3>2. ASSUME NEW j \in 1..(k + 1), Msg!Fits(s, want, j) PROVE Best(s, want, k + 1, j)
      <4>1. CASE j = k + 1
        BY <2>2, <4>1 DEF Best
      <4>2. CASE j \in 1..k
        <5>1. x # 0 /\ Best(s, want, x, j) /\ x \in 1..n
          BY <2>1, <2>5, <3>2, <4>2 DEF Searched
        <5>2. want < 0 /\ s[k + 1].type < s[x].type
          BY <2>6, <5>1 DEF Better
        <5>3. j \in 1..n
          BY <2>1, <4>2
        <5>4. s[j].type \in Int /\ s[x].type \in Int /\ s[k + 1].type \in Int
          BY <2>2, <5>1, <5>3
        <5>5. QED
          BY <5>1, <5>2, <5>4 DEF Best
      <4>3. QED
        BY <4>1, <4>2
    <3>3. QED
      BY <2>3, <3>1, <3>2 DEF Searched
  <2>7. CASE ~Better(s, want, x, k + 1)
    <3>1. y = x /\ x \in 0..(k + 1)
      BY <2>4, <2>5, <2>7 DEF Searched
    <3>2. ASSUME x = 0, NEW j \in 1..(k + 1) PROVE ~Msg!Fits(s, want, j)
      <4>1. ~Msg!Fits(s, want, k + 1)
        BY <2>7, <3>2 DEF Better
      <4>2. j = k + 1 \/ j \in 1..k
        OBVIOUS
      <4>3. QED
        BY <2>5, <3>2, <4>1, <4>2 DEF Searched
    <3>3. ASSUME x # 0, NEW j \in 1..(k + 1), Msg!Fits(s, want, j) PROVE Best(s, want, x, j)
      <4>1. CASE j = k + 1
        <5>1. ~(want < 0 /\ s[j].type < s[x].type)
          BY <2>7, <3>3, <4>1 DEF Better
        <5>2. x \in 1..n /\ j \in 1..n /\ j >= x
          BY <2>1, <2>5, <3>3, <4>1 DEF Searched
        <5>3. s[j].type \in Int /\ s[x].type \in Int
          BY <5>2
        <5>4. QED
          BY <5>1, <5>2, <5>3 DEF Best
      <4>2. CASE j \in 1..k
        BY <2>5, <3>3, <4>2 DEF Searched
      <4>3. QED
        BY <4>1, <4>2
    <3>4. QED
      BY <2>3, <2>5, <3>1, <3>2, <3>3 DEF Searched
  <2>8. QED
    BY <2>6, <2>7
<1>4. Nat \subseteq S
  <2> HIDE DEF S
  <2>1. QED
    BY <1>2, <1>3, Induction
<1>5. QED
  BY <1>1, <1>4

-----------------------------------------------------------------------------
(* The invariant of the message queues. *)

Pending(at, op, Args) ==
  [at : {at}, op : {op}, id : 0..(IDS - 1), q : Msg!Queue, args : UNION {Args[u] : u \in Users}]

LEMMA Numbers ==
  /\ NMSQID \in Nat \ {0} /\ NMSG \in Nat \ {0} /\ NMSC \in Nat /\ QBytes \subseteq Nat
  /\ STRIDE \in Nat \ {0} /\ IDS \in Nat /\ IDS >= NMSQID /\ Careful \in BOOLEAN
BY FacilitiesAssumption DEF Msg!Parameters

LEMMA MessagesAre ==
  /\ \A m \in Msg!Message : m.type \in Int /\ m.size \in Nat
  /\ \A a \in UNION {Sends[u] : u \in Users} :
       /\ [type |-> a.type, size |-> a.size] \in Msg!Message
       /\ a.size \in Nat /\ a.nowait \in BOOLEAN
  /\ \A a \in UNION {Receives[u] : u \in Users} :
       a.want \in Int /\ a.size \in Nat /\ a.nowait \in BOOLEAN
<1>1. \A u \in Users : /\ Sends[u] \subseteq [type : Nat \ {0}, size : 0..NMSC, nowait : BOOLEAN]
                       /\ Receives[u] \subseteq [want : Int, size : Nat, nowait : BOOLEAN]
  BY FacilitiesAssumption DEF Msg!Parameters
<1>2. ASSUME NEW m \in Msg!Message PROVE m.type \in Int /\ m.size \in Nat
  <2>1. /\ m.type \in UNION {{a.type : a \in Sends[u]} : u \in Users} /\ m.size \in 0..NMSC
    BY DEF Msg!Message
  <2>2. PICK u \in Users : \E a \in Sends[u] : m.type = a.type
    BY <2>1
  <2>3. QED
    BY <1>1, <2>1, <2>2, Numbers
<1>3. ASSUME NEW a \in UNION {Sends[u] : u \in Users}
      PROVE  /\ [type |-> a.type, size |-> a.size] \in Msg!Message
             /\ a.size \in Nat /\ a.nowait \in BOOLEAN
  <2>1. PICK u \in Users : a \in Sends[u]
    OBVIOUS
  <2>2. a.size \in 0..NMSC /\ a.nowait \in BOOLEAN
    BY <1>1, <2>1
  <2>3. a.type \in UNION {{b.type : b \in Sends[v]} : v \in Users}
    BY <2>1
  <2>4. QED
    BY <2>2, <2>3, Numbers DEF Msg!Message
<1>4. ASSUME NEW a \in UNION {Receives[u] : u \in Users}
      PROVE  a.want \in Int /\ a.size \in Nat /\ a.nowait \in BOOLEAN
  BY <1>1
<1>5. QED
  BY <1>2, <1>3, <1>4

(* The id of a call that has not yet returned is that of its queue only as long
   as the queue is not removed. *)
Calling ==
  \A u \in Users : mst[u] # Msg!NoCall /\ mst[u].id = seq[mst[u].q] => alloc[mst[u].q]

Counts ==
  \A q \in Msg!Queue : /\ qnum[q] = Len(msgs[q]) /\ qnum[q] <= NMSG
                       /\ cbytes[q] = Sizes(msgs[q])
                       /\ ~alloc[q] => msgs[q] = << >>

Books == Msg!TypeOK /\ Counts /\ msg_map = Total(msgs) /\ Calling

LEMMA AccountingIs ==
  /\ Msg!AccountingOK <=> Counts /\ msg_map = Total(msgs)
  /\ Msg!AccountingOK' <=> (Counts /\ msg_map = Total(msgs))'
BY DEF Msg!AccountingOK, Counts, Sizes, Total

LEMMA SleepersAre ==
  ASSUME Msg!TypeOK, NEW u \in Users, mst[u] # Msg!NoCall
  PROVE  /\ mst[u].q \in Msg!Queue /\ mst[u].id \in 0..(IDS - 1)
         /\ mst[u].at \in {"asleep", "woken", "signalled"}
         /\ \/ mst[u].op = "snd" /\ mst[u].args \in UNION {Sends[v] : v \in Users}
            \/ mst[u].op = "rcv" /\ mst[u].args \in UNION {Receives[v] : v \in Users}
<1>1. mst[u] \in Msg!Calls("snd", Sends) \/ mst[u] \in Msg!Calls("rcv", Receives)
  BY DEF Msg!TypeOK
<1>2. QED
  BY <1>1 DEF Msg!Calls

LEMMA IdQueue == \A id \in 0..(IDS - 1) : id % NMSQID \in Msg!Queue
BY Numbers DEF Msg!Queue

(* Where nothing in the queues changes but who waits for them. *)
LEMMA BooksKept ==
  ASSUME Books, Msg!TypeOK', UNCHANGED <<alloc, seq, msgs, cbytes, qnum, msg_map>>,
         \A u \in Users : mst'[u] # Msg!NoCall =>
           \/ mst[u] # Msg!NoCall /\ mst'[u].id = mst[u].id /\ mst'[u].q = mst[u].q
           \/ alloc[mst'[u].q]
  PROVE  Books'
<1>1. Counts' /\ msg_map' = Total(msgs')
  BY DEF Books, Counts
<1>2. Calling'
  BY DEF Books, Calling
<1>3. QED
  BY <1>1, <1>2 DEF Books

LEMMA ReturnBooks ==
  ASSUME Books, NEW u \in Users, Msg!Return(u), u \notin moverlooked,
         Msg!Unchanged, UNCHANGED <<rwait, wwait>>
  PROVE  Books'
<1>1. mst' = [mst EXCEPT ![u] = Msg!NoCall]
  BY DEF Msg!Return
<1>2. /\ mst' \in [Users -> {Msg!NoCall} \cup Msg!Calls("snd", Sends) \cup Msg!Calls("rcv", Receives)]
      /\ mst'[u] = Msg!NoCall
      /\ \A v \in Users \ {u} : mst'[v] = mst[v]
  BY <1>1 DEF Books, Msg!TypeOK
<1>3. Msg!TypeOK'
  <2>1. moverlooked \subseteq {v \in Users : mst'[v].at = "asleep"}
    BY <1>2 DEF Books, Msg!TypeOK
  <2>2. QED
    BY <1>2, <2>1 DEF Books, Msg!TypeOK, Msg!Unchanged
<1>4. \A v \in Users : mst'[v] # Msg!NoCall => mst'[v] = mst[v]
  BY <1>2
<1>5. QED
  BY <1>3, <1>4, BooksKept DEF Msg!Unchanged

LEMMA WaitBooks ==
  ASSUME Books, NEW u \in Users, NEW c, u \notin moverlooked,
         NEW at, c \in Pending(at, "snd", Sends) \cup Pending(at, "rcv", Receives),
         alloc[c.q], Msg!Wait(u, c), Msg!Unchanged
  PROVE  Books'
<1>1. PICK d : d = [c EXCEPT !.at = "asleep"]
  OBVIOUS
<1>2. /\ d \in Msg!Calls("snd", Sends) \cup Msg!Calls("rcv", Receives)
      /\ d.at = "asleep" /\ d.q = c.q /\ d.id = c.id /\ d.op = c.op /\ c.q \in Msg!Queue
  BY <1>1 DEF Pending, Msg!Calls
<1>3. /\ mst' = [mst EXCEPT ![u] = d]
      /\ rwait' = [rwait EXCEPT ![c.q] = @ \/ c.op = "rcv"]
      /\ wwait' = [wwait EXCEPT ![c.q] = @ \/ c.op = "snd"]
  BY <1>1 DEF Msg!Wait
<1>4. /\ mst' \in [Users -> {Msg!NoCall} \cup Msg!Calls("snd", Sends) \cup Msg!Calls("rcv", Receives)]
      /\ mst'[u] = d
      /\ \A v \in Users \ {u} : mst'[v] = mst[v]
  BY <1>2, <1>3 DEF Books, Msg!TypeOK
<1>5. Msg!TypeOK'
  <2>1. {rwait', wwait'} \subseteq [Msg!Queue -> BOOLEAN]
    <3>1. rwait \in [Msg!Queue -> BOOLEAN] /\ wwait \in [Msg!Queue -> BOOLEAN]
      BY DEF Books, Msg!TypeOK
    <3>2. QED
      BY <1>3, <3>1
  <2>2. moverlooked \subseteq {v \in Users : mst'[v].at = "asleep"}
    BY <1>4 DEF Books, Msg!TypeOK
  <2>3. QED
    BY <1>4, <2>1, <2>2 DEF Books, Msg!TypeOK, Msg!Unchanged
<1>6. \A v \in Users : mst'[v] = mst[v] \/ alloc[mst'[v].q]
  BY <1>2, <1>4
<1>7. QED
  BY <1>5, <1>6, BooksKept DEF Msg!Unchanged

(* A message more, or one less, in queue q. *)
LEMMA OneQueueBooks ==
  ASSUME Books, NEW q \in Msg!Queue, msgs' \in Contents,
         \A x \in Msg!Queue : x # q =>
           /\ msgs'[x] = msgs[x] /\ qnum'[x] = qnum[x] /\ cbytes'[x] = cbytes[x]
           /\ alloc'[x] = alloc[x],
         qnum'[q] = Len(msgs'[q]), qnum'[q] <= NMSG, cbytes'[q] = Sizes(msgs'[q]),
         ~alloc'[q] => msgs'[q] = << >>,
         msg_map' + Len(msgs[q]) = msg_map + Len(msgs'[q]), msg_map' \in Int
  PROVE  Counts' /\ msg_map' = Total(msgs') /\ Total(msgs') \in Nat
<1>1. Counts'
  <2> SUFFICES ASSUME NEW x \in Msg!Queue
               PROVE  /\ qnum'[x] = Len(msgs'[x]) /\ qnum'[x] <= NMSG
                      /\ cbytes'[x] = Sizes(msgs'[x])
                      /\ ~alloc'[x] => msgs'[x] = << >>
    BY DEF Counts
  <2>1. CASE x = q
    BY <2>1
  <2>2. CASE x # q
    BY <2>2 DEF Books, Counts
  <2>3. QED
    BY <2>1, <2>2
<1>2. PICK ms, ns : ms = msgs /\ ns = msgs'
  OBVIOUS
<1>3. ms \in Contents /\ ns \in Contents
  BY <1>2 DEF Books, Msg!TypeOK, Contents
<1>4. \A x \in Msg!Queue : x # q => ms[x] = ns[x]
  BY <1>2
<1>5. /\ Total(ms) \in Nat /\ Total(ns) \in Nat
      /\ Total(ms) + Len(ns[q]) = Total(ns) + Len(ms[q])
  BY <1>3, <1>4, TotalChanges
<1>6. msg_map = Total(ms) /\ Len(ms[q]) \in Nat /\ Len(ns[q]) \in Nat
  BY <1>2, <1>3 DEF Books, Contents
<1>7. msg_map' = Total(ns)
  BY <1>2, <1>5, <1>6
<1>8. QED
  BY <1>1, <1>2, <1>5, <1>7

(* Where a queue has room there is a free entry in the map. *)
LEMMA RoomInMap ==
  ASSUME Books, NEW q \in Msg!Queue, qnum[q] < NMSG
  PROVE  msg_map < NMSQID * NMSG
<1>1. PICK ms : ms = msgs
  OBVIOUS
<1>2. ms \in Contents /\ \A x \in Msg!Queue : Len(ms[x]) <= NMSG
  BY <1>1 DEF Books, Counts, Msg!TypeOK, Contents
<1>3. Len(ms[q]) < NMSG
  BY <1>1 DEF Books, Counts
<1>4. Total(ms) < NMSQID * NMSG
  BY <1>2, <1>3, TotalBelow
<1>5. QED
  BY <1>1, <1>4 DEF Books

LEMMA SendBooks ==
  ASSUME Books, NEW u \in Users, NEW c, u \notin moverlooked,
         NEW at, c \in Pending(at, "snd", Sends), alloc[c.q], Msg!Send(u, c)
  PROVE  Books'
<1> DEFINE q == c.q
           m == [type |-> c.args.type, size |-> c.args.size]
<1>1. /\ q \in Msg!Queue /\ m \in Msg!Message /\ m.size = c.args.size /\ c.args.size \in Nat
      /\ c \in Pending(at, "snd", Sends) \cup Pending(at, "rcv", Receives)
  <2>1. q \in Msg!Queue /\ c.args \in UNION {Sends[v] : v \in Users}
    BY DEF Pending
  <2>2. QED
    BY <2>1, MessagesAre
<1> HIDE DEF q, m
<1>2. CASE Msg!Full(q, c.args.size) /\ Msg!Wait(u, c) /\ Msg!Unchanged
  BY <1>1, <1>2, WaitBooks
<1>3. CASE /\ Msg!Full(q, c.args.size) /\ c.args.nowait /\ Msg!Return(u)
           /\ Msg!Unchanged /\ UNCHANGED <<rwait, wwait>>
  BY <1>3, ReturnBooks
<1>4. CASE /\ ~Msg!Full(q, c.args.size) /\ msg_map < NMSQID * NMSG
           /\ msgs' = [msgs EXCEPT ![q] = Append(@, m)]
           /\ msg_map' = msg_map + 1
           /\ cbytes' = [cbytes EXCEPT ![q] = @ + c.args.size]
           /\ qnum' = [qnum EXCEPT ![q] = @ + 1]
           /\ Msg!WakeupIf(rwait, q)
           /\ rwait' = [rwait EXCEPT ![q] = FALSE]
           /\ Msg!Return(u)
           /\ UNCHANGED <<NMSQB, alloc, wwait, seq, qbytes, moverlooked>>
  <2>1. /\ msgs \in Contents /\ qnum \in [Msg!Queue -> Nat] /\ cbytes \in [Msg!Queue -> Nat]
        /\ qbytes \in [Msg!Queue -> Nat] /\ rwait \in [Msg!Queue -> BOOLEAN]
        /\ mdeferred \subseteq Msg!Queue
    BY Numbers DEF Books, Msg!TypeOK, Contents
  <2>2. PICK s \in Seq(Msg!Message) : s = msgs[q]
    BY <1>1, <2>1 DEF Contents
  <2> PICK z : z = Append(s, m)
    OBVIOUS
  <2>3. /\ z \in Seq(Msg!Message) /\ Len(z) = Len(s) + 1 /\ Len(s) \in Nat
        /\ Sizes(s) \in Nat /\ Sizes(z) = Sizes(s) + m.size
    BY <1>1, SizesAppend
  <2>4. /\ msgs' \in Contents /\ msgs'[q] = z
        /\ \A x \in Msg!Queue : x # q => msgs'[x] = msgs[x]
    BY <1>1, <1>4, <2>1, <2>2, <2>3 DEF Contents
  <2>5. /\ qnum' \in [Msg!Queue -> Nat] /\ qnum'[q] = qnum[q] + 1
        /\ cbytes' \in [Msg!Queue -> Nat] /\ cbytes'[q] = cbytes[q] + m.size
        /\ \A x \in Msg!Queue : x # q => qnum'[x] = qnum[x] /\ cbytes'[x] = cbytes[x]
    BY <1>1, <1>4, <2>1
  <2>6. qnum[q] = Len(s) /\ cbytes[q] = Sizes(s)
    BY <1>1, <2>2 DEF Books, Counts
  <2>7. qnum[q] < NMSG
    BY <1>1, <1>4, <2>1, Numbers DEF Msg!Full
  <2>8. msg_map \in Nat /\ msg_map' = msg_map + 1 /\ msg_map' \in 0..(NMSQID * NMSG)
    BY <1>4, Numbers DEF Books, Msg!TypeOK
  <2>9. Counts' /\ msg_map' = Total(msgs') /\ Total(msgs') \in Nat
    <3>1. /\ qnum'[q] = Len(msgs'[q]) /\ qnum'[q] <= NMSG /\ cbytes'[q] = Sizes(msgs'[q])
          /\ alloc'[q] /\ alloc' = alloc
      <4>1. alloc[q] /\ alloc' = alloc
        BY <1>4 DEF q
      <4>2. qnum'[q] = Len(z) /\ qnum'[q] \in Nat /\ qnum'[q] <= NMSG
        BY <1>1, <2>1, <2>3, <2>5, <2>6, <2>7, Numbers
      <4>3. cbytes'[q] = Sizes(z)
        BY <2>3, <2>5, <2>6
      <4>4. QED
        BY <2>4, <4>1, <4>2, <4>3
    <3>2. msg_map' + Len(msgs[q]) = msg_map + Len(msgs'[q]) /\ msg_map' \in Int
      <4>1. msg_map \in Int /\ msg_map' = msg_map + 1
        BY <2>8
      <4>2. Len(msgs[q]) = Len(s) /\ Len(msgs'[q]) = Len(s) + 1 /\ Len(s) \in Int
        BY <2>2, <2>3, <2>4
      <4>3. QED
        BY <4>1, <4>2
    <3>3. QED
      BY <1>1, <2>4, <2>5, <3>1, <3>2, OneQueueBooks
  <2>10. /\ mst' \in [Users -> {Msg!NoCall} \cup Msg!Calls("snd", Sends) \cup Msg!Calls("rcv", Receives)]
         /\ mst'[u] = Msg!NoCall
         /\ \A v \in Users \ {u} : mst'[v] = mst[v]
    BY <1>4 DEF Books, Msg!TypeOK, Msg!Return
  <2>11. Msg!TypeOK'
    <3>1. moverlooked \subseteq {v \in Users : mst'[v].at = "asleep"}
      BY <2>10 DEF Books, Msg!TypeOK
    <3>2. rwait' \in [Msg!Queue -> BOOLEAN] /\ mdeferred' \subseteq Msg!Queue
      BY <1>1, <1>4, <2>1 DEF Msg!WakeupIf
    <3>3. msgs' \in [Msg!Queue -> Seq(Msg!Message)]
      BY <2>4 DEF Contents
    <3>4. {alloc, rwait, wwait}' \subseteq [Msg!Queue -> BOOLEAN]
      BY <1>4, <3>2 DEF Books, Msg!TypeOK
    <3>5. {cbytes, qnum}' \subseteq [Msg!Queue -> Nat]
      BY <2>5
    <3>6. NMSQB' \in QBytes /\ seq' \in [Msg!Queue -> 0..(IDS - 1)] /\ qbytes' \in [Msg!Queue -> QBytes]
      BY <1>4 DEF Books, Msg!TypeOK
    <3>7. msg_map' \in 0..(NMSQID * NMSG)
      BY <2>8
    <3>8. QED
      BY <1>4, <2>10, <3>1, <3>2, <3>3, <3>4, <3>5, <3>6, <3>7 DEF Msg!TypeOK
  <2>12. Calling'
    BY <1>4, <2>10 DEF Books, Calling
  <2>13. QED
    BY <2>9, <2>11, <2>12 DEF Books
<1>5. QED
  BY <1>2, <1>3, <1>4 DEF Msg!Send, q, m

LEMMA ReceiveBooks ==
  ASSUME Books, NEW u \in Users, NEW c, u \notin moverlooked,
         NEW at, c \in Pending(at, "rcv", Receives), alloc[c.q], Msg!Receive(u, c)
  PROVE  Books'
<1> DEFINE q == c.q
           i == Msg!Search(msgs[q], c.args.want)
<1>1. /\ q \in Msg!Queue /\ c.args.want \in Int
      /\ c \in Pending(at, "snd", Sends) \cup Pending(at, "rcv", Receives)
  <2>1. q \in Msg!Queue /\ c.args \in UNION {Receives[v] : v \in Users}
    BY DEF Pending
  <2>2. QED
    BY <2>1, MessagesAre
<1>2. PICK s \in Seq(Msg!Message) : s = msgs[q]
  BY <1>1 DEF Books, Msg!TypeOK
<1>3. i \in 0..Len(s) /\ Len(s) \in Nat
  <2>1. PICK n \in Nat : n = Len(s)
    OBVIOUS
  <2>2. \A j \in 1..n : s[j].type \in Int
    BY <2>1, MessagesAre
  <2>3. Searched(s, c.args.want, n, i)
    BY <1>1, <1>2, <2>1, <2>2, SearchFinds
  <2>4. QED
    BY <2>1, <2>3 DEF Searched
<1> HIDE DEF q, i
<1>4. CASE i = 0 /\ Msg!Wait(u, c) /\ Msg!Unchanged
  BY <1>1, <1>4, WaitBooks
<1>5. CASE Msg!Return(u) /\ Msg!Unchanged /\ UNCHANGED <<rwait, wwait>>
  BY <1>5, ReturnBooks
<1>6. CASE /\ i # 0
           /\ msgs' = [msgs EXCEPT ![q] = Msg!RemoveAt(@, i)]
           /\ msg_map' = msg_map - 1
           /\ cbytes' = [cbytes EXCEPT ![q] = @ - msgs[q][i].size]
           /\ qnum' = [qnum EXCEPT ![q] = @ - 1]
           /\ Msg!WakeupIf(wwait, q)
           /\ wwait' = [wwait EXCEPT ![q] = FALSE]
           /\ Msg!Return(u)
           /\ UNCHANGED <<NMSQB, alloc, rwait, seq, qbytes, moverlooked>>
  <2>1. /\ msgs \in Contents /\ qnum \in [Msg!Queue -> Nat] /\ cbytes \in [Msg!Queue -> Nat]
        /\ wwait \in [Msg!Queue -> BOOLEAN] /\ mdeferred \subseteq Msg!Queue
    BY DEF Books, Msg!TypeOK, Contents
  <2>2. PICK n \in Nat : Len(s) = n + 1 /\ i \in 1..Len(s)
    <3>1. Len(s) - 1 \in Nat /\ Len(s) = (Len(s) - 1) + 1 /\ i \in 1..Len(s)
      BY <1>3, <1>6
    <3>2. QED
      BY <3>1
  <2>3. PICK z : z = Msg!RemoveAt(s, i)
    OBVIOUS
  <2>4. z \in Seq(Msg!Message) /\ Len(z) = n
    <3>1. /\ Msg!RemoveAt(s, i) \in Seq(Msg!Message) /\ Len(Msg!RemoveAt(s, i)) = n
          /\ \A k \in 1..(i - 1) : Msg!RemoveAt(s, i)[k] = s[k]
          /\ \A k \in i..n : Msg!RemoveAt(s, i)[k] = s[k + 1]
      <4>1. n \in Nat /\ Len(s) = n + 1 /\ i \in 1..Len(s) /\ s \in Seq(Msg!Message)
        BY <2>2
      <4>2. QED
        BY <4>1, RemoveAtIs, Zenon
    <3>2. QED
      BY <2>3, <3>1
  <2>5. Sizes(z) \in Nat /\ Sizes(s) = Sizes(z) + s[i].size /\ s[i].size \in Nat
    <3>1. s[i].size \in Nat
      BY <2>2, MessagesAre
    <3>2. QED
      BY <2>2, <2>3, <3>1, SizesRemove
  <2>6. /\ msgs' \in Contents /\ msgs'[q] = z
        /\ \A x \in Msg!Queue : x # q => msgs'[x] = msgs[x]
    BY <1>1, <1>2, <1>6, <2>1, <2>3, <2>4 DEF Contents
  <2>7. qnum[q] = n + 1 /\ cbytes[q] = Sizes(s) /\ qnum[q] <= NMSG
    BY <1>1, <1>2, <2>2 DEF Books, Counts
  <2>8. /\ qnum' \in [Msg!Queue -> Nat] /\ qnum'[q] = n
        /\ cbytes' \in [Msg!Queue -> Nat] /\ cbytes'[q] = Sizes(z)
        /\ \A x \in Msg!Queue : x # q => qnum'[x] = qnum[x] /\ cbytes'[x] = cbytes[x]
    <3>1. qnum[q] - 1 = n /\ cbytes[q] - msgs[q][i].size = Sizes(z)
      BY <1>2, <2>5, <2>7
    <3>2. QED
      BY <1>1, <1>6, <2>1, <2>5, <3>1
  <2>9. Counts' /\ msg_map' = Total(msgs') /\ Total(msgs') \in Nat
    <3>1. /\ qnum'[q] = Len(msgs'[q]) /\ qnum'[q] <= NMSG /\ cbytes'[q] = Sizes(msgs'[q])
          /\ alloc'[q] /\ alloc' = alloc
      <4>1. alloc[q]
        BY DEF q
      <4>2. QED
        BY <1>6, <2>4, <2>6, <2>7, <2>8, <4>1, Numbers
    <3>2. msg_map' + Len(msgs[q]) = msg_map + Len(msgs'[q]) /\ msg_map' \in Int
      <4>1. msg_map \in Int
        BY DEF Books, Msg!TypeOK
      <4>2. QED
        BY <1>2, <1>6, <2>2, <2>4, <2>6, <4>1
    <3>3. QED
      BY <1>1, <2>6, <2>8, <3>1, <3>2, OneQueueBooks
  <2>10. /\ mst' \in [Users -> {Msg!NoCall} \cup Msg!Calls("snd", Sends) \cup Msg!Calls("rcv", Receives)]
         /\ mst'[u] = Msg!NoCall
         /\ \A v \in Users \ {u} : mst'[v] = mst[v]
    BY <1>6 DEF Books, Msg!TypeOK, Msg!Return
  <2>11. Msg!TypeOK'
    <3>1. moverlooked \subseteq {v \in Users : mst'[v].at = "asleep"}
      BY <2>10 DEF Books, Msg!TypeOK
    <3>2. wwait' \in [Msg!Queue -> BOOLEAN] /\ mdeferred' \subseteq Msg!Queue
      BY <1>1, <1>6, <2>1 DEF Msg!WakeupIf
    <3>3. msgs' \in [Msg!Queue -> Seq(Msg!Message)]
      BY <2>6 DEF Contents
    <3>4. msg_map' \in 0..(NMSQID * NMSG)
      <4>1. PICK top : top = NMSQID * NMSG
        OBVIOUS
      <4>2. msg_map \in 0..top /\ msg_map' = msg_map - 1 /\ msg_map' \in Nat /\ top \in Int
        BY <1>6, <2>9, <4>1, Numbers DEF Books, Msg!TypeOK
      <4>3. QED
        BY <4>1, <4>2
    <3>5. {alloc, rwait, wwait}' \subseteq [Msg!Queue -> BOOLEAN]
      BY <1>6, <3>2 DEF Books, Msg!TypeOK
    <3>6. {cbytes, qnum}' \subseteq [Msg!Queue -> Nat]
      BY <2>8
    <3>7. NMSQB' \in QBytes /\ seq' \in [Msg!Queue -> 0..(IDS - 1)] /\ qbytes' \in [Msg!Queue -> QBytes]
      BY <1>6 DEF Books, Msg!TypeOK
    <3>8. QED
      BY <1>6, <2>10, <3>1, <3>2, <3>3, <3>4, <3>5, <3>6, <3>7 DEF Msg!TypeOK
  <2>12. Calling'
    BY <1>6, <2>10 DEF Books, Calling
  <2>13. QED
    BY <2>9, <2>11, <2>12 DEF Books
<1>7. QED
  BY <1>4, <1>5, <1>6 DEF Msg!Receive, q, i

(* The queue a call begins with, and the call. *)
LEMMA SendBegins ==
  ASSUME Books, Careful, NEW u \in Users, NEW id, NEW m \in Sends[u], Msg!Msgsnd(u, id, m)
  PROVE  \E q \in Msg!Queue :
           /\ Msg!InCall("snd", id, q, m) \in Pending("call", "snd", Sends)
           /\ alloc[q] /\ seq[q] = id /\ u \notin moverlooked
           /\ Msg!Send(u, Msg!InCall("snd", id, q, m))
<1> DEFINE Q == {q \in Msg!Queue : seq[q] = id}
           q == CHOOSE r \in Q : \A s \in Q : r <= s
<1>1. /\ mst[u] = Msg!NoCall /\ Q # {} /\ alloc[q] /\ Msg!Send(u, Msg!InCall("snd", id, q, m))
  BY DEF Msg!Msgsnd
<1>2. q \in Q
  <2>1. Q \subseteq Nat
    BY Numbers DEF Msg!Queue
  <2>2. \E r \in Q : \A s \in Q : r <= s
    <3> HIDE DEF Q
    <3>1. QED
      BY <1>1, <2>1, LeastNumber
  <2>3. QED
    BY <2>2
<1> HIDE DEF q
<1>3. q \in Msg!Queue /\ seq[q] = id /\ id \in 0..(IDS - 1)
  BY <1>2 DEF Books, Msg!TypeOK
<1>4. m \in UNION {Sends[v] : v \in Users}
  OBVIOUS
<1>5. Msg!InCall("snd", id, q, m) \in Pending("call", "snd", Sends)
  BY <1>3, <1>4 DEF Pending, Msg!InCall
<1>6. u \notin moverlooked
  BY <1>1 DEF Books, Msg!TypeOK, Msg!NoCall
<1>7. QED
  BY <1>1, <1>3, <1>5, <1>6

LEMMA ReceiveBegins ==
  ASSUME Books, NEW u \in Users, NEW id \in 0..(IDS - 1), NEW r \in Receives[u],
         Msg!Msgrcv(u, id, r)
  PROVE  \E q \in Msg!Queue :
           /\ Msg!InCall("rcv", id, q, r) \in Pending("call", "rcv", Receives)
           /\ alloc[q] /\ seq[q] = id /\ u \notin moverlooked
           /\ Msg!Receive(u, Msg!InCall("rcv", id, q, r))
<1> DEFINE q == id % NMSQID
<1>1. q \in Msg!Queue
  BY IdQueue
<1>2. /\ mst[u] = Msg!NoCall /\ seq[q] = id /\ alloc[q]
      /\ Msg!Receive(u, Msg!InCall("rcv", id, q, r))
  BY DEF Msg!Msgrcv, Msg!Found
<1> HIDE DEF q
<1>3. r \in UNION {Receives[v] : v \in Users}
  OBVIOUS
<1>4. Msg!InCall("rcv", id, q, r) \in Pending("call", "rcv", Receives)
  BY <1>1, <1>3 DEF Pending, Msg!InCall
<1>5. u \notin moverlooked
  BY <1>2 DEF Books, Msg!TypeOK, Msg!NoCall
<1>6. QED
  BY <1>1, <1>2, <1>4, <1>5

(* A call that goes on after its sleep with a queue that is not removed. *)
LEMMA Resumes ==
  ASSUME Books, NEW u \in Users, mst[u].at = "woken", mst[u].id = seq[mst[u].q]
  PROVE  /\ alloc[mst[u].q] /\ u \notin moverlooked
         /\ mst[u].op = "snd" => mst[u] \in Pending("woken", "snd", Sends)
         /\ mst[u].op = "rcv" => mst[u] \in Pending("woken", "rcv", Receives)
<1>1. mst[u] # Msg!NoCall
  BY DEF Msg!NoCall
<1>2. mst[u] \in Msg!Calls("snd", Sends) \cup Msg!Calls("rcv", Receives)
  BY <1>1 DEF Books, Msg!TypeOK
<1>3. /\ mst[u].op = "snd" => mst[u] \in Pending("woken", "snd", Sends)
      /\ mst[u].op = "rcv" => mst[u] \in Pending("woken", "rcv", Receives)
  BY <1>2 DEF Msg!Calls, Pending
<1>4. u \notin moverlooked
  BY DEF Books, Msg!TypeOK
<1>5. QED
  BY <1>1, <1>3, <1>4 DEF Books, Calling

LEMMA WokenBooks ==
  ASSUME Books, NEW u \in Users, Msg!Woken(u)
  PROVE  Books'
<1>1. mst[u].at = "woken"
  BY DEF Msg!Woken
<1>2. CASE mst[u].id = seq[mst[u].q] /\ mst[u].op = "snd" /\ Msg!Send(u, mst[u])
  BY <1>1, <1>2, Resumes, SendBooks
<1>3. CASE mst[u].id = seq[mst[u].q] /\ mst[u].op = "rcv" /\ Msg!Receive(u, mst[u])
  BY <1>1, <1>3, Resumes, ReceiveBooks
<1>4. CASE Msg!Return(u) /\ Msg!Unchanged /\ UNCHANGED <<rwait, wwait>>
  <2>1. u \notin moverlooked
    BY <1>1 DEF Books, Msg!TypeOK
  <2>2. QED
    BY <1>4, <2>1, ReturnBooks
<1>5. QED
  BY <1>2, <1>3, <1>4 DEF Msg!Woken

LEMMA InterruptedBooks ==
  ASSUME Books, NEW u \in Users, Msg!Interrupted(u)
  PROVE  Books'
<1>1. u \notin moverlooked
  BY DEF Books, Msg!TypeOK, Msg!Interrupted
<1>2. QED
  BY <1>1, ReturnBooks DEF Msg!Interrupted

(* Calls that only go from one place to another. *)
LEMMA MovedCalls ==
  ASSUME Books, NEW W \in SUBSET Users, NEW at \in {"woken", "signalled"},
         \A v \in W : mst[v].at = "asleep",
         mst' = [v \in Users |-> IF v \in W THEN [mst[v] EXCEPT !.at = at] ELSE mst[v]],
         moverlooked' = moverlooked \ W, mdeferred' \subseteq Msg!Queue,
         UNCHANGED <<NMSQB, alloc, rwait, wwait, seq, msgs, cbytes, qnum, qbytes, msg_map>>
  PROVE  Books' /\ \A v \in Users : mst'[v].at = "asleep" => mst'[v] = mst[v] /\ v \notin W
<1>1. ASSUME NEW v \in W
      PROVE  /\ mst[v] # Msg!NoCall
             /\ mst'[v] \in Msg!Calls("snd", Sends) \cup Msg!Calls("rcv", Receives)
             /\ mst'[v].at = at /\ mst'[v].id = mst[v].id /\ mst'[v].q = mst[v].q
  <2>1. v \in Users /\ mst[v] # Msg!NoCall
    BY <1>1 DEF Msg!NoCall
  <2>2. mst[v] \in Msg!Calls("snd", Sends) \cup Msg!Calls("rcv", Receives)
    BY <2>1 DEF Books, Msg!TypeOK
  <2>3. mst'[v] = [mst[v] EXCEPT !.at = at]
    BY <2>1
  <2>4. QED
    BY <2>1, <2>2, <2>3 DEF Msg!Calls
<1>2. /\ mst' \in [Users -> {Msg!NoCall} \cup Msg!Calls("snd", Sends) \cup Msg!Calls("rcv", Receives)]
      /\ \A v \in Users \ W : mst'[v] = mst[v]
  <2>1. ASSUME NEW v \in Users
        PROVE  mst'[v] \in {Msg!NoCall} \cup Msg!Calls("snd", Sends) \cup Msg!Calls("rcv", Receives)
    <3>1. CASE v \in W
      BY <1>1, <3>1
    <3>2. CASE v \notin W
      BY <3>2 DEF Books, Msg!TypeOK
    <3>3. QED
      BY <3>1, <3>2
  <2>2. QED
    BY <2>1
<1>3. Msg!TypeOK'
  <2>1. moverlooked' \subseteq {v \in Users : mst'[v].at = "asleep"}
    BY <1>2 DEF Books, Msg!TypeOK
  <2>2. QED
    BY <1>2, <2>1 DEF Books, Msg!TypeOK
<1>4. \A v \in Users : mst'[v] # Msg!NoCall =>
        mst[v] # Msg!NoCall /\ mst'[v].id = mst[v].id /\ mst'[v].q = mst[v].q
  BY <1>1, <1>2
<1>5. Books'
  BY <1>3, <1>4, BooksKept
<1>6. \A v \in Users : mst'[v].at = "asleep" => mst'[v] = mst[v] /\ v \notin W
  BY <1>1, <1>2
<1>7. QED
  BY <1>5, <1>6

LEMMA SignalMoves ==
  ASSUME Books, NEW u \in Users, Msg!Signal(u)
  PROVE  Books' /\ \A v \in Users : mst'[v].at = "asleep" => mst'[v] = mst[v] /\ v # u
<1>1. /\ mst[u].at = "asleep" /\ moverlooked' = moverlooked \ {u}
      /\ mst' = [mst EXCEPT ![u] = [@ EXCEPT !.at = "signalled"]]
      /\ UNCHANGED <<NMSQB, alloc, rwait, wwait, seq, msgs, cbytes, qnum, qbytes, msg_map>>
      /\ mdeferred' \subseteq Msg!Queue
  BY DEF Msg!Signal, Books, Msg!TypeOK
<1>2. mst' = [v \in Users |-> IF v \in {u} THEN [mst[v] EXCEPT !.at = "signalled"] ELSE mst[v]]
  BY <1>1 DEF Books, Msg!TypeOK
<1>3. \A v \in {u} : mst[v].at = "asleep"
  BY <1>1
<1>4. {u} \in SUBSET Users
  OBVIOUS
<1>5. Books' /\ \A v \in Users : mst'[v].at = "asleep" => mst'[v] = mst[v] /\ v \notin {u}
  BY <1>1, <1>2, <1>3, <1>4, MovedCalls
<1>6. QED
  BY <1>5

LEMMA DefendMoves ==
  ASSUME Books, NEW q \in Msg!Queue, Msg!Defend(q)
  PROVE  /\ Books'
         /\ \A v \in Users : mst'[v].at = "asleep" => mst'[v] = mst[v] /\ v \notin Msg!Asleep(q)
<1>1. /\ moverlooked' = moverlooked \ Msg!Asleep(q)
      /\ mst' = [v \in Users |-> IF v \in Msg!Asleep(q) THEN [mst[v] EXCEPT !.at = "woken"] ELSE mst[v]]
      /\ UNCHANGED <<NMSQB, alloc, rwait, wwait, seq, msgs, cbytes, qnum, qbytes, msg_map>>
      /\ mdeferred' \subseteq Msg!Queue
  BY DEF Msg!Defend, Books, Msg!TypeOK
<1>2. Msg!Asleep(q) \in SUBSET Users /\ \A v \in Msg!Asleep(q) : mst[v].at = "asleep"
  BY DEF Msg!Asleep
<1>3. QED
  BY <1>1, <1>2, MovedCalls

LEMMA RmidBooks ==
  ASSUME Books, Careful, NEW id \in 0..(IDS - 1), Msg!Rmid(id)
  PROVE  Books'
<1>1. PICK q \in Msg!Queue : q = id % NMSQID
  BY IdQueue
<1>2. /\ alloc[q] /\ Msg!NotInUse(Msg!NextSeq(q))
      /\ msgs' = [msgs EXCEPT ![q] = << >>]
      /\ msg_map' = msg_map - Len(msgs[q])
      /\ cbytes' = [cbytes EXCEPT ![q] = 0]
      /\ qnum' = [qnum EXCEPT ![q] = 0]
      /\ alloc' = [alloc EXCEPT ![q] = FALSE]
      /\ rwait' = [rwait EXCEPT ![q] = FALSE]
      /\ wwait' = [wwait EXCEPT ![q] = FALSE]
      /\ seq' = [seq EXCEPT ![q] = Msg!NextSeq(q)]
      /\ moverlooked' = moverlooked \cup Msg!Asleep(q)
      /\ UNCHANGED <<NMSQB, qbytes, mst, mdeferred>>
  BY <1>1 DEF Msg!Rmid, Msg!Found
<1>3. /\ msgs \in Contents /\ qnum \in [Msg!Queue -> Nat] /\ cbytes \in [Msg!Queue -> Nat]
      /\ alloc \in [Msg!Queue -> BOOLEAN] /\ rwait \in [Msg!Queue -> BOOLEAN]
      /\ wwait \in [Msg!Queue -> BOOLEAN] /\ seq \in [Msg!Queue -> 0..(IDS - 1)]
  BY DEF Books, Msg!TypeOK, Contents
<1>4. Msg!NextSeq(q) \in 0..(IDS - 1)
  <2>1. seq[q] \in Nat /\ STRIDE \in Nat /\ IDS \in Nat \ {0}
    BY <1>3, Numbers
  <2>2. seq[q] + STRIDE \in Nat
    BY <2>1
  <2>3. QED
    BY <2>1, <2>2 DEF Msg!NextSeq
<1>5. << >> \in Seq(Msg!Message) /\ Len(<< >>) = 0
  OBVIOUS
<1>6. /\ msgs' \in Contents /\ msgs'[q] = << >> /\ qnum'[q] = 0 /\ cbytes'[q] = 0 /\ ~alloc'[q]
      /\ \A x \in Msg!Queue : x # q =>
           /\ msgs'[x] = msgs[x] /\ qnum'[x] = qnum[x] /\ cbytes'[x] = cbytes[x]
           /\ alloc'[x] = alloc[x] /\ seq'[x] = seq[x]
      /\ seq'[q] = Msg!NextSeq(q)
  BY <1>2, <1>3, <1>5 DEF Contents
<1>7. Counts' /\ msg_map' = Total(msgs') /\ Total(msgs') \in Nat
  <2>1. qnum'[q] = Len(msgs'[q]) /\ qnum'[q] <= NMSG /\ cbytes'[q] = Sizes(msgs'[q])
    BY <1>5, <1>6, Numbers, SizesNone
  <2>2. msg_map' + Len(msgs[q]) = msg_map + Len(msgs'[q]) /\ msg_map' \in Int
    <3>1. msg_map \in Int /\ Len(msgs[q]) \in Int /\ Len(msgs'[q]) = 0
      BY <1>3, <1>5, <1>6 DEF Books, Msg!TypeOK, Contents
    <3>2. QED
      BY <1>2, <3>1
  <2>3. QED
    BY <1>6, <2>1, <2>2, OneQueueBooks
<1>8. Msg!TypeOK'
  <2>1. {alloc, rwait, wwait}' \subseteq [Msg!Queue -> BOOLEAN]
    BY <1>2, <1>3
  <2>2. {cbytes, qnum}' \subseteq [Msg!Queue -> Nat]
    BY <1>2, <1>3
  <2>3. seq' \in [Msg!Queue -> 0..(IDS - 1)]
    BY <1>2, <1>3, <1>4
  <2>4. msg_map' \in 0..(NMSQID * NMSG)
    <3>1. PICK top : top = NMSQID * NMSG
      OBVIOUS
    <3>2. msg_map \in 0..top /\ top \in Int
      BY <3>1, Numbers DEF Books, Msg!TypeOK
    <3>3. msg_map' \in Nat /\ msg_map' <= msg_map
      <4>1. msgs[q] \in Seq(Msg!Message)
        BY <1>3 DEF Contents
      <4>2. Len(msgs[q]) \in Nat
        BY <4>1
      <4>3. QED
        BY <1>2, <1>7, <3>2, <4>2
    <3>4. QED
      BY <3>1, <3>2, <3>3
  <2>5. moverlooked' \subseteq {v \in Users : mst'[v].at = "asleep"}
    BY <1>2 DEF Books, Msg!TypeOK, Msg!Asleep
  <2>6. msgs' \in [Msg!Queue -> Seq(Msg!Message)]
    BY <1>6 DEF Contents
  <2>7. /\ NMSQB' \in QBytes /\ qbytes' \in [Msg!Queue -> QBytes] /\ mdeferred' \subseteq Msg!Queue
        /\ mst' \in [Users -> {Msg!NoCall} \cup Msg!Calls("snd", Sends) \cup Msg!Calls("rcv", Receives)]
    BY <1>2 DEF Books, Msg!TypeOK
  <2>8. QED
    BY <2>1, <2>2, <2>3, <2>4, <2>5, <2>6, <2>7 DEF Msg!TypeOK
<1>9. Calling'
  <2> SUFFICES ASSUME NEW v \in Users, mst'[v] # Msg!NoCall, mst'[v].id = seq'[mst'[v].q]
               PROVE  alloc'[mst'[v].q]
    BY DEF Calling
  <2>1. mst[v] = mst'[v] /\ mst[v] # Msg!NoCall /\ mst[v].q \in Msg!Queue
    BY <1>2, SleepersAre DEF Books
  <2>2. mst[v].id # Msg!NextSeq(q)
    BY <1>2, <2>1 DEF Msg!NotInUse
  <2>3. mst[v].q # q
    BY <1>6, <2>1, <2>2
  <2>4. QED
    BY <1>6, <2>1, <2>3 DEF Books, Calling
<1>10. QED
  BY <1>7, <1>8, <1>9 DEF Books

LEMMA IpcSetBooks ==
  ASSUME Books, NEW id \in 0..(IDS - 1), NEW n \in QBytes, Msg!IpcSet(id, n)
  PROVE  Books'
<1>1. PICK q \in Msg!Queue : q = id % NMSQID
  BY IdQueue
<1>2. /\ NMSQB' = n /\ qbytes' = [qbytes EXCEPT ![q] = n]
      /\ moverlooked' = moverlooked \/ moverlooked' \subseteq moverlooked \cup Msg!Asleep(q)
      /\ UNCHANGED <<alloc, rwait, wwait, seq, msgs, cbytes, qnum, msg_map, mst, mdeferred>>
  BY <1>1 DEF Msg!IpcSet
<1>3. Msg!TypeOK'
  <2>1. moverlooked' \subseteq {v \in Users : mst'[v].at = "asleep"}
    BY <1>2 DEF Books, Msg!TypeOK, Msg!Asleep
  <2>2. qbytes' \in [Msg!Queue -> QBytes]
    BY <1>2 DEF Books, Msg!TypeOK
  <2>3. QED
    BY <1>2, <2>1, <2>2 DEF Books, Msg!TypeOK
<1>4. QED
  BY <1>2, <1>3, BooksKept

LEMMA MsggetBooks ==
  ASSUME Books, NEW q \in Msg!Queue, Msg!Msgget(q)
  PROVE  Books'
<1>1. /\ ~alloc[q]
      /\ alloc' = [alloc EXCEPT ![q] = TRUE] /\ qnum' = [qnum EXCEPT ![q] = 0]
      /\ rwait' = [rwait EXCEPT ![q] = FALSE] /\ wwait' = [wwait EXCEPT ![q] = FALSE]
      /\ UNCHANGED <<NMSQB, seq, msgs, cbytes, qbytes, msg_map, mst, mdeferred, moverlooked>>
  BY DEF Msg!Msgget
<1>2. /\ qnum \in [Msg!Queue -> Nat] /\ cbytes \in [Msg!Queue -> Nat]
      /\ alloc \in [Msg!Queue -> BOOLEAN] /\ rwait \in [Msg!Queue -> BOOLEAN]
      /\ wwait \in [Msg!Queue -> BOOLEAN]
  BY DEF Books, Msg!TypeOK
<1>3. /\ qnum'[q] = 0 /\ alloc'[q]
      /\ \A x \in Msg!Queue : x # q => qnum'[x] = qnum[x] /\ alloc'[x] = alloc[x]
  BY <1>1, <1>2
<1>4. Counts'
  <2> SUFFICES ASSUME NEW x \in Msg!Queue
               PROVE  /\ qnum'[x] = Len(msgs'[x]) /\ qnum'[x] <= NMSG
                      /\ cbytes'[x] = Sizes(msgs'[x])
                      /\ ~alloc'[x] => msgs'[x] = << >>
    BY DEF Counts
  <2>1. CASE x = q
    <3>1. msgs[x] = << >> /\ Len(<< >>) = 0 /\ cbytes[x] = Sizes(msgs[x])
      BY <1>1, <2>1 DEF Books, Counts
    <3>2. QED
      BY <1>1, <1>3, <2>1, <3>1, Numbers
  <2>2. CASE x # q
    BY <1>1, <1>3, <2>2 DEF Books, Counts
  <2>3. QED
    BY <2>1, <2>2
<1>5. Msg!TypeOK'
  <2>1. {alloc, rwait, wwait}' \subseteq [Msg!Queue -> BOOLEAN]
    BY <1>1, <1>2
  <2>2. {cbytes, qnum}' \subseteq [Msg!Queue -> Nat]
    BY <1>1, <1>2
  <2>3. QED
    BY <1>1, <2>1, <2>2 DEF Books, Msg!TypeOK
<1>6. Calling'
  <2> SUFFICES ASSUME NEW v \in Users, mst'[v] # Msg!NoCall, mst'[v].id = seq'[mst'[v].q]
               PROVE  alloc'[mst'[v].q]
    BY DEF Calling
  <2>1. mst[v].q \in Msg!Queue /\ alloc[mst[v].q] /\ mst'[v] = mst[v]
    BY <1>1, SleepersAre DEF Books, Calling
  <2>2. QED
    BY <1>3, <2>1
<1>7. QED
  BY <1>1, <1>4, <1>5, <1>6 DEF Books

LEMMA IdsAre ==
  ASSUME Msg!TypeOK, NEW u \in Users, NEW id \in Msg!Ids(u)
  PROVE  id \in 0..(IDS - 1)
<1>1. Knows[u] \subseteq Msg!Queue
  BY FacilitiesAssumption DEF Msg!Parameters
<1>2. PICK q \in Knows[u] : id = seq[q]
  BY DEF Msg!Ids
<1>3. QED
  BY <1>1, <1>2 DEF Msg!TypeOK

LEMMA BooksStep ==
  ASSUME Careful, Books, [Msg!Next]_qvars
  PROVE  Books'
<1>1. ASSUME NEW u \in Users, NEW id \in Msg!Ids(u), NEW m \in Sends[u], Msg!Msgsnd(u, id, m)
      PROVE  Books'
  <2>1. PICK q \in Msg!Queue :
          /\ Msg!InCall("snd", id, q, m) \in Pending("call", "snd", Sends)
          /\ alloc[q] /\ seq[q] = id /\ u \notin moverlooked
          /\ Msg!Send(u, Msg!InCall("snd", id, q, m))
    BY <1>1, SendBegins
  <2>2. Msg!InCall("snd", id, q, m).q = q
    BY DEF Msg!InCall
  <2>3. PICK c : c = Msg!InCall("snd", id, q, m)
    OBVIOUS
  <2>4. c \in Pending("call", "snd", Sends) /\ alloc[c.q] /\ u \notin moverlooked /\ Msg!Send(u, c)
    BY <2>1, <2>2, <2>3
  <2>5. QED
    BY <2>4, SendBooks
<1>2. ASSUME NEW u \in Users, NEW id \in Msg!Ids(u), NEW r \in Receives[u], Msg!Msgrcv(u, id, r)
      PROVE  Books'
  <2>1. id \in 0..(IDS - 1)
    BY IdsAre DEF Books
  <2>2. PICK q \in Msg!Queue :
          /\ Msg!InCall("rcv", id, q, r) \in Pending("call", "rcv", Receives)
          /\ alloc[q] /\ seq[q] = id /\ u \notin moverlooked
          /\ Msg!Receive(u, Msg!InCall("rcv", id, q, r))
    BY <1>2, <2>1, ReceiveBegins
  <2>3. Msg!InCall("rcv", id, q, r).q = q
    BY DEF Msg!InCall
  <2>4. PICK c : c = Msg!InCall("rcv", id, q, r)
    OBVIOUS
  <2>5. c \in Pending("call", "rcv", Receives) /\ alloc[c.q] /\ u \notin moverlooked /\ Msg!Receive(u, c)
    BY <2>2, <2>3, <2>4
  <2>6. QED
    BY <2>5, ReceiveBooks
<1>3. ASSUME NEW u \in Users, Msg!Woken(u) \/ Msg!Interrupted(u) \/ Msg!Signal(u)
      PROVE  Books'
  BY <1>3, WokenBooks, InterruptedBooks, SignalMoves
<1>4. ASSUME NEW u \in Users, NEW id \in Msg!Ids(u),
             Msg!Rmid(id) \/ \E n \in QBytes : Msg!IpcSet(id, n)
      PROVE  Books'
  <2>1. id \in 0..(IDS - 1)
    BY IdsAre DEF Books
  <2>2. QED
    BY <1>4, <2>1, RmidBooks, IpcSetBooks
<1>5. ASSUME NEW q \in Msg!Queue, Msg!Msgget(q) \/ Msg!Defend(q)
      PROVE  Books'
  BY <1>5, MsggetBooks, DefendMoves
<1>6. CASE UNCHANGED qvars
  <2>1. Msg!TypeOK'
    BY <1>6 DEF Books, Msg!TypeOK, qvars
  <2>2. QED
    BY <1>6, <2>1, BooksKept DEF qvars
<1>7. QED
  BY <1>1, <1>2, <1>3, <1>4, <1>5, <1>6 DEF Msg!Next

-----------------------------------------------------------------------------
(* Nobody is forgotten in umsgsnd() or umsgrcv(). *)

(* A sleeper's call has nothing to do yet, and the flag of its queue is up that
   makes whoever changes that wake the queue. *)
Idle(c) ==
  /\ alloc[c.q]
  /\ \/ c.op = "snd" /\ wwait[c.q] /\ Msg!Full(c.q, c.args.size)
     \/ c.op = "rcv" /\ rwait[c.q] /\ \A i \in 1..Len(msgs[c.q]) : ~Msg!Fits(msgs[c.q], c.args.want, i)

Flagged ==
  \A u \in Users : mst[u].at = "asleep" =>
    mst[u].q \in mdeferred \/ u \in moverlooked \/ Idle(mst[u])

LEMMA FlaggedSuffices == ASSUME Books, Flagged PROVE Msg!NobodyStranded
<1> SUFFICES ASSUME NEW u \in Users, mst[u].at = "asleep",
                    mst[u].q \notin mdeferred, u \notin moverlooked
             PROVE  \/ mst[u].op = "snd" /\ Msg!Full(mst[u].q, mst[u].args.size)
                    \/ mst[u].op = "rcv" /\ \A i \in DOMAIN msgs[mst[u].q] :
                                               ~Msg!Fits(msgs[mst[u].q], mst[u].args.want, i)
  BY DEF Msg!NobodyStranded
<1>1. mst[u].q \in Msg!Queue
  BY SleepersAre DEF Books, Msg!NoCall
<1>2. PICK s \in Seq(Msg!Message) : s = msgs[mst[u].q]
  BY <1>1 DEF Books, Msg!TypeOK
<1>3. DOMAIN s = 1..Len(s)
  OBVIOUS
<1>4. Idle(mst[u])
  BY DEF Flagged
<1>5. QED
  BY <1>2, <1>3, <1>4 DEF Idle

(* Where the queues, but for flags that are raised, stay as they are. *)
LEMMA FlaggedKept ==
  ASSUME Books, Flagged, UNCHANGED <<alloc, msgs, cbytes, qnum, qbytes, mdeferred>>,
         moverlooked \subseteq moverlooked',
         \A q \in Msg!Queue : (rwait[q] => rwait'[q]) /\ (wwait[q] => wwait'[q]),
         \A v \in Users : mst'[v].at = "asleep" => mst'[v] = mst[v] \/ Idle(mst[v])'
  PROVE  Flagged'
<1> SUFFICES ASSUME NEW v \in Users, mst'[v].at = "asleep", mst'[v] = mst[v]
             PROVE  mst'[v].q \in mdeferred' \/ v \in moverlooked' \/ Idle(mst[v])'
  BY DEF Flagged
<1>1. mst[v].q \in mdeferred \/ v \in moverlooked \/ Idle(mst[v])
  BY DEF Flagged
<1>2. mst[v].q \in Msg!Queue
  BY SleepersAre DEF Books, Msg!NoCall
<1>3. PICK c : c = mst[v]
  OBVIOUS
<1>4. Idle(c) => Idle(c)'
  BY <1>2, <1>3 DEF Idle, Msg!Full, Msg!Fits
<1>5. Idle(c)' => Idle(mst[v])'
  BY <1>3 DEF Idle, Msg!Full, Msg!Fits
<1>6. QED
  BY <1>1, <1>3, <1>4, <1>5

LEMMA ReturnFlagged ==
  ASSUME Books, Flagged, NEW u \in Users, Msg!Return(u), Msg!Unchanged, UNCHANGED <<rwait, wwait>>
  PROVE  Flagged'
<1>1. \A v \in Users : mst'[v].at = "asleep" => mst'[v] = mst[v]
  BY DEF Msg!Return, Msg!NoCall, Books, Msg!TypeOK
<1>2. QED
  BY <1>1, FlaggedKept DEF Msg!Unchanged

LEMMA WaitFlagged ==
  ASSUME Books, Flagged, NEW u \in Users, NEW c, alloc[c.q],
         NEW at, c \in Pending(at, "snd", Sends) \cup Pending(at, "rcv", Receives),
         c.op = "snd" => Msg!Full(c.q, c.args.size),
         c.op = "rcv" => \A i \in 1..Len(msgs[c.q]) : ~Msg!Fits(msgs[c.q], c.args.want, i),
         Msg!Wait(u, c), Msg!Unchanged
  PROVE  Flagged'
<1>1. PICK d : d = [c EXCEPT !.at = "asleep"]
  OBVIOUS
<1>2. /\ d.q = c.q /\ d.op = c.op /\ d.args = c.args
      /\ c.q \in Msg!Queue /\ c.op \in {"snd", "rcv"}
  BY <1>1 DEF Pending
<1>3. /\ mst' = [mst EXCEPT ![u] = d]
      /\ rwait' = [rwait EXCEPT ![c.q] = @ \/ c.op = "rcv"]
      /\ wwait' = [wwait EXCEPT ![c.q] = @ \/ c.op = "snd"]
  BY <1>1 DEF Msg!Wait
<1>4. mst'[u] = d /\ \A v \in Users : v # u => mst'[v] = mst[v]
  BY <1>3 DEF Books, Msg!TypeOK
<1>5. rwait \in [Msg!Queue -> BOOLEAN] /\ wwait \in [Msg!Queue -> BOOLEAN]
  BY DEF Books, Msg!TypeOK
<1>6. /\ \A q \in Msg!Queue : (rwait[q] => rwait'[q]) /\ (wwait[q] => wwait'[q])
      /\ c.op = "rcv" => rwait'[c.q]
      /\ c.op = "snd" => wwait'[c.q]
  BY <1>2, <1>3, <1>5
<1>7. alloc' = alloc /\ msgs' = msgs /\ qnum' = qnum /\ cbytes' = cbytes /\ qbytes' = qbytes
  BY DEF Msg!Unchanged
<1>8. Idle(d)'
  BY <1>2, <1>6, <1>7 DEF Idle, Msg!Full, Msg!Fits
<1>9. \A v \in Users : mst'[v] = mst[v] \/ Idle(mst[v])'
  <2>1. Idle(mst[u])'
    BY <1>4, <1>8 DEF Idle, Msg!Full, Msg!Fits
  <2>2. QED
    BY <1>4, <2>1
<1>10. QED
  BY <1>6, <1>9, FlaggedKept DEF Msg!Unchanged

LEMMA SendFlagged ==
  ASSUME Books, Flagged, NEW u \in Users, NEW c, u \notin moverlooked,
         NEW at, c \in Pending(at, "snd", Sends), alloc[c.q], Msg!Send(u, c)
  PROVE  Flagged'
<1> DEFINE q == c.q
<1>1. /\ q \in Msg!Queue /\ c.args.size \in Nat /\ c.op = "snd"
      /\ c \in Pending(at, "snd", Sends) \cup Pending(at, "rcv", Receives)
  <2>1. q \in Msg!Queue /\ c.args \in UNION {Sends[v] : v \in Users} /\ c.op = "snd"
    BY DEF Pending
  <2>2. QED
    BY <2>1, MessagesAre
<1> HIDE DEF q
<1>2. CASE Msg!Full(c.q, c.args.size) /\ Msg!Wait(u, c) /\ Msg!Unchanged
  BY <1>1, <1>2, WaitFlagged
<1>3. CASE Msg!Return(u) /\ Msg!Unchanged /\ UNCHANGED <<rwait, wwait>>
  BY <1>3, ReturnFlagged
<1>4. CASE /\ msgs' = [msgs EXCEPT ![q] = Append(@, [type |-> c.args.type, size |-> c.args.size])]
           /\ cbytes' = [cbytes EXCEPT ![q] = @ + c.args.size]
           /\ qnum' = [qnum EXCEPT ![q] = @ + 1]
           /\ Msg!WakeupIf(rwait, q)
           /\ rwait' = [rwait EXCEPT ![q] = FALSE]
           /\ Msg!Return(u)
           /\ UNCHANGED <<NMSQB, alloc, wwait, seq, qbytes, moverlooked>>
  <2>1. /\ msgs \in Contents /\ qnum \in [Msg!Queue -> Nat] /\ cbytes \in [Msg!Queue -> Nat]
        /\ qbytes \in [Msg!Queue -> Nat] /\ rwait \in [Msg!Queue -> BOOLEAN]
    BY Numbers DEF Books, Msg!TypeOK, Contents
  <2>2. /\ mst'[u] = Msg!NoCall /\ \A v \in Users : v # u => mst'[v] = mst[v]
    BY <1>4 DEF Msg!Return, Books, Msg!TypeOK
  <2>3. /\ qnum'[q] = qnum[q] + 1 /\ cbytes'[q] = cbytes[q] + c.args.size
        /\ \A x \in Msg!Queue : x # q =>
             /\ msgs'[x] = msgs[x] /\ qnum'[x] = qnum[x] /\ cbytes'[x] = cbytes[x]
             /\ rwait'[x] = rwait[x]
    BY <1>1, <1>4, <2>1 DEF Contents
  <2>4. mdeferred \subseteq mdeferred' /\ (rwait[q] => q \in mdeferred')
    BY <1>4 DEF Msg!WakeupIf
  <2> SUFFICES ASSUME NEW v \in Users, mst'[v].at = "asleep"
               PROVE  mst'[v].q \in mdeferred' \/ v \in moverlooked' \/ Idle(mst[v])'
    BY DEF Flagged
  <2>5. mst'[v] = mst[v]
    BY <2>2 DEF Msg!NoCall
  <2>6. PICK d : d = mst[v]
    OBVIOUS
  <2>7. Idle(d)' => Idle(mst[v])'
    BY <2>5, <2>6 DEF Idle, Msg!Full, Msg!Fits
  <2>8. SUFFICES ASSUME Idle(d), d.q \notin mdeferred' PROVE Idle(d)'
    BY <1>4, <2>4, <2>5, <2>6, <2>7 DEF Flagged
  <2>9. d.q \in Msg!Queue /\ (d.op = "snd" => d.args.size \in Nat)
    <3>1. d # Msg!NoCall
      BY <2>5, <2>6 DEF Msg!NoCall
    <3>2. /\ d.q \in Msg!Queue
          /\ d.op = "snd" => d.args \in UNION {Sends[w] : w \in Users}
      <4>1. "snd" # "rcv"
        OBVIOUS
      <4>2. QED
        BY <2>6, <3>1, <4>1, SleepersAre DEF Books
    <3>3. QED
      BY <3>2, MessagesAre
  <2>10. CASE d.q # q
    BY <1>4, <2>3, <2>8, <2>9, <2>10 DEF Idle, Msg!Full, Msg!Fits
  <2>11. CASE d.q = q
    <3>1. d.op = "snd" /\ wwait[q] /\ Msg!Full(q, d.args.size) /\ alloc[q]
      BY <2>4, <2>8, <2>11 DEF Idle
    <3>2. Msg!Full(q, d.args.size)'
      <4>1. /\ qnum[q] \in Nat /\ cbytes[q] \in Nat /\ qbytes[q] \in Nat /\ qbytes' = qbytes
            /\ d.args.size \in Nat /\ NMSG \in Nat
        BY <1>1, <1>4, <2>1, <2>9, <3>1, Numbers
      <4>2. qnum[q] >= NMSG \/ qbytes[q] < cbytes[q] + d.args.size
        BY <3>1 DEF Msg!Full
      <4>3. qnum'[q] >= NMSG \/ qbytes'[q] < cbytes'[q] + d.args.size
        BY <1>1, <2>3, <4>1, <4>2
      <4>4. QED
        BY <4>3 DEF Msg!Full
    <3>3. QED
      BY <1>4, <2>11, <3>1, <3>2 DEF Idle
  <2>12. QED
    BY <2>10, <2>11
<1>5. QED
  BY <1>2, <1>3, <1>4 DEF Msg!Send, q

LEMMA ReceiveFlagged ==
  ASSUME Books, Flagged, NEW u \in Users, NEW c, u \notin moverlooked,
         NEW at, c \in Pending(at, "rcv", Receives), alloc[c.q], Msg!Receive(u, c)
  PROVE  Flagged'
<1> DEFINE q == c.q
           i == Msg!Search(msgs[q], c.args.want)
<1>1. /\ q \in Msg!Queue /\ c.args.want \in Int /\ c.op = "rcv"
      /\ c \in Pending(at, "snd", Sends) \cup Pending(at, "rcv", Receives)
  <2>1. q \in Msg!Queue /\ c.args \in UNION {Receives[v] : v \in Users} /\ c.op = "rcv"
    BY DEF Pending
  <2>2. QED
    BY <2>1, MessagesAre
<1>2. PICK s \in Seq(Msg!Message) : s = msgs[q]
  BY <1>1 DEF Books, Msg!TypeOK
<1>3. /\ i \in 0..Len(s) /\ Len(s) \in Nat
      /\ i = 0 => \A j \in 1..Len(s) : ~Msg!Fits(s, c.args.want, j)
  <2>1. PICK n \in Nat : n = Len(s)
    OBVIOUS
  <2>2. \A j \in 1..n : s[j].type \in Int
    BY <2>1, MessagesAre
  <2>3. Searched(s, c.args.want, n, i)
    BY <1>1, <1>2, <2>1, <2>2, SearchFinds
  <2>4. QED
    BY <2>1, <2>3 DEF Searched
<1>4. c.q = q
  OBVIOUS
<1> HIDE DEF q, i
<1>5. CASE i = 0 /\ Msg!Wait(u, c) /\ Msg!Unchanged
  <2>1. \A j \in 1..Len(msgs[c.q]) : ~Msg!Fits(msgs[c.q], c.args.want, j)
    BY <1>2, <1>3, <1>4, <1>5
  <2>2. c.op # "snd"
    BY <1>1
  <2>3. QED
    BY <1>1, <1>5, <2>1, <2>2, WaitFlagged
<1>6. CASE Msg!Return(u) /\ Msg!Unchanged /\ UNCHANGED <<rwait, wwait>>
  BY <1>6, ReturnFlagged
<1>7. CASE /\ i # 0
           /\ msgs' = [msgs EXCEPT ![q] = Msg!RemoveAt(@, i)]
           /\ cbytes' = [cbytes EXCEPT ![q] = @ - msgs[q][i].size]
           /\ qnum' = [qnum EXCEPT ![q] = @ - 1]
           /\ Msg!WakeupIf(wwait, q)
           /\ wwait' = [wwait EXCEPT ![q] = FALSE]
           /\ Msg!Return(u)
           /\ UNCHANGED <<NMSQB, alloc, rwait, seq, qbytes, moverlooked>>
  <2>1. /\ msgs \in Contents /\ qnum \in [Msg!Queue -> Nat] /\ cbytes \in [Msg!Queue -> Nat]
        /\ wwait \in [Msg!Queue -> BOOLEAN]
    BY DEF Books, Msg!TypeOK, Contents
  <2>2. /\ mst'[u] = Msg!NoCall /\ \A v \in Users : v # u => mst'[v] = mst[v]
    BY <1>7 DEF Msg!Return, Books, Msg!TypeOK
  <2>3. \A x \in Msg!Queue : x # q =>
          /\ msgs'[x] = msgs[x] /\ qnum'[x] = qnum[x] /\ cbytes'[x] = cbytes[x]
          /\ wwait'[x] = wwait[x]
    BY <1>1, <1>7, <2>1 DEF Contents
  <2>4. mdeferred \subseteq mdeferred' /\ (wwait[q] => q \in mdeferred')
    BY <1>7 DEF Msg!WakeupIf
  <2>5. PICK n \in Nat : Len(s) = n + 1 /\ i \in 1..Len(s)
    <3>1. Len(s) - 1 \in Nat /\ Len(s) = (Len(s) - 1) + 1 /\ i \in 1..Len(s)
      BY <1>3, <1>7
    <3>2. QED
      BY <3>1
  <2>6. PICK z : z = Msg!RemoveAt(s, i)
    OBVIOUS
  <2>7. /\ Len(z) = n /\ msgs'[q] = z
        /\ \A k \in 1..n : \E j \in 1..Len(s) : z[k] = s[j]
    <3>1. /\ Msg!RemoveAt(s, i) \in Seq(Msg!Message) /\ Len(Msg!RemoveAt(s, i)) = n
          /\ \A k \in 1..(i - 1) : Msg!RemoveAt(s, i)[k] = s[k]
          /\ \A k \in i..n : Msg!RemoveAt(s, i)[k] = s[k + 1]
      <4>1. n \in Nat /\ Len(s) = n + 1 /\ i \in 1..Len(s) /\ s \in Seq(Msg!Message)
        BY <2>5
      <4>2. QED
        BY <4>1, RemoveAtIs, Zenon
    <3>2. msgs'[q] = z
      BY <1>1, <1>2, <1>7, <2>1, <2>6 DEF Contents
    <3>3. ASSUME NEW k \in 1..n PROVE \E j \in 1..Len(s) : z[k] = s[j]
      <4>1. CASE k \in 1..(i - 1)
        <5>1. k \in 1..Len(s)
          BY <2>5
        <5>2. QED
          BY <2>6, <3>1, <4>1, <5>1
      <4>2. CASE k \in i..n
        <5>1. k + 1 \in 1..Len(s)
          BY <2>5
        <5>2. QED
          BY <2>6, <3>1, <4>2, <5>1
      <4>3. QED
        BY <2>5, <4>1, <4>2
    <3>4. QED
      BY <2>6, <3>1, <3>2, <3>3
  <2> SUFFICES ASSUME NEW v \in Users, mst'[v].at = "asleep"
               PROVE  mst'[v].q \in mdeferred' \/ v \in moverlooked' \/ Idle(mst[v])'
    BY DEF Flagged
  <2>8. mst'[v] = mst[v]
    BY <2>2 DEF Msg!NoCall
  <2>9. PICK d : d = mst[v]
    OBVIOUS
  <2>10. Idle(d)' => Idle(mst[v])'
    BY <2>8, <2>9 DEF Idle, Msg!Full, Msg!Fits
  <2>11. SUFFICES ASSUME Idle(d), d.q \notin mdeferred' PROVE Idle(d)'
    BY <1>7, <2>4, <2>8, <2>9, <2>10 DEF Flagged
  <2>12. d.q \in Msg!Queue
    BY <2>8, <2>9, SleepersAre DEF Books, Msg!NoCall
  <2>13. CASE d.q # q
    BY <1>7, <2>3, <2>11, <2>12, <2>13 DEF Idle, Msg!Full, Msg!Fits
  <2>14. CASE d.q = q
    <3>1. /\ d.op = "rcv" /\ rwait[q] /\ alloc[q]
          /\ \A j \in 1..Len(s) : ~Msg!Fits(s, d.args.want, j)
      BY <1>2, <2>4, <2>11, <2>14 DEF Idle
    <3>2. \A k \in 1..Len(z) : ~Msg!Fits(z, d.args.want, k)
      <4> SUFFICES ASSUME NEW k \in 1..Len(z) PROVE ~Msg!Fits(z, d.args.want, k)
        OBVIOUS
      <4>1. PICK j \in 1..Len(s) : z[k] = s[j]
        BY <2>7
      <4>2. QED
        BY <3>1, <4>1 DEF Msg!Fits
    <3>3. rwait' = rwait /\ alloc' = alloc /\ msgs'[q] = z
      BY <1>7, <2>7
    <3>4. QED
      BY <2>14, <3>1, <3>2, <3>3 DEF Idle, Msg!Fits
  <2>15. QED
    BY <2>13, <2>14
<1>8. QED
  BY <1>5, <1>6, <1>7 DEF Msg!Receive, q, i

LEMMA WokenFlagged ==
  ASSUME Books, Flagged, NEW u \in Users, Msg!Woken(u)
  PROVE  Flagged'
<1>1. mst[u].at = "woken"
  BY DEF Msg!Woken
<1>2. CASE mst[u].id = seq[mst[u].q] /\ mst[u].op = "snd" /\ Msg!Send(u, mst[u])
  BY <1>1, <1>2, Resumes, SendFlagged
<1>3. CASE mst[u].id = seq[mst[u].q] /\ mst[u].op = "rcv" /\ Msg!Receive(u, mst[u])
  BY <1>1, <1>3, Resumes, ReceiveFlagged
<1>4. CASE Msg!Return(u) /\ Msg!Unchanged /\ UNCHANGED <<rwait, wwait>>
  BY <1>4, ReturnFlagged
<1>5. QED
  BY <1>2, <1>3, <1>4 DEF Msg!Woken

(* A signal, or a wakeup: who still sleeps is not of those moved. *)
LEMMA MovedFlagged ==
  ASSUME Flagged, NEW W \in SUBSET Users,
         \A v \in Users : mst'[v].at = "asleep" => mst'[v] = mst[v] /\ v \notin W,
         moverlooked' = moverlooked \ W,
         \A v \in Users : mst[v].at = "asleep" /\ v \notin W /\ mst[v].q \in mdeferred =>
           mst[v].q \in mdeferred',
         UNCHANGED <<alloc, rwait, wwait, msgs, cbytes, qnum, qbytes>>
  PROVE  Flagged'
<1> SUFFICES ASSUME NEW v \in Users, mst'[v].at = "asleep"
             PROVE  mst'[v].q \in mdeferred' \/ v \in moverlooked' \/ Idle(mst[v])'
  BY DEF Flagged
<1>1. mst'[v] = mst[v] /\ v \notin W
  OBVIOUS
<1>2. mst[v].q \in mdeferred \/ v \in moverlooked \/ Idle(mst[v])
  BY <1>1 DEF Flagged
<1>3. Idle(mst[v]) => Idle(mst[v])'
  BY <1>1 DEF Idle, Msg!Full, Msg!Fits
<1>4. QED
  BY <1>1, <1>2, <1>3

LEMMA SignalFlagged ==
  ASSUME Books, Flagged, NEW u \in Users, Msg!Signal(u)
  PROVE  Flagged'
<1>1. \A v \in Users : mst'[v].at = "asleep" => mst'[v] = mst[v] /\ v \notin {u}
  BY SignalMoves
<1>2. /\ moverlooked' = moverlooked \ {u}
      /\ UNCHANGED <<alloc, rwait, wwait, msgs, cbytes, qnum, qbytes, mdeferred>>
  BY DEF Msg!Signal
<1>3. {u} \in SUBSET Users
  OBVIOUS
<1>4. QED
  BY <1>1, <1>2, <1>3, MovedFlagged

LEMMA DefendFlagged ==
  ASSUME Books, Flagged, NEW q \in Msg!Queue, Msg!Defend(q)
  PROVE  Flagged'
<1>1. \A v \in Users : mst'[v].at = "asleep" => mst'[v] = mst[v] /\ v \notin Msg!Asleep(q)
  BY DefendMoves
<1>2. /\ moverlooked' = moverlooked \ Msg!Asleep(q) /\ mdeferred' = mdeferred \ {q}
      /\ UNCHANGED <<alloc, rwait, wwait, msgs, cbytes, qnum, qbytes>>
  BY DEF Msg!Defend
<1>3. Msg!Asleep(q) \in SUBSET Users
  BY DEF Msg!Asleep
<1>4. ASSUME NEW v \in Users, mst[v].at = "asleep", v \notin Msg!Asleep(q), mst[v].q \in mdeferred
      PROVE  mst[v].q \in mdeferred'
  BY <1>2, <1>4 DEF Msg!Asleep
<1>5. QED
  BY <1>1, <1>2, <1>3, <1>4, MovedFlagged

(* The queue q itself changes, and who sleeps on it is overlooked; or q is free,
   and nobody who sleeps on it is counted upon. *)
LEMMA ChangedFlagged ==
  ASSUME Books, Flagged, NEW q \in Msg!Queue,
         \A v \in Msg!Asleep(q) : v \in moverlooked' \/ ~Idle(mst[v]) \/ Idle(mst[v])',
         moverlooked \subseteq moverlooked', UNCHANGED <<mst, mdeferred>>,
         \A x \in Msg!Queue : x # q =>
           /\ msgs'[x] = msgs[x] /\ qnum'[x] = qnum[x] /\ cbytes'[x] = cbytes[x]
           /\ qbytes'[x] = qbytes[x] /\ alloc'[x] = alloc[x]
           /\ rwait'[x] = rwait[x] /\ wwait'[x] = wwait[x]
  PROVE  Flagged'
<1> SUFFICES ASSUME NEW v \in Users, mst[v].at = "asleep"
             PROVE  mst[v].q \in mdeferred' \/ v \in moverlooked' \/ Idle(mst[v])'
  BY DEF Flagged
<1>1. mst[v].q \in mdeferred \/ v \in moverlooked \/ Idle(mst[v])
  BY DEF Flagged
<1>2. mst[v].q \in Msg!Queue
  BY SleepersAre DEF Books, Msg!NoCall
<1>3. CASE mst[v].q = q
  <2>1. v \in Msg!Asleep(q)
    BY <1>3 DEF Msg!Asleep
  <2>2. QED
    BY <1>1, <2>1
<1>4. CASE mst[v].q # q
  <2>1. Idle(mst[v]) => Idle(mst[v])'
    <3>1. /\ mst[v]' = mst[v]
          /\ msgs[mst[v].q]' = msgs[mst[v].q]
          /\ qnum[mst[v].q]' = qnum[mst[v].q] /\ cbytes[mst[v].q]' = cbytes[mst[v].q]
          /\ qbytes[mst[v].q]' = qbytes[mst[v].q] /\ alloc[mst[v].q]' = alloc[mst[v].q]
          /\ rwait[mst[v].q]' = rwait[mst[v].q] /\ wwait[mst[v].q]' = wwait[mst[v].q]
      BY <1>2, <1>4
    <3>2. Msg!Full(mst[v].q, mst[v].args.size)' = Msg!Full(mst[v].q, mst[v].args.size)
      BY <3>1 DEF Msg!Full
    <3>3. (\A i \in 1..Len(msgs[mst[v].q]) : ~Msg!Fits(msgs[mst[v].q], mst[v].args.want, i))'
            = (\A i \in 1..Len(msgs[mst[v].q]) : ~Msg!Fits(msgs[mst[v].q], mst[v].args.want, i))
      BY <3>1
    <3>4. QED
      BY <3>1, <3>2, <3>3 DEF Idle
  <2>2. QED
    BY <1>1, <2>1
<1>5. QED
  BY <1>3, <1>4

LEMMA RmidFlagged ==
  ASSUME Books, Flagged, NEW id \in 0..(IDS - 1), Msg!Rmid(id)
  PROVE  Flagged'
<1>1. PICK q \in Msg!Queue : q = id % NMSQID
  BY IdQueue
<1>2. /\ msgs' = [msgs EXCEPT ![q] = << >>]
      /\ cbytes' = [cbytes EXCEPT ![q] = 0]
      /\ qnum' = [qnum EXCEPT ![q] = 0]
      /\ alloc' = [alloc EXCEPT ![q] = FALSE]
      /\ rwait' = [rwait EXCEPT ![q] = FALSE]
      /\ wwait' = [wwait EXCEPT ![q] = FALSE]
      /\ moverlooked' = moverlooked \cup Msg!Asleep(q)
      /\ UNCHANGED <<qbytes, mst, mdeferred>>
  BY <1>1 DEF Msg!Rmid
<1>3. \A x \in Msg!Queue : x # q =>
        /\ msgs'[x] = msgs[x] /\ qnum'[x] = qnum[x] /\ cbytes'[x] = cbytes[x]
        /\ qbytes'[x] = qbytes[x] /\ alloc'[x] = alloc[x]
        /\ rwait'[x] = rwait[x] /\ wwait'[x] = wwait[x]
  BY <1>2 DEF Books, Msg!TypeOK
<1>4. QED
  BY <1>2, <1>3, ChangedFlagged

LEMMA IpcSetFlagged ==
  ASSUME Books, Flagged, NEW id \in 0..(IDS - 1), NEW n \in QBytes, Msg!IpcSet(id, n)
  PROVE  Flagged'
<1>1. PICK q \in Msg!Queue : q = id % NMSQID
  BY IdQueue
<1>2. /\ qbytes' = [qbytes EXCEPT ![q] = n]
      /\ moverlooked' = IF n > qbytes[q] THEN moverlooked \cup Msg!Asleep(q) ELSE moverlooked
      /\ UNCHANGED <<alloc, rwait, wwait, msgs, cbytes, qnum, mst, mdeferred>>
  BY <1>1 DEF Msg!IpcSet
<1>3. /\ qbytes' = [qbytes EXCEPT ![q] = n] /\ qbytes \in [Msg!Queue -> Nat] /\ n \in Nat
      /\ cbytes \in [Msg!Queue -> Nat]
  BY <1>2, Numbers DEF Books, Msg!TypeOK
<1>4. /\ qbytes'[q] = n
      /\ \A x \in Msg!Queue : x # q => qbytes'[x] = qbytes[x]
  BY <1>3
<1>5. ASSUME NEW v \in Msg!Asleep(q), ~(n > qbytes[q]), Idle(mst[v]) PROVE Idle(mst[v])'
  <2>1. v \in Users /\ mst[v].q = q /\ mst[v] # Msg!NoCall
    BY DEF Msg!Asleep, Msg!NoCall
  <2>2. mst[v].op = "snd" => mst[v].args.size \in Nat
    <3>1. mst[v].op = "snd" => mst[v].args \in UNION {Sends[w] : w \in Users}
      <4>1. "snd" # "rcv"
        OBVIOUS
      <4>2. QED
        BY <2>1, <4>1, SleepersAre DEF Books
    <3>2. QED
      BY <3>1, MessagesAre
  <2>3. mst[v].op = "snd" /\ Msg!Full(q, mst[v].args.size) => Msg!Full(q, mst[v].args.size)'
    <3>1. qbytes'[q] <= qbytes[q] /\ qbytes[q] \in Nat /\ qbytes'[q] \in Nat /\ cbytes[q] \in Nat
      BY <1>3, <1>4, <1>5
    <3>2. qnum' = qnum /\ cbytes' = cbytes /\ mst' = mst
      BY <1>2
    <3>3. QED
      BY <2>2, <3>1, <3>2 DEF Msg!Full
  <2>4. QED
    BY <1>2, <1>5, <2>1, <2>3 DEF Idle, Msg!Fits
<1>6. \A v \in Msg!Asleep(q) : v \in moverlooked' \/ ~Idle(mst[v]) \/ Idle(mst[v])'
  BY <1>2, <1>5
<1>7. QED
  BY <1>2, <1>4, <1>6, ChangedFlagged

LEMMA MsggetFlagged ==
  ASSUME Books, Flagged, NEW q \in Msg!Queue, Msg!Msgget(q)
  PROVE  Flagged'
<1>1. /\ ~alloc[q]
      /\ alloc' = [alloc EXCEPT ![q] = TRUE] /\ qnum' = [qnum EXCEPT ![q] = 0]
      /\ rwait' = [rwait EXCEPT ![q] = FALSE] /\ wwait' = [wwait EXCEPT ![q] = FALSE]
      /\ UNCHANGED <<msgs, cbytes, qbytes, mst, mdeferred, moverlooked>>
  BY DEF Msg!Msgget
<1>2. \A x \in Msg!Queue : x # q =>
        /\ qnum'[x] = qnum[x] /\ alloc'[x] = alloc[x]
        /\ rwait'[x] = rwait[x] /\ wwait'[x] = wwait[x]
  BY <1>1 DEF Books, Msg!TypeOK
<1>3. \A v \in Msg!Asleep(q) : ~Idle(mst[v])
  BY <1>1 DEF Idle, Msg!Asleep
<1>4. QED
  BY <1>1, <1>2, <1>3, ChangedFlagged

LEMMA FlaggedStep ==
  ASSUME Careful, Books, Flagged, [Msg!Next]_qvars
  PROVE  Flagged'
<1>1. ASSUME NEW u \in Users, NEW id \in Msg!Ids(u), NEW m \in Sends[u], Msg!Msgsnd(u, id, m)
      PROVE  Flagged'
  <2>1. PICK q \in Msg!Queue :
          /\ Msg!InCall("snd", id, q, m) \in Pending("call", "snd", Sends)
          /\ alloc[q] /\ seq[q] = id /\ u \notin moverlooked
          /\ Msg!Send(u, Msg!InCall("snd", id, q, m))
    BY <1>1, SendBegins
  <2>2. Msg!InCall("snd", id, q, m).q = q
    BY DEF Msg!InCall
  <2>3. PICK c : c = Msg!InCall("snd", id, q, m)
    OBVIOUS
  <2>4. c \in Pending("call", "snd", Sends) /\ alloc[c.q] /\ u \notin moverlooked /\ Msg!Send(u, c)
    BY <2>1, <2>2, <2>3
  <2>5. QED
    BY <2>4, SendFlagged
<1>2. ASSUME NEW u \in Users, NEW id \in Msg!Ids(u), NEW r \in Receives[u], Msg!Msgrcv(u, id, r)
      PROVE  Flagged'
  <2>1. id \in 0..(IDS - 1)
    BY IdsAre DEF Books
  <2>2. PICK q \in Msg!Queue :
          /\ Msg!InCall("rcv", id, q, r) \in Pending("call", "rcv", Receives)
          /\ alloc[q] /\ seq[q] = id /\ u \notin moverlooked
          /\ Msg!Receive(u, Msg!InCall("rcv", id, q, r))
    BY <1>2, <2>1, ReceiveBegins
  <2>3. Msg!InCall("rcv", id, q, r).q = q
    BY DEF Msg!InCall
  <2>4. PICK c : c = Msg!InCall("rcv", id, q, r)
    OBVIOUS
  <2>5. c \in Pending("call", "rcv", Receives) /\ alloc[c.q] /\ u \notin moverlooked /\ Msg!Receive(u, c)
    BY <2>2, <2>3, <2>4
  <2>6. QED
    BY <2>5, ReceiveFlagged
<1>3. ASSUME NEW u \in Users, Msg!Woken(u) \/ Msg!Signal(u)
      PROVE  Flagged'
  BY <1>3, WokenFlagged, SignalFlagged
<1>4. ASSUME NEW u \in Users, Msg!Interrupted(u) PROVE Flagged'
  BY <1>4, ReturnFlagged DEF Msg!Interrupted
<1>5. ASSUME NEW u \in Users, NEW id \in Msg!Ids(u),
             Msg!Rmid(id) \/ \E n \in QBytes : Msg!IpcSet(id, n)
      PROVE  Flagged'
  <2>1. id \in 0..(IDS - 1)
    BY IdsAre DEF Books
  <2>2. QED
    BY <1>5, <2>1, RmidFlagged, IpcSetFlagged
<1>6. ASSUME NEW q \in Msg!Queue, Msg!Msgget(q) \/ Msg!Defend(q)
      PROVE  Flagged'
  BY <1>6, MsggetFlagged, DefendFlagged
<1>7. CASE UNCHANGED qvars
  BY <1>7 DEF qvars, Flagged, Idle, Msg!Full, Msg!Fits
<1>8. QED
  BY <1>1, <1>2, <1>3, <1>4, <1>5, <1>6, <1>7 DEF Msg!Next

-----------------------------------------------------------------------------
(* The theorems about the message queues. *)

LEMMA MessagesInit == ASSUME FacilitiesInit PROVE Books /\ Flagged
<1>1. /\ NMSQB \in QBytes
      /\ alloc = [q \in Msg!Queue |-> FALSE] /\ rwait = alloc /\ wwait = alloc
      /\ seq = [q \in Msg!Queue |-> q]
      /\ msgs = [q \in Msg!Queue |-> << >>]
      /\ cbytes = [q \in Msg!Queue |-> 0] /\ qnum = cbytes
      /\ qbytes = [q \in Msg!Queue |-> NMSQB]
      /\ msg_map = 0 /\ mst = [u \in Users |-> Msg!NoCall]
      /\ mdeferred = {} /\ moverlooked = {}
  BY DEF FacilitiesInit, Msg!Init
<1>2. Msg!TypeOK
  <2>1. seq \in [Msg!Queue -> 0..(IDS - 1)]
    BY <1>1, Numbers DEF Msg!Queue
  <2>2. << >> \in Seq(Msg!Message)
    OBVIOUS
  <2>3. msg_map \in 0..(NMSQID * NMSG)
    BY <1>1, Numbers
  <2>4. QED
    BY <1>1, <2>1, <2>2, <2>3 DEF Msg!TypeOK
<1>3. msgs \in Contents /\ \A x \in Msg!Queue : msgs[x] = << >>
  BY <1>1, <1>2 DEF Msg!TypeOK, Contents
<1>4. msg_map = Total(msgs)
  BY <1>1, <1>3, TotalNone
<1>5. Counts
  <2>1. Len(<< >>) = 0
    OBVIOUS
  <2>2. QED
    BY <1>1, <1>3, <2>1, Numbers, SizesNone DEF Counts
<1>6. Calling
  BY <1>1 DEF Calling
<1>7. Flagged
  BY <1>1 DEF Flagged, Msg!NoCall
<1>8. QED
  BY <1>2, <1>4, <1>5, <1>6, <1>7 DEF Books

LEMMA FacilitiesStep ==
  ASSUME [FacilitiesNext]_<<facility, vars, svars, qvars>>
  PROVE  [Msg!Next]_qvars
BY DEF FacilitiesNext

LEMMA MessagesAlways == ASSUME Careful PROVE FacilitiesSpec => [](Books /\ Flagged)
<1>1. FacilitiesInit => Books /\ Flagged
  BY MessagesInit
<1>2. Books /\ Flagged /\ [FacilitiesNext]_<<facility, vars, svars, qvars>> => (Books /\ Flagged)'
  BY FacilitiesStep, BooksStep, FlaggedStep
<1>3. QED
  BY <1>1, <1>2, PTL DEF FacilitiesSpec

(* The counters of every message queue are those of the messages in it, and the
   count of the map is that of all messages: umsgsnd(), umsgrcv(), IPC_RMID and
   umsgget() keep them right, on their ways through each other's sleeps. *)
THEOREM QueuesAreAccounted == ASSUME Careful PROVE FacilitiesSpec => []AccountingOK
<1>1. Books => AccountingOK
  BY AccountingIs DEF Books, AccountingOK
<1>2. QED
  BY <1>1, MessagesAlways, PTL

(* umsgsnd() finds a free entry in the map whenever its queue has room: the
   return with the gate locked, which it makes otherwise, is never taken. *)
THEOREM SendersFindAnEntry ==
  ASSUME Careful
  PROVE  FacilitiesSpec => [](\A q \in Msg!Queue, size \in Nat :
                                ~Msg!Full(q, size) => msg_map < NMSQID * NMSG)
<1>1. Books => \A q \in Msg!Queue, size \in Nat : ~Msg!Full(q, size) => msg_map < NMSQID * NMSG
  <2> SUFFICES ASSUME Books, NEW q \in Msg!Queue, NEW size \in Nat, ~Msg!Full(q, size)
               PROVE  msg_map < NMSQID * NMSG
    OBVIOUS
  <2>1. qnum[q] \in Nat /\ NMSG \in Nat
    BY Numbers DEF Books, Msg!TypeOK
  <2>2. qnum[q] < NMSG
    BY <2>1 DEF Msg!Full
  <2>3. QED
    BY <2>2, RoomInMap
<1>2. QED
  BY <1>1, MessagesAlways, PTL

(* Who sleeps in umsgsnd() or umsgrcv() has nothing to do, or a wakeup of the
   queue is on its way, or the queue was removed or made larger meanwhile, which
   wakes nobody: the flags MSG_RWAIT and MSG_WWAIT are enough. *)
THEOREM QueuesForgetNobody == ASSUME Careful PROVE FacilitiesSpec => []Msg!NobodyStranded
<1>1. Books /\ Flagged => Msg!NobodyStranded
  BY FlaggedSuffices
<1>2. QED
  BY <1>1, MessagesAlways, PTL

-----------------------------------------------------------------------------
(* The process table. *)

(* A set of process ids has a least one, and a greatest one. *)
LEMMA LeastId ==
  ASSUME NEW S, S \subseteq Nat, S # {}
  PROVE  Min(S) \in S /\ \A x \in S : Min(S) <= x
<1> DEFINE R == OpToRel(<, Nat)
<1>1. IsWellFoundedOn(R, Nat)
  BY NatLessThanWellFounded
<1>2. \A a, b \in Nat : a < b => <<a, b>> \in R
  BY DEF OpToRel
<1> HIDE DEF R
<1>3. PICK x \in S : \A y \in S : ~ (<<y, x>> \in R)
  BY <1>1, WFMin
<1>4. \A y \in S : x <= y
  <2> TAKE y \in S
  <2>1. y \in Nat /\ x \in Nat
    OBVIOUS
  <2>2. ~ (y < x)
    BY <1>2, <1>3, <2>1
  <2>3. QED
    BY <2>1, <2>2
<1>5. QED
  BY <1>4 DEF Min

LEMMA GreatestId ==
  ASSUME Parameters, NEW S, S \subseteq Pid, S # {}
  PROVE  Max(S) \in S
<1> DEFINE T == {NPID - x : x \in S}
<1>1. T \subseteq Nat /\ T # {}
  <2>1. \A x \in S : x \in Int /\ NPID - x \in Nat
    BY DEF Parameters, Pid
  <2>2. PICK x \in S : TRUE
    OBVIOUS
  <2>3. NPID - x \in T
    BY <2>2
  <2>4. QED
    BY <2>1, <2>3
<1>2. Min(T) \in T /\ \A y \in T : Min(T) <= y
  BY <1>1, LeastId
<1>3. PICK x \in S : Min(T) = NPID - x
  BY <1>2
<1>4. \A y \in S : NPID - x <= NPID - y
  BY <1>2, <1>3
<1>5. \A y \in S : x >= y
  BY <1>4 DEF Parameters, Pid
<1>6. QED
  BY <1>5 DEF Max

-----------------------------------------------------------------------------
(* init lives for ever, everybody else has a parent that is alive, and nobody
   is his own parent: without the last, a process could hand its children to
   init and be left with itself. *)
Family ==
  /\ TypeOK
  /\ p_state[init] \notin {"free", "dead"}
  /\ OrphansAdopted
  /\ \A p \in Used \ {init} : p_ppid[p] # p

USE DEF init

LEMMA FamilyInit == ASSUME Parameters, Init PROVE Family
BY DEF Parameters, Init, Family, TypeOK, OrphansAdopted, Used, Zombies, Pid, AnyChild

(* process() finds an id that is free. *)
LEMMA NextPidFree ==
  ASSUME Parameters, TypeOK, Pid \ (Used \cup {init}) # {}
  PROVE  NextPid \in Pid \ (Used \cup {init})
<1> DEFINE Free == Pid \ (Used \cup {init})
<1>1. Free \subseteq Nat /\ {p \in Free : p > cpid} \subseteq Nat
  BY DEF Pid
<1>2. Min(Free) \in Free
  BY <1>1, LeastId
<1>3. CASE \E p \in Free : p > cpid
  <2>1. Min({p \in Free : p > cpid}) \in {p \in Free : p > cpid}
    BY <1>1, <1>3, LeastId
  <2>2. QED
    BY <1>3, <2>1 DEF NextPid
<1>4. CASE ~ \E p \in Free : p > cpid
  BY <1>2, <1>4 DEF NextPid
<1>5. QED
  BY <1>3, <1>4

(* What a wait reaps are zombies, children of the process that waits. *)
ScanReaps(p, pid) ==
  LET Z == Wanted(p, pid) \cap Zombies
  IN IF Z = {} \/ nocldwait[p] THEN Z ELSE {Max(Z)}

LEMMA ReapsZombies ==
  ASSUME Parameters, NEW p \in Pid, NEW pid
  PROVE  ScanReaps(p, pid) \subseteq Wanted(p, pid) \cap Zombies
<1> DEFINE Z == Wanted(p, pid) \cap Zombies
<1>1. Z \subseteq Pid
  BY DEF Zombies
<1>2. Z # {} => Max(Z) \in Z
  BY <1>1, GreatestId
<1>3. QED
  BY <1>2 DEF ScanReaps

LEMMA ForkFamily ==
  ASSUME Parameters, Family, NEW p \in Pid, Fork(p)
  PROVE  Family'
<1> DEFINE n == NextPid
<1>1. n \in Pid \ (Used \cup {init})
  BY NextPidFree DEF Family, Fork
<1> HIDE DEF n
<1>2. /\ p_state' = [p_state EXCEPT ![n] = "run"]
      /\ p_ppid' = [p_ppid EXCEPT ![n] = p]
      /\ nocldwait' = [nocldwait EXCEPT ![n] = nocldwait[p]]
      /\ cpid' = n /\ UNCHANGED <<p_wait, deferred>>
      /\ p_state[p] = "run" /\ p # n
  BY <1>1 DEF Fork, n, Used
<1>3. TypeOK'
  BY <1>1, <1>2 DEF Family, TypeOK
<1>4. Used' = Used \cup {n} /\ Zombies' = Zombies /\ p \in Used \ Zombies
  BY <1>1, <1>2 DEF Family, TypeOK, Used, Zombies
<1>5. \A q \in Used' \ {init} : p_ppid'[q] \in Used' \ Zombies' /\ p_ppid'[q] # q
  BY <1>1, <1>2, <1>4 DEF Family, TypeOK, OrphansAdopted
<1>6. p_state'[init] \notin {"free", "dead"}
  BY <1>1, <1>2 DEF Family, TypeOK
<1>7. QED
  BY <1>3, <1>5, <1>6 DEF Family, OrphansAdopted

LEMMA ExitFamily ==
  ASSUME Parameters, Family, NEW p \in Pid, Exit(p)
  PROVE  Family'
<1> DEFINE left == IF nocldwait[p_ppid[p]] THEN "free" ELSE "dead"
<1>1. /\ p # init /\ p_state[p] = "run"
      /\ p_state' = [p_state EXCEPT ![p] = left]
      /\ p_ppid' = [q \in Pid |-> IF q \in Children(p) THEN init ELSE p_ppid[q]]
      /\ UNCHANGED <<p_wait, nocldwait, cpid>>
      /\ deferred' = (deferred \cup Wakes(p)) \ (IF left = "free" THEN {p} ELSE {})
  BY DEF Exit, Adopt
<1>2. left \in {"free", "dead"}
  OBVIOUS
<1> HIDE DEF left
<1>3. p \in Used /\ init \in Pid /\ init \in Used \ Zombies
  BY <1>1 DEF Family, TypeOK, Used, Zombies, Parameters, Pid
<1>4. p_ppid[p] \in Used
  BY <1>1, <1>3 DEF Family, OrphansAdopted
<1>5. Wakes(p) \subseteq Used
  BY <1>3, <1>4 DEF Wakes
<1>6. TypeOK'
  <2>1. p_state' \in [Pid -> {"free", "run", "asleep", "woken", "dead"}]
    BY <1>1, <1>2 DEF Family, TypeOK
  <2>2. p_ppid' \in [Pid -> {0} \cup Pid]
    BY <1>1, <1>3 DEF Family, TypeOK
  <2>3. deferred' \subseteq {q \in Pid : p_state'[q] # "free"}
    BY <1>1, <1>2, <1>5 DEF Family, TypeOK, Used
  <2>4. QED
    BY <1>1, <2>1, <2>2, <2>3 DEF Family, TypeOK
<1>7. /\ Used' \subseteq Used /\ Used \ {p} \subseteq Used'
      /\ Zombies' \subseteq Zombies \cup {p}
  BY <1>1, <1>2 DEF Family, TypeOK, Used, Zombies
<1>8. ASSUME NEW q \in Used' \ {init}
      PROVE  p_ppid'[q] \in Used' \ Zombies' /\ p_ppid'[q] # q
  <2>1. q \in Used \ {init} /\ q \in Pid
    BY <1>7 DEF Used
  <2>2. p_ppid[q] \in Used \ Zombies /\ p_ppid[q] # q
    BY <2>1 DEF Family, OrphansAdopted
  <2>3. CASE p_ppid[q] = p
    <3>1. q \in Children(p)
      BY <2>1, <2>2, <2>3 DEF Children
    <3>2. p_ppid'[q] = init
      BY <1>1, <2>1, <3>1
    <3>3. QED
      BY <1>1, <1>3, <1>7, <2>1, <3>2
  <2>4. CASE p_ppid[q] # p
    <3>1. p_ppid'[q] = p_ppid[q]
      BY <1>1, <2>1, <2>4 DEF Children
    <3>2. QED
      BY <1>7, <2>2, <2>4, <3>1
  <2>5. QED
    BY <2>3, <2>4
<1>9. p_state'[init] \notin {"free", "dead"}
  BY <1>1, <1>3 DEF Family, TypeOK
<1>10. QED
  BY <1>6, <1>8, <1>9 DEF Family, OrphansAdopted

LEMMA ScanFamily ==
  ASSUME Parameters, Family, NEW p \in Pid, NEW pid \in {AnyChild} \cup Pid,
         NEW nohang \in BOOLEAN, p_state[p] \in {"run", "woken"}, Scan(p, pid, nohang)
  PROVE  Family'
<1> DEFINE Reaped == ScanReaps(p, pid)
<1>1. Reaped \subseteq Wanted(p, pid) \cap Zombies
  BY ReapsZombies
<1>2. PICK s \in {"run", "asleep"} :
        p_state' = [q \in Pid |-> IF q \in Reaped THEN "free"
                                  ELSE IF q # p THEN p_state[q] ELSE s]
  BY DEF Scan, ScanReaps
<1>3. /\ p_wait' = [p_wait EXCEPT ![p] = AnyChild] \/ p_wait' = [p_wait EXCEPT ![p] = pid]
      /\ deferred' = deferred \ Reaped
      /\ UNCHANGED <<p_ppid, nocldwait, cpid>>
  BY DEF Scan, ScanReaps
<1> HIDE DEF Reaped
<1>4. p \notin Reaped /\ init \notin Reaped /\ init \in Pid
  BY <1>1 DEF Family, Zombies, Parameters, Pid
<1>5. TypeOK'
  <2>1. p_state' \in [Pid -> {"free", "run", "asleep", "woken", "dead"}]
    BY <1>2 DEF Family, TypeOK
  <2>2. p_wait' \in [Pid -> {AnyChild} \cup Pid]
    BY <1>3 DEF Family, TypeOK
  <2>3. deferred' \subseteq {q \in Pid : p_state'[q] # "free"}
    BY <1>2, <1>3 DEF Family, TypeOK
  <2>4. QED
    BY <1>3, <2>1, <2>2, <2>3 DEF Family, TypeOK
<1>6. Used' = Used \ Reaped /\ Zombies' = Zombies \ Reaped
  BY <1>2, <1>4 DEF Family, TypeOK, Used, Zombies
<1>7. \A q \in Used \ {init} : p_ppid[q] \in Used \ Zombies /\ p_ppid[q] # q
  BY DEF Family, OrphansAdopted
<1>8. \A q \in Used' \ {init} : p_ppid'[q] \in Used' \ Zombies' /\ p_ppid'[q] # q
  BY <1>1, <1>3, <1>6, <1>7
<1>9. p_state'[init] \notin {"free", "dead"}
  BY <1>2, <1>4 DEF Family, TypeOK
<1>10. QED
  BY <1>5, <1>8, <1>9 DEF Family, OrphansAdopted

(* Steps that change no more than whether processes sleep. *)
LEMMA AwakeOrAsleep ==
  ASSUME Parameters, Family, TypeOK', UNCHANGED p_ppid,
         \A q \in Pid : \/ p_state'[q] = p_state[q]
                        \/ {p_state[q], p_state'[q]} \subseteq {"run", "asleep", "woken"}
  PROVE  Family'
<1>1. \A q \in Pid : /\ p_state'[q] = "free" <=> p_state[q] = "free"
                     /\ p_state'[q] = "dead" <=> p_state[q] = "dead"
  OBVIOUS
<1>2. Used' = Used /\ Zombies' = Zombies
  BY <1>1 DEF Used, Zombies
<1>3. init \in Pid
  BY DEF Parameters, Pid
<1>4. p_state'[init] \notin {"free", "dead"}
  BY <1>1, <1>3 DEF Family
<1>5. \A q \in Used' \ {init} : p_ppid'[q] \in Used' \ Zombies' /\ p_ppid'[q] # q
  BY <1>2 DEF Family, OrphansAdopted
<1>6. QED
  BY <1>4, <1>5 DEF Family, OrphansAdopted

LEMMA FamilyStep ==
  ASSUME Parameters, Family, [Next]_vars
  PROVE  Family'
<1>1. ASSUME NEW p \in Pid, Fork(p) PROVE Family'
  BY <1>1, ForkFamily
<1>2. ASSUME NEW p \in Pid, Exit(p) PROVE Family'
  BY <1>2, ExitFamily
<1>3. ASSUME NEW p \in Pid, Woken(p) PROVE Family'
  <2>1. p_wait[p] \in {AnyChild} \cup Pid
    BY DEF Family, TypeOK
  <2>2. QED
    BY <1>3, <2>1, ScanFamily DEF Woken
<1>4. ASSUME NEW p \in Pid, Signal(p) PROVE Family'
  <2>1. TypeOK'
    BY <1>4 DEF Signal, Family, TypeOK
  <2>2. QED
    BY <1>4, <2>1, AwakeOrAsleep DEF Signal, Family, TypeOK
<1>5. ASSUME NEW p \in Pid, Defend(p) PROVE Family'
  <2>1. TypeOK'
    BY <1>5 DEF Defend, Family, TypeOK
  <2>2. QED
    BY <1>5, <2>1, AwakeOrAsleep DEF Defend, Family, TypeOK
<1>6. ASSUME NEW p \in Pid, NEW pid \in Children(p) \cup {AnyChild},
             NEW nohang \in BOOLEAN, Waitpid(p, pid, nohang)
      PROVE  Family'
  <2>1. pid \in {AnyChild} \cup Pid
    BY DEF Children, Used
  <2>2. QED
    BY <1>6, <2>1, ScanFamily DEF Waitpid
<1>7. ASSUME NEW p \in Pid, NEW yes \in BOOLEAN, Ignore(p, yes) PROVE Family'
  <2>1. TypeOK'
    BY <1>7 DEF Ignore, Family, TypeOK
  <2>2. QED
    BY <1>7, <2>1, AwakeOrAsleep DEF Ignore
<1>8. CASE UNCHANGED vars
  BY <1>8 DEF vars, Family, TypeOK, OrphansAdopted, Used, Zombies
<1>9. QED
  BY <1>1, <1>2, <1>3, <1>4, <1>5, <1>6, <1>7, <1>8 DEF Next

-----------------------------------------------------------------------------
(* What one sleeper needs, for whom NobodyWaitsInVain asks it of all. *)
Expects(q) ==
  LET W == Wanted(q, p_wait[q]) IN q \in deferred \/ (W # {} /\ W \cap Zombies = {})

(* A sleeper whose children are the same still expects one of them. *)
LEMMA StillExpects ==
  ASSUME NEW q \in Pid, Expects(q), p_wait'[q] = p_wait[q], q \in deferred => q \in deferred',
         Children(q)' = Children(q), Children(q) \cap Zombies' \subseteq Zombies
  PROVE  Expects(q)'
BY DEF Expects, Wanted

LEMMA ForkInVain ==
  ASSUME Parameters, Family, NobodyWaitsInVain, NEW p \in Pid, Fork(p)
  PROVE  NobodyWaitsInVain'
<1> DEFINE n == NextPid
<1>1. n \in Pid \ (Used \cup {init})
  BY NextPidFree DEF Family, Fork
<1> HIDE DEF n
<1>2. /\ p_state' = [p_state EXCEPT ![n] = "run"]
      /\ p_ppid' = [p_ppid EXCEPT ![n] = p]
      /\ UNCHANGED <<p_wait, deferred>> /\ p_state[p] = "run"
  BY DEF Fork, n
<1>3. Used' = Used \cup {n} /\ Zombies' = Zombies
  BY <1>1, <1>2 DEF Family, TypeOK, Used, Zombies
<1>4. ASSUME NEW q \in Pid, p_state'[q] = "asleep" PROVE Expects(q)'
  <2>1. p_state[q] = "asleep" /\ q # p
    BY <1>1, <1>2, <1>4 DEF Family, TypeOK
  <2>2. Expects(q)
    BY <2>1 DEF NobodyWaitsInVain, Expects
  <2>3. Children(q)' = Children(q)
    <3>1. \A c \in Used : p_ppid'[c] = p_ppid[c]
      BY <1>1, <1>2 DEF Family, TypeOK, Used
    <3>2. p_ppid'[n] # q
      BY <1>1, <1>2, <2>1 DEF Family, TypeOK
    <3>3. QED
      BY <1>1, <1>3, <3>1, <3>2 DEF Children
  <2>4. QED
    BY <1>2, <1>3, <2>2, <2>3, StillExpects
<1>5. QED
  BY <1>4 DEF NobodyWaitsInVain, Expects

(* pexit() changes the children of two processes that may sleep: its parent,
   which it wakes, and init, which it wakes for zombies. *)
LEMMA ExitInVain ==
  ASSUME Parameters, Family, NobodyWaitsInVain, NEW p \in Pid, Exit(p)
  PROVE  NobodyWaitsInVain'
<1> DEFINE left == IF nocldwait[p_ppid[p]] THEN "free" ELSE "dead"
<1>1. /\ p # init /\ p_state[p] = "run"
      /\ p_state' = [p_state EXCEPT ![p] = left]
      /\ p_ppid' = [q \in Pid |-> IF q \in Children(p) THEN init ELSE p_ppid[q]]
      /\ p_wait' = p_wait
      /\ deferred' = (deferred \cup Wakes(p)) \ (IF left = "free" THEN {p} ELSE {})
  BY DEF Exit, Adopt
<1>2. left \in {"free", "dead"}
  OBVIOUS
<1> HIDE DEF left
<1>3. /\ Used' \subseteq Used /\ Used \ {p} \subseteq Used'
      /\ Zombies' \subseteq Zombies \cup {p} /\ Zombies \subseteq Zombies'
  BY <1>1, <1>2 DEF Family, TypeOK, Used, Zombies
<1>4. ASSUME NEW q \in Pid, p_state'[q] = "asleep" PROVE Expects(q)'
  <2>1. p_state[q] = "asleep" /\ q # p
    BY <1>1, <1>2, <1>4 DEF Family, TypeOK
  <2>2. Expects(q)
    BY <2>1 DEF NobodyWaitsInVain, Expects
  <2>3. CASE q \in deferred \cup Wakes(p)
    <3>1. q \in deferred'
      BY <1>1, <2>1, <2>3
    <3>2. QED
      BY <3>1 DEF Expects
  <2>4. CASE q \notin deferred \cup Wakes(p)
    <3>1. p_ppid[p] # q
      BY <2>1, <2>4 DEF Wakes
    <3>2. p \notin Children(q) /\ p \notin Children(q)'
      <4>1. p \notin Children(p)
        BY DEF Children
      <4>2. p_ppid'[p] = p_ppid[p]
        BY <1>1, <4>1
      <4>3. QED
        BY <3>1, <4>2 DEF Children
    <3>3. Children(q) \subseteq Children(q)'
      <4>1. ASSUME NEW c \in Children(q) PROVE c \in Children(q)'
        <5>1. c \in Used /\ c \in Pid /\ c # q /\ c # p /\ p_ppid[c] = q
          BY <3>2 DEF Children, Used
        <5>2. c \notin Children(p)
          BY <2>1, <5>1 DEF Children
        <5>3. p_ppid'[c] = q
          BY <1>1, <5>1, <5>2
        <5>4. QED
          BY <1>3, <5>1, <5>3 DEF Children
      <4>2. QED
        BY <4>1
    <3>4. ASSUME NEW c \in Children(q)' PROVE c \in Children(q) \/ c \notin Zombies'
      <4>1. c \in Used /\ c \in Pid /\ c # q /\ c # p /\ p_ppid'[c] = q
        BY <1>3, <3>2 DEF Children, Used
      <4>2. CASE c \in Children(p)
        <5>1. q = init
          BY <1>1, <4>1, <4>2
        <5>2. c \notin Zombies
          BY <2>4, <4>2, <5>1 DEF Wakes
        <5>3. QED
          BY <1>3, <4>1, <5>2
      <4>3. CASE c \notin Children(p)
        <5>1. p_ppid[c] = q
          BY <1>1, <4>1, <4>3
        <5>2. QED
          BY <4>1, <5>1 DEF Children
      <4>4. QED
        BY <4>2, <4>3
    <3>5. Wanted(q, p_wait[q]) # {} /\ Wanted(q, p_wait[q]) \cap Zombies = {}
      BY <2>2, <2>4 DEF Expects
    <3>6. Wanted(q, p_wait[q])' # {}
      BY <1>1, <3>3, <3>5 DEF Wanted
    <3>7. Wanted(q, p_wait[q])' \cap Zombies' = {}
      BY <1>1, <1>3, <3>2, <3>4, <3>5 DEF Wanted
    <3>8. QED
      BY <3>6, <3>7 DEF Expects
  <2>5. QED
    BY <2>3, <2>4
<1>5. QED
  BY <1>4 DEF NobodyWaitsInVain, Expects

(* A round of wait() reaps only its own children, and sleeps only when no child
   that is waited for is left a zombie, and one is left. *)
LEMMA ScanInVain ==
  ASSUME Parameters, Family, NobodyWaitsInVain, NEW p \in Pid,
         NEW pid \in {AnyChild} \cup Pid, NEW nohang \in BOOLEAN,
         p_state[p] \in {"run", "woken"}, Scan(p, pid, nohang)
  PROVE  NobodyWaitsInVain'
<1> DEFINE Reaped == ScanReaps(p, pid)
           Z == Wanted(p, pid) \cap Zombies
           done == (Z # {} /\ ~nocldwait[p]) \/ Wanted(p, pid) \subseteq Z \/ nohang
<1>1. Reaped \subseteq Z
  BY ReapsZombies
<1>2. ~done => Reaped = Z
  BY DEF ScanReaps
<1>3. /\ p_state' = [q \in Pid |-> IF q \in Reaped THEN "free"
                                  ELSE IF q # p THEN p_state[q]
                                  ELSE IF done THEN "run" ELSE "asleep"]
      /\ p_wait' = [p_wait EXCEPT ![p] = IF done THEN AnyChild ELSE pid]
      /\ deferred' = deferred \ Reaped
      /\ p_ppid' = p_ppid
  BY DEF Scan, ScanReaps
<1>4. ~done => Wanted(p, pid) \ Z # {}
  OBVIOUS
<1>5. p \notin Reaped
  BY <1>1 DEF Zombies
<1> HIDE DEF done, Reaped
<1>6. Used' = Used \ Reaped /\ Zombies' = Zombies \ Reaped
  BY <1>3, <1>5 DEF Family, TypeOK, Used, Zombies
<1>7. \A q \in Pid : Children(q)' = Children(q) \ Reaped
  BY <1>3, <1>6 DEF Children
<1>8. ASSUME NEW q \in Pid, p_state'[q] = "asleep" PROVE Expects(q)'
  <2>1. CASE q = p
    <3>1. ~done
      BY <1>3, <1>5, <1>8, <2>1
    <3>2. p_wait'[p] = pid
      BY <1>3, <3>1 DEF Family, TypeOK
    <3>3. Wanted(q, p_wait[q])' = Wanted(p, pid) \ Z
      BY <1>2, <1>7, <2>1, <3>1, <3>2 DEF Wanted
    <3>4. QED
      BY <1>4, <1>6, <3>1, <3>3 DEF Expects
  <2>2. CASE q # p
    <3>1. p_state[q] = "asleep" /\ q \notin Reaped /\ p_wait'[q] = p_wait[q]
      BY <1>3, <1>8, <2>2 DEF Family, TypeOK
    <3>2. Expects(q)
      BY <3>1 DEF NobodyWaitsInVain, Expects
    <3>3. Children(q)' = Children(q)
      BY <1>1, <1>7, <2>2 DEF Wanted, Children
    <3>4. QED
      BY <1>3, <1>6, <3>1, <3>2, <3>3, StillExpects
  <2>3. QED
    BY <2>1, <2>2
<1>9. QED
  BY <1>8 DEF NobodyWaitsInVain, Expects

(* Steps that put nobody to sleep and leave the family as it is. *)
LEMMA WakeInVain ==
  ASSUME Family, NobodyWaitsInVain, p_ppid' = p_ppid,
         \A q \in Pid : \/ p_state'[q] = p_state[q]
                        \/ {p_state[q], p_state'[q]} \subseteq {"run", "asleep", "woken"},
         \A q \in Pid : p_state'[q] = "asleep" =>
           /\ p_state[q] = "asleep" /\ p_wait'[q] = p_wait[q]
           /\ q \in deferred => q \in deferred'
  PROVE  NobodyWaitsInVain'
<1>1. \A q \in Pid : /\ p_state'[q] = "free" <=> p_state[q] = "free"
                     /\ p_state'[q] = "dead" <=> p_state[q] = "dead"
  OBVIOUS
<1>2. Used' = Used /\ Zombies' = Zombies
  BY <1>1 DEF Used, Zombies
<1>3. \A q \in Pid : Children(q)' = Children(q)
  BY <1>2 DEF Children
<1>4. ASSUME NEW q \in Pid, p_state'[q] = "asleep" PROVE Expects(q)'
  <2>1. Expects(q)
    BY <1>4 DEF NobodyWaitsInVain, Expects
  <2>2. QED
    BY <1>2, <1>3, <1>4, <2>1, StillExpects
<1>5. QED
  BY <1>4 DEF NobodyWaitsInVain, Expects

LEMMA InVainStep ==
  ASSUME Parameters, Family, NobodyWaitsInVain, [Next]_vars
  PROVE  NobodyWaitsInVain'
<1>1. ASSUME NEW p \in Pid, Fork(p) PROVE NobodyWaitsInVain'
  BY <1>1, ForkInVain
<1>2. ASSUME NEW p \in Pid, Exit(p) PROVE NobodyWaitsInVain'
  BY <1>2, ExitInVain
<1>3. ASSUME NEW p \in Pid, Woken(p) PROVE NobodyWaitsInVain'
  <2>1. p_wait[p] \in {AnyChild} \cup Pid
    BY DEF Family, TypeOK
  <2>2. QED
    BY <1>3, <2>1, ScanInVain DEF Woken
<1>4. ASSUME NEW p \in Pid, Signal(p) PROVE NobodyWaitsInVain'
  BY <1>4, WakeInVain DEF Signal, Family, TypeOK
<1>5. ASSUME NEW p \in Pid, Defend(p) PROVE NobodyWaitsInVain'
  BY <1>5, WakeInVain DEF Defend, Family, TypeOK
<1>6. ASSUME NEW p \in Pid, NEW pid \in Children(p) \cup {AnyChild},
             NEW nohang \in BOOLEAN, Waitpid(p, pid, nohang)
      PROVE  NobodyWaitsInVain'
  <2>1. pid \in {AnyChild} \cup Pid
    BY DEF Children, Used
  <2>2. QED
    BY <1>6, <2>1, ScanInVain DEF Waitpid
<1>7. ASSUME NEW p \in Pid, NEW yes \in BOOLEAN, Ignore(p, yes)
      PROVE  NobodyWaitsInVain'
  BY <1>7, WakeInVain DEF Ignore
<1>8. CASE UNCHANGED vars
  BY <1>8, WakeInVain DEF vars
<1>9. QED
  BY <1>1, <1>2, <1>3, <1>4, <1>5, <1>6, <1>7, <1>8 DEF Next

-----------------------------------------------------------------------------
(* Whoever forks and dies in whatever order, every process but init, zombies
   too, has a parent that is alive: a zombie has somebody to reap it, and
   pexit() does not panic for want of a parent. *)
THEOREM OrphansHaveParents == ASSUME Parameters PROVE Spec => []OrphansAdopted
<1>1. Init => Family
  BY FamilyInit
<1>2. Family /\ [Next]_vars => Family'
  BY FamilyStep
<1>3. Family => OrphansAdopted
  BY DEF Family
<1>4. QED
  BY <1>1, <1>2, <1>3, PTL DEF Spec

(* The table is well typed: among others, no wakeup is deferred to a process id
   that has been released. *)
THEOREM TypeCorrect == ASSUME Parameters PROVE Spec => []TypeOK
<1>1. Init => Family
  BY FamilyInit
<1>2. Family /\ [Next]_vars => Family'
  BY FamilyStep
<1>3. Family => TypeOK
  BY DEF Family
<1>4. QED
  BY <1>1, <1>2, <1>3, PTL DEF Spec

(* The wakeups of wait() suffice: unless its wakeup is deferred, a process that
   sleeps there has a child to wait for, and none of those is a zombie.  uwait()
   and uwaitpid() need not look again without one. *)
THEOREM WaitsEnd == ASSUME Parameters PROVE Spec => []NobodyWaitsInVain
<1>1. Init => Family /\ NobodyWaitsInVain
  <2>1. Init => NobodyWaitsInVain
    BY DEF Init, NobodyWaitsInVain
  <2>2. QED
    BY <2>1, FamilyInit
<1>2. Family /\ NobodyWaitsInVain /\ [Next]_vars => (Family /\ NobodyWaitsInVain)'
  BY FamilyStep, InVainStep
<1>3. QED
  BY <1>1, <1>2, PTL DEF Spec

-----------------------------------------------------------------------------
(* The three together. *)

LEMMA BehavesAsEach ==
  FacilitiesSpec => Spec /\ Semaphores!Spec
<1>1. FacilitiesInit => Init /\ Semaphores!Init
  BY DEF FacilitiesInit
<1>2. [FacilitiesNext]_<<facility, vars, svars, qvars>> => [Next]_vars
  BY DEF FacilitiesNext
<1>3. [FacilitiesNext]_<<facility, vars, svars, qvars>> => [Semaphores!Next]_(Semaphores!vars)
  BY DEF FacilitiesNext, svars, Semaphores!vars
<1>4. QED
  BY <1>1, <1>2, <1>3, PTL DEF FacilitiesSpec, Spec, Semaphores!Spec

(* The variables of all three have their types: among others the unsigned counters
   of processes that wait for a semaphore do not fall below 0. *)
THEOREM FacilitiesTyped ==
  ASSUME Careful, Garbage = {0}, Semaphores!Asking
  PROVE  FacilitiesSpec => []TypesOK
<1>1. Parameters /\ Semaphores!Parameters
  BY FacilitiesAssumption
<1>2. Spec => []TypeOK
  BY <1>1, TypeCorrect
<1>3. Semaphores!Spec => []Semaphores!TypeOK
  BY <1>1, Semaphores!Typed
<1>4. Books => Msg!TypeOK
  BY DEF Books
<1>5. TypesOK <=> TypeOK /\ Semaphores!TypeOK /\ Msg!TypeOK
  BY DEF TypesOK
<1>6. QED
  BY <1>2, <1>3, <1>4, <1>5, BehavesAsEach, MessagesAlways, PTL

(* An array of operations is performed whole or not at all: usemop(), semundo() and
   iSubAdj(), on the ways of several processes through semwait(). *)
THEOREM SemaphoresAreAtomic ==
  ASSUME Careful, Garbage = {0}, Semaphores!Asking
  PROVE  FacilitiesSpec => ImplementsSemops
<1>1. Semaphores!Parameters
  BY FacilitiesAssumption
<1>2. Semaphores!Spec => Semaphores!ImplementsSemops
  BY <1>1, Semaphores!AllOrNothing
<1>3. QED
  BY <1>2, BehavesAsEach, PTL DEF ImplementsSemops

(* Nobody is forgotten in semwait(), umsgsnd(), umsgrcv(), uwait() or uwaitpid(). *)
THEOREM NobodyIsForgotten ==
  ASSUME Careful, Garbage = {0}, Semaphores!Asking, Semaphores!Testing
  PROVE  FacilitiesSpec => []NobodyForgotten
<1>1. Parameters /\ Semaphores!Parameters
  BY FacilitiesAssumption
<1>2. Spec => []NobodyWaitsInVain
  BY <1>1, WaitsEnd
<1>3. Semaphores!Spec => []Semaphores!NobodyStranded
  BY <1>1, Semaphores!NoneStranded
<1>4. NobodyForgotten <=> Semaphores!NobodyStranded /\ Msg!NobodyStranded /\ NobodyWaitsInVain
  BY DEF NobodyForgotten
<1>5. QED
  BY <1>2, <1>3, <1>4, BehavesAsEach, QueuesForgetNobody, PTL
=============================================================================
