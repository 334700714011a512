--------------------------- MODULE SemaphoreProofs ---------------------------
(***************************************************************************)
(* Theorems about a set of semaphores, for all processes, semaphores and   *)
(* values.                                                                 *)
(***************************************************************************)
EXTENDS Semaphore, FiniteSetTheorems, WellFoundedInduction, TLAPS

-----------------------------------------------------------------------------
(* Induction over the numbers, and the greatest of them. *)

LEMMA LeastNumber ==
  ASSUME NEW T, T \subseteq Nat, T # {}
  PROVE  \E x \in T : \A y \in T : x <= y
<1> DEFINE R == {ss \in Nat \X Nat : ss[1] < ss[2]}
<1>1. IsWellFoundedOn(R, Nat)
  BY NatLessThanWellFounded DEF OpToRel
<1>2. \A x, y \in Nat : y < x => <<y, x>> \in R
  OBVIOUS
<1> HIDE DEF R
<1>3. PICK x \in T : \A y \in T : ~ (<<y, x>> \in R)
  BY <1>1, WFMin
<1>4. \A y \in T : ~ (y < x)
  BY <1>2, <1>3
<1>5. QED
  BY <1>4

LEMMA Induction ==
  ASSUME NEW S, 0 \in S, \A n \in Nat : n \in S => n + 1 \in S
  PROVE  Nat \subseteq S
<1> SUFFICES ASSUME Nat \ S # {} PROVE FALSE
  OBVIOUS
<1>1. PICK x \in Nat \ S : \A y \in Nat \ S : x <= y
  BY LeastNumber
<1>2. x - 1 \in Nat /\ x - 1 \in S
  BY <1>1
<1>3. (x - 1) + 1 \in S
  BY <1>2
<1>4. QED
  BY <1>1, <1>3

LEMMA GreatestOf ==
  ASSUME NEW m \in Nat, NEW s, s \subseteq 1..(m + 1), m + 1 \in s
  PROVE  Max(s) = m + 1 /\ s \ {Max(s)} \in SUBSET (1..m)
<1>1. \A y \in s : m + 1 >= y
  OBVIOUS
<1>2. Max(s) \in s /\ \A y \in s : Max(s) >= y
  BY <1>1 DEF Max
<1>3. Max(s) >= m + 1 /\ Max(s) \in 1..(m + 1)
  BY <1>2
<1>4. Max(s) = m + 1
  BY <1>3
<1>5. QED
  BY <1>4

-----------------------------------------------------------------------------
(* The loops of the module, which are folds over a sequence: what operations add
   to a semaphore, or a part of them; semundo(); and the loop of usemop(). *)

UndoStep(x, ops, g, i) ==
  [x EXCEPT !.val = TakeBack(@, i - 1, ops[i].op),
            !.u = IF ops[i].undo THEN SubAdj(@, g, ops[i].num, -ops[i].op).u ELSE @]

(* One turn of the loop that w names. *)
Step(w, x, e) ==
  CASE w.loop = "sum" -> IF e.num = w.s /\ e.undo \in w.U THEN x + e.op ELSE x
    [] w.loop = "part" -> IF e \in w.I THEN x + w.ops[e].op ELSE x
    [] w.loop = "undo" -> UndoStep(x, w.ops, w.g, e)
    [] w.loop = "pass" -> IF x.end = "" THEN Operate(x, w.ops, w.g, w.ncnt, w.zcnt) ELSE x

(* The recursion of the fold over the sets of positions of sequence q. *)
Folds(w, q, f) ==
  f = [s \in SUBSET DOMAIN q |->
         IF s = {} THEN w.base ELSE Step(w, f[s \ {Max(s)}], q[Max(s)])]

LEMMA FoldExists ==
  ASSUME NEW w, NEW q, NEW n \in Nat, DOMAIN q = 1..n
  PROVE  \E f : Folds(w, q, f)
<1> DEFINE Good(m, f) == f = [s \in SUBSET (1..m) |->
                                IF s = {} THEN w.base
                                ELSE Step(w, f[s \ {Max(s)}], q[Max(s)])]
           S == {m \in Nat : \E f : Good(m, f)}
<1>1. 0 \in S
  <2>1. Good(0, [s \in SUBSET (1..0) |-> w.base])
    OBVIOUS
  <2>2. QED
    BY <2>1
<1>2. ASSUME NEW m \in Nat, m \in S PROVE m + 1 \in S
  <2>1. PICK f : Good(m, f)
    BY <1>2
  <2> DEFINE g == [s \in SUBSET (1..(m + 1)) |->
                     IF m + 1 \in s THEN Step(w, f[s \ {m + 1}], q[m + 1]) ELSE f[s]]
  <2>2. ASSUME NEW s \in SUBSET (1..(m + 1))
        PROVE  g[s] = IF s = {} THEN w.base ELSE Step(w, g[s \ {Max(s)}], q[Max(s)])
    <3>1. CASE m + 1 \in s
      <4>1. Max(s) = m + 1 /\ s \ {m + 1} \in SUBSET (1..m)
        BY <3>1, GreatestOf
      <4>2. s \ {m + 1} \in SUBSET (1..(m + 1)) /\ m + 1 \notin s \ {m + 1}
        OBVIOUS
      <4>3. g[s \ {m + 1}] = f[s \ {m + 1}]
        BY <4>2
      <4>4. g[s] = Step(w, f[s \ {m + 1}], q[m + 1])
        BY <3>1
      <4> HIDE DEF g
      <4>5. QED
        BY <3>1, <4>1, <4>3, <4>4
    <3>2. CASE m + 1 \notin s
      <4>1. s \in SUBSET (1..m) /\ s \ {Max(s)} \in SUBSET (1..m)
        <5>1. \A i \in s : i \in 1..m
          BY <3>2
        <5>2. QED
          BY <5>1
      <4>2. f[s] = IF s = {} THEN w.base ELSE Step(w, f[s \ {Max(s)}], q[Max(s)])
        BY <2>1, <4>1
      <4>3. g[s] = f[s]
        BY <3>2
      <4>4. g[s \ {Max(s)}] = f[s \ {Max(s)}]
        BY <3>2, <4>1
      <4> HIDE DEF g
      <4>5. QED
        BY <4>2, <4>3, <4>4
    <3>3. QED
      BY <3>1, <3>2
  <2>3. Good(m + 1, g)
    BY <2>2
  <2> HIDE DEF Good, g
  <2>4. \E f1 : Good(m + 1, f1)
    BY <2>3
  <2>5. QED
    BY <2>4
<1>3. n \in S
  <2> HIDE DEF S
  <2>1. QED
    BY <1>1, <1>2, Induction
<1>4. QED
  BY <1>3 DEF Folds

(* The states of the loop, after each number of turns, and the last. *)
Turns(w, q, n, last, t) ==
  /\ t[0] = w.base /\ t[n] = last
  /\ \A k \in 1..n : t[k] = Step(w, t[k - 1], q[k])

LEMMA FoldTrace ==
  ASSUME NEW w, NEW q, NEW n \in Nat, DOMAIN q = 1..n, NEW f, Folds(w, q, f)
  PROVE  \E t : Turns(w, q, n, f[DOMAIN q], t)
<1> DEFINE t == [k \in 0..n |-> f[1..k]]
<1>1. t[0] = w.base
  <2>1. f[{}] = w.base
    BY DEF Folds
  <2>2. 1..0 = {} /\ 0 \in 0..n
    OBVIOUS
  <2>3. QED
    BY <2>1, <2>2
<1>2. t[n] = f[DOMAIN q]
  OBVIOUS
<1>3. ASSUME NEW k \in 1..n PROVE t[k] = Step(w, t[k - 1], q[k])
  <2>1. k - 1 \in Nat /\ k = (k - 1) + 1 /\ k - 1 \in 0..n /\ k \in 0..n
    OBVIOUS
  <2>2. Max(1..k) = k
    <3>1. k \in 1..k /\ 1..k \in SUBSET (1..k)
      OBVIOUS
    <3>2. QED
      BY <2>1, <3>1, GreatestOf
  <2>3. 1..k \in SUBSET (1..n) /\ 1..k # {} /\ (1..k) \ {k} = 1..(k - 1)
    OBVIOUS
  <2>4. f[1..k] = Step(w, f[1..(k - 1)], q[k])
    BY <2>2, <2>3 DEF Folds
  <2>5. QED
    BY <2>1, <2>4
<1> HIDE DEF t
<1>4. Turns(w, q, n, f[DOMAIN q], t)
  BY <1>1, <1>2, <1>3 DEF Turns
<1>5. QED
  BY <1>4

-----------------------------------------------------------------------------
(* What the loops compute. *)

SumOf(q, s, U) ==
  A!FoldLeft(LAMBDA n, o : IF o.num = s /\ o.undo \in U THEN n + o.op ELSE n, 0, q)
PartOf(ops, I) ==
  FoldLeft(LAMBDA n, i : IF i \in I THEN n + ops[i].op ELSE n, 0, [i \in 1..Len(ops) |-> i])

LEMMA SumTurns ==
  ASSUME NEW q, NEW n \in Nat, DOMAIN q = 1..n, NEW s, NEW U
  PROVE  \E t : /\ t[0] = 0 /\ t[n] = SumOf(q, s, U)
                /\ \A k \in 1..n : t[k] = IF q[k].num = s /\ q[k].undo \in U
                                          THEN t[k - 1] + q[k].op ELSE t[k - 1]
<1> DEFINE w == [loop |-> "sum", base |-> 0, s |-> s, U |-> U]
           Turn(x, e) == IF e.num = s /\ e.undo \in U THEN x + e.op ELSE x
           Rec(f) == f = [x \in SUBSET DOMAIN q |->
                            IF x = {} THEN 0 ELSE Turn(f[x \ {A!Max(x)}], q[A!Max(x)])]
<1>1. w.base = 0 /\ \A x, e : Step(w, x, e) = Turn(x, e)
  BY DEF Step
<1>2. \A x : A!Max(x) = Max(x)
  BY DEF Max, A!Max
<1>3. SumOf(q, s, U) = (CHOOSE f : Rec(f))[DOMAIN q]
  BY DEF SumOf, A!FoldLeft, A!MapThenFoldSet
<1> HIDE DEF w, Turn
<1>4. \A f : Rec(f) <=> Folds(w, q, f)
  BY <1>1, <1>2 DEF Folds
<1>5. \E f : Rec(f)
  <2>1. \E f : Folds(w, q, f)
    BY FoldExists
  <2> HIDE DEF Rec
  <2>2. QED
    BY <1>4, <2>1
<1>6. PICK f : Rec(f) /\ SumOf(q, s, U) = f[DOMAIN q]
  <2> HIDE DEF Rec
  <2>1. QED
    BY <1>3, <1>5
<1>7. PICK t : Turns(w, q, n, f[DOMAIN q], t)
  BY <1>4, <1>6, FoldTrace
<1> HIDE DEF Rec
<1>8. QED
  BY <1>1, <1>6, <1>7 DEF Turns, Turn

Parts(ops, n, I, t) ==
  /\ t[0] = 0 /\ t[n] = PartOf(ops, I)
  /\ \A k \in 1..n : t[k] = IF k \in I THEN t[k - 1] + ops[k].op ELSE t[k - 1]

LEMMA PartTurns ==
  ASSUME NEW ops, NEW n \in Nat, Len(ops) = n, NEW I
  PROVE  \E t : Parts(ops, n, I, t)
<1> DEFINE w == [loop |-> "part", base |-> 0, ops |-> ops, I |-> I]
           q == [i \in 1..Len(ops) |-> i]
           Turn(x, e) == IF e \in I THEN x + ops[e].op ELSE x
           Rec(f) == f = [x \in SUBSET DOMAIN q |->
                            IF x = {} THEN 0 ELSE Turn(f[x \ {Max(x)}], q[Max(x)])]
<1>1. w.base = 0 /\ \A x, e : Step(w, x, e) = Turn(x, e)
  BY DEF Step
<1>2. DOMAIN q = 1..n /\ \A k \in 1..n : q[k] = k
  OBVIOUS
<1>3. PartOf(ops, I) = (CHOOSE f : Rec(f))[DOMAIN q]
  BY DEF PartOf, FoldLeft, MapThenFoldSet
<1> HIDE DEF w, q, Turn
<1>4. \A f : Rec(f) <=> Folds(w, q, f)
  BY <1>1 DEF Folds
<1>5. \E f : Rec(f)
  <2>1. \E f : Folds(w, q, f)
    BY <1>2, FoldExists
  <2> HIDE DEF Rec
  <2>2. QED
    BY <1>4, <2>1
<1>6. PICK f : Rec(f) /\ PartOf(ops, I) = f[DOMAIN q]
  <2> HIDE DEF Rec
  <2>1. QED
    BY <1>3, <1>5
<1>7. PICK t : Turns(w, q, n, f[DOMAIN q], t)
  BY <1>2, <1>4, <1>6, FoldTrace
<1> HIDE DEF Rec
<1>8. Parts(ops, n, I, t)
  BY <1>1, <1>2, <1>6, <1>7 DEF Turns, Turn, Parts
<1>9. QED
  BY <1>8

Undoes(x, ops, g, d, t) ==
  /\ t[0] = x /\ t[d] = Semundo(x, ops, g)
  /\ \A k \in 1..d : t[k] = UndoStep(t[k - 1], ops, g, k)

LEMMA UndoTurns ==
  ASSUME NEW x, NEW ops, NEW g, NEW d \in Nat, x.done = d
  PROVE  \E t : Undoes(x, ops, g, d, t)
<1> DEFINE w == [loop |-> "undo", base |-> x, ops |-> ops, g |-> g]
           q == [i \in 1..x.done |-> i]
           Turn(y, i) == [y EXCEPT !.val = TakeBack(@, i - 1, ops[i].op),
                                   !.u = IF ops[i].undo
                                         THEN SubAdj(@, g, ops[i].num, -ops[i].op).u ELSE @]
           Rec(f) == f = [z \in SUBSET DOMAIN q |->
                            IF z = {} THEN x ELSE Turn(f[z \ {Max(z)}], q[Max(z)])]
<1>1. w.base = x /\ \A y, e : Step(w, y, e) = UndoStep(y, ops, g, e)
  BY DEF Step
<1>2. DOMAIN q = 1..d /\ \A k \in 1..d : q[k] = k
  OBVIOUS
<1>3. Semundo(x, ops, g) = (CHOOSE f : Rec(f))[DOMAIN q]
  BY DEF Semundo, FoldLeft, MapThenFoldSet
<1>4. \A y, i : Turn(y, i) = UndoStep(y, ops, g, i)
  BY DEF UndoStep
<1> HIDE DEF w, q, Turn
<1>5. \A f : Rec(f) <=> Folds(w, q, f)
  BY <1>1, <1>4 DEF Folds
<1>6. \E f : Rec(f)
  <2>1. \E f : Folds(w, q, f)
    BY <1>2, FoldExists
  <2> HIDE DEF Rec
  <2>2. QED
    BY <1>5, <2>1
<1>7. PICK f : Rec(f) /\ Semundo(x, ops, g) = f[DOMAIN q]
  <2> HIDE DEF Rec
  <2>1. QED
    BY <1>3, <1>6
<1>8. PICK t : Turns(w, q, d, f[DOMAIN q], t)
  BY <1>2, <1>5, <1>7, FoldTrace
<1> HIDE DEF Rec
<1>9. Undoes(x, ops, g, d, t)
  BY <1>1, <1>2, <1>7, <1>8 DEF Turns, Undoes
<1>10. QED
  BY <1>9

Begin(p) == [val |-> semval, u |-> semu[p], wakes |-> {}, done |-> 0, end |-> ""]

Passes(p, ops, g, ncnt, zcnt, n, t) ==
  /\ t[0] = Begin(p) /\ t[n] = Pass(p, ops, g, ncnt, zcnt)
  /\ \A k \in 1..n : t[k] = IF t[k - 1].end = "" THEN Operate(t[k - 1], ops, g, ncnt, zcnt)
                                                 ELSE t[k - 1]

LEMMA PassTurns ==
  ASSUME NEW p, NEW ops, NEW g, NEW ncnt, NEW zcnt, NEW n \in Nat, Len(ops) = n
  PROVE  \E t : Passes(p, ops, g, ncnt, zcnt, n, t)
<1> DEFINE w == [loop |-> "pass", base |-> Begin(p), ops |-> ops, g |-> g,
                 ncnt |-> ncnt, zcnt |-> zcnt]
           q == [i \in 1..Len(ops) |-> i]
           Turn(x) == IF x.end = "" THEN Operate(x, ops, g, ncnt, zcnt) ELSE x
           Rec(f) == f = [z \in SUBSET DOMAIN q |->
                            IF z = {} THEN Begin(p) ELSE Turn(f[z \ {Max(z)}])]
<1>1. w.base = Begin(p) /\ \A y, e : Step(w, y, e) = Turn(y)
  BY DEF Step
<1>2. DOMAIN q = 1..n
  OBVIOUS
<1>3. Pass(p, ops, g, ncnt, zcnt) = (CHOOSE f : Rec(f))[DOMAIN q]
  BY DEF Pass, FoldLeft, MapThenFoldSet, Begin
<1> HIDE DEF w, q, Turn
<1>5. \A f : Rec(f) <=> Folds(w, q, f)
  BY <1>1 DEF Folds
<1>6. \E f : Rec(f)
  <2>1. \E f : Folds(w, q, f)
    BY <1>2, FoldExists
  <2> HIDE DEF Rec
  <2>2. QED
    BY <1>5, <2>1
<1>7. PICK f : Rec(f) /\ Pass(p, ops, g, ncnt, zcnt) = f[DOMAIN q]
  <2> HIDE DEF Rec
  <2>1. QED
    BY <1>3, <1>6
<1>8. PICK t : Turns(w, q, n, f[DOMAIN q], t)
  BY <1>2, <1>5, <1>7, FoldTrace
<1> HIDE DEF Rec
<1>9. t[0] = Begin(p) /\ t[n] = Pass(p, ops, g, ncnt, zcnt)
  BY <1>1, <1>7, <1>8 DEF Turns
<1>10. \A k \in 1..n : t[k] = Turn(t[k - 1])
  BY <1>1, <1>8 DEF Turns
<1>11. Passes(p, ops, g, ncnt, zcnt, n, t)
  BY <1>9, <1>10 DEF Turn, Passes
<1>12. QED
  BY <1>11

-----------------------------------------------------------------------------
(* What the operations up to the k-th add to s, and what of it is to be taken back
   at exit. *)

Added(ops, k, s) == A!Added(ops, k, s)
Undoing == {TRUE}
Taken(ops, k, s) == A!Sum(ops, k, s, Undoing)

(* The first operation is on semaphore 0, the second on semaphore 1, and so on; the
   last may be on any: what semundo() takes for granted. *)
Orderly(ops) == \A i \in 1..(Len(ops) - 1) : ops[i].num = i - 1

LEMMA OpIs ==
  ASSUME NEW ops \in Seq(sembuf), NEW k \in 1..Len(ops)
  PROVE  /\ ops[k].num \in Nat /\ ops[k].op \in Int
         /\ ops[k].undo \in BOOLEAN /\ ops[k].nowait \in BOOLEAN
<1>1. ops[k] \in sembuf
  OBVIOUS
<1>2. QED
  BY <1>1 DEF sembuf

Sums(ops, k, s, U, t) ==
  /\ t[0] = 0 /\ t[k] = A!Sum(ops, k, s, U)
  /\ \A j \in 1..k : t[j] = IF ops[j].num = s /\ ops[j].undo \in U
                            THEN t[j - 1] + ops[j].op ELSE t[j - 1]

LEMMA SumTrace ==
  ASSUME NEW ops \in Seq(sembuf), NEW k \in 0..Len(ops), NEW s, NEW U
  PROVE  \E t : Sums(ops, k, s, U, t)
<1> DEFINE q == SubSeq(ops, 1, k)
<1>1. k \in Nat /\ DOMAIN q = 1..k /\ \A j \in 1..k : q[j] = ops[j]
  OBVIOUS
<1>2. A!Sum(ops, k, s, U) = SumOf(q, s, U)
  BY DEF A!Sum, SumOf
<1> HIDE DEF q
<1>3. PICK t : /\ t[0] = 0 /\ t[k] = SumOf(q, s, U)
               /\ \A j \in 1..k : t[j] = IF q[j].num = s /\ q[j].undo \in U
                                         THEN t[j - 1] + q[j].op ELSE t[j - 1]
  BY <1>1, SumTurns
<1>4. Sums(ops, k, s, U, t)
  BY <1>1, <1>2, <1>3 DEF Sums
<1>5. QED
  BY <1>4

LEMMA SumNone == ASSUME NEW ops \in Seq(sembuf), NEW s, NEW U PROVE A!Sum(ops, 0, s, U) = 0
<1>1. 0 \in 0..Len(ops)
  OBVIOUS
<1>2. PICK t : Sums(ops, 0, s, U, t)
  BY <1>1, SumTrace
<1>3. QED
  BY <1>2 DEF Sums

LEMMA SumNext ==
  ASSUME NEW ops \in Seq(sembuf), NEW k \in 1..Len(ops), NEW s, NEW U
  PROVE  A!Sum(ops, k, s, U) =
           IF ops[k].num = s /\ ops[k].undo \in U
           THEN A!Sum(ops, k - 1, s, U) + ops[k].op ELSE A!Sum(ops, k - 1, s, U)
<1>1. k \in 0..Len(ops) /\ k - 1 \in 0..Len(ops) /\ k \in Nat
  OBVIOUS
<1>2. PICK t : Sums(ops, k, s, U, t)
  BY <1>1, SumTrace
<1>3. PICK r : Sums(ops, k - 1, s, U, r)
  BY <1>1, SumTrace
<1> DEFINE S == {j \in Nat : j <= k - 1 => t[j] = r[j]}
<1>4. 0 \in S
  BY <1>2, <1>3 DEF Sums
<1>5. ASSUME NEW j \in Nat, j \in S PROVE j + 1 \in S
  <2>1. SUFFICES ASSUME j + 1 <= k - 1 PROVE t[j + 1] = r[j + 1]
    OBVIOUS
  <2>2. j + 1 \in 1..k /\ j + 1 \in 1..(k - 1) /\ (j + 1) - 1 = j /\ t[j] = r[j]
    BY <1>1, <1>5, <2>1
  <2>3. QED
    BY <1>2, <1>3, <2>2 DEF Sums
<1>6. Nat \subseteq S
  <2> HIDE DEF S
  <2>1. QED
    BY <1>4, <1>5, Induction
<1>7. t[k - 1] = r[k - 1]
  BY <1>1, <1>6
<1>8. QED
  BY <1>1, <1>2, <1>3, <1>7 DEF Sums

LEMMA AddedNone ==
  ASSUME NEW ops \in Seq(sembuf), NEW s PROVE Added(ops, 0, s) = 0 /\ Taken(ops, 0, s) = 0
BY SumNone DEF Added, A!Added, Taken

LEMMA AddedSteps ==
  ASSUME NEW ops \in Seq(sembuf), NEW k \in 1..Len(ops), NEW s
  PROVE  /\ Added(ops, k, s) = IF ops[k].num = s THEN Added(ops, k - 1, s) + ops[k].op
                                                 ELSE Added(ops, k - 1, s)
         /\ Taken(ops, k, s) = IF ops[k].num = s /\ ops[k].undo
                               THEN Taken(ops, k - 1, s) + ops[k].op ELSE Taken(ops, k - 1, s)
<1>1. ops[k].undo \in BOOLEAN /\ (ops[k].undo \in Undoing <=> ops[k].undo)
  BY OpIs DEF Undoing
<1>2. QED
  BY <1>1, SumNext DEF Added, A!Added, Taken

LEMMA AddedTyped ==
  ASSUME NEW ops \in Seq(sembuf), NEW k \in 0..Len(ops), NEW s
  PROVE  Added(ops, k, s) \in Int /\ Taken(ops, k, s) \in Int
<1> DEFINE S == {j \in Nat : j <= Len(ops) => Added(ops, j, s) \in Int /\ Taken(ops, j, s) \in Int}
<1>1. 0 \in S
  BY AddedNone
<1>2. ASSUME NEW j \in Nat, j \in S PROVE j + 1 \in S
  <2>1. SUFFICES ASSUME j + 1 <= Len(ops)
                 PROVE  Added(ops, j + 1, s) \in Int /\ Taken(ops, j + 1, s) \in Int
    OBVIOUS
  <2>2. j + 1 \in 1..Len(ops) /\ (j + 1) - 1 = j
    BY <2>1
  <2>3. ops[j + 1].op \in Int /\ Added(ops, j, s) \in Int /\ Taken(ops, j, s) \in Int
    BY <1>2, <2>1, <2>2, OpIs
  <2>4. QED
    BY <2>2, <2>3, AddedSteps
<1>3. Nat \subseteq S
  <2> HIDE DEF S
  <2>1. QED
    BY <1>1, <1>2, Induction
<1>4. QED
  BY <1>3

LEMMA AddedNext ==
  ASSUME NEW ops \in Seq(sembuf), NEW k \in 1..Len(ops), NEW s
  PROVE  /\ Added(ops, k, s) = Added(ops, k - 1, s) + (IF ops[k].num = s THEN ops[k].op ELSE 0)
         /\ Taken(ops, k, s) = Taken(ops, k - 1, s)
                               + (IF ops[k].num = s /\ ops[k].undo THEN ops[k].op ELSE 0)
<1>1. k - 1 \in 0..Len(ops)
  OBVIOUS
<1>2. Added(ops, k - 1, s) \in Int /\ Taken(ops, k - 1, s) \in Int
  BY <1>1, AddedTyped
<1>3. QED
  BY <1>2, AddedSteps

(* Before the last operation there is at most one on s. *)
LEMMA AddedOnce ==
  ASSUME NEW ops \in Seq(sembuf), Orderly(ops), NEW s \in Nat, NEW k \in 0..(Len(ops) - 1)
  PROVE  /\ Added(ops, k, s) = IF s < k THEN ops[s + 1].op ELSE 0
         /\ Taken(ops, k, s) = IF s < k /\ ops[s + 1].undo THEN ops[s + 1].op ELSE 0
<1>0. PICK n \in Nat : n = Len(ops)
  OBVIOUS
<1> DEFINE Good(j) ==
      /\ Added(ops, j, s) = IF s < j THEN ops[s + 1].op ELSE 0
      /\ Taken(ops, j, s) = IF s < j /\ ops[s + 1].undo THEN ops[s + 1].op ELSE 0
           S == {j \in Nat : j <= n - 1 => Good(j)}
<1>1. 0 \in S
  BY AddedNone
<1>2. ASSUME NEW j \in Nat, j \in S PROVE j + 1 \in S
  <2>1. SUFFICES ASSUME j + 1 <= n - 1 PROVE Good(j + 1)
    OBVIOUS
  <2>2. j + 1 \in 1..n /\ j + 1 \in 1..(Len(ops) - 1) /\ (j + 1) - 1 = j /\ Good(j)
    BY <1>0, <1>2, <2>1
  <2>3. ops[j + 1].num = j /\ ops[j + 1].op \in Int
    BY <1>0, <2>2, OpIs DEF Orderly
  <2>4. /\ Added(ops, j + 1, s) = Added(ops, j, s) + (IF s = j THEN ops[j + 1].op ELSE 0)
        /\ Taken(ops, j + 1, s) = Taken(ops, j, s)
                                  + (IF s = j /\ ops[j + 1].undo THEN ops[j + 1].op ELSE 0)
    BY <1>0, <2>2, <2>3, AddedNext
  <2>5. CASE s = j
    BY <2>2, <2>3, <2>4, <2>5
  <2>6. CASE s < j
    <3>1. s + 1 \in 1..n
      BY <2>2, <2>6
    <3>2. ops[s + 1].op \in Int
      BY <1>0, <3>1, OpIs
    <3>3. QED
      BY <2>2, <2>4, <2>6, <3>2
  <2>7. CASE s > j
    BY <2>2, <2>4, <2>7
  <2>8. QED
    BY <2>5, <2>6, <2>7
<1>3. Nat \subseteq S
  <2> HIDE DEF S
  <2>1. QED
    BY <1>1, <1>2, Induction
<1>4. QED
  BY <1>0, <1>3

(* AdjustsFit() of the operations after the a-th up to the b-th. *)
LEMMA PartIs ==
  ASSUME NEW ops \in Seq(sembuf), NEW s, NEW a \in 0..Len(ops), NEW b \in a..Len(ops)
  PROVE  PartOf(ops, {i \in (a + 1)..b : i \in Occurrences(ops, s)})
           = Taken(ops, b, s) - Taken(ops, a, s)
<1>0. PICK n \in Nat : n = Len(ops)
  OBVIOUS
<1> DEFINE I == {i \in (a + 1)..b : i \in Occurrences(ops, s)}
<1>1. PICK t : Parts(ops, n, I, t)
  <2> HIDE DEF I
  <2>1. QED
    BY <1>0, PartTurns
<1> DEFINE Good(j) == t[j] = IF j <= a THEN 0
                             ELSE IF j <= b THEN Taken(ops, j, s) - Taken(ops, a, s)
                             ELSE Taken(ops, b, s) - Taken(ops, a, s)
           S == {j \in Nat : j <= n => Good(j)}
<1>2. \A k \in 0..n : Taken(ops, k, s) \in Int
  BY <1>0, AddedTyped
<1>3. 0 \in S
  BY <1>1 DEF Parts
<1>4. ASSUME NEW j \in Nat, j \in S PROVE j + 1 \in S
  <2>1. SUFFICES ASSUME j + 1 <= n PROVE Good(j + 1)
    OBVIOUS
  <2>2. j + 1 \in 1..n /\ (j + 1) - 1 = j /\ Good(j)
    BY <1>4, <2>1
  <2>3. /\ Taken(ops, j + 1, s) = Taken(ops, j, s)
             + (IF ops[j + 1].num = s /\ ops[j + 1].undo THEN ops[j + 1].op ELSE 0)
        /\ ops[j + 1].op \in Int /\ Taken(ops, j, s) \in Int /\ Taken(ops, a, s) \in Int
        /\ Taken(ops, b, s) \in Int
    <3>1. ops[j + 1].op \in Int
      BY <1>0, <2>2, OpIs
    <3>2. j \in 0..n /\ a \in 0..n /\ b \in 0..n
      BY <1>0, <2>1
    <3>3. QED
      BY <1>0, <1>2, <2>2, <3>1, <3>2, AddedNext
  <2>4. j + 1 \in I <=> a <= j /\ j < b /\ ops[j + 1].num = s /\ ops[j + 1].undo
    BY <1>0, <2>2 DEF Occurrences
  <2>5. t[j + 1] = IF j + 1 \in I THEN t[j] + ops[j + 1].op ELSE t[j]
    BY <1>1, <2>2 DEF Parts
  <2> HIDE DEF I
  <2>6. CASE j + 1 <= a
    BY <2>2, <2>4, <2>5, <2>6
  <2>7. CASE a <= j /\ j + 1 <= b
    <3>1. t[j] = Taken(ops, j, s) - Taken(ops, a, s)
      <4>1. CASE j = a
        BY <2>2, <2>3, <4>1
      <4>2. CASE j # a
        BY <2>2, <2>7, <4>2
      <4>3. QED
        BY <4>1, <4>2
    <3>2. t[j + 1] = Taken(ops, j + 1, s) - Taken(ops, a, s)
      BY <2>3, <2>4, <2>5, <2>7, <3>1
    <3>3. QED
      BY <2>7, <3>2
  <2>8. CASE j + 1 > b
    <3>1. t[j] = Taken(ops, b, s) - Taken(ops, a, s)
      <4>1. CASE j <= a
        <5>1. a = b
          BY <2>8, <4>1
        <5>2. QED
          BY <2>2, <2>3, <4>1, <5>1
      <4>2. CASE j > a /\ j = b
        BY <2>2, <4>2
      <4>3. CASE j > a /\ j > b
        BY <2>2, <4>3
      <4>4. QED
        BY <2>8, <4>1, <4>2, <4>3
    <3>2. j + 1 > a
      BY <2>8
    <3>3. QED
      BY <2>4, <2>5, <2>8, <3>1, <3>2
  <2>9. QED
    BY <2>6, <2>7, <2>8
<1>5. Nat \subseteq S
  <2> HIDE DEF S
  <2>1. QED
    BY <1>3, <1>4, Induction
<1>6. Good(n)
  BY <1>5
<1>7. PartOf(ops, I) = Taken(ops, b, s) - Taken(ops, a, s)
  <2>1. Taken(ops, a, s) \in Int /\ Taken(ops, b, s) \in Int
    <3>1. a \in 0..n /\ b \in 0..n
      BY <1>0
    <3>2. QED
      BY <1>2, <3>1
  <2> HIDE DEF I
  <2>2. CASE n <= a
    <3>1. a = b
      BY <1>0, <2>2
    <3>2. QED
      BY <1>1, <1>6, <2>1, <2>2, <3>1 DEF Parts
  <2>3. CASE n > a /\ n <= b
    <3>1. n = b
      BY <1>0, <2>3
    <3>2. QED
      BY <1>1, <1>6, <2>1, <2>3, <3>1 DEF Parts
  <2>4. CASE n > b
    BY <1>1, <1>6, <2>1, <2>4 DEF Parts
  <2>5. QED
    BY <2>2, <2>3, <2>4
<1>8. QED
  BY <1>7

-----------------------------------------------------------------------------
(* The adjust values of a process. *)

Small == (-SEMVMX)..SEMVMX
Adjusts == UNION {[S -> Small] : S \in SUBSET Sem}
AdjOf(u, s) == IF s \in DOMAIN u THEN u[s] ELSE 0

LEMMA Numbers ==
  ASSUME Parameters
  PROVE  /\ NSEMS \in Nat \ {0} /\ SEMVMX \in Nat \ {0} /\ USHRT \in Nat /\ USHRT > 2 * SEMVMX
         /\ Sem \subseteq Nat /\ \A i, s \in Nat : s \in Sem /\ i <= s => i \in Sem
BY DEF Parameters, Sem

(* What an operation takes away is as small as what it adds. *)
LEMMA SmallOpposite ==
  ASSUME Parameters, NEW o \in Small
  PROVE  \E v \in Small : v = -o /\ o = 0 - v
<1>1. SEMVMX \in Nat /\ o \in Int /\ -SEMVMX <= o /\ o <= SEMVMX
  BY Numbers DEF Small
<1>2. -o \in Small /\ o = 0 - (-o)
  BY <1>1 DEF Small
<1>3. QED
  BY <1>2

LEMMA AdjSmall ==
  ASSUME Parameters, NEW u \in Adjusts, NEW s PROVE AdjOf(u, s) \in Small /\ AdjOf(u, s) \in Int
<1>1. PICK S \in SUBSET Sem : u \in [S -> Small]
  BY DEF Adjusts
<1>2. 0 \in Small /\ Small \subseteq Int
  BY Numbers DEF Small
<1>3. QED
  BY <1>1, <1>2 DEF AdjOf

(* iSubAdj(), if new memory holds 0. *)
LEMMA SubAdjIs ==
  ASSUME Parameters, NEW u \in Adjusts, NEW g \in [Sem -> {0}], NEW s \in Sem, NEW v \in Small
  PROVE  /\ SubAdj(u, g, s, v).ok <=> AdjOf(u, s) - v \in Small
         /\ SubAdj(u, g, s, v).u \in Adjusts
         /\ SubAdj(u, g, s, v).ok =>
              \A x \in Sem : AdjOf(SubAdj(u, g, s, v).u, x)
                               = IF x = s THEN AdjOf(u, s) - v ELSE AdjOf(u, x)
         /\ ~SubAdj(u, g, s, v).ok => SubAdj(u, g, s, v).u = u
<1>1. PICK S \in SUBSET Sem : u \in [S -> Small]
  BY DEF Adjusts
<1>2. Small \subseteq Int /\ v \in Int /\ 0 - v \in Small /\ g[s] = 0 /\ 0 - v = -v
  BY Numbers DEF Small
<1>3. CASE s \in DOMAIN u /\ u[s] - v \in Small
  <2> DEFINE u1 == [u EXCEPT ![s] = u[s] - v]
  <2>1. SubAdj(u, g, s, v) = [ok |-> TRUE, u |-> u1]
    BY <1>3 DEF SubAdj, Small
  <2>2. u1 \in [S -> Small]
    BY <1>1, <1>3
  <2>3. \A x \in Sem : AdjOf(u1, x) = IF x = s THEN u[s] - v ELSE AdjOf(u, x)
    BY <1>1, <1>3 DEF AdjOf
  <2>4. AdjOf(u, s) = u[s]
    BY <1>3 DEF AdjOf
  <2> HIDE DEF u1
  <2>5. QED
    BY <1>3, <2>1, <2>2, <2>3, <2>4 DEF Adjusts
<1>4. CASE s \in DOMAIN u /\ u[s] - v \notin Small
  <2>1. SubAdj(u, g, s, v) = [ok |-> FALSE, u |-> u]
    BY <1>4 DEF SubAdj, Small
  <2>2. AdjOf(u, s) = u[s]
    BY <1>4 DEF AdjOf
  <2>3. QED
    BY <1>4, <2>1, <2>2
<1>5. CASE s \notin DOMAIN u
  <2> DEFINE u1 == [x \in DOMAIN u \cup {s} |-> IF x = s THEN g[s] - v ELSE u[x]]
  <2>1. SubAdj(u, g, s, v) = [ok |-> TRUE, u |-> u1]
    BY <1>5 DEF SubAdj
  <2>2. u1 \in [S \cup {s} -> Small]
    BY <1>1, <1>2
  <2>3. \A x \in Sem : AdjOf(u1, x) = IF x = s THEN 0 - v ELSE AdjOf(u, x)
    BY <1>1, <1>2 DEF AdjOf
  <2>4. AdjOf(u, s) = 0
    BY <1>5 DEF AdjOf
  <2>5. S \cup {s} \in SUBSET Sem
    OBVIOUS
  <2> HIDE DEF u1
  <2>6. u1 \in Adjusts
    BY <2>2, <2>5 DEF Adjusts
  <2>7. QED
    BY <1>2, <2>1, <2>3, <2>4, <2>6
<1>6. QED
  BY <1>3, <1>4, <1>5

(* An array of operations that may be asked for once is so when it is tried again. *)
Fit(U, ops, s) ==
  \/ AdjOf(U, s) = 0
  \/ \A a \in 0..Len(ops) : \A b \in a..Len(ops) :
       AdjOf(U, s) - (Taken(ops, b, s) - Taken(ops, a, s)) \in Small

LEMMA FitIs ==
  ASSUME NEW p \in Proc, NEW ops \in Seq(sembuf), AdjustsFit(p, ops), NEW s \in Sem
  PROVE  Fit(semu[p], ops, s)
<1> SUFFICES ASSUME NEW a \in 0..Len(ops), NEW b \in a..Len(ops)
             PROVE  AdjOf(semu[p], s) - (Taken(ops, b, s) - Taken(ops, a, s)) \in Small
  BY DEF Fit
<1> DEFINE I == {i \in (a + 1)..b : i \in Occurrences(ops, s)}
<1>1. I \in SUBSET Occurrences(ops, s)
  OBVIOUS
<1>2. PartOf(ops, I) = Taken(ops, b, s) - Taken(ops, a, s)
  BY PartIs
<1> HIDE DEF I
<1>3. Adj(p, s) - PartOf(ops, I) \in (-SEMVMX)..SEMVMX
  BY <1>1 DEF AdjustsFit, PartOf
<1>4. QED
  BY <1>2, <1>3 DEF Adj, AdjOf, Small

(* The adjust value of s, from what it is after b operations, as the first, the second
   and so on of them are taken back. *)
Keeps(U, ops, s, b) ==
  \A a \in 0..b : AdjOf(U, s) - (Taken(ops, b, s) - Taken(ops, a, s)) \in Small

LEMMA KeepsBefore ==
  ASSUME Parameters, NEW U \in Adjusts, NEW ops \in Seq(sembuf), Orderly(ops), NEW s \in Sem,
         Fit(U, ops, s), NEW k \in 0..(Len(ops) - 1), \A j \in 1..k : ops[j].op \in Small
  PROVE  Keeps(U, ops, s, k)
<1> SUFFICES ASSUME NEW a \in 0..k
             PROVE  AdjOf(U, s) - (Taken(ops, k, s) - Taken(ops, a, s)) \in Small
  BY DEF Keeps
<1>1. CASE AdjOf(U, s) # 0
  <2>1. a \in 0..Len(ops) /\ k \in a..Len(ops)
    OBVIOUS
  <2>2. QED
    BY <1>1, <2>1 DEF Fit
<1>2. CASE AdjOf(U, s) = 0
  <2>1. s \in Nat /\ a \in 0..(Len(ops) - 1)
    BY Numbers
  <2>2. Taken(ops, k, s) = IF s < k /\ ops[s + 1].undo THEN ops[s + 1].op ELSE 0
    BY <2>1, AddedOnce
  <2>3. Taken(ops, a, s) = IF s < a /\ ops[s + 1].undo THEN ops[s + 1].op ELSE 0
    BY <2>1, AddedOnce
  <2>4. s < k => ops[s + 1].op \in Small
    <3>1. s < k => s + 1 \in 1..k
      BY <2>1
    <3>2. QED
      BY <3>1
  <2>5. s < a => s < k
    BY <2>1
  <2>6. 0 \in Small /\ \A v \in Small : v \in Int /\ 0 - v \in Small /\ 0 - (v - 0) \in Small
                                        /\ 0 - (v - v) \in Small
    BY Numbers DEF Small
  <2>7. CASE s < a /\ ops[s + 1].undo
    BY <1>2, <2>2, <2>3, <2>4, <2>5, <2>6, <2>7
  <2>8. CASE ~(s < a) /\ s < k /\ ops[s + 1].undo
    BY <1>2, <2>2, <2>3, <2>4, <2>5, <2>6, <2>8
  <2>9. CASE ~(s < k /\ ops[s + 1].undo)
    BY <1>2, <2>2, <2>3, <2>5, <2>6, <2>9
  <2>10. QED
    BY <2>5, <2>7, <2>8, <2>9
<1>3. QED
  BY <1>1, <1>2

LEMMA KeepsAll ==
  ASSUME Parameters, NEW U \in Adjusts, NEW ops \in Seq(sembuf), Orderly(ops), NEW s \in Sem,
         Fit(U, ops, s), NEW k \in 1..Len(ops), \A j \in 1..k : ops[j].op \in Small,
         AdjOf(U, s) - Taken(ops, k, s) \in Small
  PROVE  Keeps(U, ops, s, k)
<1>1. CASE k # Len(ops)
  <2>1. k \in 0..(Len(ops) - 1)
    BY <1>1
  <2>2. QED
    BY <2>1, KeepsBefore
<1>2. CASE k = Len(ops) /\ AdjOf(U, s) # 0
  <2>1. \A a \in 0..k : a \in 0..Len(ops) /\ k \in a..Len(ops)
    OBVIOUS
  <2>2. QED
    BY <1>2, <2>1 DEF Fit, Keeps
<1>3. CASE k = Len(ops) /\ AdjOf(U, s) = 0
  <2> SUFFICES ASSUME NEW a \in 0..k
               PROVE  AdjOf(U, s) - (Taken(ops, k, s) - Taken(ops, a, s)) \in Small
    BY DEF Keeps
  <2>1. s \in Nat /\ k - 1 \in 0..(Len(ops) - 1) /\ k \in 0..Len(ops)
    BY <1>3, Numbers
  <2>2. Taken(ops, k, s) \in Int
    BY <2>1, AddedTyped
  <2>3. 0 \in Small /\ \A v \in Small : v \in Int /\ 0 - v \in Small
    BY Numbers DEF Small
  <2>4. CASE a = k
    BY <1>3, <2>2, <2>3, <2>4
  <2>5. CASE a < k
    <3>1. a \in 0..(Len(ops) - 1)
      BY <1>3, <2>5
    <3>2. Taken(ops, a, s) = IF s < a /\ ops[s + 1].undo THEN ops[s + 1].op ELSE 0
      BY <2>1, <3>1, AddedOnce
    <3>3. Taken(ops, k - 1, s) = IF s < k - 1 /\ ops[s + 1].undo THEN ops[s + 1].op ELSE 0
      BY <2>1, AddedOnce
    <3>4. CASE s < a /\ ops[s + 1].undo
      <4>1. Taken(ops, k - 1, s) = Taken(ops, a, s)
        BY <2>1, <2>5, <3>2, <3>3, <3>4
      <4>2. Taken(ops, k, s) = Taken(ops, k - 1, s)
                               + (IF ops[k].num = s /\ ops[k].undo THEN ops[k].op ELSE 0)
        BY AddedNext
      <4>3. ops[k].op \in Small /\ ops[k].op \in Int
        BY <2>3
      <4>4. Taken(ops, k - 1, s) \in Int
        <5>1. s + 1 \in 1..k
          BY <2>1, <2>5, <3>4
        <5>2. QED
          BY <2>3, <3>2, <3>4, <4>1, <5>1
      <4>5. PICK c \in Small : Taken(ops, k, s) = Taken(ops, k - 1, s) + c
        <5>1. CASE ops[k].num = s /\ ops[k].undo
          BY <4>2, <4>3, <5>1
        <5>2. CASE ~(ops[k].num = s /\ ops[k].undo)
          BY <2>3, <4>2, <5>2
        <5>3. QED
          BY <5>1, <5>2
      <4>6. Taken(ops, k, s) - Taken(ops, a, s) = c
        <5>1. c \in Int
          BY <2>3
        <5>2. \A y, z \in Int : (y + z) - y = z
          OBVIOUS
        <5>3. QED
          BY <4>1, <4>4, <4>5, <5>1, <5>2
      <4>7. QED
        BY <1>3, <2>3, <4>6
    <3>5. CASE ~(s < a /\ ops[s + 1].undo)
      BY <2>2, <3>2, <3>5
    <3>6. QED
      BY <3>4, <3>5
  <2>6. QED
    BY <2>4, <2>5
<1>4. QED
  BY <1>1, <1>2, <1>3

(* A value that is taken off and was there: its adjust value fits. *)
LEMMA DecrementFits ==
  ASSUME Parameters, NEW U \in Adjusts, NEW ops \in Seq(sembuf), Orderly(ops), NEW s \in Sem,
         Fit(U, ops, s), NEW k \in 1..Len(ops), \A j \in 1..k : ops[j].op \in Small,
         ops[k].num = s, ops[k].op < 0,
         NEW v \in 0..SEMVMX, v + Added(ops, k, s) >= 0
  PROVE  AdjOf(U, s) - Taken(ops, k, s) \in Small
<1>0. k \in 0..Len(ops) /\ 0 \in 0..Len(ops) /\ k \in 0..Len(ops) /\ 0 \in 0..k
  OBVIOUS
<1>1. Taken(ops, k, s) \in Int /\ Added(ops, k, s) \in Int /\ Taken(ops, 0, s) = 0 /\ AdjOf(U, s) \in Int
  BY <1>0, AddedTyped, AddedNone, AdjSmall
<1>2. CASE k # Len(ops)
  <2>1. k \in 0..(Len(ops) - 1)
    BY <1>2
  <2>2. Keeps(U, ops, s, k)
    BY <2>1, KeepsBefore
  <2>3. AdjOf(U, s) - (Taken(ops, k, s) - Taken(ops, 0, s)) \in Small
    BY <1>0, <2>2 DEF Keeps
  <2>4. QED
    BY <1>1, <2>3
<1>3. CASE k = Len(ops) /\ AdjOf(U, s) # 0
  <2>1. AdjOf(U, s) - (Taken(ops, k, s) - Taken(ops, 0, s)) \in Small
    BY <1>0, <1>3 DEF Fit
  <2>2. QED
    BY <1>1, <2>1
<1>4. CASE k = Len(ops) /\ AdjOf(U, s) = 0
  <2>1. s \in Nat /\ k - 1 \in 0..(Len(ops) - 1)
    BY <1>4, Numbers
  <2>2. /\ Added(ops, k - 1, s) = IF s < k - 1 THEN ops[s + 1].op ELSE 0
        /\ Taken(ops, k - 1, s) = IF s < k - 1 /\ ops[s + 1].undo THEN ops[s + 1].op ELSE 0
    BY <2>1, AddedOnce
  <2>3. /\ Added(ops, k, s) = Added(ops, k - 1, s) + ops[k].op
        /\ Taken(ops, k, s) = Taken(ops, k - 1, s) + (IF ops[k].undo THEN ops[k].op ELSE 0)
    BY AddedNext
  <2>4. s < k - 1 => ops[s + 1].op \in Small
    <3>1. s < k - 1 => s + 1 \in 1..k
      BY <2>1
    <3>2. QED
      BY <3>1
  <2>5. ops[k].op \in Int /\ -SEMVMX <= ops[k].op /\ ops[k].op < 0 /\ SEMVMX \in Nat
    BY Numbers DEF Small
  <2>6. Taken(ops, k, s) \in Small
    <3>1. CASE s < k - 1
      <4>1. PICK c \in Int : c = ops[s + 1].op /\ -SEMVMX <= c /\ c <= SEMVMX
        BY <2>4, <3>1, Numbers DEF Small
      <4>2. Added(ops, k, s) = c + ops[k].op
        BY <2>2, <2>3, <3>1, <4>1
      <4>3. /\ Taken(ops, k - 1, s) = IF ops[s + 1].undo THEN c ELSE 0
            /\ c + ops[k].op >= -SEMVMX
        BY <1>1, <2>2, <2>5, <3>1, <4>1, <4>2
      <4>4. CASE ops[s + 1].undo
        BY <2>3, <2>5, <4>1, <4>3, <4>4 DEF Small
      <4>5. CASE ~ops[s + 1].undo
        BY <2>3, <2>5, <4>3, <4>5 DEF Small
      <4>6. QED
        BY <4>4, <4>5
    <3>2. CASE ~(s < k - 1)
      BY <2>2, <2>3, <2>5, <3>2 DEF Small
    <3>3. QED
      BY <3>1, <3>2
  <2>7. QED
    BY <1>1, <1>4, <2>6, Numbers DEF Small
<1>5. QED
  BY <1>2, <1>3, <1>4

-----------------------------------------------------------------------------
(* semundo() *)

LEMMA ModSmall == ASSUME NEW w \in Nat \ {0}, NEW n \in 0..(w - 1) PROVE n % w = n
OBVIOUS

Unended == ""
Ends == {Unended, "error", "semncnt", "semzcnt"}
State == [val : [Sem -> Int], u : Adjusts, wakes : SUBSET Event, done : Nat, end : Ends]

(* The first d operations, on semaphores 0, 1 and so on, can be taken back from what
   they made of the values V. *)
Undoable(V, ops, d) ==
  \A j \in 1..d : ops[j].num = j - 1 /\ ops[j].num \in Sem /\ ops[j].op \in Small

(* After j operations are taken back, of x where the values are V and what the d
   operations added, and the adjust values U without what b of them took. *)
Undone(x, V, U, ops, d, b, j, y) ==
  /\ y \in State /\ y.wakes = x.wakes /\ y.done = x.done /\ y.end = x.end
  /\ \A s \in Sem : y.val[s] = IF s < j THEN V[s] ELSE V[s] + Added(ops, d, s)
  /\ \A s \in Sem : AdjOf(y.u, s) = AdjOf(U, s) - (Taken(ops, b, s) - Taken(ops, j, s))

LEMMA UndoStepRight ==
  ASSUME Parameters, NEW V \in [Sem -> 0..SEMVMX], NEW U \in Adjusts,
         NEW ops \in Seq(sembuf), Orderly(ops), NEW g \in [Sem -> {0}],
         NEW d \in 0..(Len(ops) - 1), NEW b \in d..Len(ops), Undoable(V, ops, d),
         \A s \in Sem : Keeps(U, ops, s, b), NEW x, NEW y, NEW k \in 1..d,
         Undone(x, V, U, ops, d, b, k - 1, y)
  PROVE  Undone(x, V, U, ops, d, b, k, UndoStep(y, ops, g, k))
<1>1. /\ k \in 1..Len(ops) /\ k - 1 \in Sem /\ ops[k].num = k - 1 /\ ops[k].op \in Small
      /\ ops[k].op \in Int /\ ops[k].undo \in BOOLEAN /\ k - 1 \in Nat
  <2>1. k \in 1..Len(ops)
    OBVIOUS
  <2>2. QED
    BY <2>1, OpIs DEF Undoable
<1>2. /\ y \in State /\ y.val \in [Sem -> Int] /\ y.u \in Adjusts
      /\ y.wakes = x.wakes /\ y.done = x.done /\ y.end = x.end
  BY DEF Undone, State
<1> DEFINE z == UndoStep(y, ops, g, k)
           val == TakeBack(y.val, k - 1, ops[k].op)
           u == IF ops[k].undo THEN SubAdj(y.u, g, ops[k].num, -ops[k].op).u ELSE y.u
<1>3. z = [y EXCEPT !.val = val, !.u = u]
  BY <1>1, <1>2 DEF UndoStep, State
<1>4. val \in [Sem -> Int] /\ \A s \in Sem : val[s] = IF s < k THEN V[s] ELSE V[s] + Added(ops, d, s)
  <2>1. Added(ops, d, k - 1) = ops[k].op
    BY <1>1, AddedOnce
  <2>2. y.val[k - 1] = V[k - 1] + ops[k].op
    BY <1>1, <2>1 DEF Undone
  <2>3. (y.val[k - 1] - ops[k].op) % USHRT = V[k - 1]
    <3>1. V[k - 1] \in 0..SEMVMX
      BY <1>1
    <3>2. PICK v \in 0..SEMVMX : v = V[k - 1]
      BY <3>1
    <3>3. (v + ops[k].op) - ops[k].op = v
      BY <1>1, Numbers
    <3>4. v % USHRT = v
      <4>1. USHRT \in Nat \ {0} /\ v \in 0..(USHRT - 1)
        BY Numbers
      <4>2. QED
        BY <4>1, ModSmall
    <3>5. QED
      BY <2>2, <3>2, <3>3, <3>4
  <2>4. val = [y.val EXCEPT ![k - 1] = V[k - 1]]
    BY <1>1, <2>3 DEF TakeBack
  <2>5. V[k - 1] \in Int
    BY <1>1, Numbers
  <2> HIDE DEF val
  <2>6. val \in [Sem -> Int]
    BY <1>1, <1>2, <2>4, <2>5
  <2>7. ASSUME NEW s \in Sem PROVE val[s] = IF s < k THEN V[s] ELSE V[s] + Added(ops, d, s)
    <3>1. s \in Nat
      BY Numbers
    <3>2. CASE s = k - 1
      BY <1>1, <1>2, <2>4, <3>2
    <3>3. CASE s # k - 1
      <4>1. val[s] = y.val[s] /\ (s < k <=> s < k - 1)
        BY <1>2, <2>4, <3>1, <3>3
      <4>2. QED
        BY <4>1 DEF Undone
    <3>4. QED
      BY <3>2, <3>3
  <2>8. QED
    BY <2>6, <2>7
<1>5. u \in Adjusts /\ \A s \in Sem : AdjOf(u, s) = AdjOf(U, s) - (Taken(ops, b, s) - Taken(ops, k, s))
  <2>1. \A s \in Sem : AdjOf(y.u, s) = AdjOf(U, s) - (Taken(ops, b, s) - Taken(ops, k - 1, s))
    BY DEF Undone
  <2>2. \A s \in Sem : /\ Taken(ops, b, s) \in Int /\ Taken(ops, k, s) \in Int
                       /\ Taken(ops, k - 1, s) \in Int /\ AdjOf(U, s) \in Int
    <3>1. b \in 0..Len(ops) /\ k \in 0..Len(ops) /\ k - 1 \in 0..Len(ops)
      OBVIOUS
    <3>2. QED
      BY <3>1, AddedTyped, AdjSmall
  <2>3. \A s \in Sem : Taken(ops, k, s) = Taken(ops, k - 1, s)
                          + (IF k - 1 = s /\ ops[k].undo THEN ops[k].op ELSE 0)
    BY <1>1, AddedNext
  <2>4. CASE ops[k].undo
    <3>1. PICK v \in Small : v = -ops[k].op /\ ops[k].op = 0 - v
      BY <1>1, SmallOpposite
    <3>2. u = SubAdj(y.u, g, k - 1, v).u
      BY <1>1, <2>4, <3>1
    <3>3. v \in Int /\ ops[k].op = 0 - v
      BY <1>1, <3>1
    <3>4. AdjOf(y.u, k - 1) - v = AdjOf(U, k - 1) - (Taken(ops, b, k - 1) - Taken(ops, k, k - 1))
      BY <1>1, <2>1, <2>2, <2>3, <2>4, <3>3
    <3>5. AdjOf(y.u, k - 1) - v \in Small
      <4>1. k \in 0..b
        OBVIOUS
      <4>2. QED
        BY <1>1, <3>4, <4>1 DEF Keeps
    <3>6. /\ u \in Adjusts
          /\ \A s \in Sem : AdjOf(u, s) = IF s = k - 1 THEN AdjOf(y.u, k - 1) - v ELSE AdjOf(y.u, s)
      BY <1>1, <1>2, <3>2, <3>5, SubAdjIs
    <3> HIDE DEF u
    <3>7. ASSUME NEW s \in Sem, s # k - 1
          PROVE  AdjOf(u, s) = AdjOf(U, s) - (Taken(ops, b, s) - Taken(ops, k, s))
      <4>1. Taken(ops, k, s) = Taken(ops, k - 1, s)
        BY <2>2, <2>3, <3>7
      <4>2. QED
        BY <2>1, <3>6, <3>7, <4>1
    <3>8. QED
      BY <3>4, <3>6, <3>7
  <2>5. CASE ~ops[k].undo
    <3>1. u = y.u
      BY <2>5
    <3>2. \A s \in Sem : Taken(ops, k, s) = Taken(ops, k - 1, s)
      BY <2>2, <2>3, <2>5
    <3>3. QED
      BY <1>2, <2>1, <3>1, <3>2
  <2>6. QED
    BY <2>4, <2>5
<1> HIDE DEF val, u, z
<1>6. z \in State /\ z.val = val /\ z.u = u /\ z.wakes = y.wakes /\ z.done = y.done /\ z.end = y.end
  BY <1>2, <1>3, <1>4, <1>5 DEF State
<1>7. Undone(x, V, U, ops, d, b, k, z)
  BY <1>2, <1>4, <1>5, <1>6 DEF Undone
<1>8. QED
  BY <1>7 DEF z

LEMMA UndoRight ==
  ASSUME Parameters, NEW V \in [Sem -> 0..SEMVMX], NEW U \in Adjusts,
         NEW ops \in Seq(sembuf), Orderly(ops), NEW g \in [Sem -> {0}],
         NEW d \in 0..(Len(ops) - 1), NEW b \in d..Len(ops), Undoable(V, ops, d),
         \A s \in Sem : Keeps(U, ops, s, b), NEW x, x.done = d,
         Undone(x, V, U, ops, d, b, 0, x)
  PROVE  Undone(x, V, U, ops, d, b, d, Semundo(x, ops, g))
<1>1. PICK t : Undoes(x, ops, g, d, t)
  <2>1. d \in Nat
    OBVIOUS
  <2>2. QED
    BY <2>1, UndoTurns
<1> DEFINE S == {j \in Nat : j <= d => Undone(x, V, U, ops, d, b, j, t[j])}
<1>2. 0 \in S
  BY <1>1 DEF Undoes
<1>3. ASSUME NEW j \in Nat, j \in S PROVE j + 1 \in S
  <2>1. SUFFICES ASSUME j + 1 <= d PROVE Undone(x, V, U, ops, d, b, j + 1, t[j + 1])
    OBVIOUS
  <2>2. PICK k \in 1..d : k = j + 1 /\ k - 1 = j
    BY <2>1
  <2>3. Undone(x, V, U, ops, d, b, k - 1, t[k - 1])
    BY <1>3, <2>2
  <2>4. t[k] = UndoStep(t[k - 1], ops, g, k)
    BY <1>1 DEF Undoes
  <2>5. Undone(x, V, U, ops, d, b, k, t[k])
    BY <2>3, <2>4, UndoStepRight
  <2>6. QED
    BY <2>2, <2>5
<1>4. Nat \subseteq S
  <2> HIDE DEF S
  <2>1. QED
    BY <1>2, <1>3, Induction
<1>5. Undone(x, V, U, ops, d, b, d, t[d])
  <2>1. d \in Nat
    OBVIOUS
  <2>2. QED
    BY <1>4, <2>1
<1>6. QED
  BY <1>1, <1>5 DEF Undoes

-----------------------------------------------------------------------------
(* usemop() *)

(* An array of operations, asked for where the values are V and the caller's adjust
   values U. *)
Asks(V, U, ops, g, ncnt, zcnt) ==
  /\ V \in [Sem -> 0..SEMVMX] /\ U \in Adjusts
  /\ ops \in Seq(sembuf) /\ Orderly(ops) /\ \A s \in Sem : Fit(U, ops, s)
  /\ g \in [Sem -> {0}] /\ ncnt \in [Sem -> Nat] /\ zcnt \in [Sem -> Nat]

(* The j-th operation is possible after those before it; or who does it waits. *)
Possible(V, ops, j) ==
  /\ ops[j].num \in Sem /\ ops[j].op \in Small
  /\ LET v == V[ops[j].num] + Added(ops, j - 1, ops[j].num) IN
     IF ops[j].op = 0 THEN v = 0 ELSE v + ops[j].op \in 0..SEMVMX

Stuck(V, ops, j, kind) ==
  /\ ops[j].num \in Sem
  /\ LET v == V[ops[j].num] + Added(ops, j - 1, ops[j].num) IN
     /\ kind = "semncnt" => ops[j].op < 0 /\ v + ops[j].op < 0
     /\ kind = "semzcnt" => ops[j].op = 0 /\ v # 0

Noted(V, ncnt, zcnt, x) ==
  \A s \in Sem :
    /\ x.val[s] > V[s] /\ ncnt[s] > 0 => <<"semncnt", s>> \in x.wakes
    /\ x.val[s] = 0 /\ V[s] # 0 /\ zcnt[s] > 0 => <<"semzcnt", s>> \in x.wakes

(* The first k operations are done. *)
Running(V, U, ops, ncnt, zcnt, k, x) ==
  /\ x \in State /\ x.end = Unended /\ x.done = k
  /\ \A s \in Sem : x.val[s] = V[s] + Added(ops, k, s) /\ x.val[s] \in 0..SEMVMX
  /\ \A s \in Sem : AdjOf(x.u, s) = AdjOf(U, s) - Taken(ops, k, s)
  /\ \A j \in 1..k : Possible(V, ops, j)
  /\ Noted(V, ncnt, zcnt, x)

(* All is taken back. *)
Ended(V, U, ops, x) ==
  /\ x \in State /\ x.end # Unended /\ x.done \in 0..(Len(ops) - 1)
  /\ x.val = V /\ \A s \in Sem : AdjOf(x.u, s) = AdjOf(U, s)
  /\ x.end # "error" => Stuck(V, ops, x.done + 1, x.end)

(* The failing of an array of which d operations are done, and where the adjust values
   know of b operations. *)
Failing(V, U, ops, d, b, x) ==
  /\ d \in 0..(Len(ops) - 1) /\ b \in d..Len(ops)
  /\ \A j \in 1..d : Possible(V, ops, j)
  /\ \A s \in Sem : Keeps(U, ops, s, b)
  /\ x \in State /\ x.done = d
  /\ \A s \in Sem : x.val[s] = V[s] + Added(ops, d, s)
  /\ \A s \in Sem : AdjOf(x.u, s) = AdjOf(U, s) - Taken(ops, b, s)

Failed(V, U, ops, d, b, how, y) ==
  /\ y \in State /\ y.end = how /\ y.done = d /\ y.val = V
  /\ \A s \in Sem : AdjOf(y.u, s) = AdjOf(U, s) - (Taken(ops, b, s) - Taken(ops, d, s))

LEMMA FailRight ==
  ASSUME Parameters, NEW V, NEW U, NEW ops \in Seq(sembuf), NEW g, NEW ncnt, NEW zcnt,
         Asks(V, U, ops, g, ncnt, zcnt), NEW d, NEW b, NEW x, Failing(V, U, ops, d, b, x),
         NEW how \in Ends
  PROVE  Failed(V, U, ops, d, b, how, Fail(x, ops, g, how))
<1>1. /\ V \in [Sem -> 0..SEMVMX] /\ U \in Adjusts /\ ops \in Seq(sembuf) /\ Orderly(ops)
      /\ g \in [Sem -> {0}]
  BY DEF Asks
<1>0. /\ d \in 0..(Len(ops) - 1) /\ b \in d..Len(ops)
      /\ \A j \in 1..d : Possible(V, ops, j)
      /\ \A s \in Sem : Keeps(U, ops, s, b)
      /\ x \in State /\ x.done = d
      /\ \A s \in Sem : x.val[s] = V[s] + Added(ops, d, s)
      /\ \A s \in Sem : AdjOf(x.u, s) = AdjOf(U, s) - Taken(ops, b, s)
  BY DEF Failing
<1>2. Undoable(V, ops, d)
  <2>1. \A j \in 1..d : j \in 1..(Len(ops) - 1)
    BY <1>0
  <2>2. QED
    BY <1>0, <1>1, <2>1 DEF Undoable, Orderly, Possible
<1>3. Undone(x, V, U, ops, d, b, 0, x)
  <2>1. \A s \in Sem : ~(s < 0)
    BY Numbers
  <2>2. \A s \in Sem : /\ Taken(ops, 0, s) = 0 /\ Taken(ops, b, s) \in Int
                       /\ Taken(ops, b, s) - 0 = Taken(ops, b, s)
    <3>1. b \in 0..Len(ops)
      BY <1>0
    <3>2. QED
      BY <1>1, <3>1, AddedNone, AddedTyped
  <2>3. QED
    BY <1>0, <2>1, <2>2 DEF Undone
<1>4. Undone(x, V, U, ops, d, b, d, Semundo(x, ops, g))
  BY <1>0, <1>1, <1>2, <1>3, UndoRight
<1>5. PICK y : y = Semundo(x, ops, g)
  OBVIOUS
<1>6. Fail(x, ops, g, how) = [y EXCEPT !.end = how]
  BY <1>5 DEF Fail
<1>7. Undone(x, V, U, ops, d, b, d, y)
  BY <1>4, <1>5
<1>8. PICK f : f = [y EXCEPT !.end = how]
  OBVIOUS
<1>9. /\ y \in State /\ y.done = d
      /\ \A s \in Sem : AdjOf(y.u, s) = AdjOf(U, s) - (Taken(ops, b, s) - Taken(ops, d, s))
  BY <1>0, <1>7 DEF Undone
<1>10. f \in State /\ f.end = how /\ f.done = d /\ f.val = y.val /\ f.u = y.u
  BY <1>8, <1>9 DEF State
<1>11. y.val = V
  <2>1. y.val \in [Sem -> Int]
    BY <1>9 DEF State
  <2>2. \A s \in Sem : y.val[s] = V[s]
    <3> SUFFICES ASSUME NEW s \in Sem PROVE y.val[s] = V[s]
      OBVIOUS
    <3>1. y.val[s] = IF s < d THEN V[s] ELSE V[s] + Added(ops, d, s)
      BY <1>7 DEF Undone
    <3>2. CASE ~(s < d)
      <4>1. Added(ops, d, s) = 0
        BY <1>0, <1>1, <3>2, Numbers, AddedOnce
      <4>2. V[s] \in Int
        BY <1>1, Numbers
      <4>3. QED
        BY <3>1, <3>2, <4>1, <4>2
    <3>3. QED
      BY <3>1, <3>2
  <2>3. QED
    BY <1>1, <2>1, <2>2
<1>12. QED
  BY <1>6, <1>8, <1>9, <1>10, <1>11 DEF Failed

LEMMA RunningFails ==
  ASSUME Parameters, NEW V, NEW U, NEW ops \in Seq(sembuf), NEW g, NEW ncnt, NEW zcnt,
         Asks(V, U, ops, g, ncnt, zcnt), NEW k \in 0..(Len(ops) - 1),
         NEW x, Running(V, U, ops, ncnt, zcnt, k, x), NEW how \in Ends, how # Unended,
         how # "error" => Stuck(V, ops, k + 1, how)
  PROVE  Ended(V, U, ops, Fail(x, ops, g, how))
<1>1. /\ x \in State /\ x.done = k /\ \A s \in Sem : x.val[s] = V[s] + Added(ops, k, s)
      /\ \A s \in Sem : AdjOf(x.u, s) = AdjOf(U, s) - Taken(ops, k, s)
      /\ \A j \in 1..k : Possible(V, ops, j)
  BY DEF Running
<1>2. U \in Adjusts /\ ops \in Seq(sembuf) /\ Orderly(ops) /\ \A s \in Sem : Fit(U, ops, s)
  BY DEF Asks
<1>3. \A s \in Sem : Keeps(U, ops, s, k)
  <2>1. \A j \in 1..k : ops[j].op \in Small
    BY <1>1 DEF Possible
  <2>2. QED
    BY <1>2, <2>1, KeepsBefore
<1>4. k \in 0..(Len(ops) - 1) /\ k \in k..Len(ops) /\ k \in 0..Len(ops)
  BY <1>2
<1>5. PICK f : f = Fail(x, ops, g, how)
  OBVIOUS
<1>6. Failed(V, U, ops, k, k, how, f)
  <2>1. Failing(V, U, ops, k, k, x)
    BY <1>1, <1>3, <1>4 DEF Failing
  <2>2. QED
    BY <1>5, <2>1, FailRight
<1>7. \A s \in Sem : AdjOf(f.u, s) = AdjOf(U, s)
  <2>1. \A s \in Sem : Taken(ops, k, s) \in Int /\ AdjOf(U, s) \in Int
    BY <1>2, <1>4, AddedTyped, AdjSmall
  <2>2. \A y, z \in Int : y - (z - z) = y
    OBVIOUS
  <2>3. QED
    BY <1>6, <2>1, <2>2 DEF Failed
<1>8. Ended(V, U, ops, f)
  BY <1>1, <1>6, <1>7 DEF Ended, Failed
<1>9. QED
  BY <1>5, <1>8

LEMMA EndsDiffer ==
  /\ Unended # "error" /\ Unended # "semncnt" /\ Unended # "semzcnt" /\ Unended \in Ends
  /\ "error" \in Ends /\ "semncnt" \in Ends /\ "semzcnt" \in Ends
BY DEF Unended, Ends

(* What is known of the operation after the k-th. *)
Operation(ops, k, o) ==
  /\ k \in 0..(Len(ops) - 1) /\ k + 1 \in 1..Len(ops) /\ (k + 1) - 1 = k /\ k \in 0..Len(ops)
  /\ o = ops[k + 1] /\ o.num \in Sem /\ o.op \in Small /\ o.op \in Int /\ o.undo \in BOOLEAN

LEMMA OperationIs ==
  ASSUME NEW ops \in Seq(sembuf), NEW k \in 0..(Len(ops) - 1), NEW o, o = ops[k + 1],
         o.num \in Sem, o.op \in Small
  PROVE  Operation(ops, k, o)
<1>1. k + 1 \in 1..Len(ops) /\ (k + 1) - 1 = k /\ k \in 0..Len(ops)
  OBVIOUS
<1>2. o.op \in Int /\ o.undo \in BOOLEAN
  BY <1>1, OpIs
<1>3. QED
  BY <1>1, <1>2 DEF Operation

(* The sums of one operation more. *)
LEMMA OperationAdds ==
  ASSUME NEW ops \in Seq(sembuf), NEW k, NEW o, Operation(ops, k, o), NEW s
  PROVE  /\ Added(ops, k + 1, s) = Added(ops, k, s) + (IF o.num = s THEN o.op ELSE 0)
         /\ Taken(ops, k + 1, s) = Taken(ops, k, s) + (IF o.num = s /\ o.undo THEN o.op ELSE 0)
         /\ Added(ops, k, s) \in Int /\ Taken(ops, k, s) \in Int /\ Taken(ops, k + 1, s) \in Int
<1>1. k + 1 \in 1..Len(ops) /\ (k + 1) - 1 = k /\ k \in 0..Len(ops) /\ k + 1 \in 0..Len(ops)
  BY DEF Operation
<1>2. PICK j \in 1..Len(ops) : j = k + 1 /\ j - 1 = k
  BY <1>1
<1>3. /\ Added(ops, j, s) = Added(ops, j - 1, s) + (IF ops[j].num = s THEN ops[j].op ELSE 0)
      /\ Taken(ops, j, s) = Taken(ops, j - 1, s)
                            + (IF ops[j].num = s /\ ops[j].undo THEN ops[j].op ELSE 0)
  BY AddedNext
<1>4. /\ Added(ops, k, s) \in Int /\ Taken(ops, k, s) \in Int /\ Taken(ops, k + 1, s) \in Int
  BY <1>1, AddedTyped
<1>5. o = ops[j]
  BY <1>2 DEF Operation
<1>6. QED
  BY <1>2, <1>3, <1>4, <1>5

(* The adjust value is noted if it fits. *)
LEMMA NoteUndoIs ==
  ASSUME Parameters, NEW V, NEW U, NEW ops \in Seq(sembuf), NEW g, NEW ncnt, NEW zcnt,
         Asks(V, U, ops, g, ncnt, zcnt), NEW k, NEW o, Operation(ops, k, o),
         NEW x, Running(V, U, ops, ncnt, zcnt, k, x)
  PROVE  /\ NoteUndo(x, g, o).u \in Adjusts
         /\ NoteUndo(x, g, o).ok =>
              \A s \in Sem : AdjOf(NoteUndo(x, g, o).u, s) = AdjOf(U, s) - Taken(ops, k + 1, s)
         /\ AdjOf(U, o.num) - Taken(ops, k + 1, o.num) \in Small => NoteUndo(x, g, o).ok
<1>1. /\ o.num \in Sem /\ o.op \in Small /\ o.undo \in BOOLEAN /\ o.op \in Int
  BY DEF Operation
<1>2. x.u \in Adjusts /\ \A s \in Sem : AdjOf(x.u, s) = AdjOf(U, s) - Taken(ops, k, s)
  BY DEF Running, State
<1>3. U \in Adjusts /\ g \in [Sem -> {0}]
  BY DEF Asks
<1>4. \A s \in Sem :
        /\ Taken(ops, k + 1, s) = Taken(ops, k, s) + (IF o.num = s /\ o.undo THEN o.op ELSE 0)
        /\ Taken(ops, k, s) \in Int /\ Taken(ops, k + 1, s) \in Int /\ AdjOf(U, s) \in Int
  BY <1>3, OperationAdds, AdjSmall
<1>5. CASE o.undo
  <2>1. PICK a : a = SubAdj(x.u, g, o.num, o.op)
    OBVIOUS
  <2>2. NoteUndo(x, g, o) = a
    BY <1>5, <2>1 DEF NoteUndo
  <2>3. /\ a.ok <=> AdjOf(x.u, o.num) - o.op \in Small
        /\ a.u \in Adjusts
        /\ a.ok => \A s \in Sem : AdjOf(a.u, s) = IF s = o.num THEN AdjOf(x.u, o.num) - o.op
                                                                ELSE AdjOf(x.u, s)
    BY <1>1, <1>2, <1>3, <2>1, SubAdjIs
  <2>4. AdjOf(x.u, o.num) - o.op = AdjOf(U, o.num) - Taken(ops, k + 1, o.num)
    BY <1>1, <1>2, <1>4, <1>5
  <2>5. ASSUME a.ok, NEW s \in Sem PROVE AdjOf(a.u, s) = AdjOf(U, s) - Taken(ops, k + 1, s)
    <3>1. CASE s = o.num
      BY <2>3, <2>4, <2>5, <3>1
    <3>2. CASE s # o.num
      <4>1. Taken(ops, k + 1, s) = Taken(ops, k, s)
        BY <1>4, <3>2
      <4>2. QED
        BY <1>2, <2>3, <2>5, <3>2, <4>1
    <3>3. QED
      BY <3>1, <3>2
  <2>6. QED
    BY <2>2, <2>3, <2>4, <2>5
<1>6. CASE ~o.undo
  <2>1. NoteUndo(x, g, o) = [ok |-> TRUE, u |-> x.u]
    BY <1>6 DEF NoteUndo
  <2>2. \A s \in Sem : Taken(ops, k + 1, s) = Taken(ops, k, s)
    BY <1>4, <1>6
  <2>3. QED
    BY <1>2, <2>1, <2>2
<1>7. QED
  BY <1>5, <1>6

(* One operation more is done. *)
Turned(U, ops, ncnt, zcnt, k, o, x, z) ==
  /\ z \in State /\ z.end = Unended /\ z.done = k + 1
  /\ z.val = [x.val EXCEPT ![o.num] = x.val[o.num] + o.op]
  /\ x.val[o.num] + o.op \in 0..SEMVMX /\ (o.op = 0 => x.val[o.num] = 0)
  /\ \A s \in Sem : AdjOf(z.u, s) = AdjOf(U, s) - Taken(ops, k + 1, s)
  /\ x.wakes \subseteq z.wakes
  /\ o.op > 0 /\ ncnt[o.num] > 0 => <<"semncnt", o.num>> \in z.wakes
  /\ o.op < 0 /\ z.val[o.num] = 0 /\ zcnt[o.num] > 0 => <<"semzcnt", o.num>> \in z.wakes

LEMMA Advances ==
  ASSUME Parameters, NEW V, NEW U, NEW ops \in Seq(sembuf), NEW g, NEW ncnt, NEW zcnt,
         Asks(V, U, ops, g, ncnt, zcnt), NEW k, NEW o, Operation(ops, k, o),
         NEW x, Running(V, U, ops, ncnt, zcnt, k, x),
         NEW z, Turned(U, ops, ncnt, zcnt, k, o, x, z)
  PROVE  Running(V, U, ops, ncnt, zcnt, k + 1, z)
<1>0. /\ z \in State /\ z.end = Unended /\ z.done = k + 1
      /\ z.val = [x.val EXCEPT ![o.num] = x.val[o.num] + o.op]
      /\ x.val[o.num] + o.op \in 0..SEMVMX /\ (o.op = 0 => x.val[o.num] = 0)
      /\ \A s \in Sem : AdjOf(z.u, s) = AdjOf(U, s) - Taken(ops, k + 1, s)
      /\ x.wakes \subseteq z.wakes
      /\ o.op > 0 /\ ncnt[o.num] > 0 => <<"semncnt", o.num>> \in z.wakes
      /\ o.op < 0 /\ z.val[o.num] = 0 /\ zcnt[o.num] > 0 => <<"semzcnt", o.num>> \in z.wakes
  BY DEF Turned
<1>1. /\ o.num \in Sem /\ o.op \in Small /\ o.op \in Int /\ o = ops[k + 1] /\ (k + 1) - 1 = k
      /\ k \in Nat
  BY DEF Operation
<1>2. /\ x.val \in [Sem -> Int]
      /\ \A s \in Sem : x.val[s] = V[s] + Added(ops, k, s) /\ x.val[s] \in 0..SEMVMX
      /\ \A j \in 1..k : Possible(V, ops, j)
      /\ Noted(V, ncnt, zcnt, x)
  BY DEF Running, State
<1>3. V \in [Sem -> 0..SEMVMX]
  BY DEF Asks
<1>4. \A s \in Sem : z.val[s] = IF s = o.num THEN x.val[s] + o.op ELSE x.val[s]
  BY <1>0, <1>1, <1>2
<1>5. ASSUME NEW s \in Sem PROVE z.val[s] = V[s] + Added(ops, k + 1, s) /\ z.val[s] \in 0..SEMVMX
  <2>1. /\ Added(ops, k + 1, s) = Added(ops, k, s) + (IF o.num = s THEN o.op ELSE 0)
        /\ Added(ops, k, s) \in Int
    BY OperationAdds
  <2>2. V[s] \in Int
    BY <1>3, Numbers
  <2>3. z.val[s] = V[s] + Added(ops, k + 1, s)
    BY <1>1, <1>2, <1>4, <2>1, <2>2
  <2>4. z.val[s] \in 0..SEMVMX
    BY <1>0, <1>1, <1>2, <1>4
  <2>5. QED
    BY <2>3, <2>4
<1>6. Possible(V, ops, k + 1)
  <2>1. x.val[o.num] = V[o.num] + Added(ops, k, o.num)
    BY <1>1, <1>2
  <2>2. QED
    BY <1>0, <1>1, <2>1 DEF Possible
<1>7. \A j \in 1..(k + 1) : Possible(V, ops, j)
  <2>1. \A j \in 1..(k + 1) : j \in 1..k \/ j = k + 1
    BY <1>1
  <2>2. QED
    BY <1>2, <1>6, <2>1
<1>8. Noted(V, ncnt, zcnt, z)
  <2> SUFFICES ASSUME NEW s \in Sem
               PROVE  /\ z.val[s] > V[s] /\ ncnt[s] > 0 => <<"semncnt", s>> \in z.wakes
                      /\ z.val[s] = 0 /\ V[s] # 0 /\ zcnt[s] > 0 => <<"semzcnt", s>> \in z.wakes
    BY DEF Noted
  <2>1. /\ x.val[s] > V[s] /\ ncnt[s] > 0 => <<"semncnt", s>> \in z.wakes
        /\ x.val[s] = 0 /\ V[s] # 0 /\ zcnt[s] > 0 => <<"semzcnt", s>> \in z.wakes
    BY <1>0, <1>2 DEF Noted
  <2>2. CASE s # o.num
    BY <1>4, <2>1, <2>2
  <2>3. CASE s = o.num
    <3>1. z.val[s] = x.val[s] + o.op /\ x.val[s] \in 0..SEMVMX /\ V[s] \in 0..SEMVMX
      BY <1>2, <1>3, <1>4, <2>3
    <3>2. CASE o.op = 0
      BY <1>0, <1>1, <2>1, <3>1, <3>2, Numbers
    <3>3. CASE o.op > 0
      <4>1. z.val[s] # 0
        BY <1>1, <3>1, <3>3, Numbers
      <4>2. QED
        BY <1>0, <2>3, <3>3, <4>1
    <3>4. CASE o.op < 0
      <4>1. z.val[s] > V[s] => x.val[s] > V[s]
        BY <1>1, <3>1, <3>4, Numbers
      <4>2. QED
        BY <1>0, <2>1, <2>3, <3>4, <4>1
    <3>5. QED
      BY <1>1, <3>2, <3>3, <3>4
  <2>4. QED
    BY <2>2, <2>3
<1>9. QED
  BY <1>0, <1>5, <1>7, <1>8 DEF Running

LEMMA WaitEnds ==
  ASSUME Parameters, NEW V, NEW U, NEW ops \in Seq(sembuf), NEW g, NEW ncnt, NEW zcnt,
         Asks(V, U, ops, g, ncnt, zcnt), NEW k, NEW o, Operation(ops, k, o),
         NEW x, Running(V, U, ops, ncnt, zcnt, k, x),
         NEW kind \in {"semncnt", "semzcnt"}, Stuck(V, ops, k + 1, kind)
  PROVE  Ended(V, U, ops, Wait(x, ops, g, o, kind))
<1>1. k \in 0..(Len(ops) - 1)
  BY DEF Operation
<1>2. PICK how : how = IF o.nowait THEN "error" ELSE kind
  OBVIOUS
<1>3. how \in Ends /\ how # Unended /\ (how # "error" => Stuck(V, ops, k + 1, how))
  BY <1>2, EndsDiffer
<1>4. Ended(V, U, ops, Fail(x, ops, g, how))
  BY <1>1, <1>3, RunningFails
<1>5. QED
  BY <1>2, <1>4 DEF Wait

LEMMA DecrementRight ==
  ASSUME Parameters, NEW V, NEW U, NEW ops \in Seq(sembuf), NEW g, NEW ncnt, NEW zcnt,
         Asks(V, U, ops, g, ncnt, zcnt), NEW k, NEW o, Operation(ops, k, o), o.op < 0,
         NEW x, Running(V, U, ops, ncnt, zcnt, k, x)
  PROVE  \/ Running(V, U, ops, ncnt, zcnt, k + 1, Decrement(x, ops, g, o, zcnt))
         \/ Ended(V, U, ops, Decrement(x, ops, g, o, zcnt))
<1>1. /\ k \in 0..(Len(ops) - 1) /\ o.num \in Sem /\ o.op \in Int /\ o = ops[k + 1]
      /\ (k + 1) - 1 = k /\ k \in Nat /\ k + 1 \in 1..Len(ops) /\ o.op \in Small
  BY DEF Operation
<1>2. /\ x \in State /\ x.end = Unended /\ x.done = k
      /\ x.val \in [Sem -> Int] /\ x.wakes \in SUBSET Event
      /\ x.val[o.num] = V[o.num] + Added(ops, k, o.num) /\ x.val[o.num] \in 0..SEMVMX
      /\ \A j \in 1..k : Possible(V, ops, j)
  BY <1>1 DEF Running, State
<1>3. CASE x.val[o.num] + o.op < 0
  <2>1. Stuck(V, ops, k + 1, "semncnt")
    BY <1>1, <1>2, <1>3 DEF Stuck
  <2>2. Decrement(x, ops, g, o, zcnt) = Wait(x, ops, g, o, "semncnt")
    BY <1>3 DEF Decrement
  <2>3. QED
    BY <2>1, <2>2, WaitEnds
<1>4. CASE ~(x.val[o.num] + o.op < 0)
  <2> DEFINE w == IF x.val[o.num] + o.op = 0 THEN Wakes("semzcnt", zcnt, o.num) ELSE {}
             z == [x EXCEPT !.val = [x.val EXCEPT ![o.num] = x.val[o.num] + o.op],
                            !.wakes = x.wakes \cup w,
                            !.u = NoteUndo(x, g, o).u, !.done = k + 1]
  <2>1. x.val[o.num] + o.op \in 0..SEMVMX
    BY <1>1, <1>2, <1>4, Numbers
  <2>2. AdjOf(U, o.num) - Taken(ops, k + 1, o.num) \in Small
    <3>1. PICK j \in 1..Len(ops) : j = k + 1
      BY <1>1
    <3>2. Possible(V, ops, j) \/ TRUE
      OBVIOUS
    <3>3. \A i \in 1..j : ops[i].op \in Small
      <4>1. \A i \in 1..j : i \in 1..k \/ i = k + 1
        BY <1>1, <3>1
      <4>2. QED
        BY <1>1, <1>2, <4>1 DEF Possible
    <3>4. V[o.num] \in 0..SEMVMX /\ V[o.num] + Added(ops, j, o.num) >= 0
      <4>1. Added(ops, k + 1, o.num) = Added(ops, k, o.num) + o.op /\ Added(ops, k, o.num) \in Int
        BY OperationAdds
      <4>2. V[o.num] \in 0..SEMVMX /\ V[o.num] \in Int
        BY <1>1, Numbers DEF Asks
      <4>3. V[o.num] + Added(ops, k + 1, o.num) = x.val[o.num] + o.op
        BY <1>1, <1>2, <4>1, <4>2
      <4>4. QED
        BY <2>1, <3>1, <4>2, <4>3, Numbers
    <3>5. U \in Adjusts /\ Orderly(ops) /\ Fit(U, ops, o.num)
      BY <1>1 DEF Asks
    <3>6. ops[j].num = o.num /\ ops[j].op < 0
      BY <1>1, <3>1
    <3>7. AdjOf(U, o.num) - Taken(ops, j, o.num) \in Small
      BY <1>1, <3>3, <3>4, <3>5, <3>6, DecrementFits
    <3>8. QED
      BY <3>1, <3>7
  <2>3. /\ NoteUndo(x, g, o).ok /\ NoteUndo(x, g, o).u \in Adjusts
        /\ \A s \in Sem : AdjOf(NoteUndo(x, g, o).u, s) = AdjOf(U, s) - Taken(ops, k + 1, s)
    BY <2>2, NoteUndoIs
  <2>4. Decrement(x, ops, g, o, zcnt) = z
    BY <1>2, <1>4, <2>3 DEF Decrement
  <2>5. w \in SUBSET Event
    BY <1>1 DEF Wakes, Event
  <2> HIDE DEF w
  <2>6. /\ z \in State /\ z.end = Unended /\ z.done = k + 1
        /\ z.val = [x.val EXCEPT ![o.num] = x.val[o.num] + o.op]
        /\ z.u = NoteUndo(x, g, o).u /\ z.wakes = x.wakes \cup w
    <3>1. PICK y : y = [x.val EXCEPT ![o.num] = x.val[o.num] + o.op]
      OBVIOUS
    <3>2. PICK e : e = x.wakes \cup w
      OBVIOUS
    <3>3. PICK u \in Adjusts : u = NoteUndo(x, g, o).u
      BY <2>3
    <3>4. y \in [Sem -> Int] /\ e \in SUBSET Event /\ k + 1 \in Nat
      BY <1>1, <1>2, <2>1, <2>5, <3>1, <3>2, Numbers
    <3>5. x \in State /\ x.end = Unended
      BY <1>2
    <3>6. z = [x EXCEPT !.val = y, !.wakes = e, !.u = u, !.done = k + 1]
      BY <3>1, <3>2, <3>3
    <3> HIDE DEF z
    <3>7. QED
      BY <3>1, <3>2, <3>3, <3>4, <3>5, <3>6 DEF State
  <2> HIDE DEF z
  <2>7. z.val[o.num] = x.val[o.num] + o.op
    BY <1>1, <1>2, <2>6
  <2>8. z.val[o.num] = 0 /\ zcnt[o.num] > 0 => <<"semzcnt", o.num>> \in w
    BY <2>7 DEF Wakes, w
  <2>9. Turned(U, ops, ncnt, zcnt, k, o, x, z)
    BY <1>1, <2>1, <2>3, <2>6, <2>8 DEF Turned
  <2>10. Running(V, U, ops, ncnt, zcnt, k + 1, z)
    BY <2>9, Advances
  <2>11. QED
    BY <2>4, <2>10
<1>5. QED
  BY <1>3, <1>4

LEMMA ZeroRight ==
  ASSUME Parameters, NEW V, NEW U, NEW ops \in Seq(sembuf), NEW g, NEW ncnt, NEW zcnt,
         Asks(V, U, ops, g, ncnt, zcnt), NEW k, NEW o, Operation(ops, k, o), o.op = 0,
         NEW x, Running(V, U, ops, ncnt, zcnt, k, x)
  PROVE  /\ x.val[o.num] = 0 => Running(V, U, ops, ncnt, zcnt, k + 1, [x EXCEPT !.done = @ + 1])
         /\ x.val[o.num] # 0 => Ended(V, U, ops, Wait(x, ops, g, o, "semzcnt"))
<1>1. /\ k \in 0..(Len(ops) - 1) /\ o.num \in Sem /\ o.op \in Int /\ o = ops[k + 1]
      /\ (k + 1) - 1 = k /\ k \in Nat /\ k + 1 \in 1..Len(ops) /\ o.op \in Small
  BY DEF Operation
<1>2. /\ x \in State /\ x.end = Unended /\ x.done = k /\ x.val \in [Sem -> Int]
      /\ x.val[o.num] = V[o.num] + Added(ops, k, o.num) /\ x.val[o.num] \in 0..SEMVMX
      /\ \A s \in Sem : AdjOf(x.u, s) = AdjOf(U, s) - Taken(ops, k, s)
  BY <1>1 DEF Running, State
<1>3. CASE x.val[o.num] # 0
  <2>1. Stuck(V, ops, k + 1, "semzcnt")
    BY <1>1, <1>2, <1>3 DEF Stuck
  <2>2. QED
    BY <1>3, <2>1, WaitEnds
<1>4. CASE x.val[o.num] = 0
  <2> DEFINE z == [x EXCEPT !.done = @ + 1]
  <2>1. /\ z \in State /\ z.end = Unended /\ z.done = k + 1 /\ z.val = x.val /\ z.u = x.u
        /\ z.wakes = x.wakes
    <3>1. z = [x EXCEPT !.done = k + 1] /\ k + 1 \in Nat
      BY <1>1, <1>2
    <3>2. QED
      BY <1>2, <3>1 DEF State
  <2> HIDE DEF z
  <2>2. x.val[o.num] + o.op = x.val[o.num]
    BY <1>1, <1>2, Numbers
  <2>3. x.val = [x.val EXCEPT ![o.num] = x.val[o.num] + o.op]
    BY <1>2, <2>2
  <2>4. \A s \in Sem : AdjOf(z.u, s) = AdjOf(U, s) - Taken(ops, k + 1, s)
    <3>1. \A s \in Sem : Taken(ops, k + 1, s) = Taken(ops, k, s)
      <4> SUFFICES ASSUME NEW s \in Sem PROVE Taken(ops, k + 1, s) = Taken(ops, k, s)
        OBVIOUS
      <4>1. /\ Taken(ops, k + 1, s) = Taken(ops, k, s) + (IF o.num = s /\ o.undo THEN o.op ELSE 0)
            /\ Taken(ops, k, s) \in Int
        BY OperationAdds
      <4>2. QED
        BY <4>1
    <3>2. QED
      BY <1>2, <2>1, <3>1
  <2>5. ~(o.op > 0) /\ ~(o.op < 0)
    OBVIOUS
  <2>6. Running(V, U, ops, ncnt, zcnt, k + 1, z)
    <3>1. Turned(U, ops, ncnt, zcnt, k, o, x, z)
      BY <1>2, <1>4, <2>1, <2>2, <2>3, <2>4, <2>5 DEF Turned
    <3>2. QED
      BY <3>1, Advances
  <2>7. QED
    BY <1>4, <2>6 DEF z
<1>5. QED
  BY <1>3, <1>4

(* The adjust value is noted first; the way back from a value that would be too great
   takes all operations back, and then the note. *)
LEMMA OverflowEnds ==
  ASSUME Parameters, NEW V, NEW U, NEW ops \in Seq(sembuf), NEW g, NEW ncnt, NEW zcnt,
         Asks(V, U, ops, g, ncnt, zcnt), NEW k, NEW o, Operation(ops, k, o),
         NEW x, Running(V, U, ops, ncnt, zcnt, k, x),
         NEW u \in Adjusts, \A s \in Sem : AdjOf(u, s) = AdjOf(U, s) - Taken(ops, k + 1, s),
         NEW y, y = Fail([x EXCEPT !.u = u], ops, g, "error"),
         NEW z, z = IF o.undo THEN [y EXCEPT !.u = SubAdj(y.u, g, o.num, -o.op).u] ELSE y
  PROVE  Ended(V, U, ops, z)
<1>1. /\ k \in 0..(Len(ops) - 1) /\ o.num \in Sem /\ o.op \in Int /\ o = ops[k + 1]
      /\ (k + 1) - 1 = k /\ k \in Nat /\ k + 1 \in 1..Len(ops) /\ o.op \in Small
      /\ o.undo \in BOOLEAN
  BY DEF Operation
<1>2. /\ x \in State /\ x.end = Unended /\ x.done = k
      /\ \A s \in Sem : x.val[s] = V[s] + Added(ops, k, s)
      /\ \A j \in 1..k : Possible(V, ops, j)
  BY DEF Running
<1>3. /\ U \in Adjusts /\ Orderly(ops) /\ \A s \in Sem : Fit(U, ops, s)
      /\ g \in [Sem -> {0}]
  BY DEF Asks
<1>4. \A s \in Sem :
        /\ Taken(ops, k + 1, s) = Taken(ops, k, s) + (IF o.num = s /\ o.undo THEN o.op ELSE 0)
        /\ Taken(ops, k, s) \in Int /\ Taken(ops, k + 1, s) \in Int /\ AdjOf(U, s) \in Int
        /\ AdjOf(U, s) \in Small
  BY <1>3, OperationAdds, AdjSmall
<1>5. PICK x1 : x1 = [x EXCEPT !.u = u]
  OBVIOUS
<1>6. x1 \in State /\ x1.done = k /\ x1.val = x.val /\ x1.u = u
  BY <1>2, <1>5 DEF State
<1>7. Failing(V, U, ops, k, k + 1, x1)
  <2>1. PICK j \in 1..Len(ops) : j = k + 1
    BY <1>1
  <2>2. \A s \in Sem : AdjOf(U, s) - Taken(ops, j, s) \in Small
    <3> SUFFICES ASSUME NEW s \in Sem PROVE AdjOf(U, s) - Taken(ops, j, s) \in Small
      OBVIOUS
    <3>1. AdjOf(u, s) \in Small
      BY AdjSmall
    <3>2. QED
      BY <2>1, <3>1
  <2>3. \A i \in 1..j : ops[i].op \in Small
    <3>1. \A i \in 1..j : i \in 1..k \/ i = k + 1
      BY <1>1, <2>1
    <3>2. QED
      BY <1>1, <1>2, <3>1 DEF Possible
  <2>4. \A s \in Sem : Keeps(U, ops, s, j)
    BY <1>3, <2>2, <2>3, KeepsAll
  <2>5. \A s \in Sem : Keeps(U, ops, s, k + 1)
    BY <2>1, <2>4
  <2>6. k + 1 \in k..Len(ops)
    BY <1>1
  <2>7. QED
    BY <1>1, <1>2, <1>6, <2>5, <2>6 DEF Failing
<1>8. Failed(V, U, ops, k, k + 1, "error", y)
  BY <1>5, <1>7, EndsDiffer, FailRight
<1>9. /\ y \in State /\ y.end = "error" /\ y.done = k /\ y.val = V /\ y.u \in Adjusts
      /\ \A s \in Sem : AdjOf(y.u, s) = AdjOf(U, s) - (Taken(ops, k + 1, s) - Taken(ops, k, s))
  BY <1>8 DEF Failed, State
<1>10. CASE o.undo
  <2>1. PICK v \in Small : v = -o.op /\ o.op = 0 - v
    BY <1>1, SmallOpposite
  <2>2. v \in Int /\ o.op = 0 - v
    BY <1>1, <2>1 DEF Small
  <2>3. AdjOf(y.u, o.num) - v = AdjOf(U, o.num)
    <3>1. AdjOf(y.u, o.num) = AdjOf(U, o.num) - o.op
      <4>1. AdjOf(y.u, o.num) = AdjOf(U, o.num) - (Taken(ops, k + 1, o.num) - Taken(ops, k, o.num))
        BY <1>1, <1>9
      <4>2. Taken(ops, k + 1, o.num) = Taken(ops, k, o.num) + o.op
        BY <1>1, <1>4, <1>10
      <4>3. Taken(ops, k, o.num) \in Int
        BY <1>1, <1>4
      <4>4. QED
        BY <1>1, <1>4, <4>1, <4>2, <4>3
    <3>2. QED
      BY <1>1, <1>4, <2>2, <3>1
  <2>4. PICK a : a = SubAdj(y.u, g, o.num, v)
    OBVIOUS
  <2>5. AdjOf(y.u, o.num) - v \in Small
    BY <1>1, <1>4, <2>3
  <2>6. /\ a.u \in Adjusts
        /\ \A s \in Sem : AdjOf(a.u, s) = IF s = o.num THEN AdjOf(y.u, o.num) - v ELSE AdjOf(y.u, s)
    <3>1. PICK w \in Adjusts : w = y.u
      BY <1>9
    <3>2. a = SubAdj(w, g, o.num, v) /\ AdjOf(w, o.num) - v \in Small
      BY <2>4, <2>5, <3>1
    <3>3. /\ a.u \in Adjusts
          /\ \A s \in Sem : AdjOf(a.u, s) = IF s = o.num THEN AdjOf(w, o.num) - v ELSE AdjOf(w, s)
      BY <1>1, <1>3, <3>2, SubAdjIs
    <3>4. QED
      BY <3>1, <3>3
  <2>7. z = [y EXCEPT !.u = a.u]
    BY <1>10, <2>1, <2>4
  <2>8. z \in State /\ z.end = "error" /\ z.done = k /\ z.val = V /\ z.u = a.u
    BY <1>9, <2>6, <2>7 DEF State
  <2>9. \A s \in Sem : AdjOf(z.u, s) = AdjOf(U, s)
    <3> SUFFICES ASSUME NEW s \in Sem PROVE AdjOf(z.u, s) = AdjOf(U, s)
      OBVIOUS
    <3>1. CASE s = o.num
      BY <2>3, <2>6, <2>8, <3>1
    <3>2. CASE s # o.num
      <4>1. Taken(ops, k + 1, s) = Taken(ops, k, s)
        BY <1>4, <3>2
      <4>2. AdjOf(y.u, s) = AdjOf(U, s)
        BY <1>4, <1>9, <4>1
      <4>3. QED
        BY <2>6, <2>8, <3>2, <4>2
    <3>3. QED
      BY <3>1, <3>2
  <2>10. QED
    BY <1>1, <2>8, <2>9, EndsDiffer DEF Ended
<1>11. CASE ~o.undo
  <2>1. z = y
    BY <1>11
  <2>2. \A s \in Sem : AdjOf(y.u, s) = AdjOf(U, s)
    <3> SUFFICES ASSUME NEW s \in Sem PROVE AdjOf(y.u, s) = AdjOf(U, s)
      OBVIOUS
    <3>1. Taken(ops, k + 1, s) = Taken(ops, k, s)
      BY <1>4, <1>11
    <3>2. QED
      BY <1>4, <1>9, <3>1
  <2>3. QED
    BY <1>1, <1>9, <2>1, <2>2, EndsDiffer DEF Ended
<1>12. QED
  BY <1>1, <1>10, <1>11

LEMMA IncrementRight ==
  ASSUME Parameters, NEW V, NEW U, NEW ops \in Seq(sembuf), NEW g, NEW ncnt, NEW zcnt,
         Asks(V, U, ops, g, ncnt, zcnt), NEW k, NEW o, Operation(ops, k, o), o.op > 0,
         NEW x, Running(V, U, ops, ncnt, zcnt, k, x)
  PROVE  \/ Running(V, U, ops, ncnt, zcnt, k + 1, Increment(x, ops, g, o, ncnt))
         \/ Ended(V, U, ops, Increment(x, ops, g, o, ncnt))
<1>1. /\ k \in 0..(Len(ops) - 1) /\ o.num \in Sem /\ o.op \in Int /\ o = ops[k + 1]
      /\ (k + 1) - 1 = k /\ k \in Nat /\ k + 1 \in 1..Len(ops) /\ o.op \in Small
  BY DEF Operation
<1>2. /\ x \in State /\ x.end = Unended /\ x.done = k
      /\ x.val \in [Sem -> Int] /\ x.wakes \in SUBSET Event
      /\ x.val[o.num] \in 0..SEMVMX
  BY <1>1 DEF Running, State
<1>3. PICK a : a = NoteUndo(x, g, o)
  OBVIOUS
<1>4. a.u \in Adjusts /\ (a.ok => \A s \in Sem : AdjOf(a.u, s) = AdjOf(U, s) - Taken(ops, k + 1, s))
  BY <1>3, NoteUndoIs
<1>5. CASE ~a.ok
  <2>1. Increment(x, ops, g, o, ncnt) = Fail(x, ops, g, "error")
    BY <1>3, <1>5 DEF Increment
  <2>2. Ended(V, U, ops, Fail(x, ops, g, "error"))
    BY <1>1, EndsDiffer, RunningFails
  <2>3. QED
    BY <2>1, <2>2
<1>6. CASE a.ok /\ x.val[o.num] + o.op > SEMVMX
  <2>1. PICK y : y = Fail([x EXCEPT !.u = a.u], ops, g, "error")
    OBVIOUS
  <2>2. Increment(x, ops, g, o, ncnt)
          = IF o.undo THEN [y EXCEPT !.u = SubAdj(y.u, g, o.num, -o.op).u] ELSE y
    BY <1>3, <1>6, <2>1 DEF Increment
  <2>3. PICK u \in Adjusts : u = a.u
    BY <1>4
  <2>4. y = Fail([x EXCEPT !.u = u], ops, g, "error")
    BY <2>1, <2>3
  <2>5. \A s \in Sem : AdjOf(u, s) = AdjOf(U, s) - Taken(ops, k + 1, s)
    BY <1>4, <1>6, <2>3
  <2>6. Ended(V, U, ops, Increment(x, ops, g, o, ncnt))
    BY <2>2, <2>4, <2>5, OverflowEnds
  <2>7. QED
    BY <2>6
<1>7. CASE a.ok /\ ~(x.val[o.num] + o.op > SEMVMX)
  <2>1. PICK y : y = [x.val EXCEPT ![o.num] = x.val[o.num] + o.op]
    OBVIOUS
  <2>2. PICK e : e = x.wakes \cup Wakes("semncnt", ncnt, o.num)
    OBVIOUS
  <2>3. PICK u \in Adjusts : u = a.u
    BY <1>4
  <2> DEFINE z == [x EXCEPT !.val = y, !.u = u, !.done = k + 1, !.wakes = e]
  <2>4. Increment(x, ops, g, o, ncnt) = z
    BY <1>2, <1>3, <1>7, <2>1, <2>2, <2>3 DEF Increment
  <2>5. x.val[o.num] + o.op \in 0..SEMVMX
    BY <1>1, <1>2, <1>7, Numbers
  <2>6. y \in [Sem -> Int] /\ y[o.num] = x.val[o.num] + o.op
    BY <1>1, <1>2, <2>1, <2>5, Numbers
  <2>7. e \in SUBSET Event /\ x.wakes \subseteq e
    BY <1>1, <1>2, <2>2 DEF Wakes, Event
  <2>8. ncnt[o.num] > 0 => <<"semncnt", o.num>> \in e
    BY <2>2 DEF Wakes
  <2>9. k + 1 \in Nat
    BY <1>1
  <2>10. /\ z \in State /\ z.end = Unended /\ z.done = k + 1 /\ z.val = y /\ z.u = u /\ z.wakes = e
    BY <1>2, <2>6, <2>7, <2>9 DEF State
  <2> HIDE DEF z
  <2>11. \A s \in Sem : AdjOf(z.u, s) = AdjOf(U, s) - Taken(ops, k + 1, s)
    BY <1>4, <1>7, <2>3, <2>10
  <2>12. ~(o.op = 0) /\ ~(o.op < 0)
    BY <1>1
  <2>13. Turned(U, ops, ncnt, zcnt, k, o, x, z)
    BY <2>1, <2>5, <2>7, <2>8, <2>10, <2>11, <2>12 DEF Turned
  <2>14. Running(V, U, ops, ncnt, zcnt, k + 1, z)
    BY <2>13, Advances
  <2>15. QED
    BY <2>4, <2>14
<1>8. QED
  BY <1>5, <1>6, <1>7

LEMMA OperateRight ==
  ASSUME Parameters, NEW V, NEW U, NEW ops \in Seq(sembuf), NEW g, NEW ncnt, NEW zcnt,
         Asks(V, U, ops, g, ncnt, zcnt), NEW k \in 0..(Len(ops) - 1),
         NEW x, Running(V, U, ops, ncnt, zcnt, k, x)
  PROVE  \/ Running(V, U, ops, ncnt, zcnt, k + 1, Operate(x, ops, g, ncnt, zcnt))
         \/ Ended(V, U, ops, Operate(x, ops, g, ncnt, zcnt))
<1>1. PICK o : o = ops[k + 1]
  OBVIOUS
<1>2. k + 1 \in 1..Len(ops) /\ o.op \in Int /\ x.done = k
  <2>1. k + 1 \in 1..Len(ops)
    OBVIOUS
  <2>2. QED
    BY <1>1, <2>1, OpIs DEF Running
<1> DEFINE zero == IF x.val[o.num] = 0 THEN [x EXCEPT !.done = @ + 1]
                   ELSE Wait(x, ops, g, o, "semzcnt")
           fail == Fail(x, ops, g, "error")
           less == Decrement(x, ops, g, o, zcnt)
           more == Increment(x, ops, g, o, ncnt)
<1>3. Operate(x, ops, g, ncnt, zcnt) =
        CASE o.op \notin Small -> fail
          [] o.op \in Small /\ o.num \notin Sem -> fail
          [] o.op \in (-SEMVMX)..(-1) /\ o.num \in Sem -> less
          [] o.op = 0 /\ o.num \in Sem -> zero
          [] o.op \in 1..SEMVMX /\ o.num \in Sem -> more
  BY <1>1, <1>2 DEF Operate, Small
<1> HIDE DEF zero, fail, less, more
<1>4. CASE o.op \notin Small \/ o.num \notin Sem
  <2>1. o.op \notin Small => ~(o.op \in (-SEMVMX)..(-1) \/ o.op = 0 \/ o.op \in 1..SEMVMX)
    BY <1>2, Numbers DEF Small
  <2>2. Operate(x, ops, g, ncnt, zcnt) = fail
    BY <1>3, <1>4, <2>1
  <2>3. Ended(V, U, ops, fail)
    BY EndsDiffer, RunningFails DEF fail
  <2>4. QED
    BY <2>2, <2>3
<1>5. CASE o.op \in Small /\ o.num \in Sem
  <2>1. Operation(ops, k, o)
    BY <1>1, <1>5, OperationIs
  <2>2. CASE o.op < 0
    <3>1. o.op \in (-SEMVMX)..(-1) /\ o.op # 0 /\ o.op \notin 1..SEMVMX
      BY <1>2, <1>5, <2>2, Numbers DEF Small
    <3>2. Operate(x, ops, g, ncnt, zcnt) = less
      BY <1>3, <1>5, <3>1
    <3>3. QED
      BY <2>1, <2>2, <3>2, DecrementRight DEF less
  <2>3. CASE o.op = 0
    <3>1. o.op \notin (-SEMVMX)..(-1) /\ o.op \notin 1..SEMVMX
      BY <2>3, Numbers
    <3>2. Operate(x, ops, g, ncnt, zcnt) = zero
      BY <1>3, <1>5, <2>3, <3>1
    <3>3. CASE x.val[o.num] = 0
      <4>1. Running(V, U, ops, ncnt, zcnt, k + 1, [x EXCEPT !.done = @ + 1])
        BY <2>1, <2>3, <3>3, ZeroRight
      <4>2. QED
        BY <3>2, <3>3, <4>1 DEF zero
    <3>4. CASE x.val[o.num] # 0
      <4>1. Ended(V, U, ops, Wait(x, ops, g, o, "semzcnt"))
        BY <2>1, <2>3, <3>4, ZeroRight
      <4>2. QED
        BY <3>2, <3>4, <4>1 DEF zero
    <3>5. QED
      BY <3>3, <3>4
  <2>4. CASE o.op > 0
    <3>1. o.op \in 1..SEMVMX /\ o.op # 0 /\ o.op \notin (-SEMVMX)..(-1)
      BY <1>2, <1>5, <2>4, Numbers DEF Small
    <3>2. Operate(x, ops, g, ncnt, zcnt) = more
      BY <1>3, <1>5, <3>1
    <3>3. QED
      BY <2>1, <2>4, <3>2, IncrementRight DEF more
  <2>5. QED
    BY <1>2, <2>2, <2>3, <2>4
<1>6. QED
  BY <1>4, <1>5

LEMMA BeginRuns ==
  ASSUME Parameters, NEW p \in Proc, semval \in [Sem -> 0..SEMVMX], semu[p] \in Adjusts,
         NEW ops \in Seq(sembuf), NEW ncnt, NEW zcnt
  PROVE  Running(semval, semu[p], ops, ncnt, zcnt, 0, Begin(p))
<1>1. PICK x : x = Begin(p)
  OBVIOUS
<1>2. x.val = semval /\ x.u = semu[p] /\ x.wakes = {} /\ x.done = 0 /\ x.end = Unended
  BY <1>1 DEF Begin, Unended
<1>3. x = [val |-> x.val, u |-> x.u, wakes |-> x.wakes, done |-> x.done, end |-> x.end]
  BY <1>1 DEF Begin
<1>4. semval \in [Sem -> Int]
  BY Numbers
<1>5. x \in State
  BY <1>2, <1>3, <1>4, EndsDiffer DEF State
<1>6. \A s \in Sem : x.val[s] = semval[s] + Added(ops, 0, s) /\ x.val[s] \in 0..SEMVMX
  BY <1>2, AddedNone, Numbers
<1>7. \A s \in Sem : AdjOf(x.u, s) = AdjOf(semu[p], s) - Taken(ops, 0, s)
  BY <1>2, AddedNone, AdjSmall
<1>8. Noted(semval, ncnt, zcnt, x)
  <2>1. \A s \in Sem : ~(semval[s] > semval[s])
    BY <1>4
  <2>2. QED
    BY <1>2, <2>1 DEF Noted
<1>9. QED
  BY <1>1, <1>2, <1>5, <1>6, <1>7, <1>8 DEF Running

(* The loop of usemop(): all is done, or all is taken back. *)
LEMMA PassRight ==
  ASSUME Parameters, NEW p \in Proc, NEW ops \in Seq(sembuf), NEW g, NEW ncnt, NEW zcnt,
         Asks(semval, semu[p], ops, g, ncnt, zcnt)
  PROVE  \/ Running(semval, semu[p], ops, ncnt, zcnt, Len(ops), Pass(p, ops, g, ncnt, zcnt))
         \/ Ended(semval, semu[p], ops, Pass(p, ops, g, ncnt, zcnt))
<1>0. PICK n \in Nat : n = Len(ops)
  OBVIOUS
<1>1. PICK t : Passes(p, ops, g, ncnt, zcnt, n, t)
  BY <1>0, PassTurns
<1> DEFINE Good(k, x) == \/ Running(semval, semu[p], ops, ncnt, zcnt, k, x)
                         \/ Ended(semval, semu[p], ops, x)
           S == {k \in Nat : k <= n => Good(k, t[k])}
<1>2. 0 \in S
  <2>1. semval \in [Sem -> 0..SEMVMX] /\ semu[p] \in Adjusts
    BY DEF Asks
  <2>2. Running(semval, semu[p], ops, ncnt, zcnt, 0, Begin(p))
    BY <2>1, BeginRuns
  <2>3. t[0] = Begin(p)
    BY <1>1 DEF Passes
  <2>4. QED
    BY <2>2, <2>3
<1>3. ASSUME NEW k \in Nat, k \in S PROVE k + 1 \in S
  <2>1. SUFFICES ASSUME k + 1 <= n PROVE Good(k + 1, t[k + 1])
    OBVIOUS
  <2>2. k + 1 \in 1..n /\ (k + 1) - 1 = k /\ k \in 0..(Len(ops) - 1) /\ Good(k, t[k])
    BY <1>0, <1>3, <2>1
  <2>3. t[k + 1] = IF t[k].end = Unended THEN Operate(t[k], ops, g, ncnt, zcnt) ELSE t[k]
    <3>1. \A j \in 1..n : t[j] = IF t[j - 1].end = Unended
                                 THEN Operate(t[j - 1], ops, g, ncnt, zcnt) ELSE t[j - 1]
      BY <1>1 DEF Passes, Unended
    <3>2. QED
      BY <2>2, <3>1
  <2>4. CASE Running(semval, semu[p], ops, ncnt, zcnt, k, t[k])
    <3>1. t[k + 1] = Operate(t[k], ops, g, ncnt, zcnt)
      BY <2>3, <2>4 DEF Running
    <3>2. QED
      BY <2>2, <2>4, <3>1, OperateRight
  <2>5. CASE Ended(semval, semu[p], ops, t[k])
    <3>1. t[k + 1] = t[k]
      BY <2>3, <2>5 DEF Ended
    <3>2. QED
      BY <2>5, <3>1
  <2>6. QED
    BY <2>2, <2>4, <2>5
<1>4. Nat \subseteq S
  <2> HIDE DEF S
  <2>1. QED
    BY <1>2, <1>3, Induction
<1>5. Good(n, t[n])
  BY <1>4
<1>6. t[n] = Pass(p, ops, g, ncnt, zcnt)
  BY <1>1 DEF Passes
<1>7. QED
  BY <1>0, <1>5, <1>6

-----------------------------------------------------------------------------
(* The invariant: who waits is counted, asks for what fits, and cannot go on. *)

Asking == \A p \in Proc : \A ops \in Asked[p] : Orderly(ops)

(* No array tests for 0 a semaphore that it has changed before. *)
TestsFirst(ops) ==
  \A i, j \in 1..Len(ops) : i < j /\ ops[j].op = 0 /\ ops[i].num = ops[j].num => ops[i].op = 0

WaitersOn(kind, s) == {p \in Proc : st[p].at # "run" /\ st[p].on = <<kind, s>>}

Calls ==
  \A p \in Proc : st[p].at # "run" =>
    st[p].ops \in Asked[p] /\ \A s \in Sem : Fit(semu[p], st[p].ops, s)

(* Who waits, but for p. *)
CountedBut(p, ncnt, zcnt) ==
  \A s \in Sem : /\ ncnt[s] = Cardinality(WaitersOn("semncnt", s) \ {p})
                 /\ zcnt[s] = Cardinality(WaitersOn("semzcnt", s) \ {p})

Counted ==
  \A s \in Sem : /\ semncnt[s] = Cardinality(WaitersOn("semncnt", s))
                 /\ semzcnt[s] = Cardinality(WaitersOn("semzcnt", s))

Books == TypeOK /\ Calls /\ (alive => Counted)

LEMMA StateIs ==
  ASSUME Parameters, TypeOK
  PROVE  /\ alive \in BOOLEAN /\ semval \in [Sem -> 0..SEMVMX]
         /\ semncnt \in [Sem -> Nat] /\ semzcnt \in [Sem -> Nat]
         /\ semu \in [Proc -> Adjusts]
         /\ \A p \in Proc : st[p].at \in {"run", "asleep", "woken", "signalled"}
         /\ \A p \in Proc : st[p].at = "run" <=> st[p] = NoCall
         /\ \A p \in Proc : st[p].at # "run" => st[p].on \in Event
         /\ DOMAIN st = Proc /\ deferred \subseteq Event /\ overlooked \subseteq Proc
<1>1. semu \in [Proc -> Adjusts]
  BY DEF TypeOK, Adjusts, Small
<1>2. Cardinality(Proc) \in Nat
  BY FS_CardinalityType DEF Parameters
<1>3. semncnt \in [Sem -> Nat] /\ semzcnt \in [Sem -> Nat]
  BY <1>2 DEF TypeOK
<1>4. ASSUME NEW p \in Proc
      PROVE  \/ st[p] = NoCall /\ st[p].at = "run"
             \/ /\ st[p].at \in {"asleep", "woken", "signalled"} /\ st[p].on \in Event
                /\ st[p] # NoCall
  <2>1. \/ st[p] = NoCall
        \/ st[p] \in [at : {"asleep", "woken", "signalled"}, ops : UNION {Asked[x] : x \in Proc},
                      on : Event]
    BY DEF TypeOK
  <2>2. NoCall.at = "run"
    BY DEF NoCall
  <2>3. QED
    BY <2>1, <2>2
<1>5. QED
  BY <1>1, <1>3, <1>4 DEF TypeOK

LEMMA WaitersAre ==
  ASSUME Parameters, NEW kind, NEW s, NEW p
  PROVE  /\ IsFiniteSet(WaitersOn(kind, s)) /\ Cardinality(WaitersOn(kind, s)) \in Nat
         /\ Cardinality(WaitersOn(kind, s)) <= Cardinality(Proc)
         /\ IsFiniteSet(WaitersOn(kind, s) \ {p}) /\ Cardinality(WaitersOn(kind, s) \ {p}) \in Nat
         /\ Cardinality(WaitersOn(kind, s) \ {p}) =
              IF p \in WaitersOn(kind, s) THEN Cardinality(WaitersOn(kind, s)) - 1
                                        ELSE Cardinality(WaitersOn(kind, s))
<1>1. WaitersOn(kind, s) \subseteq Proc /\ IsFiniteSet(Proc)
  BY DEF WaitersOn, Parameters
<1>2. IsFiniteSet(WaitersOn(kind, s)) /\ Cardinality(WaitersOn(kind, s)) <= Cardinality(Proc)
  BY <1>1, FS_Subset
<1>3. IsFiniteSet(WaitersOn(kind, s) \ {p})
  BY <1>2, FS_Subset
<1>4. QED
  BY <1>2, <1>3, FS_CardinalityType, FS_RemoveElement

LEMMA ArrayIs ==
  ASSUME Parameters, Asking, NEW p \in Proc, NEW ops \in Asked[p]
  PROVE  ops \in Seq(sembuf) /\ Orderly(ops) /\ Len(ops) \in Nat /\ Len(ops) > 0
BY DEF Parameters, Asking

(* What a call does: all of its operations or none, and it returns or sleeps. *)
Whole(p, ops, ncnt, zcnt) ==
  /\ st' = [st EXCEPT ![p] = NoCall] /\ semncnt' = ncnt /\ semzcnt' = zcnt
  /\ \A k \in 1..Len(ops) : Possible(semval, ops, k)
  /\ \A s \in Sem : semval'[s] = semval[s] + Added(ops, Len(ops), s)
  /\ \A s \in Sem : AdjOf(semu'[p], s) = AdjOf(semu[p], s) - Taken(ops, Len(ops), s)

Nothing(p, ops, ncnt, zcnt) ==
  /\ semval' = semval /\ \A s \in Sem : AdjOf(semu'[p], s) = AdjOf(semu[p], s)
  /\ st' = [st EXCEPT ![p] = NoCall] /\ semncnt' = ncnt /\ semzcnt' = zcnt

Sleeps(p, ops, ncnt, zcnt, kind, j) ==
  /\ semval' = semval /\ \A s \in Sem : AdjOf(semu'[p], s) = AdjOf(semu[p], s)
  /\ kind \in {"semncnt", "semzcnt"} /\ j \in 1..Len(ops) /\ ops[j].num \in Sem
  /\ st' = [st EXCEPT ![p] = InCall("asleep", ops, <<kind, ops[j].num>>)]
  /\ semncnt' = IF kind = "semncnt" THEN [ncnt EXCEPT ![ops[j].num] = @ + 1] ELSE ncnt
  /\ semzcnt' = IF kind = "semzcnt" THEN [zcnt EXCEPT ![ops[j].num] = @ + 1] ELSE zcnt
  /\ Stuck(semval, ops, j, kind)

Outcome(p, ops, ncnt, zcnt) ==
  /\ semval' \in [Sem -> 0..SEMVMX]
  /\ \E u \in Adjusts : semu' = [semu EXCEPT ![p] = u]
  /\ deferred \subseteq deferred' /\ deferred' \subseteq deferred \cup Event
  /\ \A s \in Sem :
       /\ semval'[s] > semval[s] /\ ncnt[s] > 0 => <<"semncnt", s>> \in deferred'
       /\ semval'[s] = 0 /\ semval[s] # 0 /\ zcnt[s] > 0 => <<"semzcnt", s>> \in deferred'
  /\ UNCHANGED <<alive, overlooked>>
  /\ \/ Whole(p, ops, ncnt, zcnt) \/ Nothing(p, ops, ncnt, zcnt)
     \/ \E kind, j : Sleeps(p, ops, ncnt, zcnt, kind, j)

LEMMA PerformDoes ==
  ASSUME Parameters, Garbage = {0}, NEW p \in Proc, semu \in [Proc -> Adjusts],
         semval \in [Sem -> 0..SEMVMX], NEW ops \in Seq(sembuf), Orderly(ops), Len(ops) > 0,
         \A s \in Sem : Fit(semu[p], ops, s),
         NEW ncnt \in [Sem -> Nat], NEW zcnt \in [Sem -> Nat], Perform(p, ops, ncnt, zcnt)
  PROVE  Outcome(p, ops, ncnt, zcnt)
<1>1. PICK g, x :
        /\ g \in [Sem -> {0}] /\ x = Pass(p, ops, g, ncnt, zcnt)
        /\ semval' = x.val
        /\ semu' = [semu EXCEPT ![p] = x.u]
        /\ deferred' = deferred \cup x.wakes
        /\ st' = [st EXCEPT ![p] = IF x.end \in {Unended, "error"} THEN NoCall
                                   ELSE InCall("asleep", ops, <<x.end, ops[x.done + 1].num>>)]
        /\ semncnt' = IF x.end = "semncnt" THEN [ncnt EXCEPT ![ops[x.done + 1].num] = @ + 1] ELSE ncnt
        /\ semzcnt' = IF x.end = "semzcnt" THEN [zcnt EXCEPT ![ops[x.done + 1].num] = @ + 1] ELSE zcnt
        /\ UNCHANGED <<alive, overlooked>>
  BY DEF Perform, Unended
<1>2. Asks(semval, semu[p], ops, g, ncnt, zcnt)
  BY <1>1 DEF Asks
<1>3. \/ Running(semval, semu[p], ops, ncnt, zcnt, Len(ops), x)
      \/ Ended(semval, semu[p], ops, x)
  BY <1>1, <1>2, PassRight
<1>4. x \in State
  BY <1>3 DEF Running, Ended
<1>5. /\ x.u \in Adjusts /\ x.wakes \subseteq Event /\ x.val \in [Sem -> Int] /\ x.end \in Ends
      /\ semu'[p] = x.u
  BY <1>1, <1>4 DEF State
<1>6. CASE Running(semval, semu[p], ops, ncnt, zcnt, Len(ops), x)
  <2>1. x.end = Unended /\ x.end # "semncnt" /\ x.end # "semzcnt"
    BY <1>6, EndsDiffer DEF Running
  <2>2. semval' \in [Sem -> 0..SEMVMX]
    BY <1>1, <1>5, <1>6 DEF Running
  <2>3. Whole(p, ops, ncnt, zcnt)
    BY <1>1, <1>5, <1>6, <2>1 DEF Running, Whole
  <2>4. \A s \in Sem :
          /\ semval'[s] > semval[s] /\ ncnt[s] > 0 => <<"semncnt", s>> \in deferred'
          /\ semval'[s] = 0 /\ semval[s] # 0 /\ zcnt[s] > 0 => <<"semzcnt", s>> \in deferred'
    BY <1>1, <1>6 DEF Running, Noted
  <2>5. QED
    BY <1>1, <1>5, <2>2, <2>3, <2>4 DEF Outcome
<1>7. CASE Ended(semval, semu[p], ops, x)
  <2>1. semval' = semval /\ \A s \in Sem : AdjOf(semu'[p], s) = AdjOf(semu[p], s)
    BY <1>1, <1>5, <1>7 DEF Ended
  <2>2. \A s \in Sem : ~(semval[s] > semval[s])
    BY Numbers
  <2>3. CASE x.end = "error"
    <3>1. Nothing(p, ops, ncnt, zcnt)
      BY <1>1, <2>1, <2>3 DEF Nothing
    <3>2. QED
      BY <1>1, <1>5, <2>1, <2>2, <3>1 DEF Outcome
  <2>4. CASE x.end # "error"
    <3>1. x.end \in {"semncnt", "semzcnt"} /\ x.end # Unended
      BY <1>5, <1>7, <2>4 DEF Ended, Ends
    <3>2. PICK j \in 1..Len(ops) : j = x.done + 1
      BY <1>7 DEF Ended
    <3>3. Stuck(semval, ops, j, x.end)
      BY <1>7, <2>4, <3>2 DEF Ended
    <3>4. ops[j].num \in Sem
      BY <3>3 DEF Stuck
    <3>5. PICK kind : kind = x.end
      OBVIOUS
    <3>6. Sleeps(p, ops, ncnt, zcnt, kind, j)
      BY <1>1, <2>1, <2>4, <3>1, <3>2, <3>3, <3>4, <3>5 DEF Sleeps
    <3>7. \E k, i : Sleeps(p, ops, ncnt, zcnt, k, i)
      BY <3>6
    <3>8. QED
      BY <1>1, <1>5, <2>1, <2>2, <3>7 DEF Outcome
  <2>5. QED
    BY <2>3, <2>4
<1>8. QED
  BY <1>3, <1>6, <1>7

-----------------------------------------------------------------------------
(* The steps keep the books. *)

LEMMA CountNone ==
  ASSUME Parameters, NEW kind, NEW p \in Proc, DOMAIN st = Proc,
         st' = [st EXCEPT ![p] = st'[p]], NEW s,
         st'[p].at = "run" \/ st'[p].on # <<kind, s>>
  PROVE  WaitersOn(kind, s)' = WaitersOn(kind, s) \ {p}
BY DEF WaitersOn

(* The types of the counters follow from what they count. *)
LEMMA CountersTyped ==
  ASSUME Parameters, NEW cnt, cnt \in [Sem -> Int],
         \A s \in Sem : \E W \in SUBSET Proc : cnt[s] = Cardinality(W)
  PROVE  cnt \in [Sem -> 0..Cardinality(Proc)]
<1>1. IsFiniteSet(Proc) /\ Cardinality(Proc) \in Nat
  BY FS_CardinalityType DEF Parameters
<1>2. ASSUME NEW s \in Sem PROVE cnt[s] \in 0..Cardinality(Proc)
  <2>1. PICK W \in SUBSET Proc : cnt[s] = Cardinality(W)
    OBVIOUS
  <2>2. IsFiniteSet(W) /\ Cardinality(W) <= Cardinality(Proc)
    BY <1>1, FS_Subset
  <2>3. Cardinality(W) \in Nat
    BY <2>2, FS_CardinalityType
  <2>4. QED
    BY <1>1, <2>1, <2>2, <2>3
<1>3. QED
  BY <1>2

LEMMA OutcomeBooks ==
  ASSUME Parameters, Asking, TypeOK, Calls, NEW p \in Proc, NEW ops \in Asked[p],
         \A s \in Sem : Fit(semu[p], ops, s),
         NEW ncnt \in [Sem -> Nat], NEW zcnt \in [Sem -> Nat], CountedBut(p, ncnt, zcnt),
         Outcome(p, ops, ncnt, zcnt)
  PROVE  Books'
<1>1. /\ semu \in [Proc -> Adjusts] /\ DOMAIN st = Proc /\ alive \in BOOLEAN
      /\ deferred \subseteq Event /\ overlooked \subseteq Proc
  BY StateIs
<1>2. PICK u \in Adjusts : semu' = [semu EXCEPT ![p] = u]
  BY DEF Outcome
<1>3. /\ semval' \in [Sem -> 0..SEMVMX] /\ semu' \in [Proc -> Adjusts]
      /\ deferred' \subseteq Event /\ overlooked' \subseteq Proc /\ alive' = alive
  BY <1>1, <1>2 DEF Outcome
<1>4. CASE st' = [st EXCEPT ![p] = NoCall] /\ semncnt' = ncnt /\ semzcnt' = zcnt
  <2>1. st'[p] = NoCall /\ st'[p].at = "run"
    BY <1>1, <1>4 DEF NoCall
  <2>2. Counted'
    <3>1. \A kind, s : WaitersOn(kind, s)' = WaitersOn(kind, s) \ {p}
      BY <1>1, <1>4, <2>1, CountNone
    <3>2. QED
      BY <1>4, <3>1 DEF Counted, CountedBut
  <2>3. /\ semncnt' \in [Sem -> 0..Cardinality(Proc)]
        /\ semzcnt' \in [Sem -> 0..Cardinality(Proc)]
    <3>1. \A kind, s : WaitersOn(kind, s) \ {p} \in SUBSET Proc
      BY DEF WaitersOn
    <3>2. /\ \A s \in Sem : \E W \in SUBSET Proc : ncnt[s] = Cardinality(W)
          /\ \A s \in Sem : \E W \in SUBSET Proc : zcnt[s] = Cardinality(W)
      BY <3>1 DEF CountedBut
    <3>3. ncnt \in [Sem -> Int] /\ zcnt \in [Sem -> Int]
      OBVIOUS
    <3>4. QED
      BY <1>4, <3>2, <3>3, CountersTyped
  <2>4. \A q \in Proc : q # p => st'[q] = st[q] /\ semu'[q] = semu[q]
    BY <1>1, <1>2, <1>4
  <2>5. Calls'
    BY <2>1, <2>4 DEF Calls
  <2>6. TypeOK'
    <3>1. st' \in [Proc -> {NoCall} \cup
               [at : {"asleep", "woken", "signalled"}, ops : UNION {Asked[x] : x \in Proc}, on : Event]]
      BY <1>4 DEF TypeOK
    <3>2. QED
      BY <1>1, <1>3, <2>3, <3>1 DEF TypeOK, Adjusts, Small
  <2>7. QED
    BY <2>2, <2>5, <2>6 DEF Books
<1>5. ASSUME NEW kind, NEW j, Sleeps(p, ops, ncnt, zcnt, kind, j) PROVE Books'
  <2>1. PICK s \in Sem : s = ops[j].num
    BY <1>5 DEF Sleeps
  <2>2. PICK c : c = InCall("asleep", ops, <<kind, s>>)
    OBVIOUS
  <2>3. /\ c.at = "asleep" /\ c.at # "run" /\ c.ops = ops /\ c.on = <<kind, s>>
        /\ c = [at |-> "asleep", ops |-> ops, on |-> <<kind, s>>]
    BY <2>2 DEF InCall
  <2>4. st' = [st EXCEPT ![p] = c] /\ st'[p] = c /\ st' = [st EXCEPT ![p] = st'[p]]
    BY <1>1, <1>5, <2>1, <2>2 DEF Sleeps
  <2>5. kind \in {"semncnt", "semzcnt"}
    BY <1>5 DEF Sleeps
  <2>6. Counted' /\ semncnt' \in [Sem -> Int] /\ semzcnt' \in [Sem -> Int]
    <3>1. CASE kind = "semncnt"
      <4>1. semncnt' = [ncnt EXCEPT ![s] = @ + 1] /\ semzcnt' = zcnt
        BY <1>5, <2>1, <3>1 DEF Sleeps
      <4>2. \A x : /\ WaitersOn("semzcnt", x)' = WaitersOn("semzcnt", x) \ {p}
                   /\ WaitersOn("semncnt", x)' = IF x = s THEN (WaitersOn("semncnt", x) \ {p}) \cup {p}
                                              ELSE WaitersOn("semncnt", x) \ {p}
        BY <1>1, <2>3, <2>4, <3>1 DEF WaitersOn
      <4>3. \A x \in Sem : zcnt[x] = Cardinality(WaitersOn("semzcnt", x) \ {p})
                         /\ ncnt[x] = Cardinality(WaitersOn("semncnt", x) \ {p})
        BY DEF CountedBut
      <4>4. \A x \in Sem : semzcnt'[x] = Cardinality(WaitersOn("semzcnt", x)')
        BY <4>1, <4>2, <4>3
      <4>5. \A x \in Sem : semncnt'[x] = Cardinality(WaitersOn("semncnt", x)')
        <5> SUFFICES ASSUME NEW x \in Sem PROVE semncnt'[x] = Cardinality(WaitersOn("semncnt", x)')
          OBVIOUS
        <5>1. semncnt'[x] = IF x = s THEN ncnt[x] + 1 ELSE ncnt[x]
          BY <4>1
        <5>2. Cardinality((WaitersOn("semncnt", x) \ {p}) \cup {p}) = ncnt[x] + 1
          <6>1. PICK W : W = WaitersOn("semncnt", x) \ {p}
            OBVIOUS
          <6>2. p \notin W /\ IsFiniteSet(W)
            BY <6>1, WaitersAre
          <6>3. Cardinality(W \cup {p}) = Cardinality(W) + 1
            BY <6>2, FS_AddElement
          <6>4. QED
            BY <4>3, <6>1, <6>3
        <5>3. QED
          BY <4>2, <4>3, <5>1, <5>2
      <4>6. semncnt' \in [Sem -> Int] /\ semzcnt' \in [Sem -> Int]
        BY <4>1
      <4>7. QED
        BY <4>4, <4>5, <4>6 DEF Counted
    <3>2. CASE kind = "semzcnt"
      <4>1. semzcnt' = [zcnt EXCEPT ![s] = @ + 1] /\ semncnt' = ncnt
        BY <1>5, <2>1, <3>2 DEF Sleeps
      <4>2. \A x : /\ WaitersOn("semncnt", x)' = WaitersOn("semncnt", x) \ {p}
                   /\ WaitersOn("semzcnt", x)' = IF x = s THEN (WaitersOn("semzcnt", x) \ {p}) \cup {p}
                                              ELSE WaitersOn("semzcnt", x) \ {p}
        BY <1>1, <2>3, <2>4, <3>2 DEF WaitersOn
      <4>3. \A x \in Sem : ncnt[x] = Cardinality(WaitersOn("semncnt", x) \ {p})
                         /\ zcnt[x] = Cardinality(WaitersOn("semzcnt", x) \ {p})
        BY DEF CountedBut
      <4>4. \A x \in Sem : semncnt'[x] = Cardinality(WaitersOn("semncnt", x)')
        BY <4>1, <4>2, <4>3
      <4>5. \A x \in Sem : semzcnt'[x] = Cardinality(WaitersOn("semzcnt", x)')
        <5> SUFFICES ASSUME NEW x \in Sem PROVE semzcnt'[x] = Cardinality(WaitersOn("semzcnt", x)')
          OBVIOUS
        <5>1. semzcnt'[x] = IF x = s THEN zcnt[x] + 1 ELSE zcnt[x]
          BY <4>1
        <5>2. Cardinality((WaitersOn("semzcnt", x) \ {p}) \cup {p}) = zcnt[x] + 1
          <6>1. PICK W : W = WaitersOn("semzcnt", x) \ {p}
            OBVIOUS
          <6>2. p \notin W /\ IsFiniteSet(W)
            BY <6>1, WaitersAre
          <6>3. Cardinality(W \cup {p}) = Cardinality(W) + 1
            BY <6>2, FS_AddElement
          <6>4. QED
            BY <4>3, <6>1, <6>3
        <5>3. QED
          BY <4>2, <4>3, <5>1, <5>2
      <4>6. semzcnt' \in [Sem -> Int] /\ semncnt' \in [Sem -> Int]
        BY <4>1
      <4>7. QED
        BY <4>4, <4>5, <4>6 DEF Counted
    <3>3. QED
      BY <2>5, <3>1, <3>2
  <2>7. /\ semncnt' \in [Sem -> 0..Cardinality(Proc)]
        /\ semzcnt' \in [Sem -> 0..Cardinality(Proc)]
    <3>1. \A kd, x : WaitersOn(kd, x)' \in SUBSET Proc
      BY DEF WaitersOn
    <3>2. /\ \A x \in Sem : \E W \in SUBSET Proc : semncnt'[x] = Cardinality(W)
          /\ \A x \in Sem : \E W \in SUBSET Proc : semzcnt'[x] = Cardinality(W)
      BY <2>6, <3>1 DEF Counted
    <3>3. QED
      BY <2>6, <3>2, CountersTyped
  <2>8. \A q \in Proc : q # p => st'[q] = st[q] /\ semu'[q] = semu[q]
    BY <1>1, <1>2, <2>4
  <2>9. Calls'
    <3>1. \A x \in Sem : Fit(semu'[p], ops, x)
      <4>1. \A x \in Sem : AdjOf(semu'[p], x) = AdjOf(semu[p], x)
        BY <1>5 DEF Sleeps
      <4>2. QED
        BY <4>1 DEF Fit
    <3>2. QED
      BY <2>3, <2>4, <2>8, <3>1 DEF Calls
  <2>10. TypeOK'
    <3>1. c \in [at : {"asleep", "woken", "signalled"}, ops : UNION {Asked[x] : x \in Proc}, on : Event]
      <4>1. ops \in UNION {Asked[x] : x \in Proc} /\ <<kind, s>> \in Event
        BY <2>5 DEF Event
      <4>2. QED
        BY <2>3, <4>1
    <3>2. st' \in [Proc -> {NoCall} \cup
               [at : {"asleep", "woken", "signalled"}, ops : UNION {Asked[x] : x \in Proc}, on : Event]]
      BY <2>4, <3>1 DEF TypeOK
    <3>3. QED
      BY <1>1, <1>3, <2>7, <3>2 DEF TypeOK, Adjusts, Small
  <2>11. QED
    BY <2>6, <2>9, <2>10 DEF Books
<1>6. QED
  BY <1>4, <1>5 DEF Outcome, Whole, Nothing

Places == {NoCall} \cup
  [at : {"asleep", "woken", "signalled"}, ops : UNION {Asked[p] : p \in Proc}, on : Event]

(* Steps that leave every call as it is, but for its sleep, and the counters. *)
LEMMA BooksKept ==
  ASSUME Parameters, Books, semval' \in [Sem -> 0..SEMVMX], semu' \in [Proc -> Adjusts],
         \A p \in Proc : st[p].at # "run" =>
           \A s \in Sem : AdjOf(semu'[p], s) = AdjOf(semu[p], s) \/ AdjOf(semu'[p], s) = 0,
         st' \in [Proc -> Places],
         \A p \in Proc : \/ st'[p] = st[p]
                         \/ /\ st'[p].at # "run" /\ st[p].at # "run"
                            /\ st'[p].ops = st[p].ops /\ st'[p].on = st[p].on,
         semncnt' = semncnt, semzcnt' = semzcnt, deferred' \subseteq Event,
         overlooked' \subseteq Proc, alive' \in BOOLEAN, alive' => alive
  PROVE  Books'
<1>1. TypeOK'
  BY DEF Books, TypeOK, Places, Adjusts, Small
<1>2. \A kind, s : WaitersOn(kind, s)' = WaitersOn(kind, s)
  BY DEF WaitersOn
<1>3. alive' => Counted'
  BY <1>2 DEF Books, Counted
<1>4. Calls'
  <2> SUFFICES ASSUME NEW p \in Proc, st'[p].at # "run"
               PROVE  st'[p].ops \in Asked[p] /\ \A s \in Sem : Fit(semu'[p], st'[p].ops, s)
    BY DEF Calls
  <2>1. st[p].at # "run" /\ st'[p].ops = st[p].ops
    OBVIOUS
  <2>2. st[p].ops \in Asked[p] /\ \A s \in Sem : Fit(semu[p], st[p].ops, s)
    BY <2>1 DEF Books, Calls
  <2>3. \A s \in Sem : AdjOf(semu'[p], s) = AdjOf(semu[p], s) \/ AdjOf(semu'[p], s) = 0
    BY <2>1
  <2>4. QED
    BY <2>1, <2>2, <2>3 DEF Fit
<1>5. QED
  BY <1>1, <1>3, <1>4 DEF Books

LEMMA ClearAdjIs ==
  ASSUME Parameters, semu \in [Proc -> Adjusts], NEW S
  PROVE  /\ ClearAdj(S) \in [Proc -> Adjusts]
         /\ \A p \in Proc, s \in Sem :
              AdjOf(ClearAdj(S)[p], s) = IF s \in S THEN 0 ELSE AdjOf(semu[p], s)
<1> SUFFICES ASSUME NEW p \in Proc
             PROVE  /\ ClearAdj(S)[p] \in Adjusts
                    /\ \A s \in Sem :
                         AdjOf(ClearAdj(S)[p], s) = IF s \in S THEN 0 ELSE AdjOf(semu[p], s)
  BY DEF ClearAdj
<1>1. PICK D \in SUBSET Sem : semu[p] \in [D -> Small]
  BY DEF Adjusts
<1>2. PICK u : u = ClearAdj(S)[p]
  OBVIOUS
<1>3. u = [s \in D |-> IF s \in S THEN 0 ELSE semu[p][s]]
  BY <1>1, <1>2 DEF ClearAdj
<1>4. 0 \in Small
  BY Numbers DEF Small
<1>5. u \in [D -> Small]
  BY <1>1, <1>3, <1>4
<1>6. \A s \in Sem : AdjOf(u, s) = IF s \in S THEN 0 ELSE AdjOf(semu[p], s)
  BY <1>1, <1>3 DEF AdjOf
<1>7. QED
  BY <1>2, <1>5, <1>6 DEF Adjusts

LEMMA BooksAre ==
  ASSUME Parameters, Books
  PROVE  /\ alive \in BOOLEAN /\ semval \in [Sem -> 0..SEMVMX]
         /\ semncnt \in [Sem -> Nat] /\ semzcnt \in [Sem -> Nat]
         /\ semu \in [Proc -> Adjusts] /\ st \in [Proc -> Places]
         /\ \A p \in Proc : st[p].at \in {"run", "asleep", "woken", "signalled"}
         /\ \A p \in Proc : st[p].at = "run" <=> st[p] = NoCall
         /\ \A p \in Proc : st[p].at # "run" => st[p].on \in Event
         /\ DOMAIN st = Proc /\ deferred \subseteq Event /\ overlooked \subseteq Proc
<1>1. TypeOK
  BY DEF Books
<1>2. st \in [Proc -> Places]
  BY <1>1 DEF TypeOK, Places
<1>3. QED
  BY <1>1, <1>2, StateIs

LEMMA SemopBooks ==
  ASSUME Parameters, Asking, Careful, Garbage = {0}, Books,
         NEW p \in Proc, NEW ops \in Asked[p], Semop(p, ops)
  PROVE  Outcome(p, ops, semncnt, semzcnt) /\ Books'
<1>1. /\ alive /\ st[p].at = "run" /\ AdjustsFit(p, ops) /\ Perform(p, ops, semncnt, semzcnt)
  BY DEF Semop, NoCall
<1>2. /\ semu \in [Proc -> Adjusts] /\ semval \in [Sem -> 0..SEMVMX]
      /\ semncnt \in [Sem -> Nat] /\ semzcnt \in [Sem -> Nat]
  BY BooksAre
<1>3. ops \in Seq(sembuf) /\ Orderly(ops) /\ Len(ops) > 0
  BY ArrayIs
<1>4. \A s \in Sem : Fit(semu[p], ops, s)
  BY <1>1, <1>3, FitIs
<1>5. Outcome(p, ops, semncnt, semzcnt)
  BY <1>1, <1>2, <1>3, <1>4, PerformDoes
<1>6. CountedBut(p, semncnt, semzcnt)
  <2>1. \A kind, s : WaitersOn(kind, s) \ {p} = WaitersOn(kind, s)
    BY <1>1 DEF WaitersOn
  <2>2. QED
    BY <1>1, <2>1 DEF Books, Counted, CountedBut
<1>7. QED
  BY <1>2, <1>4, <1>5, <1>6, OutcomeBooks DEF Books

(* The counters without p, who waits. *)
LEMMA UncountIs ==
  ASSUME Parameters, Books, alive, NEW p \in Proc, st[p].at # "run",
         NEW ncnt, ncnt = Uncount(semncnt, "semncnt", st[p].on),
         NEW zcnt, zcnt = Uncount(semzcnt, "semzcnt", st[p].on)
  PROVE  ncnt \in [Sem -> Nat] /\ zcnt \in [Sem -> Nat] /\ CountedBut(p, ncnt, zcnt)
<1>1. PICK kind \in {"semncnt", "semzcnt"}, s \in Sem : st[p].on = <<kind, s>>
  BY BooksAre DEF Event
<1>2. semncnt \in [Sem -> Nat] /\ semzcnt \in [Sem -> Nat]
  BY BooksAre
<1>3. \A k, x : p \in WaitersOn(k, x) <=> k = kind /\ x = s
  BY <1>1 DEF WaitersOn
<1>4. \A x \in Sem : /\ semncnt[x] = Cardinality(WaitersOn("semncnt", x))
                     /\ semzcnt[x] = Cardinality(WaitersOn("semzcnt", x))
  BY DEF Books, Counted
<1>5. \A k, x : /\ Cardinality(WaitersOn(k, x) \ {p}) \in Nat
                /\ Cardinality(WaitersOn(k, x) \ {p}) =
                     IF k = kind /\ x = s THEN Cardinality(WaitersOn(k, x)) - 1
                                          ELSE Cardinality(WaitersOn(k, x))
  BY <1>3, WaitersAre
<1>6. /\ ncnt = IF kind = "semncnt" THEN [semncnt EXCEPT ![s] = @ - 1] ELSE semncnt
      /\ zcnt = IF kind = "semzcnt" THEN [semzcnt EXCEPT ![s] = @ - 1] ELSE semzcnt
  BY <1>1 DEF Uncount
<1>7. CASE kind = "semncnt"
  <2>1. ncnt = [semncnt EXCEPT ![s] = @ - 1] /\ zcnt = semzcnt
    BY <1>6, <1>7
  <2>2. \A x \in Sem : ncnt[x] = Cardinality(WaitersOn("semncnt", x) \ {p})
    BY <1>2, <1>4, <1>5, <1>7, <2>1
  <2>3. \A x \in Sem : zcnt[x] = Cardinality(WaitersOn("semzcnt", x) \ {p})
    BY <1>4, <1>5, <1>7, <2>1
  <2>4. ncnt \in [Sem -> Nat]
    <3>1. \A x \in Sem : Cardinality(WaitersOn("semncnt", x) \ {p}) \in Nat
      BY <1>5
    <3>2. \A x \in Sem : ncnt[x] \in Nat
      BY <2>2, <3>1
    <3>3. ncnt \in [Sem -> Int]
      BY <1>2, <2>1
    <3>4. QED
      BY <3>2, <3>3
  <2>5. QED
    BY <1>2, <2>1, <2>2, <2>3, <2>4 DEF CountedBut
<1>8. CASE kind = "semzcnt"
  <2>1. zcnt = [semzcnt EXCEPT ![s] = @ - 1] /\ ncnt = semncnt
    BY <1>6, <1>8
  <2>2. \A x \in Sem : zcnt[x] = Cardinality(WaitersOn("semzcnt", x) \ {p})
    BY <1>2, <1>4, <1>5, <1>8, <2>1
  <2>3. \A x \in Sem : ncnt[x] = Cardinality(WaitersOn("semncnt", x) \ {p})
    BY <1>4, <1>5, <1>8, <2>1
  <2>4. zcnt \in [Sem -> Nat]
    <3>1. \A x \in Sem : Cardinality(WaitersOn("semzcnt", x) \ {p}) \in Nat
      BY <1>5
    <3>2. \A x \in Sem : zcnt[x] \in Nat
      BY <2>2, <3>1
    <3>3. zcnt \in [Sem -> Int]
      BY <1>2, <2>1
    <3>4. QED
      BY <3>2, <3>3
  <2>5. QED
    BY <1>2, <2>1, <2>2, <2>3, <2>4 DEF CountedBut
<1>9. QED
  BY <1>7, <1>8

LEMMA TryAgainBooks ==
  ASSUME Parameters, Asking, Garbage = {0}, Books, NEW p \in Proc, TryAgain(p)
  PROVE  /\ alive /\ st[p].at = "woken" /\ st[p].ops \in Asked[p] /\ Books'
         /\ \E ncnt, zcnt \in [Sem -> Nat] :
              CountedBut(p, ncnt, zcnt) /\ Outcome(p, st[p].ops, ncnt, zcnt)
<1>1. alive /\ st[p].at = "woken" /\ st[p].at # "run"
  BY DEF TryAgain
<1>2. PICK ncnt, zcnt : /\ ncnt = Uncount(semncnt, "semncnt", st[p].on)
                        /\ zcnt = Uncount(semzcnt, "semzcnt", st[p].on)
                        /\ Perform(p, st[p].ops, ncnt, zcnt)
  BY DEF TryAgain
<1>3. ncnt \in [Sem -> Nat] /\ zcnt \in [Sem -> Nat] /\ CountedBut(p, ncnt, zcnt)
  BY <1>1, <1>2, UncountIs
<1>4. st[p].ops \in Asked[p] /\ \A s \in Sem : Fit(semu[p], st[p].ops, s)
  BY <1>1 DEF Books, Calls
<1>5. PICK ops \in Asked[p] : ops = st[p].ops
  BY <1>4
<1>6. ops \in Seq(sembuf) /\ Orderly(ops) /\ Len(ops) > 0
  BY ArrayIs
<1>7. semu \in [Proc -> Adjusts] /\ semval \in [Sem -> 0..SEMVMX]
  BY BooksAre
<1>8. Outcome(p, ops, ncnt, zcnt)
  BY <1>2, <1>3, <1>4, <1>5, <1>6, <1>7, PerformDoes
<1>9. Books'
  BY <1>3, <1>4, <1>5, <1>8, OutcomeBooks DEF Books
<1>10. QED
  BY <1>1, <1>3, <1>5, <1>8, <1>9

LEMMA NoAdjusts ==
  ASSUME Parameters
  PROVE  << >> \in Adjusts /\ \A s : AdjOf(<< >>, s) = 0
<1>1. DOMAIN << >> = {}
  OBVIOUS
<1>2. << >> \in [{} -> Small]
  BY <1>1
<1>3. QED
  BY <1>1, <1>2 DEF Adjusts, AdjOf

(* With Careful an exit brings no value out of its range. *)
LEMMA ExitDoes ==
  ASSUME Parameters, Careful, Books, NEW p \in Proc, Exit(p)
  PROVE  /\ semval' \in [Sem -> 0..SEMVMX] /\ st[p].at = "run"
         /\ ~alive => semval' = semval
         /\ alive => \A s \in Sem : semval'[s] = semval[s] + AdjOf(semu[p], s)
         /\ \A s \in Sem : AdjOf(semu[p], s) \in Int
         /\ semu' = [semu EXCEPT ![p] = << >>]
<1>1. /\ semval \in [Sem -> 0..SEMVMX] /\ semu \in [Proc -> Adjusts] /\ alive \in BOOLEAN
  BY BooksAre
<1>2. USHRT \in Nat \ {0} /\ 0..SEMVMX \subseteq 0..(USHRT - 1)
  BY DEF Parameters
<1>3. /\ st[p].at = "run" /\ Applies(p) /\ semu' = [semu EXCEPT ![p] = << >>]
      /\ semval' = IF alive THEN [s \in Sem |-> (semval[s] + Adj(p, s)) % USHRT] ELSE semval
  BY DEF Exit, NoCall
<1>4. ASSUME NEW s \in Sem, alive
      PROVE  /\ AdjOf(semu[p], s) \in Int /\ semval'[s] = semval[s] + AdjOf(semu[p], s)
             /\ semval'[s] \in 0..SEMVMX
  <2>1. PICK a : a = AdjOf(semu[p], s) /\ a = Adj(p, s)
    BY DEF Adj, AdjOf
  <2>2. a \in Int
    BY <1>1, <2>1, AdjSmall DEF Small
  <2>3. PICK v \in 0..SEMVMX : v = semval[s]
    BY <1>1
  <2>4. v + a \in 0..SEMVMX
    BY <1>3, <2>1, <2>2, <2>3 DEF Applies
  <2>5. (v + a) % USHRT = v + a
    BY <1>2, <2>4, ModSmall
  <2>6. semval'[s] = (v + a) % USHRT
    BY <1>3, <1>4, <2>1, <2>3
  <2>7. QED
    BY <2>1, <2>2, <2>3, <2>4, <2>5, <2>6
<1>5. semval' \in [Sem -> 0..SEMVMX]
  <2>1. CASE alive
    <3>1. semval' = [s \in Sem |-> (semval[s] + Adj(p, s)) % USHRT]
      BY <1>3, <2>1
    <3>2. \A s \in Sem : semval'[s] \in 0..SEMVMX
      BY <1>4, <2>1
    <3>3. QED
      BY <3>1, <3>2
  <2>2. CASE ~alive
    BY <1>1, <1>3, <2>2
  <2>3. QED
    BY <2>1, <2>2
<1>6. \A s \in Sem : AdjOf(semu[p], s) \in Int
  <2>1. semu[p] \in Adjusts
    BY <1>1
  <2>2. QED
    BY <2>1, AdjSmall DEF Small
<1>7. QED
  BY <1>1, <1>3, <1>4, <1>5, <1>6

LEMMA ExitBooks ==
  ASSUME Parameters, Careful, Books, NEW p \in Proc, Exit(p)
  PROVE  Books'
<1>1. semval' \in [Sem -> 0..SEMVMX] /\ st[p].at = "run" /\ semu' = [semu EXCEPT ![p] = << >>]
  BY ExitDoes
<1>2. /\ semu \in [Proc -> Adjusts] /\ st \in [Proc -> Places] /\ alive \in BOOLEAN
      /\ deferred \subseteq Event /\ overlooked \subseteq Proc
  BY BooksAre
<1>3. semu' \in [Proc -> Adjusts]
  BY <1>1, <1>2, NoAdjusts
<1>4. \A q \in Proc : st[q].at # "run" => semu'[q] = semu[q]
  BY <1>1, <1>2
<1>5. overlooked' \subseteq Proc
  BY <1>2 DEF Exit, Changed
<1>6. UNCHANGED <<alive, semncnt, semzcnt, st, deferred>>
  BY DEF Exit
<1>7. QED
  BY <1>1, <1>2, <1>3, <1>4, <1>5, <1>6, BooksKept

LEMMA WakesAre == ASSUME NEW cnt, NEW s \in Sem
                  PROVE  Wakes("semncnt", cnt, s) \subseteq Event /\ Wakes("semzcnt", cnt, s) \subseteq Event
BY DEF Wakes, Event

LEMMA SetValBooks ==
  ASSUME Parameters, Books, NEW s \in Sem, NEW v \in 0..SEMVMX, SetVal(s, v)
  PROVE  Books'
<1>1. /\ semu \in [Proc -> Adjusts] /\ st \in [Proc -> Places] /\ alive \in BOOLEAN
      /\ semval \in [Sem -> 0..SEMVMX] /\ deferred \subseteq Event /\ overlooked \subseteq Proc
  BY BooksAre
<1>2. semu' \in [Proc -> Adjusts]
  BY <1>1, ClearAdjIs DEF SetVal
<1>3. \A q \in Proc, x \in Sem : AdjOf(semu'[q], x) = AdjOf(semu[q], x) \/ AdjOf(semu'[q], x) = 0
  <2>1. semu' = ClearAdj({s})
    BY DEF SetVal
  <2>2. QED
    BY <1>1, <2>1, ClearAdjIs
<1>4. semval' \in [Sem -> 0..SEMVMX]
  BY <1>1 DEF SetVal
<1>5. deferred' \subseteq Event
  BY <1>1, WakesAre DEF SetVal
<1>6. UNCHANGED <<alive, semncnt, semzcnt, st, overlooked>>
  BY DEF SetVal
<1>7. QED
  BY <1>1, <1>2, <1>3, <1>4, <1>5, <1>6, BooksKept

LEMMA SetAllBooks ==
  ASSUME Parameters, Books, NEW new \in [Sem -> 0..SEMVMX], NEW k \in 1..NSEMS, SetAll(new, k)
  PROVE  Books'
<1>1. /\ semu \in [Proc -> Adjusts] /\ st \in [Proc -> Places] /\ alive \in BOOLEAN
      /\ semval \in [Sem -> 0..SEMVMX] /\ deferred \subseteq Event /\ overlooked \subseteq Proc
  BY BooksAre
<1>2. semu' = ClearAdj(0..(k - 1))
  BY DEF SetAll
<1>3. /\ semu' \in [Proc -> Adjusts]
      /\ \A q \in Proc, x \in Sem : AdjOf(semu'[q], x) = AdjOf(semu[q], x) \/ AdjOf(semu'[q], x) = 0
  BY <1>1, <1>2, ClearAdjIs
<1>4. semval' \in [Sem -> 0..SEMVMX]
  BY <1>1 DEF SetAll
<1>5. overlooked' \subseteq Proc
  BY <1>1 DEF SetAll, Changed
<1>6. UNCHANGED <<alive, semncnt, semzcnt, st, deferred>>
  BY DEF SetAll
<1>7. QED
  BY <1>1, <1>3, <1>4, <1>5, <1>6, BooksKept

LEMMA RmidBooks == ASSUME Parameters, Books, Rmid PROVE Books'
<1>1. /\ semu \in [Proc -> Adjusts] /\ st \in [Proc -> Places]
      /\ semval \in [Sem -> 0..SEMVMX] /\ deferred \subseteq Event /\ overlooked \subseteq Proc
  BY BooksAre
<1>2. deferred' \subseteq Event
  BY <1>1, WakesAre DEF Rmid
<1>3. alive' = FALSE /\ alive /\ UNCHANGED <<semval, semncnt, semzcnt, semu, st, overlooked>>
  BY DEF Rmid
<1>4. QED
  BY <1>1, <1>2, <1>3, BooksKept

LEMMA WakeupBooks ==
  ASSUME Parameters, Books, NEW e \in deferred, Defend(e) PROVE Books'
<1>1. /\ semu \in [Proc -> Adjusts] /\ st \in [Proc -> Places] /\ alive \in BOOLEAN
      /\ semval \in [Sem -> 0..SEMVMX] /\ deferred \subseteq Event /\ overlooked \subseteq Proc
  BY BooksAre
<1>2. /\ deferred' \subseteq Event /\ overlooked' \subseteq Proc
      /\ UNCHANGED <<alive, semval, semncnt, semzcnt, semu>>
  BY <1>1 DEF Defend
<1>3. ASSUME NEW p \in Proc
      PROVE  /\ st'[p] \in Places
             /\ \/ st'[p] = st[p]
                \/ /\ st'[p].at # "run" /\ st[p].at # "run"
                   /\ st'[p].ops = st[p].ops /\ st'[p].on = st[p].on
  <2>1. st'[p] = IF st[p].at = "asleep" /\ st[p].on = e THEN [st[p] EXCEPT !.at = "woken"] ELSE st[p]
    BY DEF Defend
  <2>2. CASE st[p].at = "asleep" /\ st[p].on = e
    <3>1. st'[p] = [st[p] EXCEPT !.at = "woken"]
      BY <2>1, <2>2
    <3>2. st[p] \in [at : {"asleep", "woken", "signalled"}, ops : UNION {Asked[q] : q \in Proc},
                     on : Event]
      BY <1>1, <2>2 DEF Places, NoCall
    <3>3. QED
      BY <2>2, <3>1, <3>2 DEF Places
  <2>3. QED
    BY <1>1, <2>1, <2>2
<1>4. st' \in [Proc -> Places]
  <2>1. st' = [p \in Proc |-> st'[p]]
    BY DEF Defend
  <2>2. QED
    BY <1>3, <2>1
<1>5. QED
  BY <1>1, <1>2, <1>3, <1>4, BooksKept

LEMMA SignalBooks ==
  ASSUME Parameters, Books, NEW p \in Proc, Signal(p) PROVE Books'
<1>1. /\ semu \in [Proc -> Adjusts] /\ st \in [Proc -> Places] /\ alive \in BOOLEAN
      /\ semval \in [Sem -> 0..SEMVMX] /\ deferred \subseteq Event /\ overlooked \subseteq Proc
  BY BooksAre
<1>2. /\ overlooked' \subseteq Proc /\ st' = [st EXCEPT ![p].at = "signalled"] /\ st[p].at = "asleep"
      /\ UNCHANGED <<alive, semval, semncnt, semzcnt, semu, deferred>>
  BY <1>1 DEF Signal
<1>3. st[p] \in [at : {"asleep", "woken", "signalled"}, ops : UNION {Asked[q] : q \in Proc},
                 on : Event]
  BY <1>1, <1>2 DEF Places, NoCall
<1>4. PICK c : c = [st[p] EXCEPT !.at = "signalled"]
  OBVIOUS
<1>5. /\ c \in Places /\ c.at = "signalled" /\ c.ops = st[p].ops /\ c.on = st[p].on
      /\ st' = [st EXCEPT ![p] = c]
  BY <1>2, <1>3, <1>4 DEF Places
<1>6. \A q \in Proc : \/ st'[q] = st[q]
                      \/ /\ st'[q].at # "run" /\ st[q].at # "run"
                         /\ st'[q].ops = st[q].ops /\ st'[q].on = st[q].on
  BY <1>1, <1>2, <1>5
<1>7. st' \in [Proc -> Places]
  BY <1>1, <1>5
<1>8. QED
  BY <1>1, <1>2, <1>6, <1>7, BooksKept

LEMMA InterruptedBooks ==
  ASSUME Parameters, Books, NEW p \in Proc, Interrupted(p) PROVE Books'
<1>1. /\ semu \in [Proc -> Adjusts] /\ st \in [Proc -> Places] /\ DOMAIN st = Proc
  BY BooksAre
<1>2. /\ alive /\ st[p].at # "run" /\ st' = [st EXCEPT ![p] = NoCall]
      /\ UNCHANGED <<alive, semval, semu, deferred, overlooked>>
  BY DEF Interrupted
<1>3. PICK ncnt, zcnt : /\ ncnt = Uncount(semncnt, "semncnt", st[p].on)
                        /\ zcnt = Uncount(semzcnt, "semzcnt", st[p].on)
                        /\ semncnt' = ncnt /\ semzcnt' = zcnt
  BY DEF Interrupted
<1>4. ncnt \in [Sem -> Nat] /\ zcnt \in [Sem -> Nat] /\ CountedBut(p, ncnt, zcnt)
  BY <1>2, <1>3, UncountIs
<1>5. st'[p].at = "run" /\ st' = [st EXCEPT ![p] = st'[p]]
  BY <1>1, <1>2 DEF NoCall
<1>6. \A kind, s : WaitersOn(kind, s)' = WaitersOn(kind, s) \ {p}
  BY <1>1, <1>5, CountNone
<1>7. Counted'
  BY <1>3, <1>4, <1>6 DEF Counted, CountedBut
<1>8. ncnt \in [Sem -> 0..Cardinality(Proc)] /\ zcnt \in [Sem -> 0..Cardinality(Proc)]
  <2>1. \A kind, s : WaitersOn(kind, s) \ {p} \in SUBSET Proc
    BY DEF WaitersOn
  <2>2. /\ \A s \in Sem : \E W \in SUBSET Proc : ncnt[s] = Cardinality(W)
        /\ \A s \in Sem : \E W \in SUBSET Proc : zcnt[s] = Cardinality(W)
    BY <1>4, <2>1 DEF CountedBut
  <2>3. ncnt \in [Sem -> Int] /\ zcnt \in [Sem -> Int]
    BY <1>4
  <2>4. QED
    BY <2>2, <2>3, CountersTyped
<1>9. st' \in [Proc -> Places]
  BY <1>1, <1>2 DEF Places
<1>10. TypeOK'
  BY <1>2, <1>3, <1>8, <1>9 DEF Books, TypeOK, Places
<1>11. Calls'
  BY <1>1, <1>2, <1>5 DEF Books, Calls
<1>12. QED
  BY <1>7, <1>10, <1>11 DEF Books

LEMMA RemovedBooks ==
  ASSUME Parameters, Books, NEW p \in Proc, Removed(p) PROVE Books'
<1>1. /\ semu \in [Proc -> Adjusts] /\ st \in [Proc -> Places] /\ DOMAIN st = Proc
  BY BooksAre
<1>2. /\ ~alive /\ st' = [st EXCEPT ![p] = NoCall]
      /\ UNCHANGED <<alive, semval, semncnt, semzcnt, semu, deferred, overlooked>>
  BY DEF Removed
<1>3. st' \in [Proc -> Places] /\ st'[p].at = "run"
  BY <1>1, <1>2 DEF Places, NoCall
<1>4. TypeOK'
  BY <1>2, <1>3 DEF Books, TypeOK, Places
<1>5. Calls'
  BY <1>1, <1>2, <1>3 DEF Books, Calls
<1>6. QED
  BY <1>2, <1>4, <1>5 DEF Books

LEMMA NobodyWaits ==
  ASSUME Parameters, \A p \in Proc : st[p].at = "run"
  PROVE  Calls /\ \A kind, s : Cardinality(WaitersOn(kind, s)) = 0
<1>1. \A kind, s : WaitersOn(kind, s) = {}
  BY DEF WaitersOn
<1>2. QED
  BY <1>1, FS_EmptySet DEF Calls

LEMMA NoValues ==
  ASSUME Parameters
  PROVE  /\ [s \in Sem |-> 0] \in [Sem -> 0..SEMVMX]
         /\ [s \in Sem |-> 0] \in [Sem -> 0..Cardinality(Proc)]
<1>1. Cardinality(Proc) \in Nat
  BY FS_CardinalityType DEF Parameters
<1>2. QED
  BY <1>1 DEF Parameters

LEMMA SemgetBooks == ASSUME Parameters, Books, Semget PROVE Books'
<1>1. /\ alive' = TRUE /\ semval' = [s \in Sem |-> 0] /\ semncnt' = [s \in Sem |-> 0]
      /\ semzcnt' = [s \in Sem |-> 0] /\ UNCHANGED <<semu, st, deferred, overlooked>>
      /\ \A p \in Proc : st[p].at = "run"
  BY DEF Semget, NoCall
<1>2. Calls /\ \A kind, s : Cardinality(WaitersOn(kind, s)) = 0
  BY <1>1, NobodyWaits
<1>3. Counted'
  BY <1>1, <1>2 DEF Counted, WaitersOn
<1>4. Calls'
  BY <1>1, <1>2 DEF Calls
<1>5. TypeOK'
  BY <1>1, NoValues DEF Books, TypeOK
<1>6. QED
  BY <1>3, <1>4, <1>5 DEF Books

LEMMA FirstBooks == ASSUME Parameters, Init PROVE Books
<1>1. \A p \in Proc : st[p].at = "run"
  BY DEF Init, NoCall
<1>2. Calls /\ \A kind, s : Cardinality(WaitersOn(kind, s)) = 0
  BY <1>1, NobodyWaits
<1>3. Counted
  BY <1>2 DEF Counted, Init
<1>4. semu \in [Proc -> Adjusts]
  BY NoAdjusts DEF Init
<1>5. TypeOK
  BY <1>4, NoValues DEF Init, TypeOK, Adjusts, Small
<1>6. QED
  BY <1>2, <1>3, <1>5 DEF Books

LEMMA BooksStep ==
  ASSUME Parameters, Asking, Careful, Garbage = {0}, Books, [Next]_vars
  PROVE  Books'
<1>1. ASSUME NEW p \in Proc, \E ops \in Asked[p] : Semop(p, ops) PROVE Books'
  BY <1>1, SemopBooks
<1>2. ASSUME NEW p \in Proc, TryAgain(p) PROVE Books'
  BY <1>2, TryAgainBooks
<1>3. ASSUME NEW p \in Proc, Interrupted(p) PROVE Books'
  BY <1>3, InterruptedBooks
<1>4. ASSUME NEW p \in Proc, Removed(p) PROVE Books'
  BY <1>4, RemovedBooks
<1>5. ASSUME NEW p \in Proc, Exit(p) PROVE Books'
  BY <1>5, ExitBooks
<1>6. ASSUME NEW p \in Proc, Signal(p) PROVE Books'
  BY <1>6, SignalBooks
<1>7. ASSUME NEW s \in Sem, NEW v \in 0..SEMVMX, SetVal(s, v) PROVE Books'
  BY <1>7, SetValBooks
<1>8. ASSUME NEW new \in [Sem -> 0..SEMVMX], NEW k \in 1..NSEMS, SetAll(new, k) PROVE Books'
  BY <1>8, SetAllBooks
<1>9. ASSUME NEW e \in deferred, Defend(e) PROVE Books'
  BY <1>9, WakeupBooks
<1>10. CASE Rmid
  BY <1>10, RmidBooks
<1>11. CASE Semget
  BY <1>11, SemgetBooks
<1>12. CASE UNCHANGED vars
  BY <1>12 DEF vars, Books, TypeOK, Calls, Counted, WaitersOn
<1>13. QED
  BY <1>1, <1>2, <1>3, <1>4, <1>5, <1>6, <1>7, <1>8, <1>9, <1>10, <1>11, <1>12 DEF Next

-----------------------------------------------------------------------------
(* Who sleeps cannot go on, or will be woken. *)

(* The call c sleeps on its j-th operation for what the values V do not give it, and
   will not before the value it sleeps on rises, or becomes 0. *)
Short(V, c, j) ==
  /\ c.ops[j].num = c.on[2]
  /\ \/ /\ c.on[1] = "semncnt" /\ c.ops[j].op < 0
        /\ V[c.on[2]] + Added(c.ops, j - 1, c.on[2]) + c.ops[j].op < 0
     \/ /\ c.on[1] = "semzcnt" /\ c.ops[j].op = 0
        /\ V[c.on[2]] # 0 /\ Added(c.ops, j - 1, c.on[2]) = 0

Held(V, c) == \E j \in 1..Len(c.ops) : Short(V, c, j)

Waiting ==
  \A p \in Proc : st[p].at = "asleep" =>
    \/ st[p].on \in deferred
    \/ alive /\ (p \in overlooked \/ Held(semval, st[p]))

LEMMA StuckHeld ==
  ASSUME NEW ops \in Seq(sembuf), Orderly(ops), TestsFirst(ops), NEW j \in 1..Len(ops),
         NEW V \in [Sem -> Int], NEW s \in Sem, s = ops[j].num, NEW kind,
         kind \in {"semncnt", "semzcnt"}, Stuck(V, ops, j, kind),
         NEW c, c.ops = ops, c.on = <<kind, s>>
  PROVE  Held(V, c)
<1>1. /\ j - 1 \in 0..(Len(ops) - 1) /\ j - 1 \in 0..Len(ops) /\ s \in Nat /\ V[s] \in Int
      /\ c.on[1] = kind /\ c.on[2] = s /\ ops[j].op \in Int
  BY OpIs DEF Sem
<1>2. PICK a \in Int : a = Added(ops, j - 1, s)
  BY <1>1, AddedTyped
<1>3. CASE kind = "semncnt"
  <2>1. ops[j].op < 0 /\ V[s] + a + ops[j].op < 0
    BY <1>2, <1>3 DEF Stuck
  <2>2. Short(V, c, j)
    BY <1>1, <1>2, <1>3, <2>1 DEF Short
  <2>3. QED
    BY <2>2 DEF Held
<1>4. CASE kind = "semzcnt"
  <2>1. ops[j].op = 0 /\ V[s] + a # 0
    BY <1>2, <1>4 DEF Stuck
  <2>2. a = IF s < j - 1 THEN ops[s + 1].op ELSE 0
    BY <1>1, <1>2, AddedOnce
  <2>3. ASSUME s < j - 1 PROVE a = 0
    <3>1. s + 1 \in 1..(Len(ops) - 1) /\ s + 1 \in 1..Len(ops) /\ s + 1 < j
      BY <1>1, <2>3
    <3>2. ops[s + 1].num = s
      <4>1. ops[s + 1].num = (s + 1) - 1
        BY <3>1 DEF Orderly
      <4>2. QED
        BY <1>1, <4>1
    <3>3. ops[s + 1].op = 0
      BY <2>1, <3>1, <3>2 DEF TestsFirst
    <3>4. QED
      BY <2>2, <2>3, <3>3
  <2>4. a = 0
    BY <2>2, <2>3
  <2>5. Short(V, c, j)
    BY <1>1, <1>2, <1>4, <2>1, <2>4 DEF Short
  <2>6. QED
    BY <2>5 DEF Held
<1>5. QED
  BY <1>3, <1>4

NoBetter(V, W, c) ==
  /\ V \in [Sem -> Int] /\ W \in [Sem -> Int] /\ c.ops \in Seq(sembuf) /\ c.on[2] \in Sem
  /\ c.on[1] = "semncnt" => W[c.on[2]] <= V[c.on[2]]
  /\ c.on[1] = "semzcnt" => V[c.on[2]] = 0 \/ W[c.on[2]] # 0

LEMMA HeldKeeps ==
  ASSUME NEW V, NEW W, NEW c, NoBetter(V, W, c), Held(V, c)
  PROVE  Held(W, c)
<1>1. PICK j \in 1..Len(c.ops) : Short(V, c, j)
  BY DEF Held
<1>2. PICK s \in Sem : s = c.on[2]
  BY DEF NoBetter
<1>3. /\ c.ops \in Seq(sembuf) /\ c.ops[j].op \in Int /\ V[s] \in Int /\ W[s] \in Int
      /\ j - 1 \in 0..Len(c.ops)
  BY OpIs DEF NoBetter
<1>4. PICK a \in Int, o \in Int, v \in Int, w \in Int :
        a = Added(c.ops, j - 1, s) /\ o = c.ops[j].op /\ v = V[s] /\ w = W[s]
  BY <1>3, AddedTyped
<1>5. CASE c.on[1] = "semncnt" /\ o < 0 /\ v + a + o < 0
  <2>1. w <= v
    BY <1>2, <1>4, <1>5 DEF NoBetter
  <2>2. w + a + o < 0
    BY <1>5, <2>1
  <2>3. Short(W, c, j)
    BY <1>1, <1>2, <1>4, <1>5, <2>2 DEF Short
  <2>4. QED
    BY <2>3 DEF Held
<1>6. CASE c.on[1] = "semzcnt" /\ o = 0 /\ v # 0 /\ a = 0
  <2>1. w # 0
    BY <1>2, <1>4, <1>6 DEF NoBetter
  <2>2. Short(W, c, j)
    BY <1>1, <1>2, <1>4, <1>6, <2>1 DEF Short
  <2>3. QED
    BY <2>2 DEF Held
<1>7. QED
  BY <1>1, <1>2, <1>4, <1>5, <1>6 DEF Short

LEMMA HeldNot ==
  ASSUME Parameters, semval \in [Sem -> Int], NEW c, c.ops \in Seq(sembuf), Held(semval, c)
  PROVE  ~A!Possible(c.ops)
<1> SUFFICES ASSUME A!Possible(c.ops) PROVE FALSE
  OBVIOUS
<1>1. PICK j \in 1..Len(c.ops) : Short(semval, c, j)
  BY DEF Held
<1>2. PICK s : s = c.ops[j].num /\ s = c.on[2]
  BY <1>1 DEF Short
<1>3. /\ s \in Sem
      /\ LET v == semval[s] + Added(c.ops, j - 1, s) IN
         IF c.ops[j].op = 0 THEN v = 0 ELSE v + c.ops[j].op \in 0..SEMVMX
  BY <1>2 DEF A!Possible, A!Semaphores, Sem, Added
<1>4. /\ c.ops[j].op \in Int /\ semval[s] \in Int /\ j - 1 \in 0..Len(c.ops)
  BY <1>3, OpIs
<1>5. Added(c.ops, j - 1, s) \in Int
  BY <1>4, AddedTyped
<1>6. QED
  BY <1>1, <1>2, <1>3, <1>4, <1>5 DEF Short

LEMMA SleeperCounted ==
  ASSUME Parameters, NEW p, NEW ncnt, NEW zcnt, CountedBut(p, ncnt, zcnt),
         NEW q \in Proc, q # p, st[q].at # "run", NEW kind, NEW s \in Sem, st[q].on = <<kind, s>>
  PROVE  (kind = "semncnt" => ncnt[s] > 0) /\ (kind = "semzcnt" => zcnt[s] > 0)
<1>1. PICK W : W = WaitersOn(kind, s) \ {p}
  OBVIOUS
<1>2. q \in W /\ IsFiniteSet(W)
  BY <1>1, WaitersAre DEF WaitersOn
<1>3. Cardinality(W) \in Nat /\ Cardinality(W) # 0
  BY <1>2, FS_EmptySet, FS_CardinalityType
<1>4. Cardinality(W) > 0
  BY <1>3
<1>5. QED
  BY <1>1, <1>4 DEF CountedBut

(* Steps that leave the sleepers asleep, or end their sleep. *)
LEMMA WaitingKept ==
  ASSUME Parameters, Asking, Books, Waiting, alive' = alive, semval' \in [Sem -> 0..SEMVMX],
         \A p \in Proc : st'[p].at = "asleep" =>
           /\ st[p].at = "asleep" /\ st'[p] = st[p]
           /\ st[p].on \in deferred => st[p].on \in deferred'
           /\ p \in overlooked => p \in overlooked',
         alive => \A p \in Proc : \A s \in Sem :
           st[p].at = "asleep" /\ st[p].on[2] = s =>
             \/ st[p].on \in deferred' \/ p \in overlooked'
             \/ semval'[s] = semval[s]
             \/ st[p].on[1] = "semncnt" /\ semval'[s] <= semval[s]
             \/ st[p].on[1] = "semzcnt" /\ semval'[s] # 0
  PROVE  Waiting'
<1> SUFFICES ASSUME NEW p \in Proc, st'[p].at = "asleep"
             PROVE  \/ st'[p].on \in deferred'
                    \/ alive' /\ (p \in overlooked' \/ Held(semval', st'[p]))
  BY DEF Waiting
<1>1. /\ st[p].at = "asleep" /\ st[p].at # "run" /\ st'[p] = st[p]
      /\ st[p].on \in deferred => st[p].on \in deferred'
      /\ p \in overlooked => p \in overlooked'
  OBVIOUS
<1>2. PICK kind \in {"semncnt", "semzcnt"}, s \in Sem : st[p].on = <<kind, s>>
  BY <1>1, BooksAre DEF Event
<1>3. SUFFICES ASSUME alive, st[p].on \notin deferred', p \notin overlooked'
               PROVE  Held(semval', st[p])
  BY <1>1 DEF Waiting
<1>4. Held(semval, st[p])
  BY <1>1, <1>3 DEF Waiting
<1>5. semval \in [Sem -> Int] /\ semval' \in [Sem -> Int]
  BY BooksAre
<1>6. st[p].ops \in Seq(sembuf)
  BY <1>1, ArrayIs DEF Books, Calls
<1>7. \/ semval'[s] = semval[s]
      \/ kind = "semncnt" /\ semval'[s] <= semval[s]
      \/ kind = "semzcnt" /\ semval'[s] # 0
  BY <1>1, <1>2, <1>3
<1>8. semval'[s] \in Int /\ semval[s] \in Int
  BY <1>5
<1>9. /\ kind = "semncnt" => semval'[s] <= semval[s]
      /\ kind = "semzcnt" => semval[s] = 0 \/ semval'[s] # 0
  BY <1>7, <1>8
<1>10. PICK V, W, c : V = semval /\ W = semval' /\ c = st[p]
  OBVIOUS
<1>11. NoBetter(V, W, c)
  <2>1. c.on[1] = kind /\ c.on[2] = s /\ c.ops \in Seq(sembuf)
    BY <1>2, <1>6, <1>10
  <2>2. QED
    BY <1>5, <1>9, <1>10, <2>1 DEF NoBetter
<1>12. QED
  BY <1>4, <1>10, <1>11, HeldKeeps

Testing == \A p \in Proc : \A ops \in Asked[p] : TestsFirst(ops)

LEMMA OutcomeWaiting ==
  ASSUME Parameters, Asking, Testing, Books, Waiting, alive, NEW p \in Proc, NEW ops \in Asked[p],
         st[p].at # "asleep", NEW ncnt, NEW zcnt, CountedBut(p, ncnt, zcnt),
         Outcome(p, ops, ncnt, zcnt)
  PROVE  Waiting'
<1>1. /\ semval \in [Sem -> 0..SEMVMX] /\ semval \in [Sem -> Int] /\ DOMAIN st = Proc
      /\ \A q \in Proc : st[q].at # "run" => st[q].on \in Event
  BY BooksAre
<1>2. /\ semval' \in [Sem -> 0..SEMVMX] /\ semval' \in [Sem -> Int] /\ deferred \subseteq deferred'
      /\ alive' = alive /\ overlooked' = overlooked
      /\ \A s \in Sem :
           /\ semval'[s] > semval[s] /\ ncnt[s] > 0 => <<"semncnt", s>> \in deferred'
           /\ semval'[s] = 0 /\ semval[s] # 0 /\ zcnt[s] > 0 => <<"semzcnt", s>> \in deferred'
  BY DEF Outcome
<1>3. CASE st' = [st EXCEPT ![p] = NoCall]
  <2>1. \A q \in Proc : st'[q].at = "asleep" => q # p /\ st'[q] = st[q] /\ st[q].at = "asleep"
    BY <1>1, <1>3 DEF NoCall
  <2>2. ASSUME NEW q \in Proc, NEW s \in Sem, st[q].at = "asleep", st[q].on[2] = s
        PROVE  \/ st[q].on \in deferred'
               \/ semval'[s] = semval[s]
               \/ st[q].on[1] = "semncnt" /\ semval'[s] <= semval[s]
               \/ st[q].on[1] = "semzcnt" /\ semval'[s] # 0
    <3>1. q # p /\ st[q].at # "run"
      BY <2>2
    <3>2. PICK kind \in {"semncnt", "semzcnt"} : st[q].on = <<kind, s>>
      BY <1>1, <2>2, <3>1 DEF Event
    <3>3. (kind = "semncnt" => ncnt[s] > 0) /\ (kind = "semzcnt" => zcnt[s] > 0)
      BY <3>1, <3>2, SleeperCounted
    <3>4. PICK v \in Int, w \in Int : v = semval[s] /\ w = semval'[s]
      BY <1>1, <1>2
    <3>5. CASE kind = "semncnt"
      <4>1. w > v => <<"semncnt", s>> \in deferred'
        BY <1>2, <3>3, <3>4, <3>5
      <4>2. w > v \/ w <= v
        OBVIOUS
      <4>3. QED
        BY <3>2, <3>4, <3>5, <4>1, <4>2
    <3>6. CASE kind = "semzcnt"
      <4>1. w = 0 /\ v # 0 => <<"semzcnt", s>> \in deferred'
        BY <1>2, <3>3, <3>4, <3>6
      <4>2. QED
        BY <3>2, <3>4, <3>6, <4>1
    <3>7. QED
      BY <3>5, <3>6
  <2>3. QED
    BY <1>2, <2>1, <2>2, WaitingKept
<1>4. ASSUME NEW kind, NEW j, Sleeps(p, ops, ncnt, zcnt, kind, j) PROVE Waiting'
  <2>1. PICK c : c = InCall("asleep", ops, <<kind, ops[j].num>>)
    OBVIOUS
  <2>2. /\ semval' = semval /\ kind \in {"semncnt", "semzcnt"} /\ j \in 1..Len(ops)
        /\ ops[j].num \in Sem /\ Stuck(semval, ops, j, kind) /\ st' = [st EXCEPT ![p] = c]
    BY <1>4, <2>1 DEF Sleeps
  <2>3. c.at = "asleep" /\ c.ops = ops /\ c.on = <<kind, ops[j].num>>
    BY <2>1 DEF InCall
  <2>4. ops \in Seq(sembuf) /\ Orderly(ops) /\ TestsFirst(ops)
    BY ArrayIs DEF Testing
  <2>5. Held(semval, c)
    <3>1. PICK V \in [Sem -> Int], s \in Sem : V = semval /\ s = ops[j].num
      BY <1>1, <2>2
    <3>2. Held(V, c)
      BY <2>2, <2>3, <2>4, <3>1, StuckHeld
    <3>3. QED
      BY <3>1, <3>2
  <2>6. ASSUME NEW q \in Proc, st'[q].at = "asleep"
        PROVE  \/ st'[q].on \in deferred'
               \/ alive' /\ (q \in overlooked' \/ Held(semval', st'[q]))
    <3>1. CASE q = p
      <4>1. st'[q] = c
        BY <1>1, <2>2, <3>1
      <4>2. QED
        BY <1>2, <2>2, <2>5, <4>1
    <3>2. CASE q # p
      <4>1. st'[q] = st[q]
        BY <1>1, <2>2, <3>2
      <4>2. QED
        BY <1>2, <2>2, <2>6, <4>1 DEF Waiting
    <3>3. QED
      BY <3>1, <3>2
  <2>7. QED
    BY <2>6 DEF Waiting
<1>5. QED
  BY <1>3, <1>4 DEF Outcome, Whole, Nothing

(* Any call of semctl() finds a sleeper counted. *)
LEMMA SleeperFound ==
  ASSUME Parameters, Books, alive, NEW q \in Proc, st[q].at # "run"
  PROVE  \E s \in Sem : \/ st[q].on = <<"semncnt", s>> /\ semncnt[s] > 0
                        \/ st[q].on = <<"semzcnt", s>> /\ semzcnt[s] > 0
<1>1. PICK kind \in {"semncnt", "semzcnt"}, s \in Sem : st[q].on = <<kind, s>>
  BY BooksAre DEF Event
<1>2. PICK W : W = WaitersOn(kind, s)
  OBVIOUS
<1>3. q \in W /\ IsFiniteSet(W)
  BY <1>1, <1>2, WaitersAre DEF WaitersOn
<1>4. Cardinality(W) \in Nat /\ Cardinality(W) # 0
  BY <1>3, FS_EmptySet, FS_CardinalityType
<1>5. Cardinality(W) > 0
  BY <1>4
<1>6. /\ kind = "semncnt" => semncnt[s] = Cardinality(W)
      /\ kind = "semzcnt" => semzcnt[s] = Cardinality(W)
  BY <1>2 DEF Books, Counted
<1>7. QED
  BY <1>1, <1>5, <1>6

LEMMA SetValWaiting ==
  ASSUME Parameters, Asking, Books, Waiting, NEW t \in Sem, NEW v \in 0..SEMVMX, SetVal(t, v)
  PROVE  Waiting'
<1>1. /\ alive /\ alive' = alive /\ st' = st /\ overlooked' = overlooked
      /\ deferred \subseteq deferred' /\ semval' = [semval EXCEPT ![t] = v]
      /\ Wakes("semncnt", semncnt, t) \subseteq deferred' \/ v = 0
      /\ Wakes("semzcnt", semzcnt, t) \subseteq deferred' \/ v # 0
  BY DEF SetVal
<1>2. semval \in [Sem -> 0..SEMVMX] /\ semval' \in [Sem -> 0..SEMVMX]
  BY <1>1, BooksAre
<1>3. ASSUME NEW q \in Proc, NEW s \in Sem, st[q].at = "asleep", st[q].on[2] = s
      PROVE  \/ st[q].on \in deferred'
             \/ semval'[s] = semval[s]
             \/ st[q].on[1] = "semncnt" /\ semval'[s] <= semval[s]
             \/ st[q].on[1] = "semzcnt" /\ semval'[s] # 0
  <2>1. st[q].at # "run"
    BY <1>3
  <2>2. \/ st[q].on = <<"semncnt", s>> /\ semncnt[s] > 0
        \/ st[q].on = <<"semzcnt", s>> /\ semzcnt[s] > 0
    BY <1>1, <1>3, <2>1, SleeperFound
  <2>3. CASE s # t
    BY <1>1, <1>2, <2>3
  <2>4. CASE s = t /\ v = 0
    <3>1. semval'[s] = 0 /\ 0 <= semval[s]
      BY <1>1, <1>2, <2>4
    <3>2. st[q].on = <<"semzcnt", s>> /\ semzcnt[s] > 0 => st[q].on \in deferred'
      BY <1>1, <2>4 DEF Wakes
    <3>3. QED
      BY <2>2, <3>1, <3>2
  <2>5. CASE s = t /\ v # 0
    <3>1. semval'[s] # 0
      BY <1>1, <1>2, <2>5
    <3>2. st[q].on = <<"semncnt", s>> /\ semncnt[s] > 0 => st[q].on \in deferred'
      BY <1>1, <2>5 DEF Wakes
    <3>3. QED
      BY <2>2, <3>1, <3>2
  <2>6. QED
    BY <2>3, <2>4, <2>5
<1>4. QED
  BY <1>1, <1>2, <1>3, WaitingKept

LEMMA ChangedWaiting ==
  ASSUME Parameters, Asking, Books, Waiting, NEW S, semval' \in [Sem -> 0..SEMVMX],
         overlooked' = overlooked \cup Changed(S), UNCHANGED <<alive, st, deferred>>,
         alive => \A s \in Sem \ S : semval'[s] = semval[s]
  PROVE  Waiting'
<1>1. \A p \in Proc : \A s \in Sem :
        st[p].at = "asleep" /\ st[p].on[2] = s /\ p \notin overlooked' => s \notin S
  BY DEF Changed
<1>2. QED
  BY <1>1, WaitingKept

LEMMA SetAllWaiting ==
  ASSUME Parameters, Asking, Books, Waiting, NEW new \in [Sem -> 0..SEMVMX], NEW k \in 1..NSEMS,
         SetAll(new, k)
  PROVE  Waiting'
<1> DEFINE S == {s \in 0..(k - 1) : new[s] # semval[s]}
<1>1. /\ semval' = [s \in Sem |-> IF s \in 0..(k - 1) THEN new[s] ELSE semval[s]]
      /\ overlooked' = overlooked \cup Changed(S) /\ UNCHANGED <<alive, st, deferred>>
  BY DEF SetAll
<1>2. semval \in [Sem -> 0..SEMVMX]
  BY BooksAre
<1>3. semval' \in [Sem -> 0..SEMVMX] /\ \A s \in Sem \ S : semval'[s] = semval[s]
  BY <1>1, <1>2
<1> HIDE DEF S
<1>4. QED
  BY <1>1, <1>3, ChangedWaiting

LEMMA ExitWaiting ==
  ASSUME Parameters, Careful, Asking, Books, Waiting, NEW p \in Proc, Exit(p)
  PROVE  Waiting'
<1> DEFINE S == {s \in Sem : Adj(p, s) # 0}
<1>1. overlooked' = overlooked \cup Changed(S) /\ UNCHANGED <<alive, st, deferred>>
  BY DEF Exit
<1>2. /\ semval' \in [Sem -> 0..SEMVMX]
      /\ alive => \A s \in Sem : semval'[s] = semval[s] + AdjOf(semu[p], s)
  BY ExitDoes
<1>3. semval \in [Sem -> 0..SEMVMX]
  BY BooksAre
<1>4. alive => \A s \in Sem \ S : semval'[s] = semval[s]
  <2>1. \A s \in Sem \ S : AdjOf(semu[p], s) = 0
    BY DEF AdjOf, Adj
  <2>2. QED
    BY <1>2, <1>3, <2>1
<1> HIDE DEF S
<1>5. QED
  BY <1>1, <1>2, <1>4, ChangedWaiting

LEMMA RmidWaiting == ASSUME Parameters, Books, Rmid PROVE Waiting'
<1>1. alive /\ st' = st /\ \A s \in Sem : /\ Wakes("semncnt", semncnt, s) \subseteq deferred'
                                         /\ Wakes("semzcnt", semzcnt, s) \subseteq deferred'
  BY DEF Rmid
<1>2. ASSUME NEW q \in Proc, st[q].at = "asleep" PROVE st[q].on \in deferred'
  <2>1. st[q].at # "run"
    BY <1>2
  <2>2. QED
    BY <1>1, <2>1, SleeperFound DEF Wakes
<1>3. QED
  BY <1>1, <1>2 DEF Waiting

LEMMA WakeupWaiting ==
  ASSUME Parameters, Asking, Books, Waiting, NEW e \in deferred, Defend(e) PROVE Waiting'
<1>1. /\ deferred' = deferred \ {e} /\ UNCHANGED <<alive, semval>>
      /\ \A p \in Proc :
           st'[p] = IF st[p].at = "asleep" /\ st[p].on = e THEN [st[p] EXCEPT !.at = "woken"] ELSE st[p]
      /\ \A p \in Proc : p \in overlooked /\ st[p].on # e => p \in overlooked'
  BY DEF Defend
<1>2. semval' \in [Sem -> 0..SEMVMX]
  BY <1>1, BooksAre
<1>3. ASSUME NEW p \in Proc, st'[p].at = "asleep"
      PROVE  st[p].at = "asleep" /\ st'[p] = st[p] /\ st[p].on # e
  <2>1. CASE st[p].at = "asleep" /\ st[p].on = e
    <3>1. st'[p] = [st[p] EXCEPT !.at = "woken"]
      BY <1>1, <2>1
    <3>2. st[p] \in [at : {"asleep", "woken", "signalled"}, ops : UNION {Asked[q] : q \in Proc},
                     on : Event]
      BY <2>1, BooksAre DEF Places, NoCall
    <3>3. st'[p].at = "woken"
      BY <3>1, <3>2
    <3>4. QED
      BY <1>3, <3>3
  <2>2. QED
    BY <1>1, <1>3, <2>1
<1>4. QED
  BY <1>1, <1>2, <1>3, WaitingKept

LEMMA SignalWaiting ==
  ASSUME Parameters, Asking, Books, Waiting, NEW p \in Proc, Signal(p) PROVE Waiting'
<1>1. /\ overlooked' = overlooked \ {p} /\ st' = [st EXCEPT ![p].at = "signalled"]
      /\ st[p].at = "asleep" /\ UNCHANGED <<alive, semval, deferred>>
  BY DEF Signal
<1>2. semval \in [Sem -> 0..SEMVMX] /\ st \in [Proc -> Places]
  BY BooksAre
<1>3. st[p] \in [at : {"asleep", "woken", "signalled"}, ops : UNION {Asked[q] : q \in Proc},
                 on : Event]
  BY <1>1, <1>2 DEF Places, NoCall
<1>4. PICK c : c = [st[p] EXCEPT !.at = "signalled"]
  OBVIOUS
<1>5. c.at = "signalled" /\ st' = [st EXCEPT ![p] = c]
  BY <1>1, <1>3, <1>4
<1>6. \A q \in Proc : st'[q].at = "asleep" => q # p /\ st'[q] = st[q]
  BY <1>2, <1>5
<1>7. QED
  BY <1>1, <1>2, <1>6, WaitingKept

LEMMA ReturnWaiting ==
  ASSUME Parameters, Asking, Books, Waiting, NEW p \in Proc, st' = [st EXCEPT ![p] = NoCall],
         UNCHANGED <<alive, semval, deferred, overlooked>>
  PROVE  Waiting'
<1>1. semval \in [Sem -> 0..SEMVMX] /\ st \in [Proc -> Places]
  BY BooksAre
<1>2. \A q \in Proc : st'[q].at = "asleep" => st'[q] = st[q]
  BY <1>1 DEF NoCall
<1>3. QED
  BY <1>1, <1>2, WaitingKept

LEMMA WaitingStep ==
  ASSUME Parameters, Asking, Testing, Careful, Garbage = {0}, Books, Waiting, [Next]_vars
  PROVE  Waiting'
<1>1. ASSUME NEW p \in Proc, NEW ops \in Asked[p], Semop(p, ops) PROVE Waiting'
  <2>1. alive /\ st[p].at = "run" /\ Outcome(p, ops, semncnt, semzcnt)
    BY <1>1, SemopBooks DEF Semop, NoCall
  <2>2. CountedBut(p, semncnt, semzcnt)
    <3>1. \A kind, s : WaitersOn(kind, s) \ {p} = WaitersOn(kind, s)
      BY <2>1 DEF WaitersOn
    <3>2. QED
      BY <2>1, <3>1 DEF Books, Counted, CountedBut
  <2>3. QED
    BY <2>1, <2>2, OutcomeWaiting
<1>2. ASSUME NEW p \in Proc, TryAgain(p) PROVE Waiting'
  <2>1. PICK ops, ncnt, zcnt :
          ops \in Asked[p] /\ alive /\ st[p].at = "woken" /\ CountedBut(p, ncnt, zcnt) /\ Outcome(p, ops, ncnt, zcnt)
    BY <1>2, TryAgainBooks
  <2>2. QED
    BY <2>1, OutcomeWaiting
<1>3. ASSUME NEW p \in Proc, Interrupted(p) \/ Removed(p) PROVE Waiting'
  BY <1>3, ReturnWaiting DEF Interrupted, Removed
<1>4. ASSUME NEW p \in Proc, Exit(p) PROVE Waiting'
  BY <1>4, ExitWaiting
<1>5. ASSUME NEW p \in Proc, Signal(p) PROVE Waiting'
  BY <1>5, SignalWaiting
<1>6. ASSUME NEW s \in Sem, NEW v \in 0..SEMVMX, SetVal(s, v) PROVE Waiting'
  BY <1>6, SetValWaiting
<1>7. ASSUME NEW new \in [Sem -> 0..SEMVMX], NEW k \in 1..NSEMS, SetAll(new, k) PROVE Waiting'
  BY <1>7, SetAllWaiting
<1>8. ASSUME NEW e \in deferred, Defend(e) PROVE Waiting'
  BY <1>8, WakeupWaiting
<1>9. CASE Rmid
  BY <1>9, RmidWaiting
<1>10. CASE Semget
  BY <1>10 DEF Semget, NoCall, Waiting
<1>11. CASE UNCHANGED vars
  BY <1>11 DEF vars, Waiting, Held, Short
<1>12. QED
  BY <1>1, <1>2, <1>3, <1>4, <1>5, <1>6, <1>7, <1>8, <1>9, <1>10, <1>11 DEF Next

-----------------------------------------------------------------------------
(* A step performs an array of operations whole, or is one of semctl(), an exit or
   semget(), or changes nothing of the semaphores. *)

View == [p \in Proc |-> [s \in Sem |-> AdjOf(semu[p], s)]]

LEMMA ViewIs == View = [p \in Proc |-> View[p]] /\ View' = [p \in Proc |-> View'[p]]
BY DEF View

LEMMA PerformImplements ==
  ASSUME alive, alive' = alive, semval' \in [Sem -> 0..SEMVMX],
         NEW p \in Proc, NEW ops, \A k \in 1..Len(ops) : Possible(semval, ops, k),
         \A s \in Sem : semval'[s] = semval[s] + Added(ops, Len(ops), s),
         \A s \in Sem : AdjOf(semu'[p], s) = AdjOf(semu[p], s) - Taken(ops, Len(ops), s),
         \A q \in Proc : q # p => semu'[q] = semu[q]
  PROVE  A!Perform(p, ops)
<1>1. A!Possible(ops)
  BY DEF A!Possible, A!Semaphores, Sem, Possible, Added
<1>2. semval' = [s \in A!Semaphores |-> semval[s] + A!Added(ops, Len(ops), s)]
  <2>1. semval' = [s \in Sem |-> semval[s] + Added(ops, Len(ops), s)]
    OBVIOUS
  <2>2. QED
    BY <2>1 DEF A!Semaphores, Sem, Added
<1>3. \A s : A!Undoable(ops, s) = Taken(ops, Len(ops), s)
  BY Zenon DEF A!Undoable, Taken, Undoing
<1>4. View' = [View EXCEPT ![p] = [s \in Sem |-> View[p][s] - A!Undoable(ops, s)]]
  <2>1. View'[p] = [s \in Sem |-> View[p][s] - A!Undoable(ops, s)]
    <3>1. View'[p] = [s \in Sem |-> AdjOf(semu'[p], s)]
      BY DEF View
    <3>2. \A s \in Sem : View[p][s] = AdjOf(semu[p], s)
      BY DEF View
    <3>3. QED
      BY <1>3, <3>1, <3>2
  <2>2. \A q \in Proc : q # p => View'[q] = View[q]
    BY DEF View
  <2>3. QED
    BY <2>1, <2>2, ViewIs
<1>5. /\ Adjustments = View
      /\ Adjustments' = View'
  BY DEF View, Adjustments, Adj, AdjOf
<1>6. QED
  BY <1>1, <1>2, <1>4, <1>5 DEF A!Perform, A!Semaphores, Sem

LEMMA SetImplements ==
  ASSUME alive, alive' = alive, NEW S, semval' \in [Sem -> 0..SEMVMX],
         \A s \in Sem \ S : semval'[s] = semval[s],
         \A p \in Proc : \A s \in Sem :
           AdjOf(semu'[p], s) = IF s \in S THEN 0 ELSE AdjOf(semu[p], s)
  PROVE  A!Set(S)
<1>1. View' = [p \in Proc |-> [s \in Sem |-> IF s \in S THEN 0 ELSE View[p][s]]]
  BY DEF View
<1>2. /\ Adjustments = View
      /\ Adjustments' = View'
  BY DEF View, Adjustments, Adj, AdjOf
<1>3. QED
  BY <1>1, <1>2 DEF A!Set, A!Values, A!Semaphores, Sem

LEMMA ExitImplements ==
  ASSUME Parameters, Careful, Books, NEW p \in Proc, Exit(p)
  PROVE  A!Exit(p)
<1>1. /\ semval' \in [Sem -> 0..SEMVMX]
      /\ ~alive => semval' = semval
      /\ alive => \A s \in Sem : semval'[s] = semval[s] + AdjOf(semu[p], s)
      /\ semu' = [semu EXCEPT ![p] = << >>] /\ alive' = alive
  BY ExitDoes DEF Exit
<1>2. semu \in [Proc -> Adjusts]
  BY BooksAre
<1>3. \A s : AdjOf(semu'[p], s) = 0
  BY <1>1, <1>2, NoAdjusts
<1>4. \A q \in Proc : q # p => semu'[q] = semu[q]
  BY <1>1, <1>2
<1>5. View' = [View EXCEPT ![p] = [s \in Sem |-> 0]]
  BY <1>3, <1>4 DEF View
<1>6. alive => semval' = [s \in Sem |-> semval[s] + View[p][s]]
  <2>1. \A s \in Sem : View[p][s] = AdjOf(semu[p], s)
    BY DEF View
  <2>2. QED
    BY <1>1, <2>1
<1>7. /\ Adjustments = View
      /\ Adjustments' = View'
  BY DEF View, Adjustments, Adj, AdjOf
<1>8. QED
  BY <1>1, <1>5, <1>6, <1>7 DEF A!Exit, A!Values, A!Semaphores, Sem

(* What the abstract set is made of stays as it is. *)
Same == alive' = alive /\ semval' = semval /\ View' = View

LEMMA SameIs == ASSUME Same
  PROVE  UNCHANGED <<alive, semval, Adjustments>>
BY DEF Same, View, Adjustments, Adj, AdjOf

LEMMA OutcomeImplements ==
  ASSUME Parameters, Books, alive, NEW p \in Proc, NEW ops \in Asked[p], NEW ncnt, NEW zcnt,
         Outcome(p, ops, ncnt, zcnt)
  PROVE  A!Perform(p, ops) \/ Same
<1>1. PICK u \in Adjusts : semu' = [semu EXCEPT ![p] = u]
  BY DEF Outcome
<1>2. semu \in [Proc -> Adjusts]
  BY BooksAre
<1>3. \A q \in Proc : q # p => semu'[q] = semu[q]
  BY <1>1, <1>2
<1>4. alive' = alive /\ semval' \in [Sem -> 0..SEMVMX]
  BY DEF Outcome
<1>5. CASE Whole(p, ops, ncnt, zcnt)
  BY <1>3, <1>4, <1>5, PerformImplements DEF Whole
<1>6. CASE semval' = semval /\ \A s \in Sem : AdjOf(semu'[p], s) = AdjOf(semu[p], s)
  BY <1>3, <1>4, <1>6 DEF Same, View
<1>7. QED
  BY <1>5, <1>6 DEF Outcome, Nothing, Sleeps

LEMMA FirstImplements == ASSUME Init PROVE A!Init
<1>1. Adjustments = [q \in Proc |-> [s \in Sem |-> 0]]
  BY DEF Init, Adjustments, Adj
<1>2. QED
  BY <1>1 DEF Init, A!Init, A!Semaphores, Sem

LEMMA StepImplements ==
  ASSUME Parameters, Asking, Careful, Garbage = {0}, Books, [Next]_vars
  PROVE  A!Next \/ Same
<1>1. /\ semu \in [Proc -> Adjusts] /\ semval \in [Sem -> 0..SEMVMX]
  BY BooksAre
<1>2. ASSUME NEW p \in Proc, NEW ops \in Asked[p], Semop(p, ops) PROVE A!Next \/ Same
  <2>1. alive /\ Outcome(p, ops, semncnt, semzcnt)
    BY <1>2, SemopBooks DEF Semop
  <2>2. QED
    BY <2>1, OutcomeImplements DEF A!Next
<1>3. ASSUME NEW p \in Proc, TryAgain(p) PROVE A!Next \/ Same
  <2>1. PICK ops, ncnt, zcnt :
          ops \in Asked[p] /\ alive /\ Outcome(p, ops, ncnt, zcnt)
    BY <1>3, TryAgainBooks
  <2>2. QED
    BY <2>1, OutcomeImplements DEF A!Next
<1>4. ASSUME NEW p \in Proc, Exit(p) PROVE A!Next
  BY <1>4, ExitImplements DEF A!Next
<1>5. ASSUME NEW s \in Sem, NEW v \in 0..SEMVMX, SetVal(s, v) PROVE A!Next
  <2>1. /\ alive /\ alive' = alive /\ semval' = [semval EXCEPT ![s] = v] /\ semu' = ClearAdj({s})
    BY <1>5 DEF SetVal
  <2>2. \A p \in Proc : \A x \in Sem :
          AdjOf(semu'[p], x) = IF x \in {s} THEN 0 ELSE AdjOf(semu[p], x)
    BY <1>1, <2>1, ClearAdjIs
  <2>3. semval' \in [Sem -> 0..SEMVMX] /\ \A x \in Sem \ {s} : semval'[x] = semval[x]
    BY <1>1, <2>1
  <2>4. A!Set({s})
    BY <2>1, <2>2, <2>3, SetImplements
  <2>5. QED
    BY <2>4 DEF A!Next, A!Semaphores, Sem
<1>6. ASSUME NEW new \in [Sem -> 0..SEMVMX], NEW k \in 1..NSEMS, SetAll(new, k) PROVE A!Next
  <2>1. PICK s \in Sem : s = k - 1
    BY DEF Sem, Parameters
  <2>2. /\ alive /\ alive' = alive /\ semu' = ClearAdj(0..s)
        /\ semval' = [x \in Sem |-> IF x \in 0..s THEN new[x] ELSE semval[x]]
    BY <1>6, <2>1 DEF SetAll
  <2>3. \A p \in Proc : \A x \in Sem :
          AdjOf(semu'[p], x) = IF x \in 0..s THEN 0 ELSE AdjOf(semu[p], x)
    <3>1. PICK S : S = 0..s
      OBVIOUS
    <3>2. semu' = ClearAdj(S)
      BY <2>2, <3>1
    <3>3. \A p \in Proc : \A x \in Sem :
            AdjOf(semu'[p], x) = IF x \in S THEN 0 ELSE AdjOf(semu[p], x)
      BY <1>1, <3>2, ClearAdjIs
    <3>4. QED
      BY <3>1, <3>3
  <2>4. semval' \in [Sem -> 0..SEMVMX] /\ \A x \in Sem \ (0..s) : semval'[x] = semval[x]
    BY <1>1, <2>2
  <2>5. A!Set(0..s)
    BY <2>2, <2>3, <2>4, SetImplements
  <2>6. QED
    BY <2>5 DEF A!Next, A!Semaphores, Sem
<1>7. CASE Rmid
  <2>1. A!Discard
    <3>1. UNCHANGED Adjustments
      BY <1>7 DEF Rmid, Adjustments, Adj
    <3>2. QED
      BY <1>7, <3>1 DEF Rmid, A!Discard
  <2>2. QED
    BY <2>1 DEF A!Next
<1>8. CASE Semget
  <2>1. A!Create
    <3>1. UNCHANGED Adjustments
      BY <1>8 DEF Semget, Adjustments, Adj
    <3>2. QED
      BY <1>8, <3>1 DEF Semget, A!Create, A!Semaphores, Sem
  <2>2. QED
    BY <2>1 DEF A!Next
<1>9. CASE \/ \E p \in Proc : Interrupted(p) \/ Removed(p) \/ Signal(p)
           \/ \E e \in deferred : Defend(e)
           \/ UNCHANGED vars
  BY <1>9 DEF Interrupted, Removed, Signal, Defend, vars, Same, View
<1>10. QED
  BY <1>2, <1>3, <1>4, <1>5, <1>6, <1>7, <1>8, <1>9 DEF Next

-----------------------------------------------------------------------------
(* The state and the counters have their types, for any processes, semaphores and
   arrays that name the semaphores from the first on, none twice but by the last
   operation: values between 0 and SEMVMX, adjust values in their range, no counter
   below 0 or above the number of processes. *)
THEOREM Typed ==
  ASSUME Parameters, Asking, Careful, Garbage = {0}
  PROVE  Spec => []TypeOK
<1>1. Init => Books
  BY FirstBooks
<1>2. Books /\ [Next]_vars => Books'
  BY BooksStep
<1>3. Books => TypeOK
  BY DEF Books
<1>4. QED
  BY <1>1, <1>2, <1>3, PTL DEF Spec

(* usemop() with semundo(): an array of operations is performed whole or not at all,
   values and adjust values both, under the same assumptions. *)
THEOREM AllOrNothing ==
  ASSUME Parameters, Asking, Careful, Garbage = {0}
  PROVE  Spec => ImplementsSemops
<1>1. Init => Books
  BY FirstBooks
<1>2. Books /\ [Next]_vars => Books'
  BY BooksStep
<1>3. Init => A!Init
  BY FirstImplements
<1>4. Books /\ [Next]_vars
        => [A!Next]_<<alive, semval, Adjustments>>
  BY StepImplements, SameIs
<1>5. QED
  BY <1>1, <1>2, <1>3, <1>4, PTL DEF Spec, ImplementsSemops, A!Spec

(* semwait() and the wakeups of usemop() and semctl(): no process sleeps while all it
   asks for is possible or the set is gone, unless it will be woken or was overlooked,
   where in addition no array tests for 0 a semaphore it has changed before. *)
THEOREM NoneStranded ==
  ASSUME Parameters, Asking, Testing, Careful, Garbage = {0}
  PROVE  Spec => []NobodyStranded
<1> DEFINE IInv == Books /\ Waiting
<1>1. Init => IInv
  BY FirstBooks DEF Init, NoCall, Waiting
<1>2. IInv /\ [Next]_vars => IInv'
  BY BooksStep, WaitingStep
<1>3. IInv => NobodyStranded
  <2> SUFFICES ASSUME Books, Waiting, NEW p \in Proc, st[p].at = "asleep"
               PROVE  \/ st[p].on \in deferred
                      \/ alive /\ (p \in overlooked \/ ~A!Possible(st[p].ops))
    BY DEF NobodyStranded
  <2>1. semval \in [Sem -> Int] /\ st[p].at # "run"
    BY BooksAre
  <2>2. st[p].ops \in Seq(sembuf)
    BY <2>1, ArrayIs DEF Books, Calls
  <2>3. Held(semval, st[p]) => ~A!Possible(st[p].ops)
    <3>1. PICK c : c = st[p]
      OBVIOUS
    <3>2. QED
      BY <2>1, <2>2, <3>1, HeldNot
  <2>4. QED
    BY <2>3 DEF Waiting
<1>4. QED
  BY <1>1, <1>2, <1>3, PTL DEF Spec
=============================================================================
