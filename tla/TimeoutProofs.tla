--------------------------- MODULE TimeoutProofs ---------------------------
(***************************************************************************)
(* Theorems about the timer lists, for every set of timers, number of      *)
(* lists, width of lbolt and set of delays.                                *)
(***************************************************************************)
EXTENDS Timeout, FiniteSetTheorems, WellFoundedInduction, TLAPS

(* n % w where it is n, n - w or n + w. *)
LEMMA ModSmall == ASSUME NEW w \in Nat \ {0}, NEW n \in 0..(w - 1) PROVE n % w = n
OBVIOUS

LEMMA ModAbove == ASSUME NEW w \in Nat \ {0}, NEW n \in w..(2 * w - 1) PROVE n % w = n - w
OBVIOUS

LEMMA ModBelow == ASSUME NEW w \in Nat \ {0}, NEW n \in (-w)..(-1) PROVE n % w = n + w
OBVIOUS

-----------------------------------------------------------------------------
Links == [next : [Node -> Timer \cup {NULL}], last : [Timer -> Node \cup {NULL}]]

(* LinksAgree, of given links and ticks. *)
Linked(l, w) ==
  /\ \A t \in Timer : l.last[t] # NULL =>
       /\ l.next[l.last[t]] = t
       /\ l.last[t] \in Queue => l.last[t] = w[t] % NTIMQ
       /\ l.last[t] \in Timer => /\ l.last[l.last[t]] # NULL
                                 /\ w[l.last[t]] % NTIMQ = w[t] % NTIMQ
  /\ \A k \in Node : (k \in Timer => l.last[k] # NULL) /\ l.next[k] # NULL =>
       l.last[l.next[k]] = k

LEMMA LinkedIsLinksAgree == LinksAgree <=> Linked(tq, when)
BY DEF LinksAgree, Linked, Armed

-----------------------------------------------------------------------------
(* Unlink() and Insert() *)

LEMMA UnlinkType ==
  ASSUME NEW l \in Links, NEW t \in Timer
  PROVE  Unlink(l, t) \in Links
<1>1. CASE l.last[t] = NULL
  BY <1>1 DEF Unlink
<1>2. CASE l.last[t] # NULL
  <2>1. l.last[t] \in Node /\ t \in Node
    BY <1>2 DEF Links, Node
  <2>2. [l.next EXCEPT ![l.last[t]] = l.next[t]] \in [Node -> Timer \cup {NULL}]
    BY <2>1 DEF Links
  <2>3. [u \in Timer |-> IF u = t THEN NULL
                         ELSE IF u = l.next[t] THEN l.last[t] ELSE l.last[u]]
          \in [Timer -> Node \cup {NULL}]
    BY DEF Links
  <2>4. QED
    BY <1>2, <2>2, <2>3 DEF Unlink, Links
<1>3. QED
  BY <1>1, <1>2

LEMMA InsertType ==
  ASSUME NEW l \in Links, NEW t \in Timer, NEW qp \in Queue
  PROVE  Insert(l, t, qp) \in Links
<1>1. t \in Node /\ qp \in Node
  BY DEF Node
<1>2. [l.next EXCEPT ![t] = l.next[qp], ![qp] = t] \in [Node -> Timer \cup {NULL}]
  BY <1>1 DEF Links
<1>3. [u \in Timer |-> IF u = t THEN qp ELSE IF u = l.next[qp] THEN t ELSE l.last[u]]
        \in [Timer -> Node \cup {NULL}]
  BY <1>1 DEF Links
<1>4. QED
  BY <1>2, <1>3 DEF Insert, Links

(* A timer is taken out, the others stay in, and the links still agree. *)
LEMMA UnlinkLinked ==
  ASSUME NEW l \in Links, NEW w, NEW t \in Timer, Linked(l, w)
  PROVE  /\ Linked(Unlink(l, t), w)
         /\ Unlink(l, t).last[t] = NULL
         /\ \A u \in Timer \ {t} : Unlink(l, t).last[u] = NULL <=> l.last[u] = NULL
<1> DEFINE m == Unlink(l, t)
           k == l.last[t]
           n == l.next[t]
<1>1. CASE k = NULL
  BY <1>1 DEF Unlink
<1>2. CASE k # NULL
  <2>1. k \in Node /\ n \in Timer \cup {NULL} /\ t \in Node
    BY <1>2 DEF Links, Node
  <2>2. /\ \A x \in Node : m.next[x] = IF x = k THEN n ELSE l.next[x]
        /\ \A u \in Timer : m.last[u] = IF u = t THEN NULL ELSE IF u = n THEN k ELSE l.last[u]
    BY <1>2, <2>1 DEF Unlink, Links
  <2>3. /\ NULL \notin Timer /\ NULL \notin Queue /\ Timer \cap Queue = {}
        /\ t # NULL /\ NULL \notin Node
    BY TimeoutAssumption DEF Node
  <2>4. l.next[k] = t /\ (n # NULL => l.last[n] = t)
    BY <1>2, <2>1 DEF Linked
  <2>5. n # t <=> k # t
    BY <2>1, <2>4, <1>2, <2>3 DEF Linked
  <2> HIDE DEF m
  <2>7. ASSUME NEW u \in Timer, m.last[u] # NULL
        PROVE  /\ m.next[m.last[u]] = u
               /\ m.last[u] \in Queue => m.last[u] = w[u] % NTIMQ
               /\ m.last[u] \in Timer => /\ m.last[m.last[u]] # NULL
                                         /\ w[m.last[u]] % NTIMQ = w[u] % NTIMQ
    <3>1. u # t
      BY <2>2, <2>7
    <3>2. CASE u = n
      <4>1. m.last[u] = k /\ m.next[k] = u /\ k # t
        BY <3>1, <3>2, <2>1, <2>2, <2>5
      <4>2. l.last[u] = t
        BY <3>2, <2>4, <2>3 DEF Node
      <4>3. k \in Queue => k = w[u] % NTIMQ
        BY <4>2, <1>2, <2>3 DEF Linked
      <4>4. k \in Timer => m.last[k] # NULL /\ w[k] % NTIMQ = w[u] % NTIMQ
        BY <4>1, <4>2, <1>2, <2>1, <2>2, <2>3 DEF Linked, Node
      <4>5. QED
        BY <4>1, <4>3, <4>4
    <3>3. CASE u # n
      <4>1. m.last[u] = l.last[u] /\ l.last[u] # NULL /\ l.last[u] \in Node
        BY <3>1, <3>3, <2>2, <2>7 DEF Links
      <4>2. l.next[l.last[u]] = u
        BY <4>1 DEF Linked
      <4>3. l.last[u] # k /\ l.last[u] # t
        BY <4>2, <2>4, <3>1, <3>3
      <4>4. QED
        BY <4>1, <4>2, <4>3, <2>2, <2>3, <1>2 DEF Linked
    <3>4. QED
      BY <3>2, <3>3
  <2>8. ASSUME NEW x \in Node, x \in Timer => m.last[x] # NULL, m.next[x] # NULL
        PROVE  m.last[m.next[x]] = x
    <3>1. x # t
      BY <2>2, <2>8
    <3>2. x \in Timer => l.last[x] # NULL
      BY <3>1, <2>2, <2>3, <2>4, <2>8
    <3>3. CASE x = k
      BY <3>1, <3>3, <2>1, <2>2, <2>5, <2>8
    <3>4. CASE x # k
      <4>1. m.next[x] = l.next[x] /\ l.next[x] \in Timer
        BY <3>4, <2>2, <2>8 DEF Links
      <4>2. l.last[l.next[x]] = x
        BY <4>1, <3>2, <2>8 DEF Linked
      <4>3. l.next[x] # t /\ l.next[x] # n
        BY <4>1, <4>2, <3>1, <3>4, <2>3, <2>4
      <4>4. QED
        BY <4>1, <4>2, <4>3, <2>2
    <3>5. QED
      BY <3>3, <3>4
  <2>9. QED
    BY <2>1, <2>2, <2>3, <2>4, <2>7, <2>8, <1>2 DEF Linked, m
<1>3. QED
  BY <1>1, <1>2

(* A timer that is in no list is put at the head of that of its tick. *)
LEMMA InsertLinked ==
  ASSUME NEW l \in Links, NEW w \in [Timer -> Nat], NEW t \in Timer, NEW n \in Nat,
         Linked(l, w), l.last[t] = NULL
  PROVE  /\ n % NTIMQ \in Queue
         /\ Linked(Insert(l, t, n % NTIMQ), [w EXCEPT ![t] = n])
         /\ Insert(l, t, n % NTIMQ).last[t] # NULL
         /\ \A u \in Timer \ {t} :
              Insert(l, t, n % NTIMQ).last[u] = NULL <=> l.last[u] = NULL
<1> DEFINE qp == n % NTIMQ
           m == Insert(l, t, qp)
           v == [w EXCEPT ![t] = n]
           h == l.next[qp]
<1>1. qp \in Queue
  BY TimeoutAssumption DEF Queue
<1>2. /\ NULL \notin Timer /\ NULL \notin Queue /\ Timer \cap Queue = {}
      /\ t \in Node /\ qp \in Node /\ qp # t /\ t # NULL /\ qp # NULL
  BY <1>1, TimeoutAssumption DEF Node
<1>3. /\ \A x \in Node : m.next[x] = IF x = qp THEN t ELSE IF x = t THEN h ELSE l.next[x]
      /\ \A u \in Timer : m.last[u] = IF u = t THEN qp ELSE IF u = h THEN t ELSE l.last[u]
      /\ \A u \in Timer : v[u] = IF u = t THEN n ELSE w[u]
  BY <1>2 DEF Insert, Links
<1>4. h \in Timer \cup {NULL} /\ (h # NULL => l.last[h] = qp /\ h # t)
  <2>1. h \in Timer \cup {NULL} /\ qp \notin Timer
    BY <1>1, <1>2 DEF Links
  <2>2. h # NULL => l.last[h] = qp
    BY <1>2, <2>1 DEF Linked
  <2>3. QED
    BY <1>2, <2>1, <2>2
<1> HIDE DEF m, v, qp, h
<1>5. ASSUME NEW u \in Timer, m.last[u] # NULL
      PROVE  /\ m.next[m.last[u]] = u
             /\ m.last[u] \in Queue => m.last[u] = v[u] % NTIMQ
             /\ m.last[u] \in Timer => /\ m.last[m.last[u]] # NULL
                                       /\ v[m.last[u]] % NTIMQ = v[u] % NTIMQ
  <2>1. CASE u = t
    BY <2>1, <1>1, <1>2, <1>3 DEF qp
  <2>2. CASE u = h
    <3>1. u # t /\ m.last[u] = t /\ m.next[t] = u /\ m.last[t] = qp
      BY <2>2, <1>2, <1>3, <1>4
    <3>2. w[u] % NTIMQ = qp
      BY <2>2, <1>1, <1>2, <1>4 DEF Linked
    <3>3. v[t] = n /\ v[u] = w[u]
      BY <3>1, <1>3
    <3>4. QED
      BY <3>1, <3>2, <3>3, <1>2 DEF qp
  <2>3. CASE u # t /\ u # h
    <3>1. m.last[u] = l.last[u] /\ l.last[u] # NULL /\ l.last[u] \in Node
      BY <2>3, <1>3, <1>5 DEF Links
    <3>2. l.next[l.last[u]] = u
      BY <3>1 DEF Linked
    <3>3. l.last[u] # qp
      BY <2>3, <3>2 DEF h
    <3>4. l.last[u] # t
      BY <3>1 DEF Linked
    <3>5. /\ l.last[u] \in Queue => l.last[u] = w[u] % NTIMQ
          /\ l.last[u] \in Timer => /\ l.last[l.last[u]] # NULL
                                    /\ w[l.last[u]] % NTIMQ = w[u] % NTIMQ
      BY <3>1 DEF Linked
    <3>6. QED
      BY <2>3, <3>1, <3>2, <3>3, <3>4, <3>5, <1>2, <1>3
  <2>4. QED
    BY <2>1, <2>2, <2>3
<1>6. ASSUME NEW x \in Node, x \in Timer => m.last[x] # NULL, m.next[x] # NULL
      PROVE  m.last[m.next[x]] = x
  <2>1. CASE x = qp
    BY <2>1, <1>2, <1>3
  <2>2. CASE x = t
    BY <2>2, <1>2, <1>3, <1>4, <1>6
  <2>3. CASE x # qp /\ x # t
    <3>1. m.next[x] = l.next[x] /\ l.next[x] \in Timer
      BY <2>3, <1>3, <1>6 DEF Links
    <3>2. x \in Timer => l.last[x] # NULL
      BY <2>3, <1>2, <1>3, <1>4, <1>6
    <3>3. l.last[l.next[x]] = x
      BY <3>1, <3>2, <1>2 DEF Linked
    <3>4. l.next[x] # t /\ l.next[x] # h
      BY <3>1, <3>3, <2>3, <1>2, <1>4, l.last[t] = NULL DEF Node
    <3>5. QED
      BY <3>1, <3>3, <3>4, <1>3
  <2>4. QED
    BY <2>1, <2>2, <2>3
<1>7. Linked(m, v)
  BY <1>5, <1>6 DEF Linked
<1>8. m.last[t] # NULL /\ \A u \in Timer \ {t} : m.last[u] = NULL <=> l.last[u] = NULL
  BY <1>2, <1>3, <1>4
<1>9. QED
  BY <1>1, <1>7, <1>8 DEF m, v, qp

-----------------------------------------------------------------------------
(* No timer comes before itself: the lists are ordered by some numbering, in
   which a timer put at the head gets a number below that of the old head. *)
Ordered(l) ==
  \E f \in [Timer -> Int] :
    \A u \in Timer : l.last[u] \in Timer => f[l.last[u]] < f[u]

LEMMA UnlinkOrdered ==
  ASSUME NEW l \in Links, NEW w, NEW t \in Timer, Linked(l, w), Ordered(l)
  PROVE  Ordered(Unlink(l, t))
<1>1. PICK f \in [Timer -> Int] :
        \A u \in Timer : l.last[u] \in Timer => f[l.last[u]] < f[u]
  BY DEF Ordered
<1>2. CASE l.last[t] = NULL
  BY <1>2 DEF Unlink
<1>3. CASE l.last[t] # NULL
  <2> DEFINE m == Unlink(l, t)
  <2>1. l.last[t] \in Node /\ NULL \notin Timer /\ l.next[l.last[t]] = t
    BY <1>3, TimeoutAssumption DEF Links, Linked
  <2>2. \A u \in Timer : m.last[u] = IF u = t THEN NULL
                                    ELSE IF u = l.next[t] THEN l.last[t] ELSE l.last[u]
    BY <1>3 DEF Unlink
  <2> HIDE DEF m
  <2>3. ASSUME NEW u \in Timer, m.last[u] \in Timer
        PROVE  f[m.last[u]] < f[u]
    <3>1. u # t
      BY <2>1, <2>2, <2>3
    <3>2. CASE u = l.next[t]
      <4>1. t \in Node /\ u # NULL
        BY <2>1 DEF Node
      <4>2. l.last[u] = t /\ m.last[u] = l.last[t]
        BY <1>3, <2>2, <3>1, <3>2, <4>1 DEF Linked
      <4>3. f[l.last[t]] < f[t] /\ f[t] < f[u]
        BY <1>1, <2>3, <4>2
      <4>4. f[l.last[t]] \in Int /\ f[t] \in Int /\ f[u] \in Int
        BY <1>1, <2>3, <4>2
      <4>5. QED
        BY <4>2, <4>3, <4>4
    <3>3. CASE u # l.next[t]
      BY <1>1, <2>2, <2>3, <3>1, <3>3
    <3>4. QED
      BY <3>2, <3>3
  <2>4. QED
    BY <1>1, <2>3 DEF Ordered, m
<1>4. QED
  BY <1>2, <1>3

LEMMA InsertOrdered ==
  ASSUME NEW l \in Links, NEW w, NEW t \in Timer, NEW qp \in Queue,
         Linked(l, w), Ordered(l), l.last[t] = NULL
  PROVE  Ordered(Insert(l, t, qp))
<1>1. PICK f \in [Timer -> Int] :
        \A u \in Timer : l.last[u] \in Timer => f[l.last[u]] < f[u]
  BY DEF Ordered
<1> DEFINE m == Insert(l, t, qp)
           h == l.next[qp]
           g == [f EXCEPT ![t] = IF h \in Timer THEN f[h] - 1 ELSE 0]
<1>2. qp \notin Timer /\ NULL \notin Timer /\ qp # NULL /\ t # NULL
  BY TimeoutAssumption
<1>3. h \in Timer => l.last[h] = qp /\ h # t
  <2>1. qp \in Node
    BY DEF Node
  <2>2. QED
    BY <1>2, <2>1 DEF Linked
<1>4. \A u \in Timer : m.last[u] = IF u = t THEN qp ELSE IF u = h THEN t ELSE l.last[u]
  BY DEF Insert
<1>5. g \in [Timer -> Int]
  BY <1>1
<1>6. \A u \in Timer : g[u] = IF u = t THEN (IF h \in Timer THEN f[h] - 1 ELSE 0) ELSE f[u]
  BY <1>1
<1> HIDE DEF m, g, h
<1>7. ASSUME NEW u \in Timer, m.last[u] \in Timer
      PROVE  g[m.last[u]] < g[u]
  <2>1. u # t
    BY <1>2, <1>4, <1>7
  <2>2. CASE u = h
    <3>1. m.last[u] = t /\ g[t] = f[u] - 1 /\ g[u] = f[u] /\ f[u] \in Int
      BY <1>1, <1>4, <1>6, <2>1, <2>2
    <3>2. QED
      BY <3>1
  <2>3. CASE u # h
    <3>1. m.last[u] = l.last[u] /\ f[l.last[u]] < f[u]
      BY <1>1, <1>4, <1>7, <2>1, <2>3
    <3>2. l.last[u] # t
      BY <1>2, <1>7, <3>1 DEF Linked
    <3>3. QED
      BY <1>6, <1>7, <2>1, <3>1, <3>2
  <2>4. QED
    BY <2>2, <2>3
<1>8. QED
  BY <1>5, <1>7 DEF Ordered, m

-----------------------------------------------------------------------------
(* Types *)

LEMMA TickType ==
  ASSUME TypeOK, NEW n \in Nat
  PROVE  Tick(n) \in 0..(WIDTH - 1) /\ Tick(n) \in Nat /\ Tick(n) % NTIMQ \in Queue
<1>1. Tick(n) \in 0..(WIDTH - 1)
  BY TimeoutAssumption DEF Tick, TypeOK
<1>2. Tick(n) \in Nat
  BY <1>1, TimeoutAssumption
<1>3. Tick(n) % NTIMQ \in Queue
  BY <1>2, TimeoutAssumption DEF Queue
<1>4. QED
  BY <1>1, <1>2, <1>3

LEMMA TypeStep == TypeOK /\ [Next]_vars => TypeOK'
<1> SUFFICES ASSUME TypeOK, [Next]_vars
             PROVE  TypeOK'
  OBVIOUS
<1> USE DEF TypeOK
<1>0. tq \in Links /\ Delay \subseteq Nat /\ Queue \subseteq Node
  BY TimeoutAssumption DEF Links, Node
<1>1. ASSUME NEW t \in Timer, Remove(t) PROVE TypeOK'
  <2>1. Unlink(tq, t) \in Links
    BY <1>0, UnlinkType
  <2>2. call' \in [timer : Timer, n : Delay] \cup {NoCall}
    BY <1>1 DEF Remove
  <2>3. QED
    BY <1>1, <2>1, <2>2 DEF Remove, Links
<1>2. CASE Start
  <2>1. call.timer \in Timer /\ call.n \in Nat
    BY <1>0, <1>2 DEF Start
  <2>2. Tick(call.n) \in 0..(WIDTH - 1) /\ Tick(call.n) % NTIMQ \in Queue
    BY <2>1, TickType
  <2>3. Insert(tq, call.timer, Tick(call.n) % NTIMQ) \in Links
    BY <1>0, <2>1, <2>2, InsertType
  <2>4. QED
    BY <1>2, <2>1, <2>2, <2>3 DEF Start, Links
<1>3. ASSUME NEW t \in Timer, Interrupt(t) PROVE TypeOK'
  <2>1. Unlink(tq, t) \in Links
    BY <1>0, UnlinkType
  <2>2. ASSUME NEW n \in Delay
        PROVE  /\ Tick(n) \in 0..(WIDTH - 1)
               /\ Insert(Unlink(tq, t), t, Tick(n) % NTIMQ) \in Links
    BY <1>0, <2>1, TickType, InsertType
  <2>3. tq' \in Links /\ when' \in [Timer -> 0..(WIDTH - 1)]
    BY <1>3, <2>1, <2>2 DEF Interrupt
  <2>4. QED
    BY <1>3, <2>3 DEF Interrupt, Links
<1>4. CASE Clock
  BY <1>4, TimeoutAssumption DEF Clock
<1>5. CASE NextTick
  <2>1. lbolt' \in 0..(WIDTH - 1) /\ lbolt' % NTIMQ \in Queue
    BY <1>5, TickType DEF NextTick
  <2>2. lbolt' % NTIMQ \in Node
    BY <1>0, <2>1
  <2>3. clocks' \in 0..MAXCLOCKS
    BY <1>5, TimeoutAssumption DEF NextTick
  <2>4. QED
    BY <1>5, <2>1, <2>2, <2>3 DEF NextTick
<1>6. CASE Skip
  BY <1>6 DEF Skip, Node
<1>7. CASE Fire
  <2>1. np \in Timer
    BY <1>7 DEF Fire
  <2>2. Unlink(tq, np) \in Links
    BY <1>0, <2>1, UnlinkType
  <2>3. tq.next[np] \in Timer \cup {NULL}
    BY <2>1 DEF Node
  <2>4. QED
    BY <1>7, <2>1, <2>2, <2>3 DEF Fire, Links
<1>8. CASE Returned
  BY <1>8 DEF Returned
<1>9. CASE EndOfList
  BY <1>9 DEF EndOfList
<1>10. CASE UNCHANGED vars
  BY <1>10 DEF vars
<1>11. QED
  BY <1>1, <1>2, <1>3, <1>4, <1>5, <1>6, <1>7, <1>8, <1>9, <1>10 DEF Next

LEMMA TypeInit == Init => TypeOK
BY TimeoutAssumption DEF Init, TypeOK, Node, NoCall

(* Type correctness: the scan and timeout() only follow links to timers and
   heads of lists, with and without races. *)
THEOREM TypeCorrect == Spec => []TypeOK
BY TypeInit, TypeStep, PTL DEF Spec

-----------------------------------------------------------------------------
(* The links.  What is needed besides: between the halves of a timeout() its
   timer stays out of the lists, and the scan's next timer stays in its own.
   Both need that nobody else touches these two timers: Races = FALSE. *)

Detached == call # NoCall => ~Armed(call.timer)

LinkInv == TypeOK /\ LinksAgree /\ Ordered(tq) /\ Detached /\ ScanSafe

LEMMA LinkInit == Init => LinkInv
<1> SUFFICES ASSUME Init
             PROVE  LinkInv
  OBVIOUS
<1>1. LinksAgree
  BY DEF Init, LinksAgree, Armed
<1>2. Detached /\ ScanSafe
  BY DEF Init, Detached, ScanSafe
<1>3. Ordered(tq)
  <2>1. [u \in Timer |-> 0] \in [Timer -> Int] /\ NULL \notin Timer
    BY TimeoutAssumption
  <2>2. \A u \in Timer : tq.last[u] \notin Timer
    BY <2>1 DEF Init
  <2>3. QED
    BY <2>1, <2>2 DEF Ordered
<1>4. QED
  BY <1>1, <1>2, <1>3, TypeInit DEF LinkInv

(* A timer that is taken out of the lists leaves LinksAgree, and the scan's
   next timer where it is, unless it is that. *)
LEMMA RemoveKeeps ==
  ASSUME LinkInv, NEW t \in Timer
  PROVE  /\ Unlink(tq, t) \in Links
         /\ Linked(Unlink(tq, t), when) /\ Ordered(Unlink(tq, t))
         /\ Unlink(tq, t).last[t] = NULL
         /\ \A u \in Timer \ {t} : Unlink(tq, t).last[u] = NULL <=> tq.last[u] = NULL
<1>1. tq \in Links /\ Linked(tq, when)
  BY LinkedIsLinksAgree DEF LinkInv, TypeOK, Links
<1>2. QED
  BY <1>1, UnlinkType, UnlinkLinked, UnlinkOrdered DEF LinkInv

LEMMA LinkStep == ~Races /\ LinkInv /\ [Next]_vars => LinkInv'
<1> SUFFICES ASSUME ~Races, LinkInv, [Next]_vars
             PROVE  LinksAgree' /\ Ordered(tq') /\ Detached' /\ ScanSafe'
  BY TypeStep DEF LinkInv
<1>0. /\ TypeOK /\ LinksAgree /\ Ordered(tq) /\ Detached /\ ScanSafe
      /\ tq \in Links /\ Linked(tq, when) /\ when \in [Timer -> Nat]
      /\ NULL \notin Timer /\ Delay \subseteq Nat
  BY LinkedIsLinksAgree, TimeoutAssumption DEF LinkInv, TypeOK, Links
<1>1. Linked(tq', when') => LinksAgree'
  BY DEF LinksAgree, Linked, Armed
<1>2. ASSUME NEW t \in Timer, Remove(t)
      PROVE  LinksAgree' /\ Ordered(tq') /\ Detached' /\ ScanSafe'
  <2>1. tq' = Unlink(tq, t) /\ when' = when /\ np' = np /\ lbolt' = lbolt /\ t # np
    BY <1>2 DEF Remove, MayCall
  <2>2. LinksAgree' /\ Ordered(tq')
    BY <1>1, <2>1, RemoveKeeps
  <2>3. Detached'
    BY <1>2, <2>1, RemoveKeeps DEF Remove, Detached, Armed
  <2>4. np \in Timer => (Armed(np)' <=> Armed(np))
    BY <2>1, RemoveKeeps DEF Armed
  <2>5. ScanSafe'
    BY <1>0, <2>1, <2>4 DEF ScanSafe, TypeOK
  <2>6. QED
    BY <2>2, <2>3, <2>5
<1>3. CASE Start
  <2> DEFINE t == call.timer
             w == Tick(call.n)
  <2>1. t \in Timer /\ call.n \in Nat /\ tq.last[t] = NULL
    BY <1>0, <1>3 DEF Start, TypeOK, Detached, Armed
  <2>2. w \in Nat
    BY <1>0, <2>1, TickType
  <2>3. /\ tq' = Insert(tq, t, w % NTIMQ) /\ when' = [when EXCEPT ![t] = w]
        /\ call' = NoCall /\ np' = np /\ lbolt' = lbolt
    BY <1>3 DEF Start
  <2> HIDE DEF t, w
  <2>4. Linked(tq', when') /\ \A u \in Timer \ {t} : tq'.last[u] = NULL <=> tq.last[u] = NULL
    BY <1>0, <2>1, <2>2, <2>3, InsertLinked, ZenonT(60)
  <2>5. ScanSafe'
    <3>1. np # NULL => np \in Timer /\ np # t
      BY <1>0, <2>1 DEF ScanSafe, TypeOK, Armed
    <3>2. np # NULL => when'[np] = when[np]
      BY <1>0, <2>3, <3>1
    <3>3. QED
      BY <1>0, <2>3, <2>4, <3>1, <3>2 DEF ScanSafe, Armed
  <2>6. Ordered(tq')
    BY <1>0, <2>1, <2>2, <2>3, InsertLinked, InsertOrdered
  <2>7. QED
    BY <1>1, <2>3, <2>4, <2>5, <2>6 DEF Detached
<1>4. ASSUME NEW t \in Timer, Interrupt(t)
      PROVE  LinksAgree' /\ Ordered(tq') /\ Detached' /\ ScanSafe'
  <2>1. t # np /\ t # call.timer /\ np' = np /\ lbolt' = lbolt /\ call' = call
    BY <1>4 DEF Interrupt, MayCall
  <2>2. /\ Linked(tq', when') /\ Ordered(tq')
        /\ \A u \in Timer \ {t} : tq'.last[u] = NULL <=> tq.last[u] = NULL
        /\ \A u \in Timer \ {t} : when'[u] = when[u]
    <3>1. CASE tq' = Unlink(tq, t) /\ when' = when
      BY <3>1, RemoveKeeps
    <3>2. ASSUME NEW n \in Delay,
                 when' = [when EXCEPT ![t] = Tick(n)],
                 tq' = Insert(Unlink(tq, t), t, Tick(n) % NTIMQ)
          PROVE  /\ Linked(tq', when') /\ Ordered(tq')
                 /\ \A u \in Timer \ {t} : tq'.last[u] = NULL <=> tq.last[u] = NULL
                 /\ \A u \in Timer \ {t} : when'[u] = when[u]
      <4> DEFINE m == Unlink(tq, t)
      <4>1. Tick(n) \in Nat
        BY <1>0, TickType
      <4>2. m \in Links /\ Linked(m, when) /\ Ordered(m) /\ m.last[t] = NULL
        BY RemoveKeeps
      <4>3. \A u \in Timer \ {t} : m.last[u] = NULL <=> tq.last[u] = NULL
        BY RemoveKeeps
      <4> HIDE DEF m
      <4>4. /\ Tick(n) % NTIMQ \in Queue
            /\ Linked(Insert(m, t, Tick(n) % NTIMQ), [when EXCEPT ![t] = Tick(n)])
            /\ \A u \in Timer \ {t} :
                 Insert(m, t, Tick(n) % NTIMQ).last[u] = NULL <=> m.last[u] = NULL
        BY <1>0, <4>1, <4>2, InsertLinked, ZenonT(60)
      <4>5. Ordered(Insert(m, t, Tick(n) % NTIMQ))
        BY <4>2, <4>4, InsertOrdered
      <4>6. \A u \in Timer \ {t} : when'[u] = when[u]
        BY <1>0, <3>2
      <4>7. QED
        BY <3>2, <4>3, <4>4, <4>5, <4>6 DEF m
    <3>3. QED
      BY <1>4, <3>1, <3>2 DEF Interrupt
  <2>3. Detached'
    BY <1>0, <2>1, <2>2 DEF Detached, Armed, TypeOK
  <2>4. ScanSafe'
    BY <1>0, <2>1, <2>2 DEF ScanSafe, Armed, TypeOK
  <2>5. QED
    BY <1>1, <2>2, <2>3, <2>4
<1>5. CASE Clock \/ Returned \/ EndOfList \/ UNCHANGED vars
  <2>1. UNCHANGED <<tq, when, lbolt, np, call>>
    BY <1>5 DEF Clock, Returned, EndOfList, vars
  <2>2. QED
    BY <1>0, <2>1 DEF LinksAgree, Ordered, Detached, ScanSafe, Armed
<1>6. CASE NextTick
  <2>1. UNCHANGED <<tq, when, call>> /\ np' = tq.next[lbolt' % NTIMQ]
    BY <1>6 DEF NextTick
  <2>2. LinksAgree' /\ Ordered(tq') /\ Detached'
    BY <1>0, <2>1 DEF LinksAgree, Detached, Armed
  <2>3. lbolt' % NTIMQ \in Queue
    BY <1>0, <1>6, TickType DEF NextTick
  <2>4. np' # NULL => /\ np' \in Timer /\ tq.last[np'] = lbolt' % NTIMQ
                      /\ lbolt' % NTIMQ # NULL
    BY <1>0, <2>1, <2>3, TimeoutAssumption DEF Linked, Links, Node
  <2>5. np' # NULL => Armed(np') /\ when[np'] % NTIMQ = lbolt' % NTIMQ
    BY <1>0, <2>3, <2>4 DEF Linked, Armed
  <2>6. QED
    BY <2>1, <2>2, <2>5 DEF ScanSafe, Armed
<1>7. ASSUME np \in Timer
      PROVE  LET n == tq.next[np] IN
               n # NULL => /\ n \in Timer /\ tq.last[n] = np
                           /\ when[n] % NTIMQ = lbolt % NTIMQ
  <2> DEFINE n == tq.next[np]
  <2>1. Armed(np) /\ when[np] % NTIMQ = lbolt % NTIMQ /\ np \in Node
    BY <1>0, <1>7 DEF ScanSafe, Node
  <2>2. n # NULL => n \in Timer /\ tq.last[n] = np
    BY <1>0, <1>7, <2>1 DEF Linked, Links, Armed
  <2>3. QED
    BY <1>0, <1>7, <2>1, <2>2 DEF Linked
<1>8. CASE Skip
  <2>1. UNCHANGED <<tq, when, lbolt, call>> /\ np \in Timer /\ np' = tq.next[np]
    BY <1>0, <1>8 DEF Skip, TypeOK
  <2>2. LinksAgree' /\ Ordered(tq') /\ Detached'
    BY <1>0, <2>1 DEF LinksAgree, Detached, Armed
  <2>3. ScanSafe'
    BY <1>0, <1>7, <2>1 DEF ScanSafe, Armed
  <2>4. QED
    BY <2>2, <2>3
<1>9. CASE Fire
  <2>1. /\ np \in Timer /\ np' = tq.next[np] /\ tq' = Unlink(tq, np)
        /\ UNCHANGED <<when, lbolt, call>>
    BY <1>0, <1>9 DEF Fire, TypeOK
  <2>2. LinksAgree' /\ Ordered(tq')
    BY <1>1, <2>1, RemoveKeeps
  <2>3. Detached'
    BY <1>0, <2>1, RemoveKeeps DEF Detached, Armed, TypeOK
  <2>4. ScanSafe'
    <3>1. CASE np' = NULL
      BY <3>1 DEF ScanSafe
    <3>2. CASE np' # NULL
      <4>1. np' \in Timer /\ tq.last[np'] = np /\ when[np'] % NTIMQ = lbolt % NTIMQ
        BY <1>7, <2>1, <3>2
      <4>2. np' # np
        BY <1>0, <2>1, <4>1 DEF Ordered
      <4>3. QED
        BY <1>0, <2>1, <4>1, <4>2, RemoveKeeps DEF ScanSafe, Armed
    <3>3. QED
      BY <3>1, <3>2
  <2>5. QED
    BY <2>2, <2>3, <2>4
<1>10. QED
  BY <1>2, <1>3, <1>4, <1>5, <1>6, <1>8, <1>9 DEF Next

LEMMA LinkInvariant == ~Races /\ Spec => []LinkInv
<1>1. CASE Races
  BY <1>1
<1>2. CASE ~Races
  BY <1>2, LinkInit, LinkStep, PTL DEF Spec
<1>3. QED
  BY <1>1, <1>2

(* The lists stay linked: a timer that is cancelled, started again or called
   is taken out where its own links say. *)
THEOREM ListsStayLinked == ASSUME ~Races PROVE Spec => []LinksAgree
<1>1. LinkInv => LinksAgree
  BY DEF LinkInv
<1>2. QED
  BY <1>1, LinkInvariant, PTL

(* The scan stays in the list of its tick, whatever the functions it calls and
   interrupts start and cancel, and calls no function of a cancelled timer. *)
THEOREM ScanStaysInList == ASSUME ~Races PROVE Spec => []ScanSafe
<1>1. LinkInv => ScanSafe
  BY DEF LinkInv
<1>2. QED
  BY <1>1, LinkInvariant, PTL

-----------------------------------------------------------------------------
(* The scan misses no timer that is due.  Within a list the numbers of the
   timers follow the links: the head has the least, and what is above a
   timer's number is not below that of its neighbour. *)

Sorted(f, l, w) ==
  /\ \A u \in Timer : l.last[u] # NULL =>
       l.next[w[u] % NTIMQ] \in Timer /\ f[l.next[w[u] % NTIMQ]] <= f[u]
  /\ \A u, v \in Timer :
       l.last[u] # NULL /\ l.last[v] # NULL /\ w[u] % NTIMQ = w[v] % NTIMQ =>
         /\ f[u] = f[v] => u = v
         /\ f[u] < f[v] => l.next[u] \in Timer /\ f[l.next[u]] <= f[v]

LEMMA UnlinkSorted ==
  ASSUME NEW l \in Links, NEW w \in [Timer -> Nat], NEW t \in Timer,
         NEW f \in [Timer -> Int], Linked(l, w), Sorted(f, l, w)
  PROVE  Sorted(f, Unlink(l, t), w)
<1> DEFINE m == Unlink(l, t)
           k == l.last[t]
           n == l.next[t]
<1>1. CASE k = NULL
  BY <1>1 DEF Unlink
<1>2. CASE k # NULL
  <2>1. /\ NULL \notin Timer /\ t \in Node /\ k \in Node /\ n \in Timer \cup {NULL}
        /\ \A u \in Timer : u \in Node /\ w[u] % NTIMQ \in Queue /\ w[u] % NTIMQ \in Node
        /\ Timer \cap Queue = {}
    BY <1>2, TimeoutAssumption DEF Links, Node, Queue
  <2>2. /\ \A x \in Node : m.next[x] = IF x = k THEN n ELSE l.next[x]
        /\ \A u \in Timer : m.last[u] # NULL => u # t /\ l.last[u] # NULL
    <3>1. \A u \in Timer : m.last[u] = NULL <=> u = t \/ l.last[u] = NULL
      BY UnlinkLinked
    <3>2. QED
      BY <1>2, <2>1, <3>1 DEF Unlink, Links
  <2>3. /\ l.next[k] = t
        /\ k \in Queue => k = w[t] % NTIMQ
        /\ k \in Timer => l.last[k] # NULL /\ w[k] % NTIMQ = w[t] % NTIMQ
    BY <1>2 DEF Linked
  <2> HIDE DEF m, k, n
  <2>4. ASSUME NEW v \in Timer, m.last[v] # NULL, w[v] % NTIMQ = w[t] % NTIMQ, f[t] <= f[v]
        PROVE  n \in Timer /\ f[n] <= f[v]
    <3>1. v # t /\ l.last[v] # NULL /\ l.last[t] # NULL
      BY <1>2, <2>2, <2>4 DEF k
    <3>2. f[t] # f[v]
      BY <2>4, <3>1 DEF Sorted
    <3>3. f[t] < f[v]
      BY <2>4, <3>2
    <3>4. QED
      BY <2>4, <3>1, <3>3 DEF Sorted, n
  <2>5. ASSUME NEW u \in Timer, m.last[u] # NULL
        PROVE  m.next[w[u] % NTIMQ] \in Timer /\ f[m.next[w[u] % NTIMQ]] <= f[u]
    <3>1. l.next[w[u] % NTIMQ] \in Timer /\ f[l.next[w[u] % NTIMQ]] <= f[u]
      BY <2>2, <2>5 DEF Sorted
    <3>2. CASE w[u] % NTIMQ = k
      <4>1. w[u] % NTIMQ = w[t] % NTIMQ /\ f[t] <= f[u]
        BY <2>1, <2>3, <3>1, <3>2
      <4>2. QED
        BY <2>1, <2>2, <2>4, <2>5, <3>2, <4>1
    <3>3. CASE w[u] % NTIMQ # k
      BY <2>1, <2>2, <3>1, <3>3
    <3>4. QED
      BY <3>2, <3>3
  <2>6. ASSUME NEW u \in Timer, NEW v \in Timer,
               m.last[u] # NULL, m.last[v] # NULL, w[u] % NTIMQ = w[v] % NTIMQ
        PROVE  /\ f[u] = f[v] => u = v
               /\ f[u] < f[v] => m.next[u] \in Timer /\ f[m.next[u]] <= f[v]
    <3>1. /\ f[u] = f[v] => u = v
          /\ f[u] < f[v] => l.next[u] \in Timer /\ f[l.next[u]] <= f[v]
      BY <2>2, <2>6 DEF Sorted
    <3>2. CASE u = k
      BY <2>1, <2>2, <2>3, <2>4, <2>6, <3>1, <3>2
    <3>3. CASE u # k
      BY <2>1, <2>2, <3>1, <3>3
    <3>4. QED
      BY <3>2, <3>3
  <2>7. QED
    BY <2>5, <2>6 DEF Sorted, m
<1>3. QED
  BY <1>1, <1>2

LEMMA InsertSorted ==
  ASSUME NEW l \in Links, NEW w \in [Timer -> Nat], NEW t \in Timer, NEW n \in Nat,
         NEW f \in [Timer -> Int], Linked(l, w), Sorted(f, l, w), l.last[t] = NULL
  PROVE  LET h == l.next[n % NTIMQ]
             g == [f EXCEPT ![t] = IF h \in Timer THEN f[h] - 1 ELSE 0]
         IN /\ g \in [Timer -> Int]
            /\ Sorted(g, Insert(l, t, n % NTIMQ), [w EXCEPT ![t] = n])
<1> DEFINE qp == n % NTIMQ
           h == l.next[qp]
           g == [f EXCEPT ![t] = IF h \in Timer THEN f[h] - 1 ELSE 0]
           m == Insert(l, t, qp)
           v == [w EXCEPT ![t] = n]
<1>1. /\ qp \in Queue /\ qp \in Node /\ t \in Node /\ t # qp /\ NULL \notin Timer
      /\ \A u \in Timer : u \in Node /\ u # qp /\ w[u] % NTIMQ \in Node /\ w[u] % NTIMQ # t
  BY TimeoutAssumption DEF Queue, Node
<1>2. /\ \A x \in Node : m.next[x] = IF x = qp THEN t ELSE IF x = t THEN h ELSE l.next[x]
      /\ \A u \in Timer : v[u] % NTIMQ = IF u = t THEN qp ELSE w[u] % NTIMQ
  BY <1>1 DEF Insert, Links
<1>3. \A u \in Timer : m.last[u] # NULL => u = t \/ l.last[u] # NULL
  <2>1. \A u \in Timer \ {t} : m.last[u] = NULL <=> l.last[u] = NULL
    BY InsertLinked
  <2>2. QED
    BY <2>1
<1>4. /\ g \in [Timer -> Int]
      /\ \A u \in Timer : g[u] = IF u = t THEN (IF h \in Timer THEN f[h] - 1 ELSE 0) ELSE f[u]
  OBVIOUS
<1>5. \A x \in Node : (x \in Timer => l.last[x] # NULL) => l.next[x] # t
  <2>1. NULL \notin Node /\ t # NULL
    BY <1>1, TimeoutAssumption DEF Node
  <2>2. QED
    BY <2>1, l.last[t] = NULL DEF Linked
<1>6. h # t /\ (h \in Timer => f[h] \in Int /\ g[h] = f[h] /\ g[t] = f[h] - 1)
  BY <1>1, <1>4, <1>5
<1>7. \A u \in Timer : l.last[u] # NULL /\ w[u] % NTIMQ = qp => h \in Timer /\ f[h] <= f[u]
  BY DEF Sorted
<1> HIDE DEF qp, h, g, m, v
<1>8. ASSUME NEW u \in Timer, m.last[u] # NULL
      PROVE  m.next[v[u] % NTIMQ] \in Timer /\ g[m.next[v[u] % NTIMQ]] <= g[u]
  <2>1. CASE u = t
    BY <1>1, <1>2, <1>4, <2>1
  <2>2. CASE u # t /\ w[u] % NTIMQ = qp
    <3>1. h \in Timer /\ f[h] <= f[u] /\ g[t] = f[h] - 1 /\ g[u] = f[u] /\ f[h] \in Int
      BY <1>3, <1>4, <1>6, <1>7, <1>8, <2>2
    <3>2. g[t] <= g[u]
      BY <3>1
    <3>3. QED
      BY <1>1, <1>2, <2>2, <3>2
  <2>3. CASE u # t /\ w[u] % NTIMQ # qp
    <3>1. l.next[w[u] % NTIMQ] \in Timer /\ f[l.next[w[u] % NTIMQ]] <= f[u]
      BY <1>3, <1>8, <2>3 DEF Sorted
    <3>2. w[u] % NTIMQ \in Queue /\ w[u] % NTIMQ \notin Timer
      BY TimeoutAssumption DEF Queue
    <3>3. l.next[w[u] % NTIMQ] # t
      BY <1>1, <1>5, <3>2
    <3>4. QED
      BY <1>1, <1>2, <1>4, <2>3, <3>1, <3>3
  <2>4. QED
    BY <2>1, <2>2, <2>3
<1>9. ASSUME NEW u \in Timer, NEW x \in Timer,
             m.last[u] # NULL, m.last[x] # NULL, v[u] % NTIMQ = v[x] % NTIMQ
      PROVE  /\ g[u] = g[x] => u = x
             /\ g[u] < g[x] => m.next[u] \in Timer /\ g[m.next[u]] <= g[x]
  <2>1. CASE u = t /\ x = t
    BY <1>4, <2>1
  <2>2. CASE u = t /\ x # t
    <3>1. h \in Timer /\ f[h] <= f[x] /\ g[x] = f[x] /\ g[t] = f[h] - 1 /\ f[h] \in Int
      BY <1>2, <1>3, <1>4, <1>6, <1>7, <1>9, <2>2
    <3>2. m.next[u] = h /\ g[h] = f[h]
      BY <1>1, <1>2, <1>6, <2>2, <3>1
    <3>3. f[x] \in Int
      OBVIOUS
    <3>4. QED
      BY <2>2, <3>1, <3>2, <3>3
  <2>3. CASE u # t /\ x = t
    <3>1. h \in Timer /\ f[h] <= f[u] /\ g[u] = f[u] /\ g[t] = f[h] - 1 /\ f[h] \in Int
      BY <1>2, <1>3, <1>4, <1>6, <1>7, <1>9, <2>3
    <3>2. f[u] \in Int
      OBVIOUS
    <3>3. QED
      BY <2>3, <3>1, <3>2
  <2>4. CASE u # t /\ x # t
    <3>1. /\ f[u] = f[x] => u = x
          /\ f[u] < f[x] => l.next[u] \in Timer /\ f[l.next[u]] <= f[x]
      BY <1>2, <1>3, <1>9, <2>4 DEF Sorted
    <3>2. m.next[u] = l.next[u] /\ l.next[u] # t
      BY <1>1, <1>2, <1>3, <1>5, <1>9, <2>4
    <3>3. QED
      BY <1>4, <2>4, <3>1, <3>2
  <2>5. QED
    BY <2>1, <2>2, <2>3, <2>4
<1>10. Sorted(g, m, v)
  BY <1>8, <1>9 DEF Sorted
<1>11. QED
  BY <1>4, <1>10 DEF g, m, v, h, qp

(* With these numbers, the timer that the scan comes to next is not behind any
   that is due; and when the scan is over none is due. *)
Before(f) ==
  /\ f \in [Timer -> Int]
  /\ Sorted(f, tq, when)
  /\ phase # "off" =>
       \A u \in Timer : Armed(u) /\ when[u] = lbolt => np \in Timer /\ f[np] <= f[u]

NoneLeft ==
  /\ phase = "off" => \A u \in Timer : Armed(u) => when[u] # lbolt
  /\ phase = "call" <=> running # NULL

AlarmInv == LinkInv /\ NoneLeft /\ \E f : Before(f)

(* A timer that is started is not due before the next tick. *)
LEMMA StartedNotDue ==
  ASSUME TypeOK, NEW n \in Delay
  PROVE  Tick(n) # lbolt /\ (Tick(n) - lbolt) % WIDTH = n
<1>1. n \in 1..(WIDTH - 1) /\ lbolt \in 0..(WIDTH - 1) /\ WIDTH \in Nat \ {0}
  BY TimeoutAssumption DEF TypeOK
<1>2. CASE lbolt + n < WIDTH
  <2>1. Tick(n) = lbolt + n
    BY <1>1, <1>2, ModSmall DEF Tick
  <2>2. QED
    BY <1>1, <2>1, ModSmall
<1>3. CASE lbolt + n >= WIDTH
  <2>1. Tick(n) = lbolt + n - WIDTH
    <3>1. lbolt + n \in WIDTH..(2 * WIDTH - 1)
      BY <1>1, <1>3
    <3>2. (lbolt + n) % WIDTH = (lbolt + n) - WIDTH
      BY <1>1, <3>1, ModAbove
    <3>3. QED
      BY <1>1, <3>2 DEF Tick
  <2>2. (Tick(n) - lbolt) % WIDTH = n - WIDTH + WIDTH
    BY <1>1, <2>1, ModBelow
  <2>3. QED
    BY <1>1, <2>1, <2>2
<1>4. QED
  BY <1>1, <1>2, <1>3

(* At the next tick there is a tick less to go to any other. *)
LEMMA OneTickLess ==
  ASSUME TypeOK, NEW w \in 0..(WIDTH - 1), w # lbolt
  PROVE  /\ (w - Tick(1)) % WIDTH = ((w - lbolt) % WIDTH) - 1
         /\ (w - lbolt) % WIDTH \in 1..(WIDTH - 1)
<1>1. lbolt \in 0..(WIDTH - 1) /\ WIDTH \in Nat \ {0}
  BY TimeoutAssumption DEF TypeOK
<1>2. (w - lbolt) % WIDTH = IF lbolt < w THEN w - lbolt ELSE w - lbolt + WIDTH
  BY <1>1, ModSmall, ModBelow
<1>3. CASE lbolt + 1 < WIDTH
  <2>1. Tick(1) = lbolt + 1
    BY <1>1, <1>3, ModSmall DEF Tick
  <2>2. (w - Tick(1)) % WIDTH = IF lbolt < w THEN w - lbolt - 1 ELSE w - lbolt - 1 + WIDTH
    BY <1>1, <1>3, <2>1, ModSmall, ModBelow
  <2>3. QED
    BY <1>1, <1>2, <2>2
<1>4. CASE lbolt + 1 = WIDTH
  <2>1. Tick(1) = 0
    BY <1>1, <1>4, ModAbove DEF Tick
  <2>2. (w - Tick(1)) % WIDTH = w /\ w < lbolt
    BY <1>1, <1>4, <2>1, ModSmall
  <2>3. QED
    BY <1>1, <1>2, <1>4, <2>2
<1>5. QED
  BY <1>1, <1>3, <1>4

LEMMA AlarmInit == Init => AlarmInv
<1> SUFFICES ASSUME Init
             PROVE  AlarmInv
  OBVIOUS
<1> DEFINE f == [u \in Timer |-> 0]
<1>1. \A u \in Timer : tq.last[u] = NULL
  BY DEF Init
<1>2. Before(f)
  BY <1>1 DEF Init, Before, Sorted, Armed
<1>3. NoneLeft
  BY <1>1 DEF Init, NoneLeft, Armed
<1>4. QED
  BY <1>2, <1>3, LinkInit DEF AlarmInv

(* Taking a timer out. *)
LEMMA RemoveSorted ==
  ASSUME LinkInv, NEW f, Before(f), NEW t \in Timer
  PROVE  Sorted(f, Unlink(tq, t), when)
<1>1. /\ tq \in Links /\ Linked(tq, when) /\ when \in [Timer -> Nat]
      /\ f \in [Timer -> Int] /\ Sorted(f, tq, when)
  BY LinkedIsLinksAgree, TimeoutAssumption DEF LinkInv, TypeOK, Links, Before
<1>2. QED
  BY <1>1, UnlinkSorted

(* Starting one, in the lists l without it. *)
LEMMA StartKeeps ==
  ASSUME LinkInv, NoneLeft, NEW f, Before(f),
         NEW l \in Links, Linked(l, when), Sorted(f, l, when),
         NEW t \in Timer, NEW n \in Delay, l.last[t] = NULL, t # np,
         \A u \in Timer \ {t} : l.last[u] = NULL <=> tq.last[u] = NULL,
         tq' = Insert(l, t, Tick(n) % NTIMQ), when' = [when EXCEPT ![t] = Tick(n)],
         UNCHANGED <<lbolt, phase, np, running>>
  PROVE  NoneLeft' /\ \E g : Before(g)'
<1>1. when \in [Timer -> Nat] /\ f \in [Timer -> Int] /\ Delay \subseteq Nat /\ TypeOK
  BY TimeoutAssumption DEF LinkInv, TypeOK, Before
<1>2. Tick(n) \in Nat /\ Tick(n) # lbolt
  BY <1>1, TickType, StartedNotDue
<1>3. PICK g \in [Timer -> Int] :
        Sorted(g, tq', when') /\ \A u \in Timer \ {t} : g[u] = f[u]
  <2> DEFINE h == l.next[Tick(n) % NTIMQ]
             g == [f EXCEPT ![t] = IF h \in Timer THEN f[h] - 1 ELSE 0]
  <2>1. g \in [Timer -> Int] /\ Sorted(g, tq', when')
    BY <1>1, <1>2, InsertSorted
  <2>2. \A u \in Timer \ {t} : g[u] = f[u]
    BY <1>1
  <2>3. QED
    BY <2>1, <2>2
<1>4. \A u \in Timer \ {t} : tq'.last[u] = NULL <=> tq.last[u] = NULL
  <2>1. \A u \in Timer \ {t} :
          Insert(l, t, Tick(n) % NTIMQ).last[u] = NULL <=> l.last[u] = NULL
    BY <1>1, <1>2, InsertLinked
  <2>2. QED
    BY <2>1
<1>5. \A u \in Timer \ {t} : when'[u] = when[u] /\ g[u] = f[u]
  BY <1>1, <1>3
<1>6. when'[t] # lbolt'
  BY <1>1, <1>2
<1>7. Before(g)'
  <2>1. ASSUME phase' # "off", NEW u \in Timer, Armed(u)', when'[u] = lbolt'
        PROVE  np' \in Timer /\ g[np'] <= g[u]
    <3>1. u # t /\ Armed(u) /\ when[u] = lbolt
      BY <1>4, <1>5, <1>6, <2>1 DEF Armed
    <3>2. np \in Timer /\ f[np] <= f[u]
      BY <2>1, <3>1 DEF Before
    <3>3. QED
      BY <1>5, <3>1, <3>2
  <2>2. QED
    BY <1>3, <2>1 DEF Before
<1>8. NoneLeft'
  <2>1. ASSUME phase' = "off", NEW u \in Timer, Armed(u)'
        PROVE  when'[u] # lbolt'
    BY <1>4, <1>5, <1>6, <2>1 DEF Armed, NoneLeft
  <2>2. QED
    BY <2>1 DEF NoneLeft
<1>9. QED
  BY <1>7, <1>8

(* Behind a timer that is before all that are due, and is not due itself or is
   taken out, its neighbour is. *)
LEMMA NextIsBefore ==
  ASSUME LinkInv, NEW f, Before(f), np \in Timer, phase # "off",
         NEW u \in Timer, Armed(u), when[u] = lbolt, u # np
  PROVE  tq.next[np] \in Timer /\ f[tq.next[np]] <= f[u]
<1>1. Armed(np) /\ when[np] % NTIMQ = when[u] % NTIMQ
  BY TimeoutAssumption DEF LinkInv, ScanSafe
<1>2. f[np] <= f[u] /\ f[np] \in Int /\ f[u] \in Int
  BY DEF Before
<1>3. f[np] # f[u]
  BY <1>1 DEF Before, Sorted, Armed
<1>4. f[np] < f[u]
  BY <1>2, <1>3
<1>5. QED
  BY <1>1, <1>4 DEF Before, Sorted, Armed

LEMMA AlarmStep == ~Races /\ AlarmInv /\ [Next]_vars => AlarmInv'
<1> SUFFICES ASSUME ~Races, AlarmInv, [Next]_vars
             PROVE  NoneLeft' /\ \E f : Before(f)'
  BY LinkStep DEF AlarmInv
<1>0. PICK f : Before(f)
  BY DEF AlarmInv
<1>1. /\ LinkInv /\ NoneLeft /\ TypeOK
      /\ tq \in Links /\ Linked(tq, when) /\ when \in [Timer -> Nat]
      /\ f \in [Timer -> Int] /\ Sorted(f, tq, when) /\ NULL \notin Timer
  BY <1>0, LinkedIsLinksAgree, TimeoutAssumption
     DEF AlarmInv, LinkInv, TypeOK, Links, Before
<1>2. ASSUME NEW t \in Timer, tq' = Unlink(tq, t),
             UNCHANGED <<when, lbolt, phase, np, running>>
      PROVE  NoneLeft' /\ Before(f)'
  <2>1. \A u \in Timer : Armed(u)' => Armed(u)
    BY <1>1, <1>2, RemoveKeeps DEF Armed
  <2>2. Sorted(f, tq', when')
    BY <1>0, <1>1, <1>2, RemoveSorted
  <2>3. Before(f)'
    BY <1>0, <1>1, <1>2, <2>1, <2>2 DEF Before
  <2>4. NoneLeft'
    BY <1>1, <1>2, <2>1 DEF NoneLeft
  <2>5. QED
    BY <2>3, <2>4
<1>3. ASSUME NEW t \in Timer, Remove(t) PROVE NoneLeft' /\ \E g : Before(g)'
  BY <1>2, <1>3 DEF Remove
<1>4. CASE Start
  <2>1. call.timer \in Timer /\ call.n \in Delay /\ tq.last[call.timer] = NULL
    BY <1>1, <1>4 DEF Start, TypeOK, LinkInv, Detached, Armed
  <2>2. call.timer # np
    BY <1>1, <2>1 DEF LinkInv, ScanSafe, Armed
  <2>3. QED
    BY <1>0, <1>1, <1>4, <2>1, <2>2, StartKeeps DEF Start
<1>5. ASSUME NEW t \in Timer, Interrupt(t) PROVE NoneLeft' /\ \E g : Before(g)'
  <2>1. t # np /\ UNCHANGED <<lbolt, phase, np, running>>
    BY <1>5 DEF Interrupt, MayCall
  <2>2. CASE tq' = Unlink(tq, t) /\ UNCHANGED when
    BY <1>2, <2>1, <2>2
  <2>3. ASSUME NEW n \in Delay,
               when' = [when EXCEPT ![t] = Tick(n)],
               tq' = Insert(Unlink(tq, t), t, Tick(n) % NTIMQ)
        PROVE  NoneLeft' /\ \E g : Before(g)'
    <3> DEFINE m == Unlink(tq, t)
    <3>1. m \in Links /\ Linked(m, when) /\ m.last[t] = NULL
      BY <1>1, RemoveKeeps
    <3>2. \A u \in Timer \ {t} : m.last[u] = NULL <=> tq.last[u] = NULL
      BY <1>1, RemoveKeeps
    <3>3. Sorted(f, m, when)
      BY <1>0, <1>1, RemoveSorted
    <3>4. tq' = Insert(m, t, Tick(n) % NTIMQ)
      BY <2>3
    <3> HIDE DEF m
    <3>5. QED
      BY <1>0, <1>1, <2>1, <2>3, <3>1, <3>2, <3>3, <3>4, StartKeeps
  <2>4. QED
    BY <1>5, <2>2, <2>3 DEF Interrupt
<1>6. CASE Clock \/ UNCHANGED vars
  <2>1. UNCHANGED <<tq, when, lbolt, phase, np, running>>
    BY <1>6 DEF Clock, vars
  <2>2. Before(f)' /\ NoneLeft'
    BY <1>0, <1>1, <2>1 DEF Before, NoneLeft, Armed
  <2>3. QED
    BY <2>2
<1>7. CASE NextTick
  <2>1. /\ UNCHANGED <<tq, when, running>>
        /\ np' = tq.next[lbolt' % NTIMQ] /\ phase = "off" /\ phase' = "scan"
    BY <1>7 DEF NextTick
  <2>2. Before(f)'
    BY <1>1, <2>1 DEF Before, Sorted, Armed
  <2>3. NoneLeft'
    BY <1>1, <2>1 DEF NoneLeft
  <2>4. QED
    BY <2>2, <2>3
<1>8. CASE Skip
  <2>1. /\ UNCHANGED <<tq, when, lbolt, phase, running>> /\ np' = tq.next[np]
        /\ np \in Timer /\ when[np] # lbolt /\ phase = "scan"
    BY <1>1, <1>8 DEF Skip, TypeOK
  <2>2. \A u \in Timer : Armed(u) /\ when[u] = lbolt => np' \in Timer /\ f[np'] <= f[u]
    BY <1>0, <1>1, <2>1, NextIsBefore
  <2>3. Before(f)' /\ NoneLeft'
    BY <1>1, <2>1, <2>2 DEF Before, NoneLeft, Armed
  <2>4. QED
    BY <2>3
<1>9. CASE Fire
  <2>1. /\ UNCHANGED <<when, lbolt>> /\ np' = tq.next[np] /\ tq' = Unlink(tq, np)
        /\ np \in Timer /\ phase = "scan" /\ phase' = "call" /\ running' # NULL
    BY <1>1, <1>9 DEF Fire, TypeOK
  <2>2. \A u \in Timer : Armed(u)' => Armed(u) /\ u # np
    BY <1>1, <2>1, RemoveKeeps DEF Armed
  <2>3. \A u \in Timer : Armed(u)' /\ when[u] = lbolt => np' \in Timer /\ f[np'] <= f[u]
    BY <1>0, <1>1, <2>1, <2>2, NextIsBefore
  <2>4. Sorted(f, tq', when')
    BY <1>0, <1>1, <2>1, RemoveSorted
  <2>5. Before(f)' /\ NoneLeft'
    BY <1>1, <2>1, <2>3, <2>4 DEF Before, NoneLeft
  <2>6. QED
    BY <2>5
<1>10. CASE Returned
  <2>1. /\ UNCHANGED <<tq, when, lbolt, np>> /\ phase = "call" /\ phase' = "scan"
        /\ running' = NULL
    BY <1>10 DEF Returned
  <2>2. Before(f)' /\ NoneLeft'
    BY <1>0, <1>1, <2>1 DEF Before, NoneLeft, Armed
  <2>3. QED
    BY <2>2
<1>11. CASE EndOfList
  <2>1. /\ UNCHANGED <<tq, when, lbolt, np, running>> /\ np = NULL
        /\ phase = "scan" /\ phase' = "off"
    BY <1>11 DEF EndOfList
  <2>2. Before(f)' /\ NoneLeft'
    BY <1>0, <1>1, <2>1 DEF Before, NoneLeft, Armed
  <2>3. QED
    BY <2>2
<1>12. QED
  BY <1>3, <1>4, <1>5, <1>6, <1>7, <1>8, <1>9, <1>10, <1>11 DEF Next

LEMMA AlarmInvariant == ~Races /\ Spec => []AlarmInv
<1>1. CASE Races
  BY <1>1
<1>2. CASE ~Races
  BY <1>2, AlarmInit, AlarmStep, PTL DEF Spec
<1>3. QED
  BY <1>1, <1>2

-----------------------------------------------------------------------------
(* Every step is one of the abstract alarms, or changes nothing there. *)

LEMMA SameLeft ==
  ASSUME UNCHANGED <<tq, when, lbolt>>
  PROVE  UNCHANGED Left
BY DEF Left, Armed

LEMMA TakenOut ==
  ASSUME LinkInv, NEW t \in Timer, tq' = Unlink(tq, t), UNCHANGED <<when, lbolt>>
  PROVE  Left' = [Left EXCEPT ![t] = NULL]
<1>1. \A u \in Timer : Armed(u)' <=> Armed(u) /\ u # t
  BY RemoveKeeps DEF Armed
<1>2. QED
  BY <1>1 DEF Left

LEMMA Started ==
  ASSUME LinkInv, NEW t \in Timer, NEW n \in Delay,
         tq' = Insert(Unlink(tq, t), t, Tick(n) % NTIMQ),
         when' = [when EXCEPT ![t] = Tick(n)], lbolt' = lbolt
  PROVE  Left' = [Left EXCEPT ![t] = n]
<1>1. when \in [Timer -> Nat] /\ Delay \subseteq Nat /\ TypeOK
  BY TimeoutAssumption DEF LinkInv, TypeOK
<1>2. Tick(n) \in Nat /\ (Tick(n) - lbolt) % WIDTH = n
  BY <1>1, TickType, StartedNotDue
<1>3. /\ tq'.last[t] # NULL
      /\ \A u \in Timer \ {t} : tq'.last[u] = NULL <=> tq.last[u] = NULL
  <2>1. PICK l \in Links :
          /\ Linked(l, when) /\ l.last[t] = NULL
          /\ \A u \in Timer \ {t} : l.last[u] = NULL <=> tq.last[u] = NULL
          /\ tq' = Insert(l, t, Tick(n) % NTIMQ)
    BY RemoveKeeps
  <2>2. /\ Insert(l, t, Tick(n) % NTIMQ).last[t] # NULL
        /\ \A u \in Timer \ {t} :
             Insert(l, t, Tick(n) % NTIMQ).last[u] = NULL <=> l.last[u] = NULL
    BY <1>1, <1>2, <2>1, InsertLinked, ZenonT(60)
  <2>3. QED
    BY <2>1, <2>2
<1>4. \A u \in Timer : when'[u] = IF u = t THEN Tick(n) ELSE when[u]
  BY <1>1
<1>5. \A u \in Timer : (IF tq'.last[u] # NULL THEN (when'[u] - lbolt') % WIDTH ELSE NULL)
                       = (IF u = t THEN n ELSE Left[u])
  <2>1. (when'[t] - lbolt') % WIDTH = n
    BY <1>2, <1>4
  <2> TAKE u \in Timer
  <2>2. CASE u = t
    BY <1>3, <2>1, <2>2
  <2>3. CASE u # t
    <3>1. (tq'.last[u] # NULL) <=> (tq.last[u] # NULL)
      BY <1>3, <2>3
    <3>2. (when'[u] - lbolt') % WIDTH = (when[u] - lbolt) % WIDTH
      BY <1>4, <2>3
    <3>3. QED
      BY <2>3, <3>1, <3>2 DEF Left, Armed
  <2>4. QED
    BY <2>2, <2>3
<1>6. Left' = [u \in Timer |-> IF u = t THEN n ELSE Left[u]]
  BY <1>5 DEF Left, Armed
<1>7. QED
  BY <1>6 DEF Left

LEMMA AlarmsRefined ==
  ASSUME ~Races, AlarmInv, AlarmInv', [Next]_vars
  PROVE  [Promise!Next]_<<Left, running>>
<1>0. /\ LinkInv /\ NoneLeft /\ TypeOK
      /\ tq \in Links /\ Linked(tq, when) /\ when \in [Timer -> 0..(WIDTH - 1)]
      /\ NULL \notin Timer /\ Delay \subseteq 1..(WIDTH - 1)
  BY LinkedIsLinksAgree, TimeoutAssumption DEF AlarmInv, LinkInv, TypeOK, Links
<1>1. ASSUME NEW t \in Timer, tq' = Unlink(tq, t), UNCHANGED <<when, lbolt, running>>
      PROVE  Promise!Next
  BY <1>0, <1>1, TakenOut DEF Promise!Cancel, Promise!Next
<1>2. ASSUME NEW t \in Timer, NEW n \in Delay, Left' = [Left EXCEPT ![t] = n],
             UNCHANGED running
      PROVE  Promise!Next
  BY <1>0, <1>2 DEF Promise!Start, Promise!Next
<1>3. ASSUME NEW t \in Timer, Remove(t) PROVE Promise!Next
  BY <1>1, <1>3 DEF Remove
<1>4. CASE Start
  <2>1. call.timer \in Timer /\ call.n \in Delay /\ tq.last[call.timer] = NULL
    BY <1>0, <1>4 DEF Start, TypeOK, LinkInv, Detached, Armed
  <2>2. Unlink(tq, call.timer) = tq
    BY <2>1 DEF Unlink
  <2>3. Left' = [Left EXCEPT ![call.timer] = call.n]
    BY <1>0, <1>4, <2>1, <2>2, Started DEF Start
  <2>4. QED
    BY <1>2, <1>4, <2>1, <2>3 DEF Start
<1>5. ASSUME NEW t \in Timer, Interrupt(t) PROVE Promise!Next
  <2>1. UNCHANGED <<lbolt, running>>
    BY <1>5 DEF Interrupt
  <2>2. CASE tq' = Unlink(tq, t) /\ UNCHANGED when
    BY <1>1, <2>1, <2>2
  <2>3. ASSUME NEW n \in Delay,
               when' = [when EXCEPT ![t] = Tick(n)],
               tq' = Insert(Unlink(tq, t), t, Tick(n) % NTIMQ)
        PROVE  Promise!Next
    <3>1. Left' = [Left EXCEPT ![t] = n]
      BY <1>0, <2>1, <2>3, Started
    <3>2. QED
      BY <1>2, <2>1, <3>1
  <2>4. QED
    BY <1>5, <2>2, <2>3 DEF Interrupt
<1>6. CASE Clock \/ Skip \/ EndOfList \/ UNCHANGED vars
  <2>1. UNCHANGED <<tq, when, lbolt, running>>
    BY <1>6 DEF Clock, Skip, EndOfList, vars
  <2>2. QED
    BY <2>1, SameLeft
<1>7. CASE NextTick
  <2>1. /\ UNCHANGED <<tq, when, running>> /\ lbolt' = Tick(1)
        /\ phase = "off"
    BY <1>7 DEF NextTick
  <2>2. running = NULL /\ \A u \in Timer : Armed(u) => when[u] # lbolt
    BY <1>0, <2>1 DEF NoneLeft
  <2>3. \A u \in Timer : Armed(u) =>
          /\ (when[u] - Tick(1)) % WIDTH = ((when[u] - lbolt) % WIDTH) - 1
          /\ (when[u] - lbolt) % WIDTH # 0
    BY <1>0, <2>2, OneTickLess
  <2>4. \A u \in Timer : Armed(u) => (when[u] - lbolt) % WIDTH # NULL
    <3>1. \A u \in Timer : Armed(u) => (when[u] - lbolt) % WIDTH \in 1..(WIDTH - 1)
      BY <1>0, <2>2, OneTickLess
    <3>2. QED
      BY <3>1, TimeoutAssumption
  <2>5. \A u \in Timer : Left'[u] = IF Left[u] = NULL THEN NULL ELSE Left[u] - 1
    <3> TAKE u \in Timer
    <3>1. Left[u] = IF Armed(u) THEN (when[u] - lbolt) % WIDTH ELSE NULL
      BY DEF Left
    <3>2. Left'[u] = IF Armed(u) THEN (when[u] - Tick(1)) % WIDTH ELSE NULL
      BY <2>1 DEF Left, Armed
    <3>3. QED
      BY <2>3, <2>4, <3>1, <3>2
  <2>6. \A u \in Timer : Left[u] # 0
    BY <1>0, <2>3, TimeoutAssumption DEF Left
  <2>7. Left' = [u \in Timer |-> IF Left[u] = NULL THEN NULL ELSE Left[u] - 1]
    BY <2>5 DEF Left
  <2>8. QED
    BY <2>1, <2>2, <2>6, <2>7 DEF Promise!Tick, Promise!Next
<1>8. CASE Fire
  <2>1. /\ np \in Timer /\ when[np] = lbolt /\ running' = np /\ tq' = Unlink(tq, np)
        /\ UNCHANGED <<when, lbolt>> /\ phase = "scan"
    BY <1>0, <1>8 DEF Fire, TypeOK
  <2>2. Left' = [Left EXCEPT ![np] = NULL]
    BY <1>0, <2>1, TakenOut
  <2>3. Left[np] = 0
    <3>1. Armed(np)
      BY <1>0, <2>1 DEF LinkInv, ScanSafe
    <3>2. (lbolt - lbolt) % WIDTH = 0
      BY <1>0, ModSmall, TimeoutAssumption DEF TypeOK
    <3>3. QED
      BY <2>1, <3>1, <3>2 DEF Left
  <2>4. running = NULL
    BY <1>0, <2>1 DEF NoneLeft
  <2>5. QED
    BY <2>1, <2>2, <2>3, <2>4 DEF Promise!Call, Promise!Next
<1>9. CASE Returned
  <2>1. UNCHANGED Left /\ running' = NULL /\ running # NULL
    BY <1>0, <1>9, SameLeft DEF Returned, NoneLeft
  <2>2. QED
    BY <2>1 DEF Promise!Returned, Promise!Next
<1>10. QED
  BY <1>3, <1>4, <1>5, <1>6, <1>7, <1>8, <1>9 DEF Next

(* timeout() and the scan keep their promise: every function is called once,
   after as many ticks as were asked for, unless its timer was cancelled or
   started again before. *)
THEOREM TimersAreAlarms == ASSUME ~Races PROVE Spec => ImplementsAlarms
<1>1. Init => Promise!Init
  BY DEF Init, Promise!Init, Left, Armed
<1>2. AlarmInv /\ AlarmInv' /\ [Next]_vars => [Promise!Next]_<<Left, running>>
  BY AlarmsRefined
<1>3. QED
  BY <1>1, <1>2, AlarmInvariant, PTL DEF Spec, ImplementsAlarms, Promise!Spec

-----------------------------------------------------------------------------
(* What From() finds, which follows the links from a node. *)

LEMMA LeastNumber ==
  ASSUME NEW T, T \subseteq Nat, T # {}
  PROVE  \E x \in T : \A y \in T : x <= y
<1>1. IsWellFoundedOn(OpToRel(<, Nat), Nat)
  BY NatLessThanWellFounded
<1>2. PICK x \in T : \A y \in T : ~ (<<y, x>> \in OpToRel(<, Nat))
  BY <1>1, WFMin
<1>3. \A y \in T : y < x => <<y, x>> \in OpToRel(<, Nat)
  BY DEF OpToRel
<1>4. \A y \in T : ~ (y < x)
  BY <1>2, <1>3
<1>5. QED
  BY <1>4

LEMMA Induction ==
  ASSUME NEW S, 0 \in S, \A n \in Nat : n \in S => n + 1 \in S
  PROVE  Nat \subseteq S
<1> SUFFICES ASSUME Nat \ S # {} PROVE FALSE
  OBVIOUS
<1>1. PICK x \in Nat \ S : \A y \in Nat \ S : x <= y
  BY LeastNumber
<1>2. x - 1 \in Nat /\ x - 1 \in S
  BY <1>1
<1>3. (x - 1) + 1 \in S
  BY <1>2
<1>4. QED
  BY <1>1, <1>3

Grow(l, s) == s \cup {l.next[x] : x \in {y \in s : y # NULL}}
Grows(l, k, N, f) == f = [n \in 0..N |-> IF n = 0 THEN {k} ELSE Grow(l, f[n - 1])]

LEMMA GrowsExists ==
  ASSUME NEW l, NEW k, NEW N \in Nat
  PROVE  \E f : Grows(l, k, N, f)
<1> DEFINE Pre(m, f) == f[0] = {k} /\ \A n \in Nat : n < m => f[n + 1] = Grow(l, f[n])
           T == {m \in Nat : \E f : Pre(m, f)}
<1>1. 0 \in T
  <2>1. Pre(0, [n \in Nat |-> {k}])
    OBVIOUS
  <2>2. QED
    BY <2>1
<1>2. ASSUME NEW m \in Nat, m \in T PROVE m + 1 \in T
  <2>1. PICK f : Pre(m, f)
    BY <1>2
  <2>2. PICK h : h = [n \in Nat |-> IF n = m + 1 THEN Grow(l, f[m]) ELSE f[n]]
    OBVIOUS
  <2>3. h[0] = {k}
    BY <2>1, <2>2
  <2>4. ASSUME NEW n \in Nat, n < m + 1 PROVE h[n + 1] = Grow(l, h[n])
    <3>1. h[n] = f[n]
      BY <2>2, <2>4
    <3>2. CASE n = m
      BY <2>2, <3>1, <3>2
    <3>3. CASE n # m
      <4>1. n < m /\ n + 1 # m + 1 /\ n + 1 \in Nat
        BY <2>4, <3>3
      <4>2. h[n + 1] = f[n + 1]
        BY <2>2, <4>1
      <4>3. f[n + 1] = Grow(l, f[n])
        BY <2>1, <4>1
      <4>4. QED
        BY <3>1, <4>2, <4>3
    <3>4. QED
      BY <3>2, <3>3
  <2>5. Pre(m + 1, h)
    BY <2>3, <2>4
  <2> HIDE DEF Pre
  <2>6. QED
    BY <2>5
<1>3. N \in T
  <2> HIDE DEF T
  <2>1. QED
    BY <1>1, <1>2, Induction
<1>4. PICK f : Pre(N, f)
  BY <1>3
<1>5. PICK h : h = [n \in 0..N |-> f[n]]
  OBVIOUS
<1>6. ASSUME NEW n \in 0..N PROVE h[n] = IF n = 0 THEN {k} ELSE Grow(l, h[n - 1])
  <2>1. CASE n = 0
    BY <1>4, <1>5, <2>1
  <2>2. CASE n # 0
    <3>1. n - 1 \in Nat /\ n - 1 < N /\ n - 1 \in 0..N /\ (n - 1) + 1 = n
      BY <2>2
    <3>2. f[n] = Grow(l, f[n - 1])
      BY <1>4, <3>1
    <3>3. QED
      BY <1>5, <2>2, <3>1, <3>2
  <2>3. QED
    BY <2>1, <2>2
<1>7. h = [n \in 0..N |-> IF n = 0 THEN {k} ELSE Grow(l, h[n - 1])]
  BY <1>5, <1>6
<1>8. Grows(l, k, N, h)
  BY <1>7 DEF Grows
<1>9. QED
  BY <1>8

LEMMA FromIs ==
  ASSUME NEW k
  PROVE  \E f : Grows(tq, k, Cardinality(Timer), f) /\ From(k) = f[Cardinality(Timer)] \ {NULL}
<1> DEFINE Rec(f) == f = [n \in 0..Cardinality(Timer) |->
                            IF n = 0 THEN {k}
                            ELSE f[n - 1] \cup {tq.next[x] : x \in {y \in f[n - 1] : y # NULL}}]
<1>1. \A f : Rec(f) <=> Grows(tq, k, Cardinality(Timer), f)
  BY DEF Grows, Grow
<1>2. From(k) = (CHOOSE f : Rec(f))[Cardinality(Timer)] \ {NULL}
  BY DEF From
<1> HIDE DEF Rec
<1>3. Cardinality(Timer) \in Nat
  BY TimeoutAssumption, FS_CardinalityType
<1>4. \E f : Rec(f)
  BY <1>1, <1>3, GrowsExists
<1>5. PICK f : Rec(f) /\ From(k) = f[Cardinality(Timer)] \ {NULL}
  BY <1>2, <1>4
<1>6. QED
  BY <1>1, <1>5

(* A node is found from itself. *)
LEMMA StartIsIn ==
  ASSUME NEW l, NEW k, NEW N \in Nat, NEW f, Grows(l, k, N, f)
  PROVE  k \in f[N]
<1> DEFINE T == {n \in Nat : n <= N => k \in f[n]}
<1>1. \A n \in 0..N : f[n] = IF n = 0 THEN {k} ELSE Grow(l, f[n - 1])
  BY DEF Grows
<1>2. 0 \in T
  <2>1. 0 \in 0..N
    OBVIOUS
  <2>2. QED
    BY <1>1, <2>1
<1>3. ASSUME NEW n \in Nat, n \in T PROVE n + 1 \in T
  <2> SUFFICES ASSUME n + 1 <= N PROVE k \in f[n + 1]
    OBVIOUS
  <2>1. n + 1 \in 0..N /\ n + 1 # 0 /\ (n + 1) - 1 = n /\ n <= N
    OBVIOUS
  <2>2. f[n + 1] = Grow(l, f[n])
    BY <1>1, <2>1
  <2>3. QED
    BY <1>3, <2>1, <2>2 DEF Grow
<1>4. N \in T
  <2> HIDE DEF T
  <2>1. QED
    BY <1>2, <1>3, Induction
<1>5. QED
  BY <1>4

(* Node z, the next of y, is in the list of timer t and not behind it. *)
Leads(f, y, z, t) ==
  /\ y # NULL /\ z = tq.next[y] /\ z \in Timer
  /\ Armed(z) /\ when[z] % NTIMQ = when[t] % NTIMQ /\ f[z] <= f[t]

(* From where the next leads to t, t is found. *)
LEMMA Found ==
  ASSUME LinkInv, NEW f, Before(f), NEW t \in Timer, Armed(t),
         NEW k, NEW z0, Leads(f, k, z0, t)
  PROVE  t \in From(k)
<1>1. /\ tq \in Links /\ Linked(tq, when) /\ f \in [Timer -> Int] /\ Sorted(f, tq, when)
      /\ NULL \notin Timer /\ Timer \subseteq Node
  BY LinkedIsLinksAgree, TimeoutAssumption DEF LinkInv, TypeOK, Links, Before, Node
<1>2. PICK g \in [Timer -> Int] : \A u \in Timer : tq.last[u] \in Timer => g[tq.last[u]] < g[u]
  BY DEF LinkInv, Ordered
<1>3. PICK N \in Nat : N = Cardinality(Timer)
  BY TimeoutAssumption, FS_CardinalityType
<1>4. PICK reach : Grows(tq, k, N, reach) /\ From(k) = reach[N] \ {NULL}
  BY <1>3, FromIs
<1>5. /\ reach[0] = {k}
      /\ \A n \in Nat : n < N => reach[n + 1] = Grow(tq, reach[n])
  <2>1. \A n \in 0..N : reach[n] = IF n = 0 THEN {k} ELSE Grow(tq, reach[n - 1])
    BY <1>4 DEF Grows
  <2>2. \A n \in Nat : n < N => n + 1 \in 0..N /\ n + 1 # 0 /\ (n + 1) - 1 = n
    OBVIOUS
  <2>3. 0 \in 0..N
    OBVIOUS
  <2>4. QED
    BY <2>1, <2>2, <2>3
<1> DEFINE Way(n, y, z, D) == /\ y \in reach[n] /\ Leads(f, y, z, t)
                              /\ D \subseteq Timer \ {t} /\ Cardinality(D) >= n
                              /\ \A u \in D : g[u] < g[z]
           T == {n \in Nat : n <= N => t \in reach[n] \/ \E y, z, D : Way(n, y, z, D)}
<1>6. 0 \in T
  <2>1. Cardinality({}) = 0 /\ {} \subseteq Timer \ {t}
    BY FS_EmptySet
  <2>2. Way(0, k, z0, {})
    BY <1>5, <2>1
  <2> HIDE DEF Way
  <2>3. QED
    BY <2>2
<1>7. ASSUME NEW n \in Nat, n \in T PROVE n + 1 \in T
  <2> SUFFICES ASSUME n + 1 <= N
               PROVE  t \in reach[n + 1] \/ \E y, z, D : Way(n + 1, y, z, D)
    OBVIOUS
  <2>1. reach[n + 1] = Grow(tq, reach[n])
    BY <1>5
  <2>2. CASE t \in reach[n]
    BY <2>1, <2>2 DEF Grow
  <2>3. CASE t \notin reach[n]
    <3>1. PICK y, z, D : Way(n, y, z, D)
      <4> HIDE DEF Way
      <4>1. n <= N
        OBVIOUS
      <4>2. QED
        BY <1>7, <2>3, <4>1
    <3>2. z \in reach[n + 1]
      BY <2>1, <3>1 DEF Grow, Leads
    <3>3. CASE z = t
      BY <3>2, <3>3
    <3>4. CASE z # t
      <4>1. f[z] < f[t]
        <5>1. f[z] # f[t]
          BY <1>1, <3>1, <3>4 DEF Sorted, Leads, Armed
        <5>2. f[z] <= f[t] /\ f[z] \in Int /\ f[t] \in Int
          BY <1>1, <3>1 DEF Leads
        <5>3. QED
          BY <5>1, <5>2
      <4>2. PICK x : x = tq.next[z]
        OBVIOUS
      <4>3. x \in Timer /\ f[x] <= f[t]
        BY <1>1, <3>1, <4>1, <4>2 DEF Sorted, Leads, Armed
      <4>4. tq.last[x] = z
        BY <1>1, <3>1, <4>2, <4>3 DEF Linked, Leads, Armed
      <4>5. Leads(f, z, x, t)
        BY <1>1, <3>1, <4>2, <4>3, <4>4 DEF Linked, Leads, Armed
      <4>6. g[z] < g[x]
        BY <1>2, <3>1, <4>3, <4>4 DEF Leads
      <4>7. \A u \in D \cup {z} : g[u] < g[x]
        <5>1. \A u \in D : g[u] < g[z] /\ g[u] \in Int
          BY <1>2, <3>1
        <5>2. g[z] \in Int /\ g[x] \in Int
          BY <1>2, <3>1, <4>3 DEF Leads
        <5>3. QED
          BY <4>6, <5>1, <5>2
      <4>8. D \cup {z} \subseteq Timer \ {t} /\ z \notin D
        BY <1>2, <3>1, <3>4 DEF Leads
      <4>9. IsFiniteSet(D) /\ Cardinality(D) \in Nat
        BY <3>1, FS_Subset, FS_CardinalityType, TimeoutAssumption
      <4>10. Cardinality(D \cup {z}) = Cardinality(D) + 1
        BY <4>8, <4>9, FS_AddElement
      <4>11. Cardinality(D \cup {z}) >= n + 1
        BY <3>1, <4>9, <4>10
      <4>12. Way(n + 1, z, x, D \cup {z})
        BY <3>2, <4>5, <4>7, <4>8, <4>11
      <4> HIDE DEF Way
      <4>13. QED
        BY <4>12
    <3>5. QED
      BY <3>3, <3>4
  <2>4. QED
    BY <2>2, <2>3
<1>8. N \in T
  <2> HIDE DEF T
  <2>1. QED
    BY <1>6, <1>7, Induction
<1>9. ASSUME NEW y, NEW z, NEW D, Way(N, y, z, D) PROVE FALSE
  <2>1. D \in SUBSET (Timer \ {t}) /\ Cardinality(D) >= N
    BY <1>9
  <2>2. IsFiniteSet(Timer \ {t}) /\ Cardinality(Timer \ {t}) = N - 1
    BY <1>3, TimeoutAssumption, FS_RemoveElement
  <2>3. Cardinality(D) <= Cardinality(Timer \ {t}) /\ Cardinality(D) \in Nat
    BY <2>1, <2>2, FS_Subset, FS_CardinalityType
  <2>4. QED
    BY <2>1, <2>2, <2>3
<1>10. t \in reach[N]
  <2> HIDE DEF Way
  <2>1. QED
    BY <1>8, <1>9
<1>11. QED
  BY <1>1, <1>4, <1>10

(* Every timer that was started can be found from the head of the list that
   the scan goes through at its tick: no link that is changed cuts off what
   is behind it. *)
THEOREM TimersAreFound == ASSUME ~Races PROVE Spec => []ListsOK
<1>1. AlarmInv => ListsOK
  <2> SUFFICES ASSUME AlarmInv, NEW t \in Timer, Armed(t)
               PROVE  t \in From(when[t] % NTIMQ)
    BY DEF ListsOK
  <2>1. PICK f : Before(f)
    BY DEF AlarmInv
  <2>2. PICK k : k = when[t] % NTIMQ
    OBVIOUS
  <2>3. LinkInv /\ Linked(tq, when) /\ tq \in Links /\ when \in [Timer -> Nat]
    BY LinkedIsLinksAgree, TimeoutAssumption DEF AlarmInv, LinkInv, TypeOK, Links
  <2>4. k \in Queue /\ k \in Node /\ k # NULL /\ k \notin Timer
    BY <2>2, <2>3, TimeoutAssumption DEF Queue, Node
  <2>5. PICK z : z = tq.next[k]
    OBVIOUS
  <2>6. z \in Timer /\ f[z] <= f[t]
    BY <2>1, <2>2, <2>5 DEF Before, Sorted, Armed
  <2>7. tq.last[z] = k
    BY <2>3, <2>4, <2>5, <2>6, TimeoutAssumption DEF Linked
  <2>8. Armed(z) /\ when[z] % NTIMQ = k
    BY <2>3, <2>4, <2>6, <2>7 DEF Linked, Armed
  <2>9. Leads(f, k, z, t)
    BY <2>2, <2>4, <2>5, <2>6, <2>8 DEF Leads
  <2>10. QED
    BY <2>1, <2>2, <2>3, <2>9, Found
<1>2. QED
  BY <1>1, AlarmInvariant, PTL

(* The scan misses no timer: in the middle of a tick those that are due are
   still before it, whatever is started and cancelled meanwhile. *)
THEOREM ScanMissesNone == ASSUME ~Races PROVE Spec => []ScanComplete
<1>1. AlarmInv => ScanComplete
  <2> SUFFICES ASSUME AlarmInv, phase # "off", NEW t \in Timer, Armed(t), when[t] = lbolt
               PROVE  np # NULL /\ t \in From(np)
    BY DEF ScanComplete
  <2>1. PICK f : Before(f)
    BY DEF AlarmInv
  <2>2. LinkInv /\ Linked(tq, when) /\ tq \in Links /\ NULL \notin Timer
    BY LinkedIsLinksAgree, TimeoutAssumption DEF AlarmInv, LinkInv, TypeOK, Links
  <2>3. np \in Timer /\ np # NULL /\ np \in Node
    BY <2>1, <2>2 DEF Before, Node
  <2>4. Armed(np) /\ when[np] % NTIMQ = when[t] % NTIMQ
    BY <2>2, <2>3 DEF LinkInv, ScanSafe
  <2>5. CASE np = t
    <3>1. PICK reach : /\ Grows(tq, t, Cardinality(Timer), reach)
                       /\ From(t) = reach[Cardinality(Timer)] \ {NULL}
      BY FromIs
    <3>2. QED
      BY <2>2, <2>3, <2>5, <3>1, StartIsIn, TimeoutAssumption, FS_CardinalityType
  <2>6. CASE np # t
    <3>1. PICK z : z = tq.next[np]
      OBVIOUS
    <3>2. z \in Timer /\ f[z] <= f[t]
      BY <2>1, <2>2, <2>3, <2>6, <3>1, NextIsBefore
    <3>3. tq.last[z] = np
      BY <2>2, <2>3, <2>4, <3>1, <3>2 DEF Linked, Armed
    <3>4. Armed(z) /\ when[z] % NTIMQ = when[t] % NTIMQ
      BY <2>2, <2>3, <2>4, <3>2, <3>3 DEF Linked, Armed
    <3>5. Leads(f, np, z, t)
      BY <2>3, <3>1, <3>2, <3>4 DEF Leads
    <3>6. QED
      BY <2>1, <2>2, <2>3, <3>5, Found
  <2>7. QED
    BY <2>3, <2>5, <2>6
<1>2. QED
  BY <1>1, AlarmInvariant, PTL
=============================================================================
