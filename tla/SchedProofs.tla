----------------------------- MODULE SchedProofs -----------------------------
(***************************************************************************)
(* Theorems about the scheduler and the gates, for every set of processes, *)
(* gates and events, every hash function and every queue length DEFLIM.    *)
(***************************************************************************)
EXTENDS Sched, SequenceTheorems, FiniteSetTheorems, TLAPS

-----------------------------------------------------------------------------
(* The queue operations, as operations on the set of queued processes. *)

(* An unlinked queue is a queue without that element. *)
LEMMA UnlinkType ==
  ASSUME NEW S, NEW q \in Seq(S), NEW i \in 1..Len(q)
  PROVE  Unlink(q, i) \in Seq(S)
<1>1. Len(q) - 1 \in Nat
  BY LenProperties
<1>2. Unlink(q, i) \in [1..(Len(q) - 1) -> S]
  BY <1>1, ElementOfSeq DEF Unlink
<1>3. QED
  BY <1>1, <1>2

(* Unlinking the i-th element loses no other. *)
LEMMA UnlinkKeeps ==
  ASSUME NEW S, NEW q \in Seq(S), NEW i \in 1..Len(q)
  PROVE  Range(q) \ {q[i]} \subseteq Range(Unlink(q, i))
<1> DEFINE u == Unlink(q, i)
<1>1. Len(q) \in Nat /\ DOMAIN q = 1..Len(q)
  BY LenProperties
<1>2. /\ DOMAIN u = 1..(Len(q) - 1)
      /\ \A j \in 1..(Len(q) - 1) : u[j] = IF j < i THEN q[j] ELSE q[j + 1]
  BY DEF Unlink
<1> HIDE DEF u
<1>3. ASSUME NEW x \in Range(q) \ {q[i]}
      PROVE  x \in Range(u)
  <2>1. PICK k \in 1..Len(q) : x = q[k] /\ k # i
    BY <1>1, <1>3 DEF Range
  <2>2. CASE k < i
    <3>1. k \in 1..(Len(q) - 1) /\ u[k] = x
      BY <1>1, <1>2, <2>1, <2>2
    <3>2. QED
      BY <1>2, <3>1 DEF Range
  <2>3. CASE k > i
    <3>1. k - 1 \in 1..(Len(q) - 1) /\ u[k - 1] = x
      BY <1>1, <1>2, <2>1, <2>3
    <3>2. QED
      BY <1>2, <3>1 DEF Range
  <2>4. QED
    BY <1>1, <2>1, <2>2, <2>3
<1>4. QED
  BY <1>3 DEF u

(* In a queue without repetitions it also removes that element. *)
LEMMA UnlinkRange ==
  ASSUME NEW S, NEW q \in Seq(S), NEW i \in 1..Len(q), IsInjective(q)
  PROVE  /\ IsInjective(Unlink(q, i))
         /\ Range(Unlink(q, i)) = Range(q) \ {q[i]}
<1> DEFINE u == Unlink(q, i)
<1>1. /\ Len(q) \in Nat /\ DOMAIN q = 1..Len(q)
      /\ \A a, b \in 1..Len(q) : q[a] = q[b] => a = b
  BY LenProperties DEF IsInjective
<1>2. /\ DOMAIN u = 1..(Len(q) - 1)
      /\ \A j \in 1..(Len(q) - 1) : u[j] = IF j < i THEN q[j] ELSE q[j + 1]
  BY DEF Unlink
<1>3. Range(q) \ {q[i]} \subseteq Range(u)
  BY UnlinkKeeps
<1> HIDE DEF u
<1>4. IsInjective(u)
  BY <1>1, <1>2 DEF IsInjective
<1>5. ASSUME NEW x \in Range(u)
      PROVE  x \in Range(q) \ {q[i]}
  <2>1. PICK j \in 1..(Len(q) - 1) : x = u[j]
    BY <1>2, <1>5 DEF Range
  <2>2. CASE j < i
    BY <1>1, <1>2, <2>1, <2>2 DEF Range
  <2>3. CASE ~(j < i)
    BY <1>1, <1>2, <2>1, <2>3 DEF Range
  <2>4. QED
    BY <2>2, <2>3
<1>6. QED
  BY <1>3, <1>4, <1>5 DEF u

(* Linking a new element at the tail. *)
LEMMA AppendRange ==
  ASSUME NEW S, NEW q \in Seq(S), NEW x \in S
  PROVE  /\ Append(q, x) \in Seq(S)
         /\ Range(Append(q, x)) = Range(q) \cup {x}
         /\ IsInjective(q) /\ x \notin Range(q) => IsInjective(Append(q, x))
<1>1. /\ Append(q, x) \in Seq(S)
      /\ Len(q) \in Nat /\ DOMAIN q = 1..Len(q)
      /\ DOMAIN Append(q, x) = 1..(Len(q) + 1)
      /\ Append(q, x)[Len(q) + 1] = x
      /\ \A j \in 1..Len(q) : Append(q, x)[j] = q[j]
  BY LenProperties, AppendProperties
<1>2. Range(Append(q, x)) = Range(q) \cup {x}
  BY <1>1 DEF Range
<1>3. IsInjective(q) /\ x \notin Range(q) => IsInjective(Append(q, x))
  BY <1>1 DEF IsInjective, Range
<1>4. QED
  BY <1>1, <1>2, <1>3

(* Taking the head loses only the head. *)
LEMMA TailKeeps ==
  ASSUME NEW S, NEW q \in Seq(S), q # <<>>, NEW x \in Range(q), x # Head(q)
  PROVE  x \in Range(Tail(q))
<1>1. /\ Len(q) \in Nat \ {0} /\ DOMAIN q = 1..Len(q)
      /\ Head(q) = q[1]
      /\ DOMAIN Tail(q) = 1..(Len(q) - 1)
      /\ \A j \in 1..(Len(q) - 1) : Tail(q)[j] = q[j + 1]
  BY LenProperties, HeadTailProperties, EmptySeq
<1>2. PICK k \in 1..Len(q) : x = q[k] /\ k # 1
  BY <1>1 DEF Range
<1>3. k - 1 \in 1..(Len(q) - 1) /\ Tail(q)[k - 1] = x
  BY <1>1, <1>2
<1>4. QED
  BY <1>1, <1>3 DEF Range

(* Taking the head of a queue without repetitions. *)
LEMMA TailRange ==
  ASSUME NEW S, NEW q \in Seq(S), q # <<>>
  PROVE  /\ Head(q) \in S /\ Head(q) \in Range(q)
         /\ Tail(q) \in Seq(S) /\ Len(Tail(q)) = Len(q) - 1
         /\ IsInjective(q) => /\ IsInjective(Tail(q))
                              /\ Range(Tail(q)) = Range(q) \ {Head(q)}
<1>1. /\ Head(q) \in S
      /\ Tail(q) \in Seq(S)
      /\ Len(q) \in Nat \ {0} /\ DOMAIN q = 1..Len(q)
      /\ Head(q) = q[1]
      /\ DOMAIN Tail(q) = 1..(Len(q) - 1)
      /\ Len(Tail(q)) = Len(q) - 1
      /\ \A j \in 1..(Len(q) - 1) : Tail(q)[j] = q[j + 1]
  BY LenProperties, HeadTailProperties, EmptySeq
<1>2. Head(q) \in Range(q)
  BY <1>1 DEF Range
<1>3. SUFFICES ASSUME IsInjective(q)
               PROVE  /\ IsInjective(Tail(q))
                      /\ Range(Tail(q)) = Range(q) \ {Head(q)}
  BY <1>1, <1>2
<1>4. IsInjective(Tail(q))
  BY <1>1, <1>3 DEF IsInjective
<1>5. ASSUME NEW x \in Range(Tail(q))
      PROVE  x \in Range(q) \ {Head(q)}
  <2>1. PICK j \in 1..(Len(q) - 1) : x = q[j + 1]
    BY <1>1, <1>5 DEF Range
  <2>2. QED
    BY <1>1, <1>3, <2>1 DEF IsInjective, Range
<1>6. ASSUME NEW x \in Range(q) \ {Head(q)}
      PROVE  x \in Range(Tail(q))
  BY <1>6, TailKeeps
<1>7. QED
  BY <1>4, <1>5, <1>6

-----------------------------------------------------------------------------
(* Types.  A process that is back in lock() retries the event it slept on,
   and a signal looks for a sleeper in the bucket of its event: that these
   are a gate and an event is part of what has to be invariant. *)

RetriesGate == \A p \in Proc : pc[p] = "lock" => event[p] \in Gate

SleepsOnEvent == \A p \in Proc : Asleep(p) => event[p] \in Chan

Typed == TypeOK /\ RetriesGate /\ SleepsOnEvent

(* dispatch() runs a process of the run queue, or idles, and leaves a queue of
   processes. *)
LEMMA DispatchType ==
  ASSUME NEW rq \in Seq(Proc), Dispatch(rq)
  PROVE  /\ self' \in Thread
         /\ runq' \in Seq(Proc)
         /\ disflag' = FALSE /\ expired' = FALSE
<1>1. CASE rq = <<>>
  BY <1>1 DEF Dispatch, Thread
<1>2. CASE rq # <<>>
  BY <1>2, TailRange DEF Dispatch, Thread
<1>3. QED
  BY <1>1, <1>2

(* wakeup() keeps the deferred-function queue and its tick well typed, full or
   not. *)
LEMMA WakeupType ==
  ASSUME TypeOK, NEW e \in Chan, Wakeup(e)
  PROVE  /\ defq' \in Seq(Chan) /\ Len(defq') <= DEFLIM
         /\ foo' \in BOOLEAN
<1>1. CASE Len(defq) < DEFLIM
  <2>1. /\ defq \in Seq(Chan) /\ Len(defq) \in Nat /\ DEFLIM \in Nat
        /\ defq' = Append(defq, e) /\ foo' = foo /\ foo \in BOOLEAN
    BY <1>1, SchedAssumption, LenProperties DEF Wakeup, TypeOK
  <2>2. QED
    BY <1>1, <2>1, AppendProperties
<1>2. CASE ~(Len(defq) < DEFLIM)
  BY <1>2 DEF Wakeup, TypeOK
<1>3. QED
  BY <1>1, <1>2

(* x_sleep() links the process to one hash chain and marks it as asleep. *)
LEMMA LinkType ==
  ASSUME TypeOK, NEW p \in Proc, NEW e \in Chan, NEW s \in States, Link(p, e, s)
  PROVE  /\ linkq' \in [Bucket -> Seq(Proc)]
         /\ state' \in [Proc -> States]
         /\ event' \in [Proc -> Chan \cup {NoEvent}]
<1>1. Hash[e] \in Bucket
  BY SchedAssumption
<1>2. Append(linkq[Hash[e]], p) \in Seq(Proc)
  BY <1>1, AppendProperties DEF TypeOK
<1>3. QED
  BY <1>1, <1>2 DEF Link, TypeOK

(* A process that is made ready moves from its hash chain to the run queue. *)
LEMMA WakeType ==
  ASSUME TypeOK, NEW b \in Bucket, NEW i \in DOMAIN linkq[b], Wake(b, i)
  PROVE  /\ linkq[b][i] \in Proc /\ i \in 1..Len(linkq[b])
         /\ linkq' \in [Bucket -> Seq(Proc)]
         /\ runq' \in Seq(Proc)
         /\ state' \in [Proc -> States]
         /\ \A p \in Proc : Asleep(p)' => Asleep(p)
<1>1. linkq[b] \in Seq(Proc) /\ i \in 1..Len(linkq[b])
  BY LenProperties DEF TypeOK
<1>2. linkq[b][i] \in Proc /\ Unlink(linkq[b], i) \in Seq(Proc)
  BY <1>1, ElementOfSeq, UnlinkType
<1>3. Append(runq, linkq[b][i]) \in Seq(Proc)
  BY <1>2, AppendProperties DEF TypeOK
<1>4. QED
  BY <1>2, <1>3, <1>1 DEF Wake, TypeOK, States, Asleep

(* Testing a gate leaves the caller running or linked to sleep on the gate, its
   own event; only a process in lock() is ever sent back to test again. *)
LEMMA TryLockTyped ==
  ASSUME Typed, NEW p \in Proc, NEW g \in Gate, TryLock(p, g)
  PROVE  Typed'
<1>1. CASE g \in lock0
  <2>1. /\ Link(p, g, "PSSLEEP") /\ Dispatch(runq)
        /\ lock1' = lock1 \cup {g}
        /\ pc' = [pc EXCEPT ![p] = "lock"]
        /\ UNCHANGED <<lock0, holds, deferred, pending>>
    BY <1>1 DEF TryLock
  <2>2. g \in Chan /\ "PSSLEEP" \in States
    BY DEF Chan, States
  <2>3. TypeOK'
    BY <2>1, <2>2, LinkType, DispatchType DEF Typed, TypeOK, deferred, Thread
  <2>4. RetriesGate' /\ SleepsOnEvent'
    BY <2>1, <2>2 DEF Typed, TypeOK, RetriesGate, SleepsOnEvent, Asleep, Link, Thread
  <2>5. QED
    BY <2>3, <2>4 DEF Typed
<1>2. CASE g \notin lock0
  <2>1. /\ lock0' = lock0 \cup {g}
        /\ holds' = [holds EXCEPT ![p] = @ \cup {g}]
        /\ pc' = [pc EXCEPT ![p] = "kernel"]
        /\ UNCHANGED <<self, queues, lock1, deferred, disflag, expired, pending>>
    BY <1>2 DEF TryLock
  <2>2. TypeOK'
    BY <2>1 DEF Typed, TypeOK, queues, deferred, Thread
  <2>3. RetriesGate' /\ SleepsOnEvent'
    BY <2>1 DEF Typed, TypeOK, RetriesGate, SleepsOnEvent, Asleep, queues, Thread
  <2>4. QED
    BY <2>2, <2>3 DEF Typed
<1>3. QED
  BY <1>1, <1>2 DEF TryLock

(* The return to user mode keeps every component of the state well typed. *)
LEMMA EnterStandTyped ==
  ASSUME TypeOK, NEW t \in Thread, NEW over \in BOOLEAN, EnterStand(t, over)
  PROVE  /\ pc' \in [Thread -> {"user", "kernel", "lock", "stand"}]
         /\ disflag' \in BOOLEAN
         /\ pending' \in SUBSET Proc
         /\ \A p \in Proc : pc'[p] = "lock" => pc[p] = "lock"
BY DEF EnterStand, TypeOK, Thread

(* The boot state is well typed. *)
LEMMA TypedInit == Init => Typed
<1> SUFFICES ASSUME Init PROVE Typed
  OBVIOUS
<1>1. Cardinality(Proc) \in Nat
  BY SchedAssumption, FS_CardinalityType
<1>2. runq \in Seq(Proc)
  BY <1>1 DEF Init
<1>3. <<>> \in Seq(Proc) /\ <<>> \in Seq(Chan) /\ Len(<<>>) <= DEFLIM
  BY SchedAssumption, EmptySeq
<1>4. TypeOK
  BY <1>2, <1>3 DEF Init, TypeOK, Thread, States
<1>5. RetriesGate /\ SleepsOnEvent
  BY DEF Init, RetriesGate, SleepsOnEvent, Asleep, Thread
<1>6. QED
  BY <1>4, <1>5 DEF Typed

(* Every action keeps the state well typed: one step per disjunct of Next. *)
LEMMA TypedStep == Typed /\ [Next]_vars => Typed'
<1> SUFFICES ASSUME Typed, [Next]_vars PROVE Typed'
  OBVIOUS
<1> USE DEF Typed, TypeOK, RetriesGate, SleepsOnEvent, Asleep
<1>1. ASSUME NEW p \in Proc, Trap(p) PROVE Typed'
  BY <1>1 DEF Trap, queues, gates, deferred, Thread
<1>2. ASSUME NEW p \in Proc, Relock(p) PROVE Typed'
  BY <1>2, TryLockTyped DEF Relock
<1>3. ASSUME NEW p \in Proc, Return(p) PROVE Typed'
  <2>1. p \in Thread /\ EnterStand(p, expired)
    BY <1>3 DEF Return, Thread
  <2>2. QED
    BY <1>3, <2>1, EnterStandTyped DEF Return, queues, gates, deferred
<1>4. ASSUME NEW p \in Proc, NEW g \in Gate, Lock(p, g) PROVE Typed'
  BY <1>4, TryLockTyped DEF Lock
<1>5. ASSUME NEW p \in Proc, NEW g \in Gate, Unlock(p, g) PROVE Typed'
  <2>1. /\ lock0' \in SUBSET Gate /\ lock1' \in SUBSET Gate
        /\ holds' \in [Proc -> SUBSET Gate]
        /\ UNCHANGED <<self, runq, linkq, state, event, expired, pending, pc>>
    BY <1>5 DEF Unlock, queues
  <2>2. CASE g \in lock1
    <3>1. g \in Chan /\ Wakeup(g) /\ disflag' = TRUE
      BY <1>5, <2>2 DEF Unlock, Chan
    <3>2. QED
      BY <2>1, <3>1, WakeupType
  <2>3. CASE g \notin lock1
    BY <1>5, <2>1, <2>3 DEF Unlock, deferred
  <2>4. QED
    BY <2>2, <2>3
<1>6. ASSUME NEW p \in Proc, NEW e \in Event, SleepNoSig(p, e) PROVE Typed'
  <2>1. e \in Chan /\ "PSSLEEP" \in States /\ pc[p] = "kernel"
    BY <1>6 DEF Chan, States, SleepNoSig, InKernel
  <2>2. TypeOK'
    BY <1>6, <2>1, LinkType, DispatchType DEF SleepNoSig, gates, deferred
  <2>3. QED
    BY <1>6, <2>1, <2>2 DEF SleepNoSig, Link
<1>7. ASSUME NEW p \in Proc, NEW e \in Event, SleepSig(p, e) PROVE Typed'
  <2>1. e \in Chan /\ "PSSLSIG" \in States /\ pc[p] = "kernel" /\ Link(p, e, "PSSLSIG")
    BY <1>7 DEF Chan, States, SleepSig, InKernel
  <2>2. \/ Dispatch(runq)
        \/ UNCHANGED <<self, runq, disflag, expired>>
    BY <1>7 DEF SleepSig
  <2>3. TypeOK'
    BY <1>7, <2>1, <2>2, LinkType, DispatchType DEF SleepSig, gates, deferred
  <2>4. QED
    BY <1>7, <2>1, <2>3 DEF SleepSig, Link
<1>8. ASSUME NEW p \in Proc, NEW e \in Event, WakeupEvent(p, e) PROVE Typed'
  <2>1. e \in Chan /\ Wakeup(e)
    BY <1>8 DEF Chan, WakeupEvent
  <2>2. QED
    BY <1>8, <2>1, WakeupType DEF WakeupEvent, queues, gates
<1>9. ASSUME NEW p \in Proc, NEW q \in Proc, Kill(p, q) PROVE Typed'
  <2>1. /\ pending' \in SUBSET Proc
        /\ UNCHANGED <<self, event, lock0, lock1, holds, defq, foo, disflag, expired, pc>>
    BY <1>9 DEF Kill, gates, deferred
  <2>2. CASE state[q] = "PSSLSIG"
    <3>1. PICK i \in DOMAIN linkq[Hash[event[q]]] :
            linkq[Hash[event[q]]][i] = q /\ Wake(Hash[event[q]], i)
      BY <1>9, <2>2 DEF Kill
    <3>2. Hash[event[q]] \in Bucket
      BY <2>2, SchedAssumption
    <3>3. /\ linkq' \in [Bucket -> Seq(Proc)] /\ runq' \in Seq(Proc)
          /\ state' \in [Proc -> States]
          /\ \A r \in Proc : Asleep(r)' => Asleep(r)
      BY <3>1, <3>2, WakeType
    <3>4. QED
      BY <2>1, <3>3
  <2>3. CASE state[q] # "PSSLSIG"
    BY <1>9, <2>1, <2>3 DEF Kill
  <2>4. QED
    BY <2>2, <2>3
<1>10. ASSUME NEW e \in Event, Interrupt(e) PROVE Typed'
  <2>1. e \in Chan /\ Wakeup(e) /\ self \in Thread
        /\ UNCHANGED <<self, runq, linkq, state, event, lock0, lock1, holds, expired>>
    BY <1>10 DEF Chan, Interrupt, queues, gates
  <2>2. \/ EnterStand(self, expired)
        \/ UNCHANGED <<pc, disflag, pending>>
    BY <1>10 DEF Interrupt
  <2>3. QED
    BY <2>1, <2>2, WakeupType, EnterStandTyped
<1>11. ASSUME Tick PROVE Typed'
  <2>1. \/ EnterStand(self, TRUE)
        \/ UNCHANGED <<pc, disflag, pending>>
    BY <1>11 DEF Tick
  <2>2. QED
    BY <1>11, <2>1, EnterStandTyped DEF Tick, queues, gates, deferred
<1>12. ASSUME DefendWake PROVE Typed'
  <2>1. Head(defq) \in Chan
    BY <1>12, TailRange DEF DefendWake
  <2>2. Hash[Head(defq)] \in Bucket
    BY <2>1, SchedAssumption
  <2>3. /\ linkq' \in [Bucket -> Seq(Proc)] /\ runq' \in Seq(Proc)
        /\ state' \in [Proc -> States]
        /\ \A r \in Proc : Asleep(r)' => Asleep(r)
    BY <1>12, <2>2, WakeType DEF DefendWake, WakeFirst
  <2>4. QED
    BY <1>12, <2>3 DEF DefendWake, gates, deferred
<1>17. ASSUME NEW e \in Event, BlockDone(e) PROVE Typed'
  <2>1. Hash[e] \in Bucket /\ self \in Thread
    BY SchedAssumption DEF Chan
  <2>2. /\ linkq' \in [Bucket -> Seq(Proc)] /\ runq' \in Seq(Proc)
        /\ state' \in [Proc -> States]
        /\ \A r \in Proc : Asleep(r)' => Asleep(r)
    BY <1>17, <2>1, WakeType DEF BlockDone, WakeFirst
  <2>3. /\ UNCHANGED <<self, event, lock0, lock1, holds, defq, foo, expired>>
        /\ \/ EnterStand(self, expired)
           \/ UNCHANGED <<pc, disflag, pending>>
    BY <1>17 DEF BlockDone, gates, deferred
  <2>4. QED
    BY <2>1, <2>2, <2>3 DEF EnterStand, Thread
<1>13. ASSUME DefendNext PROVE Typed'
  <2>1. defq' \in Seq(Chan) /\ Len(defq') = Len(defq) - 1 /\ Len(defq) \in Nat
    BY <1>13, TailRange, LenProperties DEF DefendNext
  <2>2. Len(defq') <= DEFLIM
    BY <2>1, SchedAssumption
  <2>3. QED
    BY <1>13, <2>1, <2>2 DEF DefendNext, queues, gates
<1>14. ASSUME StandDispatch PROVE Typed'
  <2>1. /\ UNCHANGED <<linkq, event, lock0, lock1, holds, defq, foo, pending>>
        /\ pc' = [pc EXCEPT ![self] = "user"]
    BY <1>14 DEF StandDispatch, gates, deferred
  <2>2. CASE disflag /\ self = Idle
    <3>1. Dispatch(runq) /\ state' = state
      BY <1>14, <2>2 DEF StandDispatch
    <3>2. /\ self' \in Thread /\ runq' \in Seq(Proc)
          /\ disflag' = FALSE /\ expired' = FALSE
      BY <3>1, DispatchType
    <3>3. TypeOK'
      BY <2>1, <3>1, <3>2
    <3>4. QED
      BY <2>1, <3>1, <3>3
  <2>3. CASE disflag /\ self # Idle
    <3>1. self \in Proc /\ Append(runq, self) \in Seq(Proc)
      BY <2>3, AppendProperties DEF Thread
    <3>2. Dispatch(Append(runq, self)) /\ state' = [state EXCEPT ![self] = "PSRUN"]
      BY <1>14, <2>3 DEF StandDispatch
    <3>3. /\ self' \in Thread /\ runq' \in Seq(Proc)
          /\ disflag' = FALSE /\ expired' = FALSE
      BY <3>1, <3>2, DispatchType
    <3>4. TypeOK'
      BY <2>1, <3>1, <3>2, <3>3 DEF States
    <3>5. QED
      BY <2>1, <3>1, <3>2, <3>4
  <2>4. CASE ~disflag
    BY <1>14, <2>1, <2>4 DEF StandDispatch
  <2>5. QED
    BY <2>2, <2>3, <2>4
<1>15. CASE UNCHANGED vars
  BY <1>15 DEF vars, queues, gates, deferred
<1>16. QED
  BY <1>1, <1>2, <1>3, <1>4, <1>5, <1>6, <1>7, <1>8, <1>9, <1>10, <1>11,
     <1>12, <1>13, <1>14, <1>15, <1>17 DEF Next, Stand

(* Every variable keeps its type: in particular the deferred queue never
   outgrows its DEFLIM slots. *)
THEOREM TypeCorrect == Spec => []TypeOK
<1>1. Typed => TypeOK
  BY DEF Typed
<1>2. QED
  BY <1>1, TypedInit, TypedStep, PTL DEF Spec

-----------------------------------------------------------------------------
(* Mutual exclusion. *)

(* A gate is marked only when nobody holds it. *)
LEMMA TryLockMutex ==
  ASSUME Typed, MutualExclusion, NEW p \in Proc, NEW g \in Gate, TryLock(p, g)
  PROVE  MutualExclusion'
<1>1. CASE g \in lock0
  BY <1>1 DEF TryLock, MutualExclusion
<1>2. CASE g \notin lock0
  <2>1. lock0' = lock0 \cup {g} /\ holds' = [holds EXCEPT ![p] = @ \cup {g}]
    BY <1>2 DEF TryLock
  <2>2. \A q \in Proc : g \notin holds[q]
    BY <1>2 DEF MutualExclusion
  <2>3. QED
    BY <2>1, <2>2 DEF MutualExclusion, Typed, TypeOK
<1>3. QED
  BY <1>1, <1>2

(* No step gives a gate to a second holder: holds grows only in TryLock, behind
   the test of both bytes of the gate. *)
LEMMA MutexStep == Typed /\ MutualExclusion /\ [Next]_vars => MutualExclusion'
<1> SUFFICES ASSUME Typed, MutualExclusion, [Next]_vars PROVE MutualExclusion'
  OBVIOUS
<1>1. ASSUME UNCHANGED gates PROVE MutualExclusion'
  BY <1>1 DEF gates, MutualExclusion
<1>2. ASSUME NEW p \in Proc, Relock(p) PROVE MutualExclusion'
  BY <1>2, TryLockMutex DEF Relock, Typed, RetriesGate
<1>3. ASSUME NEW p \in Proc, NEW g \in Gate, Lock(p, g) PROVE MutualExclusion'
  BY <1>3, TryLockMutex DEF Lock
<1>4. ASSUME NEW p \in Proc, NEW g \in Gate, Unlock(p, g) PROVE MutualExclusion'
  BY <1>4 DEF Unlock, MutualExclusion, Typed, TypeOK
<1>5. QED
  BY <1>1, <1>2, <1>3, <1>4
     DEF Next, Stand, Trap, Return, SleepNoSig, SleepSig, WakeupEvent, Kill,
         Interrupt, BlockDone, Tick, DefendWake, DefendNext, StandDispatch, vars

(* A gate is held by at most one process, and is locked while it is. *)
THEOREM GatesExclude == Spec => []MutualExclusion
<1>1. Init => MutualExclusion
  BY DEF Init, MutualExclusion
<1>2. QED
  BY <1>1, TypedInit, TypedStep, MutexStep, PTL DEF Spec

-----------------------------------------------------------------------------
(* No lost wakeup.  A sleeper is found in the bucket of its event, so that a
   deferred wakeup that finds nobody there leaves nobody asleep. *)

SleeperLinked == \A p \in Proc : Asleep(p) => p \in Range(linkq[Hash[event[p]]])

SleepInv == Typed /\ SleeperLinked /\ NoLostGateWakeup

(* Linking a process puts it in the bucket of its event and moves nobody. *)
LEMMA LinkLinks ==
  ASSUME Typed, SleeperLinked, NEW p \in Proc, NEW e \in Chan, NEW s \in States,
         Link(p, e, s)
  PROVE  SleeperLinked'
<1>1. Hash[e] \in Bucket
  BY SchedAssumption
<1>2. linkq[Hash[e]] \in Seq(Proc)
  BY <1>1 DEF Typed, TypeOK
<1>3. Range(Append(linkq[Hash[e]], p)) = Range(linkq[Hash[e]]) \cup {p}
  BY <1>2, AppendRange
<1>4. ASSUME NEW r \in Proc, Asleep(r)'
      PROVE  r \in Range(linkq[Hash[event[r]]])'
  <2>1. CASE r = p
    BY <1>1, <1>3, <2>1 DEF Link, Typed, TypeOK
  <2>2. CASE r # p
    <3>1. Asleep(r) /\ event'[r] = event[r] /\ Hash[event[r]] \in Bucket
      BY <1>4, <2>2, SchedAssumption DEF Link, Asleep, Typed, TypeOK, SleepsOnEvent
    <3>2. r \in Range(linkq[Hash[event[r]]])
      BY <3>1 DEF SleeperLinked
    <3>3. QED
      BY <1>1, <1>3, <3>1, <3>2 DEF Link, Typed, TypeOK
  <2>3. QED
    BY <2>1, <2>2
<1>5. QED
  BY <1>4 DEF SleeperLinked

(* Waking a process leaves every other one linked. *)
LEMMA WakeLinks ==
  ASSUME Typed, SleeperLinked, NEW b \in Bucket, NEW i \in DOMAIN linkq[b],
         Wake(b, i), event' = event
  PROVE  SleeperLinked'
<1>1. linkq[b] \in Seq(Proc) /\ i \in 1..Len(linkq[b]) /\ linkq[b][i] \in Proc
  BY WakeType DEF Typed, TypeOK
<1>2. Range(linkq[b]) \ {linkq[b][i]} \subseteq Range(Unlink(linkq[b], i))
  BY <1>1, UnlinkKeeps
<1>3. ASSUME NEW r \in Proc, Asleep(r)'
      PROVE  r \in Range(linkq[Hash[event[r]]])'
  <2>1. r # linkq[b][i] /\ Asleep(r)
    BY <1>1, <1>3 DEF Wake, Asleep, Typed, TypeOK
  <2>2. r \in Range(linkq[Hash[event[r]]]) /\ Hash[event[r]] \in Bucket
    BY <2>1, SchedAssumption DEF SleeperLinked, Typed, SleepsOnEvent
  <2>3. QED
    BY <1>2, <2>1, <2>2 DEF Wake, Typed, TypeOK
<1>4. QED
  BY <1>3 DEF SleeperLinked

(* A sleeping process stays on its hash chain until the step that makes it
   ready. *)
LEMMA SleeperStep == Typed /\ SleeperLinked /\ [Next]_vars => SleeperLinked'
<1> SUFFICES ASSUME Typed, SleeperLinked, [Next]_vars PROVE SleeperLinked'
  OBVIOUS
<1>1. ASSUME UNCHANGED <<linkq, state, event>> PROVE SleeperLinked'
  BY <1>1 DEF SleeperLinked, Asleep
<1>2. ASSUME NEW p \in Proc, NEW g \in Gate, TryLock(p, g) PROVE SleeperLinked'
  <2>1. g \in Chan /\ "PSSLEEP" \in States
    BY DEF Chan, States
  <2>2. Link(p, g, "PSSLEEP") \/ UNCHANGED <<linkq, state, event>>
    BY <1>2 DEF TryLock, queues
  <2>3. QED
    BY <1>1, <2>1, <2>2, LinkLinks
<1>3. ASSUME NEW p \in Proc, Relock(p) PROVE SleeperLinked'
  BY <1>2, <1>3 DEF Relock, Typed, RetriesGate
<1>4. ASSUME NEW p \in Proc, NEW g \in Gate, Lock(p, g) PROVE SleeperLinked'
  BY <1>2, <1>4 DEF Lock
<1>5. ASSUME NEW p \in Proc, NEW e \in Event, SleepNoSig(p, e) \/ SleepSig(p, e)
      PROVE SleeperLinked'
  <2>1. e \in Chan /\ \E s \in States : Link(p, e, s)
    BY <1>5 DEF Chan, States, SleepNoSig, SleepSig
  <2>2. QED
    BY <2>1, LinkLinks
<1>6. ASSUME NEW p \in Proc, NEW q \in Proc, Kill(p, q) PROVE SleeperLinked'
  <2>1. CASE state[q] = "PSSLSIG"
    <3>1. Hash[event[q]] \in Bucket
      BY <2>1, SchedAssumption DEF Typed, SleepsOnEvent, Asleep
    <3>2. \E i \in DOMAIN linkq[Hash[event[q]]] : Wake(Hash[event[q]], i)
      BY <1>6, <2>1 DEF Kill
    <3>3. event' = event
      BY <1>6 DEF Kill
    <3>4. QED
      BY <3>1, <3>2, <3>3, WakeLinks
  <2>2. CASE state[q] # "PSSLSIG"
    BY <1>1, <1>6, <2>2 DEF Kill
  <2>3. QED
    BY <2>1, <2>2
<1>7. ASSUME DefendWake PROVE SleeperLinked'
  <2>1. Head(defq) \in Chan
    BY <1>7, TailRange DEF DefendWake, Typed, TypeOK
  <2>2. Hash[Head(defq)] \in Bucket
    BY <2>1, SchedAssumption
  <2>3. QED
    BY <1>7, <2>2, WakeLinks DEF DefendWake, WakeFirst
<1>20. ASSUME NEW e \in Event, BlockDone(e) PROVE SleeperLinked'
  <2>1. Hash[e] \in Bucket
    BY SchedAssumption DEF Chan
  <2>2. QED
    BY <1>20, <2>1, WakeLinks DEF BlockDone, WakeFirst
<1>8. ASSUME StandDispatch PROVE SleeperLinked'
  BY <1>8 DEF StandDispatch, Typed, TypeOK, SleeperLinked, Asleep, Thread
<1>9. QED
  BY <1>1, <1>3, <1>4, <1>5, <1>6, <1>7, <1>8, <1>20
     DEF Next, Stand, Trap, Return, Unlock, WakeupEvent, Interrupt, Tick,
         DefendNext, vars, queues

(* What a call of wakeup() leaves in the queue: all that was there and, as
   long as nothing has been dropped, the new event. *)
LEMMA WakeupKeeps ==
  ASSUME TypeOK, NEW e \in Chan, Wakeup(e)
  PROVE  /\ ~foo' => ~foo
         /\ \A c \in Chan : c \in Range(defq) => c \in Range(defq)'
         /\ ~foo' => e \in Range(defq)'
<1>1. defq \in Seq(Chan) /\ foo \in BOOLEAN
  BY DEF TypeOK
<1>2. CASE Len(defq) < DEFLIM
  <2>1. defq' = Append(defq, e) /\ foo' = foo
    BY <1>2 DEF Wakeup
  <2>2. Range(Append(defq, e)) = Range(defq) \cup {e}
    BY <1>1, AppendRange
  <2>3. QED
    BY <2>1, <2>2
<1>3. CASE ~(Len(defq) < DEFLIM)
  BY <1>3 DEF Wakeup
<1>4. QED
  BY <1>2, <1>3

(* The condition of NoLostGateWakeup for one process. *)
Promised(p) == event[p] \in lock0 \cap lock1 \/ event[p] \in Range(defq)

Waits(p) == pc[p] = "lock" /\ Asleep(p)

(* NoLostGateWakeup, in terms of what is promised to each sleeper on a gate. *)
LEMMA NoLostIsPromised ==
  NoLostGateWakeup <=> (~foo => \A p \in Proc : Waits(p) => Promised(p))
BY DEF NoLostGateWakeup, Promised, Waits, Range

(* No step leaves a sleeper on an open gate without the deferred dwakeup() that
   will reach it, unless the queue of deferred functions overflowed. *)
LEMMA NoLostStep == SleepInv /\ [Next]_vars => NoLostGateWakeup'
<1> SUFFICES ASSUME SleepInv, [Next]_vars, ~foo',
                    NEW r \in Proc, Waits(r)'
             PROVE  Promised(r)'
  BY NoLostIsPromised DEF NoLostGateWakeup, Promised, Waits, Range
<1> USE DEF SleepInv, Typed
<1>0. ~foo /\ Waits(r) => Promised(r) /\ event[r] \in Gate /\ event[r] \in Chan
  BY NoLostIsPromised DEF Waits, RetriesGate, Chan
<1>1. ASSUME UNCHANGED <<lock0, lock1, defq, foo>>,
             event'[r] = event[r], Waits(r)
      PROVE  Promised(r)'
  BY <1>0, <1>1 DEF Promised
<1>2. ASSUME NEW p \in Proc, NEW g \in Gate, TryLock(p, g) PROVE Promised(r)'
  <2>1. CASE g \in lock0
    <3>1. /\ lock1' = lock1 \cup {g} /\ lock0' = lock0 /\ UNCHANGED <<defq, foo>>
          /\ Link(p, g, "PSSLEEP") /\ pc' = [pc EXCEPT ![p] = "lock"]
      BY <1>2, <2>1 DEF TryLock, deferred
    <3>2. CASE r = p
      BY <2>1, <3>1, <3>2 DEF Link, Promised, TypeOK
    <3>3. CASE r # p
      <4>1. event'[r] = event[r] /\ Waits(r)
        BY <3>1, <3>3 DEF Link, Waits, Asleep, TypeOK, Thread
      <4>2. QED
        BY <1>0, <3>1, <4>1 DEF Promised
    <3>4. QED
      BY <3>2, <3>3
  <2>2. CASE g \notin lock0
    <3>1. /\ lock0' = lock0 \cup {g} /\ lock1' = lock1
          /\ UNCHANGED <<defq, foo, event, state>>
          /\ pc' = [pc EXCEPT ![p] = "kernel"]
      BY <1>2, <2>2 DEF TryLock, deferred, queues
    <3>2. Waits(r)
      BY <3>1 DEF Waits, Asleep, TypeOK, Thread
    <3>3. QED
      BY <1>0, <3>1, <3>2 DEF Promised
  <2>3. QED
    BY <2>1, <2>2
<1>3. ASSUME NEW p \in Proc, Relock(p) PROVE Promised(r)'
  BY <1>2, <1>3 DEF Relock, RetriesGate
<1>4. ASSUME NEW p \in Proc, NEW g \in Gate, Lock(p, g) PROVE Promised(r)'
  BY <1>2, <1>4 DEF Lock
<1>5. ASSUME NEW p \in Proc, NEW g \in Gate, Unlock(p, g) PROVE Promised(r)'
  <2>1. /\ lock0' = lock0 \ {g} /\ lock1' = lock1 \ {g}
        /\ UNCHANGED <<state, event, pc>> /\ Waits(r)
    BY <1>5 DEF Unlock, queues, Waits, Asleep
  <2>2. CASE g \in lock1
    <3>1. g \in Chan /\ Wakeup(g)
      BY <1>5, <2>2 DEF Unlock, Chan
    <3>2. /\ ~foo
          /\ event[r] \in Chan /\ event[r] \in Range(defq) => event[r] \in Range(defq)'
          /\ g \in Range(defq)'
      BY <3>1, WakeupKeeps
    <3>3. QED
      BY <1>0, <2>1, <3>2 DEF Promised
  <2>3. CASE g \notin lock1
    BY <1>0, <1>5, <2>1, <2>3 DEF Unlock, deferred, Promised
  <2>4. QED
    BY <2>2, <2>3
<1>6. ASSUME NEW p \in Proc, NEW e \in Event, SleepNoSig(p, e) \/ SleepSig(p, e)
      PROVE Promised(r)'
  <2>1. /\ pc[p] = "kernel" /\ UNCHANGED <<lock0, lock1, defq, foo, pc>>
        /\ event' = [event EXCEPT ![p] = e]
        /\ \E s \in States : state' = [state EXCEPT ![p] = s]
    BY <1>6 DEF SleepNoSig, SleepSig, InKernel, gates, deferred, Link, States
  <2>2. r # p
    BY <2>1 DEF Waits
  <2>3. event'[r] = event[r] /\ Waits(r)
    BY <2>1, <2>2 DEF Waits, Asleep, TypeOK
  <2>4. QED
    BY <1>1, <2>1, <2>3
<1>7. ASSUME NEW e \in Event, Wakeup(e), UNCHANGED <<lock0, lock1, event, state>>,
             Waits(r)
      PROVE Promised(r)'
  <2>1. e \in Chan
    BY DEF Chan
  <2>2. ~foo /\ (event[r] \in Chan /\ event[r] \in Range(defq) => event[r] \in Range(defq)')
    BY <1>7, <2>1, WakeupKeeps
  <2>3. QED
    BY <1>0, <1>7, <2>2 DEF Promised
<1>8. ASSUME NEW p \in Proc, NEW e \in Event, WakeupEvent(p, e) PROVE Promised(r)'
  BY <1>7, <1>8 DEF WakeupEvent, gates, queues, Waits, Asleep
<1>9. ASSUME NEW e \in Event, Interrupt(e) PROVE Promised(r)'
  <2>1. /\ Wakeup(e) /\ UNCHANGED <<lock0, lock1, event, state>>
        /\ pc' = pc \/ pc' = [pc EXCEPT ![self] = "stand"]
    BY <1>9 DEF Interrupt, EnterStand, gates, queues
  <2>2. Waits(r)
    BY <2>1 DEF Waits, Asleep, TypeOK, Thread
  <2>3. QED
    BY <1>7, <2>1, <2>2
<1>10. ASSUME NEW b \in Bucket, NEW i \in DOMAIN linkq[b], Wake(b, i),
              UNCHANGED <<lock0, lock1, defq, foo, event>>,
              \A t \in Thread : pc'[t] = "lock" => pc[t] = "lock"
       PROVE Promised(r)'
  <2>1. Waits(r)
    BY <1>10, WakeType DEF Waits, Thread
  <2>2. QED
    BY <1>1, <1>10, <2>1
<1>11. ASSUME NEW p \in Proc, NEW q \in Proc, Kill(p, q) PROVE Promised(r)'
  <2>1. UNCHANGED <<lock0, lock1, defq, foo, event, pc>>
    BY <1>11 DEF Kill, gates, deferred
  <2>2. CASE state[q] = "PSSLSIG"
    <3>1. Hash[event[q]] \in Bucket
      BY <2>2, SchedAssumption DEF SleepsOnEvent, Asleep
    <3>2. \E i \in DOMAIN linkq[Hash[event[q]]] : Wake(Hash[event[q]], i)
      BY <1>11, <2>2 DEF Kill
    <3>3. QED
      BY <1>10, <2>1, <3>1, <3>2
  <2>3. CASE state[q] # "PSSLSIG"
    <3>1. Waits(r)
      BY <1>11, <2>1, <2>3 DEF Kill, Waits, Asleep
    <3>2. QED
      BY <1>1, <2>1, <3>1
  <2>4. QED
    BY <2>2, <2>3
<1>12. ASSUME DefendWake PROVE Promised(r)'
  <2>1. Head(defq) \in Chan
    BY <1>12, TailRange DEF DefendWake, TypeOK
  <2>2. Hash[Head(defq)] \in Bucket
    BY <2>1, SchedAssumption
  <2>3. QED
    BY <1>10, <1>12, <2>2 DEF DefendWake, WakeFirst, gates, deferred
<1>20. ASSUME NEW e \in Event, BlockDone(e) PROVE Promised(r)'
  <2>1. Hash[e] \in Bucket
    BY SchedAssumption DEF Chan
  <2>2. /\ UNCHANGED <<lock0, lock1, defq, foo, event>>
        /\ \A t \in Thread : pc'[t] = "lock" => pc[t] = "lock"
    BY <1>20 DEF BlockDone, EnterStand, TypeOK, gates, deferred
  <2>3. QED
    BY <1>10, <1>20, <2>1, <2>2 DEF BlockDone, WakeFirst
<1>13. ASSUME DefendNext PROVE Promised(r)'
  <2>1. /\ defq # <<>> /\ defq' = Tail(defq)
        /\ UNCHANGED <<lock0, lock1, foo, event, state, linkq, pc>>
    BY <1>13 DEF DefendNext, gates, queues
  <2>2. Waits(r) /\ Promised(r) /\ event[r] \in Chan
    BY <1>0, <2>1 DEF Waits, Asleep
  <2>3. r \in Range(linkq[Hash[event[r]]])
    BY <2>2 DEF SleeperLinked, Waits
  <2>4. event[r] # Head(defq)
    BY <1>13, <2>3 DEF DefendNext, Range
  <2>5. event[r] \in Range(defq) => event[r] \in Range(Tail(defq))
    BY <2>1, <2>4, TailKeeps DEF TypeOK
  <2>6. QED
    BY <2>1, <2>2, <2>5 DEF Promised
<1>14. ASSUME StandDispatch PROVE Promised(r)'
  <2>1. /\ UNCHANGED <<lock0, lock1, defq, foo, event>>
        /\ pc' = [pc EXCEPT ![self] = "user"]
        /\ state' = state \/ state' = [state EXCEPT ![self] = "PSRUN"]
    BY <1>14 DEF StandDispatch, gates, deferred
  <2>2. Waits(r)
    BY <2>1 DEF Waits, Asleep, TypeOK, Thread
  <2>3. QED
    BY <1>1, <2>1, <2>2
<1>15. ASSUME UNCHANGED <<lock0, lock1, defq, foo, event, state>>,
              \A t \in Thread : pc'[t] = "lock" => pc[t] = "lock"
       PROVE Promised(r)'
  <2>1. Waits(r)
    BY <1>15 DEF Waits, Asleep, Thread
  <2>2. QED
    BY <1>1, <1>15, <2>1
<1>16. ASSUME NEW p \in Proc, Trap(p) \/ Return(p) PROVE Promised(r)'
  BY <1>15, <1>16 DEF Trap, Return, EnterStand, TypeOK, queues, gates, deferred
<1>17. ASSUME Tick PROVE Promised(r)'
  BY <1>15, <1>17 DEF Tick, EnterStand, TypeOK, queues, gates, deferred
<1>18. CASE UNCHANGED vars
  BY <1>15, <1>18 DEF vars, queues, gates, deferred
<1>19. QED
  BY <1>3, <1>4, <1>5, <1>6, <1>8, <1>9, <1>11, <1>12, <1>13, <1>14, <1>16,
     <1>17, <1>18, <1>20 DEF Next, Stand

LEMMA SleepAlways == Spec => []SleepInv
<1>1. Init => SleepInv
  <2>1. Init => SleeperLinked /\ NoLostGateWakeup
    BY DEF Init, SleeperLinked, NoLostGateWakeup, Asleep
  <2>2. QED
    BY <2>1, TypedInit DEF SleepInv
<1>2. SleepInv /\ [Next]_vars => SleepInv'
  BY TypedStep, SleeperStep, NoLostStep DEF SleepInv
<1>3. QED
  BY <1>1, <1>2, PTL DEF Spec

(* As long as the deferred queue has not overflowed, a process that sleeps in
   lock() is owed a wakeup: by the holder of the gate, who will see the mark,
   or by defend(). *)
THEOREM NoGateWakeupLost == Spec => []NoLostGateWakeup
<1>1. SleepInv => NoLostGateWakeup
  BY DEF SleepInv
<1>2. QED
  BY <1>1, SleepAlways, PTL

-----------------------------------------------------------------------------
(* What leaves the deferred queue. *)

(* A queue that is unchanged, or longer by one, has not lost its head. *)
LEMMA KeptOrLonger ==
  ASSUME defq \in Seq(Chan), defq # <<>>,
         \/ defq' = defq
         \/ \E e \in Chan : defq' = Append(defq, e)
  PROVE  defq' # Tail(defq)
<1>1. Len(defq) \in Nat /\ Len(Tail(defq)) = Len(defq) - 1
  OBVIOUS
<1>2. Len(defq') = Len(defq) \/ Len(defq') = Len(defq) + 1
  OBVIOUS
<1>3. QED
  BY <1>1, <1>2

(* Only the round of dwakeup() that finds nobody takes an event out. *)
LEMMA LeavesDeferred ==
  ASSUME Typed, [Next]_vars, defq # <<>>, defq' = Tail(defq)
  PROVE  DefendNext
<1>1. defq \in Seq(Chan) /\ \A e \in Event : e \in Chan
  BY DEF Typed, TypeOK, Chan
<1>2. ASSUME NEW e \in Chan, Wakeup(e) PROVE FALSE
  BY <1>1, <1>2, KeptOrLonger DEF Wakeup
<1>3. defq' # defq
  BY <1>1, KeptOrLonger
<1>4. ASSUME NEW p \in Proc, NEW g, TryLock(p, g) PROVE FALSE
  BY <1>3, <1>4 DEF TryLock, deferred
<1>5. ASSUME NEW p \in Proc, Trap(p) \/ Relock(p) \/ Return(p) PROVE FALSE
  BY <1>3, <1>4, <1>5 DEF Trap, Relock, Return, deferred
<1>6. ASSUME NEW p \in Proc, NEW g \in Gate, Lock(p, g) \/ Unlock(p, g) PROVE FALSE
  BY <1>2, <1>3, <1>4, <1>6 DEF Lock, Unlock, deferred, Chan
<1>7. ASSUME NEW p \in Proc, NEW e \in Event,
             SleepNoSig(p, e) \/ SleepSig(p, e) \/ WakeupEvent(p, e)
      PROVE  FALSE
  BY <1>1, <1>2, <1>3, <1>7 DEF SleepNoSig, SleepSig, WakeupEvent, deferred
<1>8. ASSUME NEW p \in Proc, NEW q \in Proc, Kill(p, q) PROVE FALSE
  BY <1>3, <1>8 DEF Kill, deferred
<1>9. ASSUME NEW e \in Event, Interrupt(e) \/ BlockDone(e) PROVE FALSE
  BY <1>1, <1>2, <1>3, <1>9 DEF Interrupt, BlockDone, deferred
<1>10. ~Tick /\ ~DefendWake /\ ~StandDispatch /\ ~UNCHANGED vars
  BY <1>3 DEF Tick, DefendWake, StandDispatch, deferred, vars
<1>11. QED
  BY <1>5, <1>6, <1>7, <1>8, <1>9, <1>10 DEF Next, Stand

(* dwakeup() leaves its slot in the deferred queue only when nobody sleeps on
   its event any more, those included who fell asleep after the call of
   wakeup(): every sleeper is in the chain that it looks through. *)
THEOREM WakeupsReachAll == Spec => WakeupWakesAll
<1>1. SleepInv /\ [Next]_vars =>
        [\A p \in Proc :
           defq # <<>> /\ defq' = Tail(defq) /\ event[p] = Head(defq)
             => ~Asleep(p)]_vars
  <2> SUFFICES ASSUME SleepInv, [Next]_vars, NEW p \in Proc,
                      defq # <<>>, defq' = Tail(defq), event[p] = Head(defq), Asleep(p)
               PROVE  FALSE
    OBVIOUS
  <2>1. DefendNext
    BY LeavesDeferred DEF SleepInv
  <2>2. p \in Range(linkq[Hash[Head(defq)]])
    BY DEF SleepInv, SleeperLinked
  <2>3. PICK i \in DOMAIN linkq[Hash[Head(defq)]] : linkq[Hash[Head(defq)]][i] = p
    BY <2>2 DEF Range
  <2>4. QED
    BY <2>1, <2>3 DEF DefendNext
<1>2. QED
  BY <1>1, SleepAlways, PTL DEF Spec, WakeupWakesAll

-----------------------------------------------------------------------------
(* Every process in one place, provided that no interruptible x_sleep starts
   with a signal pending. *)

PlaceInv == Typed /\ OnePlace

(* Dispatch takes one entry off a run queue without repetitions. *)
LEMMA DispatchTakes ==
  ASSUME NEW rq \in Seq(Proc), IsInjective(rq), Dispatch(rq)
  PROVE  /\ IsInjective(runq')
         /\ \A p \in Proc : p \in Range(runq') <=> p \in Range(rq) /\ p # self'
         /\ self' \in Range(rq) \/ self' = Idle
<1>1. CASE rq = <<>>
  <2>1. self' = Idle /\ runq' = rq /\ Idle \notin Proc
    BY <1>1, SchedAssumption DEF Dispatch
  <2>2. QED
    BY <2>1
<1>2. CASE rq # <<>>
  <2>1. self' = Head(rq) /\ runq' = Tail(rq)
    BY <1>2 DEF Dispatch
  <2>2. QED
    BY <1>2, <2>1, TailRange
<1>3. QED
  BY <1>1, <1>2

(* The current process links itself on the sleep queue of its event. *)
LEMMA LinkPlace ==
  ASSUME PlaceInv, NEW e \in Chan, NEW s \in {"PSSLEEP", "PSSLSIG"},
         self \in Proc, Link(self, e, s)
  PROVE  /\ SleepQueuesOK'
         /\ \A p \in Proc : p \in Range(runq) <=> state'[p] = "PSRUN"
<1> USE DEF PlaceInv, Typed, TypeOK, OnePlace
<1>1. Hash[e] \in Bucket /\ state[self] = "PSRUN"
  BY SchedAssumption
<1>2. \A p \in Proc : /\ state'[p] = (IF p = self THEN s ELSE state[p])
                       /\ event'[p] = (IF p = self THEN e ELSE event[p])
  BY DEF Link
<1>3. ASSUME NEW b \in Bucket
      PROVE  /\ IsInjective(linkq'[b])
             /\ \A p \in Proc : p \in Range(linkq'[b]) <=>
                   p \in Range(linkq[b]) \/ (p = self /\ b = Hash[e])
  <2>1. linkq[b] \in Seq(Proc) /\ IsInjective(linkq[b]) /\ self \notin Range(linkq[b])
    BY <1>1 DEF SleepQueuesOK, Asleep
  <2>2. CASE b = Hash[e]
    <3>1. linkq'[b] = Append(linkq[b], self)
      BY <2>2 DEF Link
    <3>2. QED
      BY <2>1, <2>2, <3>1, AppendRange
  <2>3. CASE b # Hash[e]
    BY <2>1, <2>3 DEF Link
  <2>4. QED
    BY <2>2, <2>3
<1>4. SleepQueuesOK'
  <2>1. \A b \in Bucket, p \in Proc :
          p \in Range(linkq[b]) <=> state[p] \in {"PSSLEEP", "PSSLSIG"} /\ Hash[event[p]] = b
    BY DEF SleepQueuesOK, Asleep
  <2>2. ASSUME NEW b \in Bucket, NEW p \in Proc
        PROVE  p \in Range(linkq'[b]) <=>
                 state'[p] \in {"PSSLEEP", "PSSLSIG"} /\ Hash[event'[p]] = b
    <3>1. CASE p = self
      BY <1>1, <1>2, <1>3, <2>1, <3>1
    <3>2. CASE p # self
      BY <1>2, <1>3, <2>1, <3>2
    <3>3. QED
      BY <3>1, <3>2
  <2>3. QED
    BY <1>3, <2>2 DEF SleepQueuesOK, Asleep
<1>5. QED
  BY <1>1, <1>2, <1>4 DEF RunQueueOK

(* x_sleep with a dispatch: the sleeper is on its queue, the next process is
   off the run queue. *)
LEMMA SleepPlace ==
  ASSUME PlaceInv, NEW e \in Chan, NEW s \in {"PSSLEEP", "PSSLSIG"},
         self \in Proc, Link(self, e, s), Dispatch(runq)
  PROVE  OnePlace'
<1>1. runq \in Seq(Proc) /\ IsInjective(runq)
  BY DEF PlaceInv, Typed, TypeOK, OnePlace, RunQueueOK
<1>2. /\ SleepQueuesOK'
      /\ \A p \in Proc : p \in Range(runq) <=> state'[p] = "PSRUN"
  BY LinkPlace
<1>3. /\ IsInjective(runq')
      /\ \A p \in Proc : p \in Range(runq') <=> p \in Range(runq) /\ p # self'
      /\ self' \in Range(runq) \/ self' = Idle
      /\ self' \in Thread
  BY <1>1, DispatchTakes, DispatchType
<1>4. RunQueueOK'
  BY <1>2, <1>3 DEF RunQueueOK
<1>5. self' # Idle => state'[self'] = "PSRUN"
  BY <1>2, <1>3 DEF Thread
<1>6. QED
  BY <1>2, <1>4, <1>5 DEF OnePlace

(* A sleeper moves from its sleep queue to the run queue. *)
LEMMA WakePlace ==
  ASSUME PlaceInv, NEW b \in Bucket, NEW i \in DOMAIN linkq[b], Wake(b, i),
         UNCHANGED <<self, event>>
  PROVE  OnePlace'
<1> DEFINE w == linkq[b][i]
<1> USE DEF PlaceInv, Typed, OnePlace
<1>1. /\ linkq[b] \in Seq(Proc) /\ IsInjective(linkq[b])
      /\ i \in 1..Len(linkq[b]) /\ w \in Proc /\ w \in Range(linkq[b])
  BY WakeType DEF TypeOK, SleepQueuesOK, Range
<1>2. Asleep(w) /\ Hash[event[w]] = b /\ w # self /\ w \notin Range(runq)
  BY <1>1, SchedAssumption DEF SleepQueuesOK, RunQueueOK, Asleep
<1>3. /\ IsInjective(Unlink(linkq[b], i))
      /\ Range(Unlink(linkq[b], i)) = Range(linkq[b]) \ {w}
  BY <1>1, UnlinkRange
<1>4. /\ IsInjective(Append(runq, w))
      /\ Range(Append(runq, w)) = Range(runq) \cup {w}
  BY <1>1, <1>2, AppendRange DEF TypeOK, RunQueueOK
<1>5. \A p \in Proc : state'[p] = IF p = w THEN "PSRUN" ELSE state[p]
  BY DEF Wake, TypeOK
<1>6. RunQueueOK'
  BY <1>2, <1>4, <1>5 DEF Wake, RunQueueOK
<1>7. SleepQueuesOK'
  BY <1>2, <1>3, <1>5 DEF Wake, SleepQueuesOK, Asleep, TypeOK
<1>8. QED
  BY <1>2, <1>5, <1>6, <1>7, SchedAssumption DEF TypeOK, Thread

(* Every step keeps each process in one place, as long as no process goes to
   sleep with a signal pending. *)
LEMMA PlaceStep ==
  ASSUME ~PendingSleep
  PROVE  PlaceInv /\ [Next]_vars => OnePlace'
<1> SUFFICES ASSUME PlaceInv, [Next]_vars PROVE OnePlace'
  OBVIOUS
<1> USE DEF PlaceInv, Typed
<1>1. ASSUME UNCHANGED <<self, runq, linkq, state, event>> PROVE OnePlace'
  BY <1>1 DEF OnePlace, RunQueueOK, SleepQueuesOK, Asleep
<1>2. ASSUME NEW p \in Proc, NEW g \in Gate, self = p, TryLock(p, g) PROVE OnePlace'
  <2>1. g \in Chan
    BY DEF Chan
  <2>2. \/ Link(self, g, "PSSLEEP") /\ Dispatch(runq)
        \/ UNCHANGED <<self, runq, linkq, state, event>>
    BY <1>2 DEF TryLock, queues
  <2>3. QED
    BY <1>1, <1>2, <2>1, <2>2, SleepPlace
<1>3. ASSUME NEW p \in Proc, Relock(p) PROVE OnePlace'
  BY <1>2, <1>3 DEF Relock, RetriesGate
<1>4. ASSUME NEW p \in Proc, NEW g \in Gate, Lock(p, g) PROVE OnePlace'
  BY <1>2, <1>4 DEF Lock, InKernel
<1>5. ASSUME NEW p \in Proc, NEW e \in Event, SleepNoSig(p, e) PROVE OnePlace'
  BY <1>5, SleepPlace DEF SleepNoSig, InKernel, Chan
<1>6. ASSUME NEW p \in Proc, NEW e \in Event, SleepSig(p, e) PROVE OnePlace'
  BY <1>6, SleepPlace DEF SleepSig, InKernel, Chan
<1>7. ASSUME NEW p \in Proc, NEW q \in Proc, Kill(p, q) PROVE OnePlace'
  <2>1. UNCHANGED <<self, event>>
    BY <1>7 DEF Kill
  <2>2. CASE state[q] = "PSSLSIG"
    <3>1. Hash[event[q]] \in Bucket
      BY <2>2, SchedAssumption DEF SleepsOnEvent, Asleep
    <3>2. \E i \in DOMAIN linkq[Hash[event[q]]] : Wake(Hash[event[q]], i)
      BY <1>7, <2>2 DEF Kill
    <3>3. QED
      BY <2>1, <3>1, <3>2, WakePlace
  <2>3. CASE state[q] # "PSSLSIG"
    BY <1>1, <1>7, <2>1, <2>3 DEF Kill
  <2>4. QED
    BY <2>2, <2>3
<1>8. ASSUME DefendWake PROVE OnePlace'
  <2>1. Head(defq) \in Chan
    BY <1>8, TailRange DEF DefendWake, TypeOK
  <2>2. Hash[Head(defq)] \in Bucket
    BY <2>1, SchedAssumption
  <2>3. QED
    BY <1>8, <2>2, WakePlace DEF DefendWake, WakeFirst
<1>20. ASSUME NEW e \in Event, BlockDone(e) PROVE OnePlace'
  <2>1. Hash[e] \in Bucket
    BY SchedAssumption DEF Chan
  <2>2. QED
    BY <1>20, <2>1, WakePlace DEF BlockDone, WakeFirst
<1>9. ASSUME StandDispatch PROVE OnePlace'
  <2>1. UNCHANGED <<linkq, event>> /\ self \in Thread
        /\ runq \in Seq(Proc) /\ IsInjective(runq)
    BY <1>9 DEF StandDispatch, TypeOK, OnePlace, RunQueueOK
  <2>2. state' = state
    BY <1>9 DEF StandDispatch, OnePlace, TypeOK, Thread
  <2>3. CASE disflag /\ self = Idle
    <3>1. Dispatch(runq)
      BY <1>9, <2>3 DEF StandDispatch
    <3>2. /\ IsInjective(runq')
          /\ \A p \in Proc : p \in Range(runq') <=> p \in Range(runq) /\ p # self'
          /\ self' \in Range(runq) \/ self' = Idle
          /\ self' \in Thread
      BY <2>1, <3>1, DispatchTakes, DispatchType
    <3>3. QED
      BY <2>1, <2>2, <2>3, <3>2, SchedAssumption
         DEF OnePlace, RunQueueOK, SleepQueuesOK, Asleep, Thread
  <2>4. CASE disflag /\ self # Idle
    <3>1. Dispatch(Append(runq, self)) /\ self \in Proc /\ self \notin Range(runq)
      BY <1>9, <2>1, <2>4 DEF StandDispatch, Thread, OnePlace, RunQueueOK
    <3>2. /\ Append(runq, self) \in Seq(Proc) /\ IsInjective(Append(runq, self))
          /\ Range(Append(runq, self)) = Range(runq) \cup {self}
      BY <2>1, <3>1, AppendRange
    <3>3. /\ IsInjective(runq')
          /\ \A p \in Proc : p \in Range(runq') <=>
                p \in Range(runq) \cup {self} /\ p # self'
          /\ self' \in Range(runq) \cup {self} \/ self' = Idle
          /\ self' \in Thread
      BY <3>1, <3>2, DispatchTakes, DispatchType
    <3>4. QED
      BY <2>1, <2>2, <2>4, <3>1, <3>3
         DEF OnePlace, RunQueueOK, SleepQueuesOK, Asleep, Thread
  <2>5. CASE ~disflag
    BY <1>1, <1>9, <2>2, <2>5 DEF StandDispatch
  <2>6. QED
    BY <2>3, <2>4, <2>5
<1>10. QED
  BY <1>1, <1>3, <1>4, <1>5, <1>6, <1>7, <1>8, <1>9, <1>20
     DEF Next, Stand, Trap, Return, Unlock, WakeupEvent, Interrupt, Tick,
         DefendNext, vars, queues

(* At boot every process is in one place. *)
LEMMA PlaceInit == Init => OnePlace
<1> SUFFICES ASSUME Init PROVE OnePlace
  OBVIOUS
<1> DEFINE N == Cardinality(Proc)
<1>1. /\ N \in Nat /\ runq \in [1..N -> Proc] /\ DOMAIN runq = 1..N
      /\ \A p \in Proc : \E i \in 1..N : runq[i] = p
      /\ self = Idle /\ Idle \notin Proc
      /\ state = [p \in Proc |-> "PSRUN"]
      /\ linkq = [b \in Bucket |-> <<>>]
  BY SchedAssumption, FS_CardinalityType DEF Init
<1>2. IsInjective(runq)
  <2>1. runq \in Surjection(1..N, Proc)
    BY <1>1 DEF Surjection
  <2>2. IsFiniteSet(1..N) /\ Cardinality(1..N) = N
    BY <1>1, FS_Interval
  <2>3. runq \in Injection(1..N, Proc)
    BY <2>1, <2>2, FS_SurjSameCardinalityImpliesInj
  <2>4. QED
    BY <1>1, <2>3 DEF Injection, IsInjective
<1>3. RunQueueOK
  BY <1>1, <1>2 DEF RunQueueOK, Range
<1>4. SleepQueuesOK
  BY <1>1 DEF SleepQueuesOK, IsInjective, Range, Asleep
<1>5. QED
  BY <1>1, <1>3, <1>4 DEF OnePlace

(* A process is on the processor, or once on the run queue, or once on the
   sleep queue of its event, and nowhere else. *)
THEOREM ProcessInOnePlace ==
  ASSUME ~PendingSleep
  PROVE  Spec => []OnePlace
<1>1. Init => PlaceInv
  BY TypedInit, PlaceInit DEF PlaceInv
<1>2. PlaceInv /\ [Next]_vars => PlaceInv'
  BY TypedStep, PlaceStep DEF PlaceInv
<1>3. PlaceInv => OnePlace
  BY DEF PlaceInv
<1>4. QED
  BY <1>1, <1>2, <1>3, PTL DEF Spec

-----------------------------------------------------------------------------
(* The gates implement the abstract mutex. *)

(* With mutual exclusion, the owner of a gate is the process that holds it,
   or nobody. *)
LEMMA OwnerIsHolder ==
  ASSUME TypeOK, MutualExclusion, NEW g \in Gate
  PROVE  /\ \A p \in Proc : g \in holds[p] => Owner[g] = p
         /\ (\A p \in Proc : g \notin holds[p]) => Owner[g] = Idle
         /\ g \notin lock0 => Owner[g] = Idle
<1>1. Owner[g] = IF \E p \in Proc : g \in holds[p]
                 THEN CHOOSE p \in Proc : g \in holds[p]
                 ELSE Idle
  BY DEF Owner
<1>2. ASSUME NEW p \in Proc, g \in holds[p] PROVE Owner[g] = p
  <2> DEFINE o == CHOOSE q \in Proc : g \in holds[q]
  <2>1. o \in Proc /\ g \in holds[o]
    BY <1>2
  <2>2. o = p
    BY <1>2, <2>1 DEF MutualExclusion
  <2>3. QED
    BY <1>1, <1>2, <2>2
<1>3. g \notin lock0 => \A p \in Proc : g \notin holds[p]
  BY DEF MutualExclusion
<1>4. QED
  BY <1>1, <1>2, <1>3

(* The owners change only by a TryLock or an Unlock, one gate at a time. *)
LEMMA OwnerUnchanged ==
  ASSUME UNCHANGED holds
  PROVE  Owner' = Owner
BY DEF Owner

(* lock() that finds the gate free acquires the abstract mutex. *)
LEMMA TryLockAcquires ==
  ASSUME TypeOK, MutualExclusion, MutualExclusion', TypeOK',
         NEW p \in Proc, NEW g \in Gate, TryLock(p, g)
  PROVE  Abstract!Acquire(p, g) \/ UNCHANGED Owner
<1>1. CASE UNCHANGED holds
  BY <1>1, OwnerUnchanged
<1>2. CASE g \notin lock0 /\ holds' = [holds EXCEPT ![p] = @ \cup {g}]
  <2>1. Owner[g] = Idle
    BY <1>2, OwnerIsHolder
  <2>2. \A h \in Gate : Owner'[h] = [Owner EXCEPT ![g] = p][h]
    <3> SUFFICES ASSUME NEW h \in Gate
                 PROVE  Owner'[h] = IF h = g THEN p ELSE Owner[h]
      BY DEF Owner
    <3>1. CASE h = g
      <4>1. g \in holds'[p]
        BY <1>2 DEF TypeOK
      <4>2. Owner'[g] = p
        <5>1. Owner'[g] = IF \E q \in Proc : g \in holds'[q]
                          THEN CHOOSE q \in Proc : g \in holds'[q]
                          ELSE Idle
          BY DEF Owner
        <5>2. \A q \in Proc : g \in holds'[q] => q = p
          BY <4>1 DEF MutualExclusion
        <5>3. QED
          BY <4>1, <5>1, <5>2
      <4>3. QED
        BY <3>1, <4>2
    <3>2. CASE h # g
      <4>1. \A q \in Proc : h \in holds'[q] <=> h \in holds[q]
        BY <1>2, <3>2 DEF TypeOK
      <4>2. QED
        BY <3>2, <4>1 DEF Owner
    <3>3. QED
      BY <3>1, <3>2
  <2>3. Owner' = [Owner EXCEPT ![g] = p]
    BY <2>2 DEF Owner
  <2>4. QED
    BY <2>1, <2>3 DEF Abstract!Acquire
<1>3. QED
  BY <1>1, <1>2 DEF TryLock

(* unlock() releases the abstract mutex that the caller owns. *)
LEMMA UnlockReleases ==
  ASSUME TypeOK, MutualExclusion,
         NEW p \in Proc, NEW g \in Gate, Unlock(p, g)
  PROVE  Abstract!Release(p, g)
<1>1. g \in holds[p] /\ holds' = [holds EXCEPT ![p] = @ \ {g}]
  BY DEF Unlock
<1>2. Owner[g] = p
  BY <1>1, OwnerIsHolder
<1>3. ASSUME NEW h \in Gate
      PROVE  Owner'[h] = IF h = g THEN Idle ELSE Owner[h]
  <2>1. CASE h = g
    <3>1. \A q \in Proc : g \notin holds'[q]
      BY <1>1 DEF TypeOK, MutualExclusion
    <3>2. QED
      BY <2>1, <3>1 DEF Owner
  <2>2. CASE h # g
    <3>1. \A q \in Proc : h \in holds'[q] <=> h \in holds[q]
      BY <1>1, <2>2 DEF TypeOK
    <3>2. QED
      BY <2>2, <3>1 DEF Owner
  <2>3. QED
    BY <2>1, <2>2
<1>4. Owner' = [Owner EXCEPT ![g] = Idle]
  BY <1>3 DEF Owner
<1>5. QED
  BY <1>2, <1>4 DEF Abstract!Release

(* Every step of the kernel is a step of the abstract mutex, or leaves the
   owners alone. *)
LEMMA MutexRefined ==
  ASSUME TypeOK, TypeOK', MutualExclusion, MutualExclusion', RetriesGate,
         [Next]_vars
  PROVE  [Abstract!Next]_Owner
<1>1. ASSUME UNCHANGED holds PROVE [Abstract!Next]_Owner
  BY <1>1, OwnerUnchanged
<1>2. ASSUME NEW p \in Proc, NEW g \in Gate, TryLock(p, g)
      PROVE  [Abstract!Next]_Owner
  BY <1>2, TryLockAcquires DEF Abstract!Next
<1>3. ASSUME NEW p \in Proc, NEW g \in Gate, Lock(p, g)
      PROVE  [Abstract!Next]_Owner
  BY <1>2, <1>3 DEF Lock
<1>4. ASSUME NEW p \in Proc, Relock(p)
      PROVE  [Abstract!Next]_Owner
  BY <1>2, <1>4 DEF Relock, RetriesGate
<1>5. ASSUME NEW p \in Proc, NEW g \in Gate, Unlock(p, g)
      PROVE  [Abstract!Next]_Owner
  BY <1>5, UnlockReleases DEF Abstract!Next
<1>6. QED
  BY <1>1, <1>3, <1>4, <1>5
     DEF Next, Stand, Trap, Return, SleepNoSig, SleepSig, WakeupEvent, Kill,
         Interrupt, BlockDone, Tick, DefendWake, DefendNext, StandDispatch, vars, gates

(* lock() and unlock() implement the abstract mutex: a gate is given only
   when nobody owns it and taken back only from its owner. *)
THEOREM GatesAreMutexes == Spec => ImplementsMutex
<1>1. Init => Abstract!Init
  BY DEF Init, Abstract!Init, Owner
<1>2. Spec => []Typed
  BY TypedInit, TypedStep, PTL DEF Spec
<1>3. Typed /\ Typed' /\ MutualExclusion /\ MutualExclusion' /\ [Next]_vars
        => [Abstract!Next]_Owner
  BY MutexRefined DEF Typed
<1>4. QED
  BY <1>1, <1>2, <1>3, GatesExclude, PTL
     DEF Spec, ImplementsMutex, Abstract!Spec
=============================================================================
