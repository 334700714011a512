-------------------------------- MODULE Sched --------------------------------
(***************************************************************************)
(* The base-level scheduler of the kernel: x_sleep / wakeup / dispatch and *)
(* the gates of coh.386/proc.c, the deferred-function queue of             *)
(* i386/defer.c, and the part of coh.386/clock.c: stand() that runs the    *)
(* deferred wakeups and redispatches.                                      *)
(*                                                                         *)
(* The kernel is not preemptive.  A process gives the processor up only in *)
(* dispatch(), called from x_sleep() and from stand(); interrupts come at  *)
(* any point but only make sleepers runnable, now or deferred, and expire  *)
(* the quantum.  A deferred wakeup runs when the next stand() runs, that   *)
(* is on the way back to user mode or in the idle process: never at an     *)
(* ordinary context switch.                                                *)
(*                                                                         *)
(* The gates here are unlocked by the process that locked them.  (A disk   *)
(* buffer's gate is handed over to the driver for a transfer that nobody   *)
(* waits for, and is not one of them.)                                     *)
(***************************************************************************)
EXTENDS Naturals, Sequences, FiniteSets, Functions

CONSTANTS
  Proc,          (* user processes                                          *)
  Idle,          (* the idle process iprocp, never on a queue               *)
  Gate,          (* gates (GATE), slept on by their address                 *)
  Event,         (* the other sleep addresses (I/O, pipes, children)        *)
  NoEvent,       (* p_event of a process that never slept                   *)
  Bucket,        (* indices of linkq[]                                      *)
  Hash,          (* the macro hash(e): address -> bucket                    *)
  Rank,          (* the order in which kernel code nests gates              *)
  DEFLIM,        (* slots of the deferred-function queue                    *)
  PendingSleep   (* TRUE: an interruptible x_sleep may start with a signal
                    already pending (the code allows it); FALSE leaves the
                    behaviours with such a call out                         *)

Chan == Gate \cup Event
Thread == Proc \cup {Idle}

ASSUME SchedAssumption ==
  /\ IsFiniteSet(Proc)
  /\ Idle \notin Proc
  /\ Gate \cap Event = {}
  /\ NoEvent \notin Chan
  /\ Hash \in [Chan -> Bucket]
  /\ Rank \in [Gate -> Nat]
  /\ DEFLIM \in Nat \ {0}
  /\ PendingSleep \in BOOLEAN

VARIABLES
  self,      (* SELF, the process on the processor                          *)
  runq,      (* run queue; its head is iprocp->p_lback, taken next          *)
  linkq,     (* sleep queues, in the order processes linked themselves      *)
  state,     (* p_state                                                     *)
  event,     (* p_event                                                     *)
  lock0,     (* the gates with _lock[0] set: locked                         *)
  lock1,     (* the gates with _lock[1] set: somebody waits                 *)
  defq,      (* defunc[]/defarg[]: events whose dwakeup() is deferred       *)
  foo,       (* the overflow count of defer0() is not zero                  *)
  disflag,   (* redispatch at the next stand()                              *)
  expired,   (* quantum <= 0                                                *)
  pending,   (* processes with an unmasked, not ignored signal pending      *)
  pc,        (* where a process is: user mode, kernel, in lock(), in stand() *)
  holds      (* the gates that a process's kernel code has locked           *)

queues == <<runq, linkq, state, event>>
gates == <<lock0, lock1, holds>>
deferred == <<defq, foo>>
vars == <<self, queues, gates, deferred, disflag, expired, pending, pc>>

States == {"PSRUN", "PSSLEEP", "PSSLSIG"}

TypeOK ==
  /\ self \in Thread
  /\ runq \in Seq(Proc)
  /\ linkq \in [Bucket -> Seq(Proc)]
  /\ state \in [Proc -> States]
  /\ event \in [Proc -> Chan \cup {NoEvent}]
  /\ lock0 \in SUBSET Gate /\ lock1 \in SUBSET Gate
  /\ defq \in Seq(Chan) /\ Len(defq) <= DEFLIM
  /\ foo \in BOOLEAN
  /\ disflag \in BOOLEAN /\ expired \in BOOLEAN
  /\ pending \in SUBSET Proc
  /\ pc \in [Thread -> {"user", "kernel", "lock", "stand"}]
  /\ holds \in [Proc -> SUBSET Gate]

-----------------------------------------------------------------------------
(* Queue primitives. *)

(* A queue without its i-th element. *)
Unlink(q, i) ==
  [j \in 1..(Len(q) - 1) |-> IF j < i THEN q[j] ELSE q[j + 1]]

(* Mutant: one slot too many. *)
WakeupOffByOne(e) ==
  IF Len(defq) <= DEFLIM
  THEN defq' = Append(defq, e) /\ UNCHANGED foo
  ELSE foo' = TRUE /\ UNCHANGED defq

(* wakeup() hands dwakeup to defer0(), which counts and drops it when all
   the slots are in use. *)
Wakeup(e) ==
  IF Len(defq) < DEFLIM
  THEN defq' = Append(defq, e) /\ UNCHANGED foo
  ELSE foo' = TRUE /\ UNCHANGED defq

(* x_sleep() first marks the process asleep and links it at the tail of its
   event's queue. *)
Link(p, e, s) ==
  /\ state' = [state EXCEPT ![p] = s]
  /\ event' = [event EXCEPT ![p] = e]
  /\ linkq' = [linkq EXCEPT ![Hash[e]] = Append(@, p)]

(* dispatch(): the oldest entry of run queue rq runs, or the idle process. *)
Dispatch(rq) ==
  /\ disflag' = FALSE
  /\ expired' = FALSE
  /\ IF rq = <<>>
     THEN self' = Idle /\ runq' = rq
     ELSE self' = Head(rq) /\ runq' = Tail(rq)

(* Mutant: the woken process stays linked on the sleep queue. *)
WakeLinked(b, i) ==
  /\ runq' = Append(runq, linkq[b][i])
  /\ state' = [state EXCEPT ![linkq[b][i]] = "PSRUN"]
  /\ UNCHANGED linkq

(* The i-th sleeper of bucket b leaves it for the run queue: the unlinking
   in dwakeup() and in PROC_WAKE(), and setrun(). *)
Wake(b, i) ==
  /\ linkq' = [linkq EXCEPT ![b] = Unlink(@, i)]
  /\ runq' = Append(runq, linkq[b][i])
  /\ state' = [state EXCEPT ![linkq[b][i]] = "PSRUN"]

(* The first process of the event's bucket that sleeps on the event. *)
FirstSleeper(e, i) ==
  /\ i \in DOMAIN linkq[Hash[e]]
  /\ event[linkq[Hash[e]][i]] = e
  /\ \A j \in 1..(i - 1) : event[linkq[Hash[e]][j]] # e

(* One round of the scan of dwakeup(e), which starts over, with interrupts
   let in, after every process it wakes. *)
WakeFirst(e) ==
  \E i \in DOMAIN linkq[Hash[e]] : FirstSleeper(e, i) /\ Wake(Hash[e], i)

-----------------------------------------------------------------------------
(* What the kernel code of the current process does. *)

InKernel(p) == self = p /\ pc[p] = "kernel"

(* Mutant: the waiter is announced before the loop, not inside it. *)
TryLockMarkOnce(p, g) ==
  \/ /\ g \in lock0
     /\ lock1' = IF pc[p] = "lock" THEN lock1 ELSE lock1 \cup {g}
     /\ Link(p, g, "PSSLEEP")
     /\ Dispatch(runq)
     /\ pc' = [pc EXCEPT ![p] = "lock"]
     /\ UNCHANGED <<lock0, holds, deferred, pending>>
  \/ /\ g \notin lock0
     /\ lock0' = lock0 \cup {g}
     /\ holds' = [holds EXCEPT ![p] = @ \cup {g}]
     /\ pc' = [pc EXCEPT ![p] = "kernel"]
     /\ UNCHANGED <<self, queues, lock1, deferred, disflag, expired, pending>>

(* One pass of the loop of lock(). *)
TryLock(p, g) ==
  \/ /\ g \in lock0
     /\ lock1' = lock1 \cup {g}
     /\ Link(p, g, "PSSLEEP")
     /\ Dispatch(runq)
     /\ pc' = [pc EXCEPT ![p] = "lock"]
     /\ UNCHANGED <<lock0, holds, deferred, pending>>
  \/ /\ g \notin lock0
     /\ lock0' = lock0 \cup {g}
     /\ holds' = [holds EXCEPT ![p] = @ \cup {g}]
     /\ pc' = [pc EXCEPT ![p] = "kernel"]
     /\ UNCHANGED <<self, queues, lock1, deferred, disflag, expired, pending>>

(* Mutant: lock() tests the other byte of the gate. *)
LockWrongByte(p, g) ==
  /\ InKernel(p)
  /\ \A h \in holds[p] : Rank[h] < Rank[g]
  /\ g \notin lock1
  /\ lock0' = lock0 \cup {g}
  /\ holds' = [holds EXCEPT ![p] = @ \cup {g}]
  /\ UNCHANGED <<self, queues, lock1, deferred, disflag, expired, pending, pc>>

Lock(p, g) ==
  /\ InKernel(p)
  /\ \A h \in holds[p] : Rank[h] < Rank[g]
  /\ TryLock(p, g)

(* Mutant: the waiter does not test the gate again. *)
RelockUntested(p) ==
  /\ self = p /\ pc[p] = "lock"
  /\ lock0' = lock0 \cup {event[p]}
  /\ holds' = [holds EXCEPT ![p] = @ \cup {event[p]}]
  /\ pc' = [pc EXCEPT ![p] = "kernel"]
  /\ UNCHANGED <<self, queues, lock1, deferred, disflag, expired, pending>>

(* The process is back from the x_sleep() in lock() and tests again. *)
Relock(p) ==
  /\ self = p /\ pc[p] = "lock"
  /\ TryLock(p, event[p])

(* Mutant: the waiters are not woken. *)
UnlockSilent(p, g) ==
  /\ InKernel(p)
  /\ g \in holds[p]
  /\ lock0' = lock0 \ {g}
  /\ lock1' = lock1 \ {g}
  /\ holds' = [holds EXCEPT ![p] = @ \ {g}]
  /\ disflag' = (disflag \/ g \in lock1)
  /\ UNCHANGED <<self, queues, deferred, expired, pending, pc>>

Unlock(p, g) ==
  /\ InKernel(p)
  /\ g \in holds[p]
  /\ lock0' = lock0 \ {g}
  /\ lock1' = lock1 \ {g}
  /\ holds' = [holds EXCEPT ![p] = @ \ {g}]
  /\ IF g \in lock1
     THEN disflag' = TRUE /\ Wakeup(g)
     ELSE UNCHANGED <<disflag, deferred>>
  /\ UNCHANGED <<self, queues, expired, pending, pc>>

(* x_sleep(e, ..., slpriNoSig, ...): waits such as the one for a disk
   transfer, also with gates locked. *)
SleepNoSig(p, e) ==
  /\ InKernel(p)
  /\ Link(p, e, "PSSLEEP")
  /\ Dispatch(runq)
  /\ UNCHANGED <<gates, deferred, pending, pc>>

(* x_sleep(e, ..., slpriSigCatch or slpriSigLjmp, ...), made with no gate
   locked.  With a signal pending it does not dispatch: the process returns
   from x_sleep still linked on the sleep queue. *)
SleepSig(p, e) ==
  /\ InKernel(p)
  /\ holds[p] = {}
  /\ Link(p, e, "PSSLSIG")
  /\ \/ p \notin pending /\ Dispatch(runq)
     \/ /\ PendingSleep
        /\ p \in pending
        /\ UNCHANGED <<self, runq, disflag, expired>>
  /\ UNCHANGED <<gates, deferred, pending, pc>>

WakeupEvent(p, e) ==
  /\ InKernel(p)
  /\ Wakeup(e)
  /\ UNCHANGED <<self, queues, gates, disflag, expired, pending, pc>>

(* proc_send_signal() for a signal that q neither masks nor ignores: q is
   taken off its sleep queue if signals may interrupt its sleep.  A signal
   that a process sends itself is acted on in the stand() of the same call. *)
Kill(p, q) ==
  /\ InKernel(p)
  /\ p # q
  /\ pending' = pending \cup {q}
  /\ IF state[q] = "PSSLSIG"
     THEN \E i \in DOMAIN linkq[Hash[event[q]]] :
            /\ linkq[Hash[event[q]]][i] = q
            /\ Wake(Hash[event[q]], i)
     ELSE UNCHANGED <<runq, linkq, state>>
  /\ UNCHANGED <<self, event, gates, deferred, disflag, expired, pc>>

-----------------------------------------------------------------------------
(* Entering and leaving the kernel. *)

Trap(p) ==
  /\ self = p /\ pc[p] = "user"
  /\ pc' = [pc EXCEPT ![p] = "kernel"]
  /\ UNCHANGED <<self, queues, gates, deferred, disflag, expired, pending>>

(* Mutant: the quantum is not looked at. *)
EnterStandNoQuantum(t, over) ==
  /\ pc' = [pc EXCEPT ![t] = "stand"]
  /\ disflag' = (disflag \/ t = Idle)
  /\ pending' = pending \ {t}

(* The start of stand(): the quantum is looked at, then the pending signals
   of the current process are acted on.  Coming from the idle process, tsave
   sets disflag. *)
EnterStand(t, over) ==
  /\ pc' = [pc EXCEPT ![t] = "stand"]
  /\ disflag' = (disflag \/ over \/ t = Idle)
  /\ pending' = pending \ {t}

(* A system call returns through tsave, with every gate unlocked. *)
Return(p) ==
  /\ InKernel(p)
  /\ holds[p] = {}
  /\ EnterStand(p, expired)
  /\ UNCHANGED <<self, queues, gates, deferred, expired>>

(* A device interrupt defers a wakeup; stand() runs after it if it came in
   user mode or in the idle process. *)
Interrupt(e) ==
  /\ Wakeup(e)
  /\ IF pc[self] = "user"
     THEN EnterStand(self, expired)
     ELSE UNCHANGED <<pc, disflag, pending>>
  /\ UNCHANGED <<self, queues, gates, expired>>

(* A round of the dwakeup() that bdone() calls itself when a transfer ends, at
   interrupt level or from whatever code runs. *)
BlockDone(e) ==
  /\ WakeFirst(e)
  /\ IF pc[self] = "user"
     THEN EnterStand(self, expired)
     ELSE UNCHANGED <<pc, disflag, pending>>
  /\ UNCHANGED <<self, event, gates, deferred, expired>>

(* A clock tick that brings the quantum to zero, or that comes after it. *)
Tick ==
  /\ expired' = TRUE
  /\ IF pc[self] = "user"
     THEN EnterStand(self, TRUE)
     ELSE UNCHANGED <<pc, disflag, pending>>
  /\ UNCHANGED <<self, queues, gates, deferred>>

-----------------------------------------------------------------------------
(* stand(), after the signals: defend() and the redispatch. *)

InStand == pc[self] = "stand"

DefendWake ==
  /\ InStand
  /\ defq # <<>>
  /\ WakeFirst(Head(defq))
  /\ UNCHANGED <<self, event, gates, deferred, disflag, expired, pending, pc>>

(* Mutant: the scan stops after the first process. *)
DefendNextAtOnce ==
  /\ InStand
  /\ defq # <<>>
  /\ defq' = Tail(defq)
  /\ UNCHANGED <<self, queues, gates, foo, disflag, expired, pending, pc>>

(* dwakeup() finds nobody any more; defend() frees the slot. *)
DefendNext ==
  /\ InStand
  /\ defq # <<>>
  /\ \A i \in DOMAIN linkq[Hash[Head(defq)]] :
        event[linkq[Hash[Head(defq)]][i]] # Head(defq)
  /\ defq' = Tail(defq)
  /\ UNCHANGED <<self, queues, gates, foo, disflag, expired, pending, pc>>

(* The end of stand(): back to user mode, at once or when next dispatched. *)
StandDispatch ==
  /\ InStand
  /\ defq = <<>>
  /\ pc' = [pc EXCEPT ![self] = "user"]
  /\ IF disflag
     THEN IF self = Idle
          THEN Dispatch(runq) /\ UNCHANGED state
          ELSE /\ Dispatch(Append(runq, self))
               /\ state' = [state EXCEPT ![self] = "PSRUN"]
     ELSE UNCHANGED <<self, runq, state, disflag, expired>>
  /\ UNCHANGED <<linkq, event, gates, deferred, pending>>

-----------------------------------------------------------------------------
(* The idle process runs; the processes have just been forked, each on the
   run queue and on its way to user mode. *)
Init ==
  /\ self = Idle
  /\ runq \in {q \in [1..Cardinality(Proc) -> Proc] :
                 \A p \in Proc : \E i \in DOMAIN q : q[i] = p}
  /\ linkq = [b \in Bucket |-> <<>>]
  /\ state = [p \in Proc |-> "PSRUN"]
  /\ event = [p \in Proc |-> NoEvent]
  /\ lock0 = {} /\ lock1 = {}
  /\ defq = <<>> /\ foo = FALSE
  /\ disflag = FALSE /\ expired = FALSE
  /\ pending = {}
  /\ pc = [t \in Thread |-> "user"]
  /\ holds = [p \in Proc |-> {}]

Stand == DefendWake \/ DefendNext \/ StandDispatch

Next ==
  \/ \E p \in Proc : Trap(p) \/ Relock(p) \/ Return(p)
  \/ \E p \in Proc, g \in Gate : Lock(p, g) \/ Unlock(p, g)
  \/ \E p \in Proc, e \in Event :
       SleepNoSig(p, e) \/ SleepSig(p, e) \/ WakeupEvent(p, e)
  \/ \E p, q \in Proc : Kill(p, q)
  \/ \E e \in Event : Interrupt(e) \/ BlockDone(e)
  \/ Tick
  \/ Stand

Spec == Init /\ [][Next]_vars

(* The fairness that the machine and the kernel's code give.  The clock
   ticks and devices answer; devices do not interrupt so fast that defend()
   never sees its queue empty or stand() never gets past it; kernel code does not
   hold a gate or stay in a system call for ever once it keeps getting the
   processor. *)
Fairness ==
  /\ WF_vars(Tick)
  /\ \A e \in Event : WF_vars(Interrupt(e))
  /\ []<>(defq = <<>>)
  /\ WF_vars(DefendWake \/ DefendNext)
  /\ SF_vars(StandDispatch)
  /\ \A p \in Proc :
       /\ WF_vars(Relock(p))
       /\ SF_vars(Return(p))
       /\ \A g \in Gate : SF_vars(Unlock(p, g))

FairSpec == Spec /\ Fairness

-----------------------------------------------------------------------------
(* Properties. *)

Asleep(p) == state[p] \in {"PSSLEEP", "PSSLSIG"}

(* A gate that lock() has returned from is locked, and by one process: two
   processes never run the code it protects at once (lock, unlock). *)
MutualExclusion ==
  \A p, q \in Proc : \A g \in holds[p] :
    g \in lock0 /\ (g \in holds[q] => p = q)

(* The owner that each gate has according to the code that took it. *)
Owner ==
  [g \in Gate |-> IF \E p \in Proc : g \in holds[p]
                  THEN CHOOSE p \in Proc : g \in holds[p]
                  ELSE Idle]

(* The gates implement the abstract mutex: lock() returns only with a gate
   that nobody owned, unlock() frees only the caller's own. *)
Abstract == INSTANCE Mutex WITH owner <- Owner, Nobody <- Idle
ImplementsMutex == Abstract!Spec

(* Every process is in exactly one place: on the processor, once on the run
   queue, or once on the sleep queue of its event and in no other (the
   p_lforw/p_lback links of a PROC serve one list at a time). *)
RunQueueOK ==
  /\ IsInjective(runq)
  /\ \A p \in Proc : p \in Range(runq) <=> p # self /\ state[p] = "PSRUN"

SleepQueuesOK ==
  \A b \in Bucket :
    /\ IsInjective(linkq[b])
    /\ \A p \in Proc : p \in Range(linkq[b]) <=> Asleep(p) /\ Hash[event[p]] = b

OnePlace ==
  /\ RunQueueOK
  /\ SleepQueuesOK
  /\ self # Idle => state[self] = "PSRUN"

(* Nobody sleeps on a gate that will not wake him: while a process sleeps in
   lock(), the gate is locked and marked as waited for, so that the holder's
   unlock() will defer a wakeup, or that wakeup is already deferred.  Once
   the deferred queue has overflowed the promise is gone. *)
NoLostGateWakeup ==
  \A p \in Proc :
    ~foo /\ pc[p] = "lock" /\ Asleep(p) =>
      \/ event[p] \in lock0 \cap lock1
      \/ \E i \in DOMAIN defq : defq[i] = event[p]

(* A deferred wakeup leaves its slot only when it has woken every process
   that slept on its event, those included that fell asleep after the call
   of wakeup(). *)
WakeupWakesAll ==
  [][\A p \in Proc :
       defq # <<>> /\ defq' = Tail(defq) /\ event[p] = Head(defq)
         => ~Asleep(p)]_vars

(* A process that waits for a gate gets to test it again, unless the
   deferred queue overflowed. *)
GateWaiterTestsAgain ==
  \A p \in Proc : (pc[p] = "lock") ~> (foo \/ self = p)

(* A runnable process is dispatched: the run queue is first in, first out
   and the quantum ends every turn. *)
RunnableRuns ==
  \A p \in Proc : (state[p] = "PSRUN") ~> (self = p)

(* What x_sleep() and dispatch() say in their comments: with a signal pending
   a process does not sleep at all, and the process that is dispatched is
   deleted from the run queue.  So no wakeup can put the current process on
   the run queue: setrun() is for sleepers. *)
RunningNotQueued ==
  \A i \in DOMAIN runq : runq[i] # self
=============================================================================
