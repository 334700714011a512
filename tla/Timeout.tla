------------------------------ MODULE Timeout ------------------------------
(***************************************************************************)
(* Timers: timeout() and timeout2() of coh.386/timeout.c, and the scan in  *)
(* stand(), coh.386/clock.c.                                               *)
(*                                                                         *)
(* A timer that is due at tick n is in list n % NTIMQ, with others that    *)
(* are due at other ticks.  The lists are doubly linked, their heads are   *)
(* the elements of timq[]; what is a pointer to a pointer in timeout.c and *)
(* a pointer to a TIM in clock.c is a node here.                           *)
(*                                                                         *)
(* Processes, the functions of timers and interrupts call timeout().       *)
(* Interrupts come where they are not masked: not while a list is changed  *)
(* or scanned, but between the two halves of timeout() and while a         *)
(* function runs.                                                          *)
(***************************************************************************)
EXTENDS Integers, FiniteSets

CONSTANTS
  Timer,
  NTIMQ,      (* lists: 256 in the kernel                                   *)
  WIDTH,      (* lbolt is counted modulo WIDTH: 2^32 in the kernel          *)
  Delay,      (* ticks that callers ask for                                 *)
  IntTimer,   (* timers that interrupt routines start and cancel            *)
  MAXCLOCKS,  (* bound: ticks that stand() may be behind                    *)
  NULL,
  Races       (* TRUE: timeout() may be called for the timer that the scan
                 has remembered, and for one between the halves of another
                 timeout()                                                  *)

Queue == 0..(NTIMQ - 1)

ASSUME TimeoutAssumption ==
  /\ NTIMQ \in Nat \ {0} /\ WIDTH \in Nat \ {0} /\ WIDTH % NTIMQ = 0
  /\ Delay \subseteq 1..(WIDTH - 1)
  /\ IsFiniteSet(Timer) /\ IntTimer \subseteq Timer /\ Timer \cap Queue = {}
  /\ NULL \notin Timer \cup Queue \cup 0..(WIDTH - 1)
  /\ MAXCLOCKS \in Nat /\ Races \in BOOLEAN

Node == Queue \cup Timer

VARIABLES
  tq,       (* next: timq[], and t_next of the timers; last: t_last         *)
  when,     (* t_lbolt                                                      *)
  lbolt,    (* ticks that were served                                       *)
  clocks,   (* ticks that were not                                          *)
  phase,    (* of stand(): "off", "scan" with interrupts masked, "call"     *)
  np,       (* the timer the scan comes to next                             *)
  running,  (* the timer whose function is being called                     *)
  call      (* the timeout() that has removed its timer and not inserted it *)

vars == <<tq, when, lbolt, clocks, phase, np, running, call>>

NoCall == [timer |-> NULL, n |-> 0]

TypeOK ==
  /\ tq \in [next : [Node -> Timer \cup {NULL}], last : [Timer -> Node \cup {NULL}]]
  /\ when \in [Timer -> 0..(WIDTH - 1)]
  /\ lbolt \in 0..(WIDTH - 1)
  /\ clocks \in 0..MAXCLOCKS
  /\ phase \in {"off", "scan", "call"}
  /\ np \in Timer \cup {NULL}
  /\ running \in Timer \cup {NULL}
  /\ call \in [timer : Timer, n : Delay] \cup {NoCall}

-----------------------------------------------------------------------------
(* The lists. *)

Armed(t) == tq.last[t] # NULL

(* Mutant: the timer behind keeps its t_last. *)
UnlinkForward(l, t) ==
  IF l.last[t] = NULL THEN l
  ELSE [next |-> [l.next EXCEPT ![l.last[t]] = l.next[t]],
        last |-> [l.last EXCEPT ![t] = NULL]]

(* The timer keeps its t_next.  timeout() leaves a timer alone that is in no
   list. *)
Unlink(l, t) ==
  IF l.last[t] = NULL THEN l
  ELSE [next |-> [l.next EXCEPT ![l.last[t]] = l.next[t]],
        last |-> [u \in Timer |-> IF u = t THEN NULL
                                  ELSE IF u = l.next[t] THEN l.last[t] ELSE l.last[u]]]

(* At the head of a list. *)
Insert(l, t, qp) ==
  [next |-> [l.next EXCEPT ![t] = l.next[qp], ![qp] = t],
   last |-> [u \in Timer |-> IF u = t THEN qp
                             ELSE IF u = l.next[qp] THEN t ELSE l.last[u]]]

Tick(n) == (lbolt + n) % WIDTH

-----------------------------------------------------------------------------
(* timeout() and timeout2(), called by a process or by a timer's function. *)

MayCall(t) == phase # "scan" /\ (Races \/ t \notin {np, call.timer})

(* The first half: all there is to do for a timer without a function. *)
Remove(t) ==
  /\ call = NoCall
  /\ MayCall(t)
  /\ tq' = Unlink(tq, t)
  /\ call' \in {NoCall} \cup [timer : {t}, n : Delay]
  /\ UNCHANGED <<when, lbolt, clocks, phase, np, running>>

(* Mutant: the list is that of the delay. *)
StartAtDelay ==
  /\ call # NoCall
  /\ when' = [when EXCEPT ![call.timer] = Tick(call.n)]
  /\ tq' = Insert(tq, call.timer, call.n % NTIMQ)
  /\ call' = NoCall
  /\ UNCHANGED <<lbolt, clocks, phase, np, running>>

Start ==
  LET w == Tick(call.n) IN
  /\ call # NoCall
  /\ when' = [when EXCEPT ![call.timer] = w]
  /\ tq' = Insert(tq, call.timer, w % NTIMQ)
  /\ call' = NoCall
  /\ UNCHANGED <<lbolt, clocks, phase, np, running>>

(* The same from an interrupt routine. *)
Interrupt(t) ==
  /\ t \in IntTimer
  /\ MayCall(t)
  /\ \/ tq' = Unlink(tq, t) /\ UNCHANGED when
     \/ \E n \in Delay :
          /\ when' = [when EXCEPT ![t] = Tick(n)]
          /\ tq' = Insert(Unlink(tq, t), t, Tick(n) % NTIMQ)
  /\ UNCHANGED <<lbolt, clocks, phase, np, running, call>>

-----------------------------------------------------------------------------
(* The clock, and the scan in stand().  There is a tick at a time, and between
   two of them stand() may as well return. *)

Clock ==
  /\ phase # "scan" /\ clocks < MAXCLOCKS
  /\ clocks' = clocks + 1
  /\ UNCHANGED <<tq, when, lbolt, phase, np, running, call>>

(* Mutant: the loop is run once before clocks is looked at. *)
NextTickUntested ==
  /\ phase = "off" /\ call = NoCall
  /\ lbolt' = Tick(1) /\ clocks' = clocks - 1
  /\ np' = tq.next[lbolt' % NTIMQ]
  /\ phase' = "scan"
  /\ UNCHANGED <<tq, when, running, call>>

NextTick ==
  /\ phase = "off" /\ call = NoCall
  /\ clocks > 0
  /\ lbolt' = Tick(1) /\ clocks' = clocks - 1
  /\ np' = tq.next[lbolt' % NTIMQ]
  /\ phase' = "scan"
  /\ UNCHANGED <<tq, when, running, call>>

(* The timer is due at another tick. *)
Skip ==
  /\ phase = "scan" /\ np # NULL
  /\ when[np] # lbolt
  /\ np' = tq.next[np]
  /\ UNCHANGED <<tq, when, lbolt, clocks, phase, running, call>>

(* Mutant: all timers of the list are taken for due. *)
FireAny ==
  /\ phase = "scan" /\ np # NULL
  /\ tq' = Unlink(tq, np)
  /\ running' = np
  /\ np' = tq.next[np]
  /\ phase' = "call"
  /\ UNCHANGED <<when, lbolt, clocks, call>>

(* np moves on before the function is called. *)
Fire ==
  /\ phase = "scan" /\ np # NULL
  /\ when[np] = lbolt
  /\ tq' = Unlink(tq, np)
  /\ running' = np
  /\ np' = tq.next[np]
  /\ phase' = "call"
  /\ UNCHANGED <<when, lbolt, clocks, call>>

(* Mutant: np moves on after the function was called. *)
ReturnedThenNext ==
  /\ phase = "call" /\ call = NoCall
  /\ np' = tq.next[running]
  /\ running' = NULL
  /\ phase' = "scan"
  /\ UNCHANGED <<tq, when, lbolt, clocks, call>>

Returned ==
  /\ phase = "call" /\ call = NoCall
  /\ running' = NULL
  /\ phase' = "scan"
  /\ UNCHANGED <<tq, when, lbolt, clocks, np, call>>

EndOfList ==
  /\ phase = "scan" /\ np = NULL
  /\ phase' = "off"
  /\ UNCHANGED <<tq, when, lbolt, clocks, np, running, call>>

Init ==
  /\ tq = [next |-> [k \in Node |-> NULL], last |-> [t \in Timer |-> NULL]]
  /\ when = [t \in Timer |-> 0]
  /\ lbolt = 0 /\ clocks = 0
  /\ phase = "off" /\ np = NULL /\ running = NULL
  /\ call = NoCall

Next ==
  \/ \E t \in Timer : Remove(t) \/ Interrupt(t)
  \/ Start \/ Clock
  \/ NextTick \/ Skip \/ Fire \/ Returned \/ EndOfList

Spec == Init /\ [][Next]_vars

-----------------------------------------------------------------------------
(* Properties. *)

(* Nodes that the links lead to from a node, it included. *)
From(k) ==
  LET reach[n \in 0..Cardinality(Timer)] ==
        IF n = 0 THEN {k}
        ELSE reach[n - 1] \cup {tq.next[x] : x \in {y \in reach[n - 1] : y # NULL}}
  IN reach[Cardinality(Timer)] \ {NULL}

(* The links of neighbours agree, and neighbours are of one list: what a
   timer is taken out by, without a search.  What no longer is in a list may
   point anywhere, and nothing points at it. *)
LinksAgree ==
  /\ \A t \in Timer : Armed(t) =>
       /\ tq.next[tq.last[t]] = t
       /\ tq.last[t] \in Queue => tq.last[t] = when[t] % NTIMQ
       /\ tq.last[t] \in Timer => /\ Armed(tq.last[t])
                                  /\ when[tq.last[t]] % NTIMQ = when[t] % NTIMQ
  /\ \A k \in Node : (k \in Timer => Armed(k)) /\ tq.next[k] # NULL =>
       tq.last[tq.next[k]] = k

(* Every timer that was started can be found from the head of the list that
   the scan goes through at its tick. *)
ListsOK == \A t \in Timer : Armed(t) => t \in From(when[t] % NTIMQ)

(* The scan stays in its list, and never comes to a timer that was cancelled:
   the one it has remembered while a function ran is still there. *)
ScanSafe ==
  np # NULL => Armed(np) /\ when[np] % NTIMQ = lbolt % NTIMQ

(* Nor does it miss one: in the middle of a tick, the timers that are due are
   still before it. *)
ScanComplete ==
  phase # "off" =>
    \A t \in Timer : Armed(t) /\ when[t] = lbolt => np # NULL /\ t \in From(np)

(* Every function is called once, after as many ticks as were asked for,
   unless its timer was cancelled or started again. *)
Left == [t \in Timer |-> IF Armed(t) THEN (when[t] - lbolt) % WIDTH ELSE NULL]

Promise == INSTANCE Alarms
  WITH left <- Left, MaxDelay <- WIDTH - 1, Off <- NULL, Nobody <- NULL
ImplementsAlarms == Promise!Spec
=============================================================================
