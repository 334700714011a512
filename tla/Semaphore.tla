----------------------------- MODULE Semaphore -----------------------------
(***************************************************************************)
(* A set of System V semaphores: io.386/sem386.c, and the call of          *)
(* semAllAdjust() in pexit() (proc.c).                                     *)
(*                                                                         *)
(* usemop() holds gSemGate while it goes through its operations and        *)
(* unlocks it before the sleep in semwait(); nothing sleeps with the gate  *)
(* locked, and semctl() needs no gate to run in one piece.  So a call is   *)
(* one action up to its sleep, and one from each wakeup on.  A wakeup()    *)
(* is deferred: Defend is when it takes effect.                            *)
(***************************************************************************)
EXTENDS Integers, Sequences, FiniteSets, SequencesExt

CONSTANTS
  Proc,     (* processes                                                    *)
  NSEMS,    (* sem_nsems                                                    *)
  SEMVMX,   (* the greatest value of a semaphore                            *)
  USHRT,    (* what an unsigned short counts to: semval is modulo USHRT     *)
  Asked,    (* the arrays of operations a process may ask for               *)
  Garbage,  (* what un_aoe may be in memory that alloc() hands out          *)
  Careful   (* TRUE: processes keep their adjust values small, and exit only
               where they can be applied                                    *)

Sem == 0..(NSEMS - 1)
sembuf == [num : Nat, op : Int, undo : BOOLEAN, nowait : BOOLEAN]

Parameters ==
  /\ IsFiniteSet(Proc)
  /\ NSEMS \in Nat \ {0} /\ SEMVMX \in Nat \ {0}
  /\ USHRT \in Nat /\ USHRT > 2 * SEMVMX
  /\ \A p \in Proc : /\ Asked[p] \subseteq Seq(sembuf)
                     /\ \A a \in Asked[p] : Len(a) > 0
  /\ Garbage \subseteq Int
  /\ Careful \in BOOLEAN

VARIABLES
  alive,      (* IPC_ALLOC                                                  *)
  semval,     (* the values                                                 *)
  semncnt,    (* how many wait for a greater value                          *)
  semzcnt,    (* how many wait for the value 0                              *)
  semu,       (* the adjust values of a process, for the semaphores it has
                 one for                                                    *)
  st,         (* where a process is, its array and what it sleeps on        *)
  deferred,   (* deferred wakeups: addresses of semncnt and semzcnt         *)
  overlooked  (* who sleeps on a semaphore that was changed without a wakeup
                 since; not in the kernel                                   *)

vars == <<alive, semval, semncnt, semzcnt, semu, st, deferred, overlooked>>

Event == {"semncnt", "semzcnt"} \X Sem
NoCall == [at |-> "run"]
InCall(at, ops, e) == [at |-> at, ops |-> ops, on |-> e]

TypeOK ==
  /\ alive \in BOOLEAN
  /\ semval \in [Sem -> 0..SEMVMX]
  /\ semncnt \in [Sem -> 0..Cardinality(Proc)]
  /\ semzcnt \in [Sem -> 0..Cardinality(Proc)]
  /\ semu \in [Proc -> UNION {[S -> (-SEMVMX)..SEMVMX] : S \in SUBSET Sem}]
  /\ st \in [Proc -> {NoCall} \cup
               [at : {"asleep", "woken", "signalled"}, ops : UNION {Asked[p] : p \in Proc}, on : Event]]
  /\ deferred \subseteq Event
  /\ overlooked \subseteq Proc

Adj(p, s) == IF s \in DOMAIN semu[p] THEN semu[p][s] ELSE 0

-----------------------------------------------------------------------------
(* One pass through an array of operations.  Its state: what the set and the
   caller's adjust values are by now, the wakeups made, how many operations
   are done, and how it ended if it did. *)

(* iSubAdj(): the first adjust value for a semaphore is what was in the memory. *)
SubAdj(u, g, s, v) ==
  IF s \in DOMAIN u
  THEN IF u[s] - v \in (-SEMVMX)..SEMVMX
       THEN [ok |-> TRUE, u |-> [u EXCEPT ![s] = @ - v]]
       ELSE [ok |-> FALSE, u |-> u]
  ELSE [ok |-> TRUE, u |-> [x \in DOMAIN u \cup {s} |-> IF x = s THEN g[s] - v ELSE u[x]]]

(* Mutant: what was done is left as it is. *)
SemundoNone(x, ops, g) == x

TakeBack(val, s, v) == IF s \in Sem THEN [val EXCEPT ![s] = (@ - v) % USHRT] ELSE val

(* semundo(): the operations done are taken back, the first on semaphore 0, the
   second on semaphore 1, and so on; the adjust values are those of the
   semaphores the operations name. *)
Semundo(x, ops, g) ==
  FoldLeft(
    LAMBDA y, i :
      LET o == ops[i] IN
      [y EXCEPT !.val = TakeBack(@, i - 1, o.op),
                !.u = IF o.undo THEN SubAdj(@, g, o.num, -o.op).u ELSE @],
    x, [i \in 1..x.done |-> i])

Fail(x, ops, g, how) == [Semundo(x, ops, g) EXCEPT !.end = how]

Wakes(kind, cnt, s) == IF cnt[s] > 0 THEN {<<kind, s>>} ELSE {}

NoteUndo(x, g, o) ==
  IF o.undo THEN SubAdj(x.u, g, o.num, o.op) ELSE [ok |-> TRUE, u |-> x.u]

(* The value is too small, or not 0. *)
Wait(x, ops, g, o, kind) ==
  Fail(x, ops, g, IF o.nowait THEN "error" ELSE kind)

Decrement(x, ops, g, o, zcnt) ==
  LET v == x.val[o.num] + o.op  a == NoteUndo(x, g, o)
      y == [x EXCEPT !.val[o.num] = v,
                     !.wakes = @ \cup (IF v = 0 THEN Wakes("semzcnt", zcnt, o.num) ELSE {})]
  IN IF v < 0 THEN Wait(x, ops, g, o, "semncnt")
     ELSE IF a.ok THEN [y EXCEPT !.u = a.u, !.done = @ + 1]
     ELSE Fail(y, ops, g, "error")

(* Mutant: who waits for a greater value is woken only if it was 0. *)
IncrementFromZero(x, ops, g, o, ncnt) ==
  LET v == x.val[o.num] + o.op  a == NoteUndo(x, g, o) IN
  IF ~a.ok \/ v > SEMVMX
  THEN Fail(x, ops, g, "error")
  ELSE [x EXCEPT !.val[o.num] = v, !.u = a.u, !.done = @ + 1,
                 !.wakes = @ \cup (IF x.val[o.num] = 0 /\ v = 1
                                   THEN Wakes("semncnt", ncnt, o.num) ELSE {})]

(* Mutant: nothing keeps the value below SEMVMX. *)
IncrementUnbounded(x, ops, g, o, ncnt) ==
  LET a == NoteUndo(x, g, o) IN
  IF ~a.ok THEN Fail(x, ops, g, "error")
  ELSE [x EXCEPT !.val[o.num] = @ + o.op, !.u = a.u, !.done = @ + 1,
                 !.wakes = @ \cup Wakes("semncnt", ncnt, o.num)]

Increment(x, ops, g, o, ncnt) ==
  LET v == x.val[o.num] + o.op  a == NoteUndo(x, g, o) IN
  IF ~a.ok THEN Fail(x, ops, g, "error")
  ELSE IF v > SEMVMX
  THEN LET y == Fail([x EXCEPT !.u = a.u], ops, g, "error") IN
       IF o.undo THEN [y EXCEPT !.u = SubAdj(@, g, o.num, -o.op).u] ELSE y
  ELSE [x EXCEPT !.val[o.num] = v, !.u = a.u, !.done = @ + 1,
                 !.wakes = @ \cup Wakes("semncnt", ncnt, o.num)]

(* One operation of the array, in the order of the tests in usemop(). *)
Operate(x, ops, g, ncnt, zcnt) ==
  LET o == ops[x.done + 1] IN
  CASE o.op \notin (-SEMVMX)..SEMVMX -> Fail(x, ops, g, "error")
    [] o.op \in (-SEMVMX)..SEMVMX /\ o.num \notin Sem -> Fail(x, ops, g, "error")
    [] o.op \in (-SEMVMX)..(-1) /\ o.num \in Sem -> Decrement(x, ops, g, o, zcnt)
    [] o.op = 0 /\ o.num \in Sem ->
         IF x.val[o.num] = 0 THEN [x EXCEPT !.done = @ + 1]
         ELSE Wait(x, ops, g, o, "semzcnt")
    [] o.op \in 1..SEMVMX /\ o.num \in Sem -> Increment(x, ops, g, o, ncnt)

Pass(p, ops, g, ncnt, zcnt) ==
  FoldLeft(
    LAMBDA x, i : IF x.end = "" THEN Operate(x, ops, g, ncnt, zcnt) ELSE x,
    [val |-> semval, u |-> semu[p], wakes |-> {}, done |-> 0, end |-> ""],
    [i \in 1..Len(ops) |-> i])

-----------------------------------------------------------------------------
(* semop() *)

Occurrences(ops, s) == {i \in 1..Len(ops) : ops[i].num = s /\ ops[i].undo}

(* The adjust values stay in their range, whatever part of ops is done. *)
AdjustsFit(p, ops) ==
  \A s \in Sem : \A I \in SUBSET Occurrences(ops, s) :
    Adj(p, s) - FoldLeft(LAMBDA n, i : IF i \in I THEN n + ops[i].op ELSE n, 0,
                         [i \in 1..Len(ops) |-> i]) \in (-SEMVMX)..SEMVMX

(* The loop of usemop(), with the counters of waiting processes as they are
   when it starts, and semwait() up to its sleep. *)
Perform(p, ops, ncnt, zcnt) ==
  \E g \in [Sem -> Garbage] :
    LET x == Pass(p, ops, g, ncnt, zcnt)
        s == ops[x.done + 1].num
    IN /\ semval' = x.val
       /\ semu' = [semu EXCEPT ![p] = x.u]
       /\ deferred' = deferred \cup x.wakes
       /\ st' = [st EXCEPT ![p] = IF x.end \in {"", "error"} THEN NoCall
                                  ELSE InCall("asleep", ops, <<x.end, s>>)]
       /\ semncnt' = IF x.end = "semncnt" THEN [ncnt EXCEPT ![s] = @ + 1] ELSE ncnt
       /\ semzcnt' = IF x.end = "semzcnt" THEN [zcnt EXCEPT ![s] = @ + 1] ELSE zcnt
       /\ UNCHANGED <<alive, overlooked>>

Semop(p, ops) ==
  /\ alive /\ st[p] = NoCall
  /\ Careful => AdjustsFit(p, ops)
  /\ Perform(p, ops, semncnt, semzcnt)

Uncount(cnt, kind, e) == IF e[1] = kind THEN [cnt EXCEPT ![e[2]] = @ - 1] ELSE cnt

(* semwait() returns 0 and usemop() starts the array over. *)
TryAgain(p) ==
  /\ alive /\ st[p].at = "woken"
  /\ Perform(p, st[p].ops, Uncount(semncnt, "semncnt", st[p].on),
                           Uncount(semzcnt, "semzcnt", st[p].on))

(* EINTR *)
Interrupted(p) ==
  /\ alive /\ st[p].at = "signalled"
  /\ st' = [st EXCEPT ![p] = NoCall]
  /\ semncnt' = Uncount(semncnt, "semncnt", st[p].on)
  /\ semzcnt' = Uncount(semzcnt, "semzcnt", st[p].on)
  /\ UNCHANGED <<alive, semval, semu, deferred, overlooked>>

(* EIDRM: the set is gone, and the counters with it. *)
Removed(p) ==
  /\ ~alive /\ st[p].at \in {"woken", "signalled"}
  /\ st' = [st EXCEPT ![p] = NoCall]
  /\ UNCHANGED <<alive, semval, semncnt, semzcnt, semu, deferred, overlooked>>

-----------------------------------------------------------------------------
(* semctl(), pexit(), semget(); signals and wakeups *)

(* vClearAdj() for the semaphores in S. *)
ClearAdj(S) ==
  [p \in Proc |-> [s \in DOMAIN semu[p] |-> IF s \in S THEN 0 ELSE semu[p][s]]]

Changed(S) == {p \in Proc : st[p].at = "asleep" /\ st[p].on[2] \in S}

(* SETVAL *)
SetVal(s, v) ==
  /\ alive
  /\ semval' = [semval EXCEPT ![s] = v]
  /\ deferred' = deferred \cup (IF v # 0 THEN Wakes("semncnt", semncnt, s)
                                        ELSE Wakes("semzcnt", semzcnt, s))
  /\ semu' = ClearAdj({s})
  /\ UNCHANGED <<alive, semncnt, semzcnt, st, overlooked>>

(* SETALL of the values new; it stops before semaphore k, where the value is
   out of range or cannot be read.  No wakeup. *)
SetAll(new, k) ==
  LET S == 0..(k - 1) IN
  /\ alive
  /\ semval' = [s \in Sem |-> IF s \in S THEN new[s] ELSE semval[s]]
  /\ semu' = ClearAdj(S)
  /\ overlooked' = overlooked \cup Changed({s \in S : new[s] # semval[s]})
  /\ UNCHANGED <<alive, semncnt, semzcnt, st, deferred>>

(* The adjust values of p can be applied to the set. *)
Applies(p) ==
  \A s \in Sem : Adj(p, s) # 0 => alive /\ semval[s] + Adj(p, s) \in 0..SEMVMX

(* semAllAdjust(), from pexit(): no look at the value, no wakeup, and none at
   IPC_ALLOC: of a set that is gone the memory is written to, which is no longer
   part of the model.  Another process may have p's place afterwards. *)
Exit(p) ==
  /\ st[p] = NoCall
  /\ Careful => Applies(p)
  /\ semval' = IF alive THEN [s \in Sem |-> (semval[s] + Adj(p, s)) % USHRT] ELSE semval
  /\ semu' = [semu EXCEPT ![p] = << >>]
  /\ overlooked' = overlooked \cup Changed({s \in Sem : Adj(p, s) # 0})
  /\ UNCHANGED <<alive, semncnt, semzcnt, st, deferred>>

(* IPC_RMID: the adjust values stay. *)
Rmid ==
  /\ alive
  /\ alive' = FALSE
  /\ deferred' = deferred \cup
       UNION {Wakes("semncnt", semncnt, s) \cup Wakes("semzcnt", semzcnt, s) : s \in Sem}
  /\ UNCHANGED <<semval, semncnt, semzcnt, semu, st, overlooked>>

(* semget() makes a set in the same place.  A process that slept in the old one
   until now would take its counter back in memory that was freed: the model
   waits until there is none. *)
Semget ==
  /\ ~alive /\ \A p \in Proc : st[p] = NoCall
  /\ alive' = TRUE
  /\ semval' = [s \in Sem |-> 0]
  /\ semncnt' = [s \in Sem |-> 0]
  /\ semzcnt' = [s \in Sem |-> 0]
  /\ UNCHANGED <<semu, st, deferred, overlooked>>

Signal(p) ==
  /\ st[p].at = "asleep"
  /\ st' = [st EXCEPT ![p].at = "signalled"]
  /\ overlooked' = overlooked \ {p}
  /\ UNCHANGED <<alive, semval, semncnt, semzcnt, semu, deferred>>

(* The deferred dwakeup() of e. *)
Defend(e) ==
  LET W == {p \in Proc : st[p].at = "asleep" /\ st[p].on = e} IN
  /\ e \in deferred
  /\ deferred' = deferred \ {e}
  /\ st' = [p \in Proc |-> IF p \in W THEN [st[p] EXCEPT !.at = "woken"] ELSE st[p]]
  /\ overlooked' = overlooked \ W
  /\ UNCHANGED <<alive, semval, semncnt, semzcnt, semu>>

Init ==
  /\ alive = TRUE
  /\ semval = [s \in Sem |-> 0]
  /\ semncnt = [s \in Sem |-> 0]
  /\ semzcnt = [s \in Sem |-> 0]
  /\ semu = [p \in Proc |-> << >>]
  /\ st = [p \in Proc |-> NoCall]
  /\ deferred = {}
  /\ overlooked = {}

Next ==
  \/ \E p \in Proc : \/ \E ops \in Asked[p] : Semop(p, ops)
                    \/ TryAgain(p) \/ Interrupted(p) \/ Removed(p)
                    \/ Exit(p) \/ Signal(p)
  \/ \E s \in Sem, v \in 0..SEMVMX : SetVal(s, v)
  \/ \E new \in [Sem -> 0..SEMVMX], k \in 1..NSEMS : SetAll(new, k)
  \/ \E e \in deferred : Defend(e)
  \/ Rmid \/ Semget

Spec == Init /\ [][Next]_vars

-----------------------------------------------------------------------------
Adjustments == [p \in Proc |-> [s \in Sem |-> Adj(p, s)]]

A == INSTANCE AtomicSemaphores WITH adj <- Adjustments

(* An array of operations is performed whole, as if one after the other with
   nothing in between, and only if every one of them is possible, or changes
   nothing at all, values and adjust values both; and nothing else but SETVAL,
   SETALL, an exit and a new set changes a semaphore: usemop(), semundo() and
   iSubAdj() as a whole. *)
ImplementsSemops == A!Spec

(* A process does not sleep in semwait() while all its operations could be
   performed, or its set is gone, unless a wakeup of it is deferred or SETALL or
   an exit, which make no wakeup, has changed the semaphore it sleeps on. *)
NobodyStranded ==
  \A p \in Proc : st[p].at = "asleep" =>
    \/ st[p].on \in deferred
    \/ alive /\ (p \in overlooked \/ ~A!Possible(st[p].ops))
=============================================================================
