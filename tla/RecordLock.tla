----------------------------- MODULE RecordLock -----------------------------
(***************************************************************************)
(* Record locks: coh.386/rlock.c, as called from fcntl() (F_SETLK and      *)
(* F_SETLKW) and, for a whole file, from fdclose().                        *)
(*                                                                         *)
(* All of rlock() runs with the gate rlgate locked and sleeps only in      *)
(* waitlock(), which unlocks it first, so that a call is one action up to  *)
(* its sleep, and one from each wakeup on.  It ends with a wakeup() of     *)
(* everybody who waits for the file: Defend is when that takes effect.     *)
(***************************************************************************)
EXTENDS Integers, Sequences, FiniteSets, SequencesExt, FiniteSetsExt

CONSTANTS
  Proc,     (* processes                                                    *)
  Inode,    (* files                                                        *)
  EOF,      (* rl_end == -1: greater than every offset                      *)
  Asked,    (* what each process's calls ask for: types and ranges          *)
  RLOCKS,   (* lock structures in the kernel                                *)
  NoRl      (* p_prl == NULL                                                *)

Types == {"read", "write"}
RLOCK == [proc : Proc, type : Types, start : 0..(EOF - 1), end : 0..EOF]

(* Only rl_end == -1 may name the bytes from EOF - 1 on. *)
ASSUME RecordLockAssumption ==
  /\ IsFiniteSet(Proc) /\ IsFiniteSet(Inode)
  /\ EOF \in Nat \ {0}
  /\ RLOCKS \in Nat
  /\ \A p \in Proc :
       /\ Asked[p] \subseteq
            [type : Types, start : 0..(EOF - 1), end : (0..EOF) \ {EOF - 1}]
       /\ \A a \in Asked[p] : a.start <= a.end
  /\ NoRl \notin [ino : Inode, rl : RLOCK]

Requests(p) ==
  {[proc |-> p, type |-> a.type, start |-> a.start, end |-> a.end] : a \in Asked[p]}

VARIABLES
  list,      (* i_rl: the locks on a file                                   *)
  freerl,    (* how many structures are on the free list                    *)
  prl,       (* p_prl: the lock a process waits for                         *)
  st,        (* "run", or in the x_sleep() of waitlock()                    *)
  deferred   (* the files whose waiters a deferred wakeup will wake         *)

vars == <<list, freerl, prl, st, deferred>>

TypeOK ==
  /\ list \in [Inode -> Seq(RLOCK)]
  /\ freerl \in 0..RLOCKS
  /\ prl \in [Proc -> [ino : Inode, rl : RLOCK] \cup {NoRl}]
  /\ st \in [Proc -> {"run", "asleep", "woken", "signalled"}]
  /\ deferred \subseteq Inode

-----------------------------------------------------------------------------
(* The lists. *)

(* Mutant: a range is compared by its start only. *)
MeetsAtStart(a, b) == a.start <= b.end /\ b.start <= a.start

(* nextmeet() *)
Meets(a, b) == a.start <= b.end /\ b.start <= a.end

(* nextblock(): the locks of list q that conflict with r. *)
Blocking(q, r) ==
  {e \in Range(q) : /\ Meets(e, r)
                    /\ e.proc # r.proc
                    /\ e.type = "write" \/ r.type = "write"}

(* Mutant: a piece is left even where the ranges end at the same place. *)
ExtractEmpty(old, new) ==
  (IF old.start <= new.start THEN <<[old EXCEPT !.end = new.start - 1]>> ELSE <<>>)
  \o
  (IF new.end < old.end THEN <<[old EXCEPT !.start = new.end + 1]>> ELSE <<>>)

(* extract(): what is left of a lock when a range is taken out of it. *)
Extract(old, new) ==
  (IF old.start < new.start THEN <<[old EXCEPT !.end = new.start - 1]>> ELSE <<>>)
  \o
  (IF new.end < old.end THEN <<[old EXCEPT !.start = new.end + 1]>> ELSE <<>>)

(* remlock(): r's range is taken out of all the locks of its owner; a lock
   that splits takes a structure off the free list, and if there is none the
   loop ends there. *)
RemLock(free, q, r) ==
  FoldLeft(
    LAMBDA s, e :
      LET rest == Extract(e, r) IN
      IF ~s.ok \/ e.proc # r.proc \/ ~Meets(e, r)
      THEN [s EXCEPT !.q = Append(@, e)]
      ELSE IF Len(rest) > s.free + 1
      THEN [s EXCEPT !.q = Append(@, e), !.ok = FALSE]
      ELSE [q |-> s.q \o rest, free |-> s.free + 1 - Len(rest), ok |-> TRUE],
    [q |-> <<>>, free |-> free, ok |-> TRUE], q)

(* Mutant: locks of the other type are combined with the new one too. *)
AddLockAnyType(free, q, r) ==
  LET Joins(e) == e.proc = r.proc /\ Meets(e, r)
      joined == {e \in Range(q) : Joins(e)}
      kept == SelectSeq(q, LAMBDA e : ~Joins(e))
      room == free + Len(q) - Len(kept)
  IN IF room = 0
     THEN [q |-> q, free |-> free, ok |-> FALSE]
     ELSE [q |-> <<[r EXCEPT !.start = Min({@} \cup {e.start : e \in joined}),
                             !.end = Max({@} \cup {e.end : e \in joined})]>> \o kept,
           free |-> room - 1, ok |-> TRUE]

(* Mutant: the structures of the caller's locks that are combined are lost. *)
AddLockLeaking(free, q, r) ==
  IF free = 0
  THEN [q |-> q, free |-> free, ok |-> FALSE]
  ELSE [q |-> <<r>> \o SelectSeq(q, LAMBDA e : e.proc # r.proc),
        free |-> free - 1, ok |-> TRUE]

(* addlock(): the owner's locks of the same type that r meets or touches
   become one with it; the ranges of its other locks give way.  That remlock()
   runs out of structures is not looked at. *)
AddLock(free, q, r) ==
  LET wide == [r EXCEPT !.start = IF @ = 0 THEN @ ELSE @ - 1,
                        !.end = IF @ = EOF THEN @ ELSE @ + 1]
      Joins(e) == e.proc = r.proc /\ e.type = r.type /\ Meets(e, wide)
      joined == {e \in Range(q) : Joins(e)}
      new == [r EXCEPT !.start = Min({@} \cup {e.start : e \in joined}),
                       !.end = Max({@} \cup {e.end : e \in joined})]
      kept == FoldLeft(LAMBDA s, e : IF Joins(e) THEN s ELSE Append(s, e), <<>>, q)
      room == free + Len(q) - Len(kept)
  IN IF room = 0
     THEN [q |-> q, free |-> free, ok |-> FALSE]
     ELSE LET s == RemLock(room - 1, kept, new)
          IN [s EXCEPT !.q = <<new>> \o @]

Install(i, s) == list' = [list EXCEPT ![i] = s.q] /\ freerl' = s.free

-----------------------------------------------------------------------------
(* Who waits for whom. *)

WaitsFor ==
  [p \in Proc |-> IF prl[p] = NoRl THEN {}
                  ELSE {e.proc : e \in Blocking(list[prl[p].ino], prl[p].rl)}]

(* waiting(): whom a process waits for, directly or through others, as many
   as there are. *)
Waiting ==
  LET reach[n \in Nat] ==
        IF n = 0 THEN WaitsFor
        ELSE LET further == reach[n - 1] IN
             [p \in Proc |-> WaitsFor[p] \cup UNION {further[q] : q \in WaitsFor[p]}]
  IN reach[Cardinality(Proc)]

(* Mutant: only direct waits are seen. *)
DeadlockDirect(r, i) ==
  \E e \in Blocking(list[i], r) : r.proc \in WaitsFor[e.proc]

(* Somebody who has a conflicting lock waits for the caller: EDEADLK. *)
Deadlock(r, i) ==
  \E e \in Blocking(list[i], r) : r.proc \in Waiting[e.proc]

-----------------------------------------------------------------------------
(* The calls. *)

(* F_SETLK, and F_SETLKW where there is nothing to wait for.  Where there is,
   EACCES, and EDEADLK or ENOLCK of an F_SETLKW, change no lock. *)
SetLk(p, i, r) ==
  /\ st[p] = "run"
  /\ IF Blocking(list[i], r) = {}
     THEN Install(i, AddLock(freerl, list[i], r))
     ELSE UNCHANGED <<list, freerl>>
  /\ deferred' = deferred \cup {i}
  /\ UNCHANGED <<prl, st>>

(* F_SETLKW that has to wait: the request itself takes a structure. *)
WaitLock(p, i, r) ==
  /\ st[p] = "run"
  /\ Blocking(list[i], r) # {}
  /\ freerl > 0
  /\ ~Deadlock(r, i)
  /\ freerl' = freerl - 1
  /\ prl' = [prl EXCEPT ![p] = [ino |-> i, rl |-> r]]
  /\ st' = [st EXCEPT ![p] = "asleep"]
  /\ UNCHANGED <<list, deferred>>

(* F_UNLCK, and fdclose() with the range of the whole file. *)
Unlock(p, i, r) ==
  /\ st[p] = "run"
  /\ Install(i, RemLock(freerl, list[i], r))
  /\ deferred' = deferred \cup {i}
  /\ UNCHANGED <<prl, st>>

(* Mutant: a call that slept ends without the wakeup(). *)
CleanupSilent(p) ==
  /\ prl' = [prl EXCEPT ![p] = NoRl]
  /\ st' = [st EXCEPT ![p] = "run"]
  /\ deferred' = deferred

(* The wait is over: cleanup(), and the wakeup() at the end of rlock(). *)
Cleanup(p) ==
  /\ prl' = [prl EXCEPT ![p] = NoRl]
  /\ st' = [st EXCEPT ![p] = "run"]
  /\ deferred' = deferred \cup {prl[p].ino}

(* The waiter looks again.  The lock may be free, or still be taken, or there
   may now be a deadlock. *)
Retry(p) ==
  LET i == prl[p].ino  r == prl[p].rl IN
  /\ st[p] = "woken"
  /\ IF Blocking(list[i], r) = {}
     THEN Install(i, AddLock(freerl + 1, list[i], r)) /\ Cleanup(p)
     ELSE IF Deadlock(r, i)
     THEN freerl' = freerl + 1 /\ UNCHANGED list /\ Cleanup(p)
     ELSE st' = [st EXCEPT ![p] = "asleep"] /\ UNCHANGED <<list, freerl, prl, deferred>>

(* EINTR *)
Interrupted(p) ==
  /\ st[p] = "signalled"
  /\ freerl' = freerl + 1
  /\ Cleanup(p)
  /\ UNCHANGED list

Signal(p) ==
  /\ st[p] \in {"asleep", "woken"}
  /\ st' = [st EXCEPT ![p] = "signalled"]
  /\ UNCHANGED <<list, freerl, prl, deferred>>

(* The deferred dwakeup() of those who sleep on the file's lock list. *)
Defend(i) ==
  /\ i \in deferred
  /\ deferred' = deferred \ {i}
  /\ st' = [p \in Proc |-> IF st[p] = "asleep" /\ prl[p].ino = i
                           THEN "woken" ELSE st[p]]
  /\ UNCHANGED <<list, freerl, prl>>

Init ==
  /\ list = [i \in Inode |-> <<>>]
  /\ freerl = RLOCKS
  /\ prl = [p \in Proc |-> NoRl]
  /\ st = [p \in Proc |-> "run"]
  /\ deferred = {}

Next ==
  \/ \E p \in Proc, i \in Inode : \E r \in Requests(p) :
       SetLk(p, i, r) \/ WaitLock(p, i, r) \/ Unlock(p, i, r)
  \/ \E p \in Proc : Retry(p) \/ Interrupted(p) \/ Signal(p)
  \/ \E i \in Inode : Defend(i)

Spec == Init /\ [][Next]_vars

-----------------------------------------------------------------------------
(* Properties. *)

(* Two processes never have locks on a byte of which one is a write lock. *)
NoConflict ==
  \A i \in Inode : \A e \in Range(list[i]) : Blocking(list[i], e) = {}

(* No circle of processes that wait for each other's locks: the walk of
   waiting(), which is made only when a wait begins, finds every deadlock,
   and the recursion in it ends. *)
NoWaitCycle == \A p \in Proc : p \notin Waiting[p]

(* Who sleeps for a lock is kept from it by somebody, or his wakeup is
   deferred. *)
NobodyStranded ==
  \A p \in Proc : st[p] = "asleep" =>
    \/ Blocking(list[prl[p].ino], prl[p].rl) # {}
    \/ prl[p].ino \in deferred

(* Every lock structure is on the free list, on one file's list, or is the
   request of a process that waits, whichever way calls end. *)
PoolOK ==
  freerl + MapThenSumSet(LAMBDA i : Len(list[i]), Inode)
         + Cardinality({p \in Proc : prl[p] # NoRl}) = RLOCKS

(* The bytes of a file; the last one stands for all from there on. *)
Byte == 0..(EOF - 1)
Held ==
  [i \in Inode |-> [p \in Proc |-> [b \in Byte |->
     {e.type : e \in {x \in Range(list[i]) :
                        x.proc = p /\ x.start <= b /\ b <= x.end}}]]]

(* Byte by byte, the lists of ranges with their joining and splitting are
   record locks. *)
Promise == INSTANCE RangeLocks WITH
  held <- Held, full <- (freerl = 0),
  Ranges <- {a.start..a.end \cap Byte : a \in UNION {Asked[p] : p \in Proc}}
ImplementsRangeLocks == Promise!Spec
=============================================================================
