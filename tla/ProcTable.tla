----------------------------- MODULE ProcTable -----------------------------
(***************************************************************************)
(* The process table: pfork(), pexit() and relproc() of proc.c, uwait()    *)
(* and uwaitpid() of sys1.c.                                               *)
(*                                                                         *)
(* pexit() may sleep while it closes files; from its loop over the table   *)
(* on it does not, and neither do the scans of uwait() and uwaitpid(), so  *)
(* each of these is one action.  A wakeup() is deferred: Defend is when it *)
(* takes effect.  Process groups and traced processes are left out.        *)
(***************************************************************************)
EXTENDS Integers, FiniteSets, FiniteSetsExt

CONSTANTS
  NPID,     (* process ids are below NPID                                   *)
  Waiters   (* the processes that may be in wait() at the same time         *)

Pid == 1..(NPID - 1)
init == 1         (* eprocp *)
AnyChild == -1

Parameters == NPID \in Nat /\ NPID > 2 /\ Waiters \subseteq Pid

VARIABLES
  p_state,  (* "free" if no process has this id; "dead" is a zombie; "asleep"
               and "woken" are those in wait()                              *)
  p_ppid,   (* the parent                                                   *)
  p_wait,   (* the child that a process in wait() waits for                 *)
  nocldwait,(* __SF_NOCLDWAIT: the process ignores SIGCHLD                  *)
  cpid,     (* the last id given                                            *)
  deferred  (* processes that somebody in pexit() has called wakeup() on    *)

vars == <<p_state, p_ppid, p_wait, nocldwait, cpid, deferred>>

TypeOK ==
  /\ p_state \in [Pid -> {"free", "run", "asleep", "woken", "dead"}]
  /\ p_ppid \in [Pid -> {0} \cup Pid]
  /\ p_wait \in [Pid -> {AnyChild} \cup Pid]
  /\ nocldwait \in [Pid -> BOOLEAN]
  /\ cpid \in Pid
  /\ deferred \subseteq {p \in Pid : p_state[p] # "free"}

Used == {p \in Pid : p_state[p] # "free"}
Children(p) == {c \in Used \ {p} : p_ppid[c] = p}
Wanted(p, pid) == {c \in Children(p) : pid \in {AnyChild, c}}
Zombies == {p \in Pid : p_state[p] = "dead"}

(* process(): the next id that nobody has, after NPID again from 2. *)
NextPid ==
  LET Free == Pid \ (Used \cup {init}) IN
  IF \E p \in Free : p > cpid THEN Min({p \in Free : p > cpid}) ELSE Min(Free)

Fork(p) ==
  /\ p_state[p] = "run" /\ Pid \ (Used \cup {init}) # {}
  /\ cpid' = NextPid
  /\ p_state' = [p_state EXCEPT ![NextPid] = "run"]
  /\ p_ppid' = [p_ppid EXCEPT ![NextPid] = p]
  /\ nocldwait' = [nocldwait EXCEPT ![NextPid] = nocldwait[p]]
  /\ UNCHANGED <<p_wait, deferred>>

(* Mutant: zombies are handed to init without a wakeup. *)
WakesQuiet(p) == {q \in {p_ppid[p]} : p_state[q] = "asleep"}

(* Whom pexit() wakes: its parent if it is in wait(), init if it gets zombies. *)
Wakes(p) ==
  {q \in {p_ppid[p]} : p_state[q] = "asleep"}
    \cup (IF Children(p) \cap Zombies # {} THEN {init} ELSE {})

(* Mutant: only children that are alive are handed to init. *)
AdoptLiving(p) ==
  [q \in Pid |-> IF q \in Children(p) \ Zombies THEN init ELSE p_ppid[q]]

(* Children, zombies too, are handed to init. *)
Adopt(p) == [q \in Pid |-> IF q \in Children(p) THEN init ELSE p_ppid[q]]

(* pexit(); its process is released at once if the parent ignores SIGCHLD. *)
Exit(p) ==
  LET left == IF nocldwait[p_ppid[p]] THEN "free" ELSE "dead" IN
  /\ p # init /\ p_state[p] = "run"
  /\ p_state' = [p_state EXCEPT ![p] = left]
  /\ p_ppid' = Adopt(p)
  /\ deferred' = (deferred \cup Wakes(p)) \ (IF left = "free" THEN {p} ELSE {})
  /\ UNCHANGED <<p_wait, nocldwait, cpid>>

(* One round of uwait() and uwaitpid(): the zombies in the order of the table,
   the greatest id first; one of them, or all if p ignores SIGCHLD. *)
Scan(p, pid, nohang) ==
  LET Z == Wanted(p, pid) \cap Zombies
      Reaped == IF Z = {} \/ nocldwait[p] THEN Z ELSE {Max(Z)}
      done == \/ Z # {} /\ ~nocldwait[p]
              \/ Wanted(p, pid) \subseteq Z    (* ECHILD *)
              \/ nohang
  IN /\ p_state' = [q \in Pid |-> IF q \in Reaped THEN "free"
                                  ELSE IF q # p THEN p_state[q]
                                  ELSE IF done THEN "run" ELSE "asleep"]
     /\ p_wait' = [p_wait EXCEPT ![p] = IF done THEN AnyChild ELSE pid]
     /\ deferred' = deferred \ Reaped
     /\ UNCHANGED <<p_ppid, nocldwait, cpid>>

Waitpid(p, pid, nohang) ==
  /\ p_state[p] = "run" /\ p \in Waiters
  /\ Scan(p, pid, nohang)

Woken(p) ==
  /\ p_state[p] = "woken"
  /\ Scan(p, p_wait[p], FALSE)

(* A signal takes a process out of wait(): slpriSigLjmp.  SIGCHLD may. *)
Signal(p) ==
  /\ p_state[p] = "asleep"
  /\ p_state' = [p_state EXCEPT ![p] = "run"]
  /\ p_wait' = [p_wait EXCEPT ![p] = AnyChild]
  /\ UNCHANGED <<p_ppid, nocldwait, cpid, deferred>>

(* signal(SIGCHLD) *)
Ignore(p, yes) ==
  /\ p_state[p] = "run"
  /\ nocldwait' = [nocldwait EXCEPT ![p] = yes]
  /\ UNCHANGED <<p_state, p_ppid, p_wait, cpid, deferred>>

(* The deferred dwakeup() of p. *)
Defend(p) ==
  /\ p \in deferred
  /\ deferred' = deferred \ {p}
  /\ p_state' = [p_state EXCEPT ![p] = IF @ = "asleep" THEN "woken" ELSE @]
  /\ UNCHANGED <<p_ppid, p_wait, nocldwait, cpid>>

Init ==
  /\ p_state = [p \in Pid |-> IF p = init THEN "run" ELSE "free"]
  /\ p_ppid = [p \in Pid |-> 0]
  /\ p_wait = [p \in Pid |-> AnyChild]
  /\ nocldwait = [p \in Pid |-> FALSE]
  /\ cpid = init
  /\ deferred = {}

Next ==
  \E p \in Pid : \/ Fork(p) \/ Exit(p) \/ Woken(p) \/ Signal(p) \/ Defend(p)
                 \/ \E pid \in Children(p) \cup {AnyChild}, nohang \in BOOLEAN :
                      Waitpid(p, pid, nohang)
                 \/ \E yes \in BOOLEAN : Ignore(p, yes)

Spec == Init /\ [][Next]_vars

-----------------------------------------------------------------------------
(* Every process but init has a parent that is alive, whoever died in whatever
   order: pexit() hands its children, zombies too, to init, and does not panic
   for want of a parent. *)
OrphansAdopted ==
  \A p \in Used \ {init} : p_ppid[p] \in Used \ Zombies

(* A process does not sleep in wait() while a child it waits for is a zombie or
   when it has none to wait for, unless its wakeup is deferred: pexit() wakes
   only a parent that is asleep, and init for the zombies it is handed. *)
NobodyWaitsInVain ==
  \A p \in Pid : p_state[p] = "asleep" =>
    \/ p \in deferred
    \/ Wanted(p, p_wait[p]) # {} /\ Wanted(p, p_wait[p]) \cap Zombies = {}
=============================================================================
