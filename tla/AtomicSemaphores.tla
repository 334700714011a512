-------------------------- MODULE AtomicSemaphores --------------------------
(***************************************************************************)
(* What a set of semaphores promises: an array of operations is performed  *)
(* as a whole or not at all, and the exit of a process takes back what it  *)
(* did with SEM_UNDO since the values were last set.                       *)
(***************************************************************************)
EXTENDS Integers, Sequences, SequencesExt

CONSTANTS Proc, NSEMS, SEMVMX, Asked

VARIABLES alive, semval, adj

Semaphores == 0..(NSEMS - 1)
Values == [Semaphores -> 0..SEMVMX]

(* What the operations of ops, up to the k-th and with undo in U, add to s. *)
Sum(ops, k, s, U) ==
  FoldLeft(LAMBDA n, o : IF o.num = s /\ o.undo \in U THEN n + o.op ELSE n, 0,
           SubSeq(ops, 1, k))

Added(ops, k, s) == Sum(ops, k, s, BOOLEAN)
Undoable(ops, s) == Sum(ops, Len(ops), s, {TRUE})

(* Each operation is possible after those before it. *)
Possible(ops) ==
  \A k \in 1..Len(ops) :
    LET o == ops[k] IN
    /\ o.num \in Semaphores
    /\ LET v == semval[o.num] + Added(ops, k - 1, o.num) IN
       IF o.op = 0 THEN v = 0 ELSE v + o.op \in 0..SEMVMX

Init ==
  /\ alive = TRUE
  /\ semval = [s \in Semaphores |-> 0]
  /\ adj = [p \in Proc |-> [s \in Semaphores |-> 0]]

Perform(p, ops) ==
  /\ alive /\ Possible(ops)
  /\ semval' = [s \in Semaphores |-> semval[s] + Added(ops, Len(ops), s)]
  /\ adj' = [adj EXCEPT ![p] = [s \in Semaphores |-> @[s] - Undoable(ops, s)]]
  /\ UNCHANGED alive

(* The semaphores in S get other values, and their adjust values count no more. *)
Set(S) ==
  /\ alive
  /\ semval' \in Values
  /\ \A s \in Semaphores \ S : semval'[s] = semval[s]
  /\ adj' = [p \in Proc |-> [s \in Semaphores |-> IF s \in S THEN 0 ELSE adj[p][s]]]
  /\ UNCHANGED alive

Exit(p) ==
  /\ semval' \in Values
  /\ alive => semval' = [s \in Semaphores |-> semval[s] + adj[p][s]]
  /\ ~alive => semval' = semval
  /\ adj' = [adj EXCEPT ![p] = [s \in Semaphores |-> 0]]
  /\ UNCHANGED alive

Discard == alive /\ alive' = FALSE /\ UNCHANGED <<semval, adj>>

Create ==
  /\ ~alive /\ alive' = TRUE
  /\ semval' = [s \in Semaphores |-> 0]
  /\ UNCHANGED adj

Next ==
  \/ \E s \in Semaphores : Set({s}) \/ Set(0..s)
  \/ \E p \in Proc : Exit(p)
  \/ Discard \/ Create
  \/ \E p \in Proc : \E ops \in Asked[p] : Perform(p, ops)

Spec == Init /\ [][Next]_<<alive, semval, adj>>
=============================================================================
