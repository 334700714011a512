---------------------------- MODULE MCFacilities ----------------------------
(***************************************************************************)
(* Two semaphores of values 0..2; the arrays name them in the order 0, 1,  *)
(* the only one for which semundo() takes back what was done.  Two queues  *)
(* of two messages, a sender, a receiver and a process that does both.     *)
(* Four process ids, of which init and one other may be in wait().         *)
(***************************************************************************)
EXTENDS Facilities, TLC

CONSTANTS p1, p2, p3

Op(n, v, u) == [num |-> n, op |-> v, undo |-> u, nowait |-> FALSE]
NoWait(c) == [c EXCEPT !.nowait = TRUE]

AskedM ==
  p1 :> { <<Op(0, 0, FALSE), Op(0, 1, TRUE)>>, <<Op(0, -1, TRUE)>>, <<Op(0, 1, TRUE)>>,
          <<Op(0, -1, TRUE), Op(1, 2, FALSE)>>, <<Op(0, -1, TRUE), Op(1, 0, FALSE)>>,
          <<Op(0, 1, TRUE), NoWait(Op(1, -1, FALSE))>>,
          <<Op(0, 1, TRUE), Op(1, SEMVMX + 1, FALSE)>> }
  @@ p2 :> { <<Op(0, -1, FALSE), Op(0, 1, FALSE)>>, <<Op(0, -2, FALSE)>>, <<Op(0, 0, FALSE)>>,
             <<Op(0, 1, FALSE), Op(1, -1, FALSE)>>, <<Op(0, 0, FALSE), Op(1, 1, FALSE)>>,
             <<Op(0, 1, FALSE), Op(2, 1, FALSE)>> }

(* What the theorems ask of the arrays. *)
ASSUME ArraysAssumption == Semaphores!Asking /\ Semaphores!Testing

Message(type, size) == [type |-> type, size |-> size, nowait |-> FALSE]
Request(want, size) == [want |-> want, size |-> size, nowait |-> FALSE]

KnowsM == p1 :> {0, 1} @@ p2 :> {0} @@ p3 :> {0}
SendsM == p1 :> {Message(1, 1)} @@ p2 :> {} @@ p3 :> {NoWait(Message(2, 0))}
ReceivesM == p1 :> {} @@ p2 :> {Request(-2, 0)}
             @@ p3 :> {Request(0, 1), NoWait(Request(2, 0)), NoWait(Request(0, 0))}
=============================================================================
