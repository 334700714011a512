------------------------------- MODULE Alarms -------------------------------
(***************************************************************************)
(* What timeout() promises: a function called with n ticks is called once, *)
(* when n ticks, as stand() counts them, are over, unless its timer is     *)
(* cancelled or started again before.  Functions are called one after the  *)
(* other, all those that are due before the next tick.                     *)
(***************************************************************************)
EXTENDS Integers

CONSTANTS Timer, MaxDelay, Off, Nobody

VARIABLES
  left,     (* ticks until a timer is due, or Off                           *)
  running   (* whose function is being called                               *)

Init == left = [t \in Timer |-> Off] /\ running = Nobody

Start(t) ==
  /\ \E n \in 1..MaxDelay : left' = [left EXCEPT ![t] = n]
  /\ UNCHANGED running

Cancel(t) == left' = [left EXCEPT ![t] = Off] /\ UNCHANGED running

Call(t) ==
  /\ left[t] = 0 /\ running = Nobody
  /\ left' = [left EXCEPT ![t] = Off]
  /\ running' = t

Returned == running # Nobody /\ running' = Nobody /\ UNCHANGED left

Tick ==
  /\ running = Nobody
  /\ \A t \in Timer : left[t] # 0
  /\ left' = [t \in Timer |-> IF left[t] = Off THEN Off ELSE left[t] - 1]
  /\ UNCHANGED running

Next ==
  \/ \E t \in Timer : Start(t) \/ Cancel(t) \/ Call(t)
  \/ Returned
  \/ Tick

Spec == Init /\ [][Next]_<<left, running>>
=============================================================================
