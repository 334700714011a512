-------------------------------- MODULE Mutex --------------------------------
(***************************************************************************)
(* What the kernel's gates promise to the code that uses them: lock()      *)
(* gives a free gate to one process, unlock() takes it back from the       *)
(* process that has it, and nothing else changes a gate's owner.           *)
(***************************************************************************)
CONSTANTS Proc, Gate, Nobody

VARIABLE owner

Init == owner = [g \in Gate |-> Nobody]

Acquire(p, g) == owner[g] = Nobody /\ owner' = [owner EXCEPT ![g] = p]

Release(p, g) == owner[g] = p /\ owner' = [owner EXCEPT ![g] = Nobody]

Next == \E p \in Proc, g \in Gate : Acquire(p, g) \/ Release(p, g)

Spec == Init /\ [][Next]_owner
=============================================================================
