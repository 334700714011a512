------------------------------- MODULE MCSched -------------------------------
(***************************************************************************)
(* Values for the constants of Sched: every sleep address hashes to one    *)
(* bucket (collisions are the hard case) or each to its own.               *)
(***************************************************************************)
EXTENDS Sched, TLC

OneBucket == [c \in Chan |-> CHOOSE b \in Bucket : TRUE]

(* Gates are taken in no particular nesting: one at a time. *)
FlatRank == [g \in Gate |-> 0]

CONSTANT InnerGate  (* the gate that may be taken while holding another *)

NestedRank == [g \in Gate |-> IF g = InnerGate THEN 1 ELSE 0]

Symm == Permutations(Proc)
=============================================================================
