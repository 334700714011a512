--------------------------- MODULE MCBufferCache ---------------------------
(***************************************************************************)
(* Hash functions and symmetry for the runs of BufferCache.  Blocks 0, 1   *)
(* and 2 of a device 0 hash to their number.                               *)
(***************************************************************************)
EXTENDS BufferCache, TLC

(* bno % NHASH, with dev = 0. *)
ByNumber == [x \in Block |-> x % NHASH]

Symm == Permutations(Proc) \cup Permutations(Data)
=============================================================================
