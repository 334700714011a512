---------------------------- MODULE MCRecordLock ----------------------------
(***************************************************************************)
(* Symmetry, and what calls ask for, for the run of RecordLock.            *)
(***************************************************************************)
EXTENDS RecordLock, TLC

CONSTANT Third   (* the processes that only close a circle                   *)

Symm == Permutations(Proc \ Third)

Ask(types, ranges) ==
  {[type |-> t, start |-> g[1], end |-> g[2]] : t \in types, g \in ranges}

(* Ranges that overlap, touch, contain each other and reach the end of file. *)
Overlapping == Ask(Types, {<<0, 2>>, <<1, 1>>}) \cup Ask({"write"}, {<<1, 4>>})

AskedM ==
  [p \in Proc |-> IF p \in Third THEN Ask({"write"}, {<<0, 0>>, <<2, 2>>})
                                 ELSE Overlapping]
=============================================================================
