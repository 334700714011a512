------------------------------- MODULE MCPipe -------------------------------
(***************************************************************************)
(* Who opens the pipe how: some processes as readers and some as writers,  *)
(* or everybody in every way; symmetry for the safety runs.                *)
(***************************************************************************)
EXTENDS Pipe, TLC

CONSTANT ReadersOnly  (* the processes that only ever read *)

OneWay == [p \in Proc |-> IF p \in ReadersOnly THEN {"r"} ELSE {"w"}]
AnyWay == [p \in Proc |-> {"r", "w", "rw"}]

Symm ==
  {f @@ g : f \in Permutations(ReadersOnly), g \in Permutations(Proc \ ReadersOnly)}
    \cup Permutations(File)
=============================================================================
