-------------------------------- MODULE Fifo --------------------------------
(***************************************************************************)
(* What a pipe promises: the bytes that were written are read in that      *)
(* order, each once, and a write that fits in the pipe at all goes in as   *)
(* one piece.                                                              *)
(***************************************************************************)
EXTENDS Naturals, Sequences

CONSTANTS Proc, Capacity, Filler

VARIABLES
  content,  (* the bytes in the pipe, the oldest first                      *)
  todo      (* the bytes each process has still to write                    *)

Init == content = <<>> /\ todo = [p \in Proc |-> <<>>]

Begin(p, m) ==
  /\ todo[p] = <<>>
  /\ todo' = [todo EXCEPT ![p] = m]
  /\ UNCHANGED content

Put(p, n) ==
  /\ n \in 1..Len(todo[p])
  /\ Len(content) + n <= Capacity
  /\ Len(todo[p]) <= Capacity => n = Len(todo[p])
  /\ content' = content \o SubSeq(todo[p], 1, n)
  /\ todo' = [todo EXCEPT ![p] = SubSeq(@, n + 1, Len(@))]

GiveUp(p) == todo' = [todo EXCEPT ![p] = <<>>] /\ UNCHANGED content

Get(n) ==
  /\ n \in 1..Len(content)
  /\ content' = SubSeq(content, n + 1, Len(content))
  /\ UNCHANGED todo

(* chsize() cuts off the youngest bytes, or adds bytes of no meaning. *)
Resize(n) ==
  /\ content' = [i \in 1..n |-> IF i <= Len(content) THEN content[i] ELSE Filler]
  /\ UNCHANGED todo

(* Nobody has the pipe open any more. *)
Clear == content' = <<>> /\ UNCHANGED todo

Message(p, n) == [i \in 1..n |-> <<p, i>>]

Next ==
  \/ \E p \in Proc : GiveUp(p) \/ \E n \in 1..Capacity : Put(p, n)
  \/ \E p \in Proc : \E n \in 1..(2 * Capacity) : Begin(p, Message(p, n))
  \/ \E n \in 1..Capacity : Get(n)
  \/ \E n \in 0..Capacity : Resize(n)
  \/ Clear

Spec == Init /\ [][Next]_<<content, todo>>
=============================================================================
