----------------------------- MODULE BlockStore -----------------------------
(***************************************************************************)
(* What the buffer cache promises: a store of blocks.  A process has a     *)
(* block to itself from bread() or bclaim() to brelease(); the contents of *)
(* a block change only by what the process that has it writes, and stay    *)
(* what they are whatever is read, written back or evicted.                *)
(***************************************************************************)
CONSTANTS Block, Data, Proc, Nobody

VARIABLES
  content,  (* what a bread() of each block gives                           *)
  holder    (* who has the block                                            *)

Init == content \in [Block -> Data] /\ holder = [x \in Block |-> Nobody]

Get(x) ==
  /\ holder[x] = Nobody
  /\ \E p \in Proc : holder' = [holder EXCEPT ![x] = p]
  /\ UNCHANGED content

Put(x) ==
  /\ holder[x] # Nobody
  /\ holder' = [holder EXCEPT ![x] = Nobody]
  /\ UNCHANGED content

Write(x) ==
  /\ holder[x] # Nobody
  /\ \E d \in Data : content' = [content EXCEPT ![x] = d]
  /\ UNCHANGED holder

Next == \E x \in Block : Get(x) \/ Put(x) \/ Write(x)

Spec == Init /\ [][Next]_<<content, holder>>
=============================================================================
