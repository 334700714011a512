----------------------------- MODULE RangeLocks -----------------------------
(***************************************************************************)
(* What record locks promise, byte by byte: a lock is granted only where   *)
(* it is compatible with the locks of the other processes, and a process   *)
(* loses what it has only where it asked for it.  The kernel's pool of     *)
(* lock structures is finite: once it is full a process may be left with   *)
(* both a read and a write lock on a byte, or be refused an unlock.        *)
(***************************************************************************)
CONSTANTS Proc, Inode, Byte, Ranges

VARIABLES
  held,  (* the types of lock a process has on a byte of a file             *)
  full   (* no lock structure is left                                       *)

Types == {"read", "write"}

Init ==
  /\ held = [i \in Inode |-> [p \in Proc |-> [b \in Byte |-> {}]]]
  /\ full \in BOOLEAN

Compatible(p, i, t, b) ==
  \A q \in Proc \ {p} : held[i][q][b] = {} \/ (t = "read" /\ held[i][q][b] = {"read"})

OthersKeep(p, i) ==
  \A j \in Inode, q \in Proc : <<j, q>> # <<i, p>> => held'[j][q] = held[j][q]

(* Outside the range asked for nothing changes, save that a byte with both
   types of lock may go back to one. *)
Grant(p, i, t, R) ==
  /\ \A b \in R : Compatible(p, i, t, b)
  /\ OthersKeep(p, i)
  /\ \A b \in R : \/ held'[i][p][b] = {t}
                  \/ full' /\ held'[i][p][b] = held[i][p][b] \cup {t}
  /\ \A b \in Byte \ R : \/ held'[i][p][b] = held[i][p][b]
                         \/ held[i][p][b] = Types /\ held'[i][p][b] # {}

Release(p, i, R) ==
  /\ OthersKeep(p, i)
  /\ \A b \in R : \/ held'[i][p][b] = {}
                  \/ full' /\ held'[i][p][b] \subseteq held[i][p][b]
  /\ \A b \in Byte \ R : held'[i][p][b] = held[i][p][b]

(* The pool fills and empties. *)
Pool == UNCHANGED held

Next ==
  \/ Pool
  \/ \E p \in Proc, i \in Inode, R \in Ranges :
        Release(p, i, R) \/ \E t \in Types : Grant(p, i, t, R)

Spec == Init /\ [][Next]_<<held, full>>
=============================================================================
