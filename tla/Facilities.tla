----------------------------- MODULE Facilities -----------------------------
(***************************************************************************)
(* Semaphores, message queues and the process table together.  They share  *)
(* no state and no event, so a behaviour is one of only one of them: the   *)
(* others keep their initial states.                                       *)
(***************************************************************************)
EXTENDS ProcTable

CONSTANTS
  Proc, NSEMS, SEMVMX, USHRT, Asked, Garbage,              (* Semaphore     *)
  Users, NMSQID, NMSG, NMSC, QBytes, STRIDE, IDS,          (* Messages      *)
  Knows, Sends, Receives,
  Careful                                                  (* both          *)

VARIABLES facility,
          alive, semval, semncnt, semzcnt, semu, st, sdeferred, overlooked,
          NMSQB, alloc, rwait, wwait, seq, msgs, cbytes, qnum, qbytes,
          msg_map, mst, mdeferred, moverlooked

svars == <<alive, semval, semncnt, semzcnt, semu, st, sdeferred, overlooked>>

(* With the theorems about them. *)
Semaphores == INSTANCE SemaphoreProofs WITH deferred <- sdeferred

qvars == <<NMSQB, alloc, rwait, wwait, seq, msgs, cbytes, qnum, qbytes, msg_map,
           mst, mdeferred, moverlooked>>

Msg == INSTANCE Messages WITH
         Proc <- Users, USHRT <- IDS,
         st <- mst, deferred <- mdeferred, overlooked <- moverlooked

ASSUME FacilitiesAssumption ==
  Parameters /\ Semaphores!Parameters /\ Msg!Parameters

FacilitiesInit ==
  /\ facility \in {"semaphores", "messages", "processes"}
  /\ Init /\ Semaphores!Init /\ Msg!Init
  /\ facility # "messages" => \A n \in QBytes : NMSQB <= n

FacilitiesNext ==
  \/ facility = "semaphores" /\ Semaphores!Next /\ UNCHANGED <<facility, qvars, vars>>
  \/ facility = "messages" /\ Msg!Next /\ UNCHANGED <<facility, svars, vars>>
  \/ facility = "processes" /\ Next /\ UNCHANGED <<facility, svars, qvars>>

FacilitiesSpec ==
  FacilitiesInit /\ [][FacilitiesNext]_<<facility, vars, svars, qvars>>

(* The variables of each of the three modules are of their types. *)
TypesOK == TypeOK /\ Semaphores!TypeOK /\ Msg!TypeOK

(* The counters of message queues and of the map are right: umsgsnd(),
   umsgrcv(), IPC_RMID and umsgget(), which keep them by hand. *)
AccountingOK == Msg!AccountingOK

(* Nobody is forgotten in semwait(), in umsgsnd() or umsgrcv(), or in wait():
   each of the three modules states it for its own sleepers. *)
NobodyForgotten ==
  Semaphores!NobodyStranded /\ Msg!NobodyStranded /\ NobodyWaitsInVain

(* The semaphores implement arrays of operations whole or not at all. *)
ImplementsSemops == Semaphores!ImplementsSemops

(* The queues implement mailboxes under their ids. *)
ImplementsMailboxes == Msg!ImplementsMailboxes
=============================================================================
