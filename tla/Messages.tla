------------------------------ MODULE Messages ------------------------------
(***************************************************************************)
(* System V message queues: io.386/msg386.c.                               *)
(*                                                                         *)
(* umsgsnd() and umsgrcv() hold the queue's gate up to their sleep and     *)
(* from their return from it on; nothing sleeps with the gate locked, and  *)
(* umsgctl() and umsgget() do without it.  So a call is one action up to   *)
(* its sleep, and one from each wakeup on.  Senders and receivers sleep on *)
(* the same event, the queue.  Permissions are left out, and a call that   *)
(* fails before it has done anything is no action.                         *)
(***************************************************************************)
EXTENDS Integers, Sequences, FiniteSets, SequencesExt

CONSTANTS
  Proc,
  NMSQID,   (* queues                                                       *)
  NMSG,     (* messages a queue may hold                                    *)
  NMSC,     (* the greatest size of a message                               *)
  QBytes,   (* the sizes of queues: what NMSQB is patched or set to         *)
  STRIDE,   (* what the removal of a queue adds to its id: 50               *)
  USHRT,    (* ids are modulo USHRT                                         *)
  Knows,    (* the queues whose ids a process knows                         *)
  Sends,    (* the messages a process may send: [type, size, nowait]        *)
  Receives, (* what it may ask for: [want, size, nowait]; want is a type,
               0 or less, and size is that of its buffer                    *)
  Careful   (* TRUE: nobody sends to the id that a free queue will have, and
               no id comes back while a process is in a call with it        *)

Queue == 0..(NMSQID - 1)

Parameters ==
  /\ NMSQID \in Nat \ {0} /\ NMSG \in Nat \ {0} /\ NMSC \in Nat
  /\ QBytes \subseteq Nat /\ STRIDE \in Nat \ {0} /\ USHRT \in Nat
  /\ USHRT >= NMSQID
  /\ \A p \in Proc :
       /\ Knows[p] \subseteq Queue
       /\ Sends[p] \subseteq [type : Nat \ {0}, size : 0..NMSC, nowait : BOOLEAN]
       /\ Receives[p] \subseteq [want : Int, size : Nat, nowait : BOOLEAN]
  /\ Careful \in BOOLEAN

VARIABLES
  NMSQB,    (* the greatest size of a queue: a variable in the kernel too   *)
  alloc,    (* IPC_ALLOC of a queue                                         *)
  rwait,    (* MSG_RWAIT                                                    *)
  wwait,    (* MSG_WWAIT                                                    *)
  seq,      (* msg_perm.seq, the id                                         *)
  msgs,     (* the messages in a queue                                      *)
  cbytes,   (* msg_cbytes                                                   *)
  qnum,     (* msg_qnum                                                     *)
  qbytes,   (* msg_qbytes                                                   *)
  msg_map,  (* how many entries of the map are in use                       *)
  st,       (* where a process is, and its call                             *)
  deferred, (* queues with a deferred wakeup                                *)
  overlooked (* who slept on a queue when it was removed or made larger; not
                in the kernel                                               *)

vars == <<NMSQB, alloc, rwait, wwait, seq, msgs, cbytes, qnum, qbytes, msg_map,
           st, deferred, overlooked>>

NoCall == [at |-> "run"]
InCall(op, id, q, args) == [at |-> "call", op |-> op, id |-> id, q |-> q, args |-> args]
Calls(op, Args) ==
  [at : {"asleep", "woken", "signalled"}, op : {op}, id : 0..(USHRT - 1), q : Queue,
   args : UNION {Args[p] : p \in Proc}]

Message == [type : UNION {{m.type : m \in Sends[p]} : p \in Proc}, size : 0..NMSC]

TypeOK ==
  /\ NMSQB \in QBytes
  /\ {alloc, rwait, wwait} \subseteq [Queue -> BOOLEAN]
  /\ seq \in [Queue -> 0..(USHRT - 1)]
  /\ msgs \in [Queue -> Seq(Message)]
  /\ {cbytes, qnum} \subseteq [Queue -> Nat]
  /\ qbytes \in [Queue -> QBytes]
  /\ msg_map \in 0..(NMSQID * NMSG)
  /\ st \in [Proc -> {NoCall} \cup Calls("snd", Sends) \cup Calls("rcv", Receives)]
  /\ deferred \subseteq Queue
  /\ overlooked \subseteq {p \in Proc : st[p].at = "asleep"}

Asleep(q) == {p \in Proc : st[p].at = "asleep" /\ st[p].q = q}

Full(q, size) == qnum[q] >= NMSG \/ qbytes[q] < cbytes[q] + size

(* The message at i is one of those asked for. *)
Fits(s, want, i) ==
  \/ want = 0
  \/ want > 0 /\ s[i].type = want
  \/ want < 0 /\ s[i].type <= -want

(* Mutant: the oldest message that is asked for is taken. *)
SearchOldest(s, want) ==
  FoldLeft(LAMBDA i, j : IF i = 0 /\ Fits(s, want, j) THEN j ELSE i, 0,
           [i \in 1..Len(s) |-> i])

(* The search in umsgrcv(): the place of the message, 0 if there is none. *)
Search(s, want) ==
  LET Better(i, j) ==
        Fits(s, want, j) /\ (i = 0 \/ (want < 0 /\ s[j].type < s[i].type))
  IN FoldLeft(LAMBDA i, j : IF Better(i, j) THEN j ELSE i, 0, [i \in 1..Len(s) |-> i])

-----------------------------------------------------------------------------
(* msgsnd() and msgrcv() *)

Return(p) == st' = [st EXCEPT ![p] = NoCall]

(* Mutant: the flag is raised when a call first sleeps. *)
WaitOnce(p, c) ==
  /\ ~c.args.nowait
  /\ st' = [st EXCEPT ![p] = [c EXCEPT !.at = "asleep"]]
  /\ rwait' = [rwait EXCEPT ![c.q] = @ \/ (c.op = "rcv" /\ c.at = "call")]
  /\ wwait' = [wwait EXCEPT ![c.q] = @ \/ (c.op = "snd" /\ c.at = "call")]

Wait(p, c) ==
  /\ ~c.args.nowait
  /\ st' = [st EXCEPT ![p] = [c EXCEPT !.at = "asleep"]]
  /\ rwait' = [rwait EXCEPT ![c.q] = @ \/ c.op = "rcv"]
  /\ wwait' = [wwait EXCEPT ![c.q] = @ \/ c.op = "snd"]

Unchanged == UNCHANGED <<NMSQB, alloc, seq, msgs, cbytes, qnum, qbytes, msg_map,
                         deferred, overlooked>>

(* wakeup(qp) if the flag is up. *)
WakeupIf(flag, q) == deferred' = IF flag[q] THEN deferred \cup {q} ELSE deferred

(* umsgsnd() from the test of its loop on.  Without a free entry in the map it
   would return with the gate locked; AccountingOK says that there is one. *)
Send(p, c) ==
  LET q == c.q
  IN \/ Full(q, c.args.size) /\ Wait(p, c) /\ Unchanged
     \/ /\ Full(q, c.args.size) /\ c.args.nowait /\ Return(p)
        /\ Unchanged /\ UNCHANGED <<rwait, wwait>>
     \/ /\ ~Full(q, c.args.size) /\ msg_map < NMSQID * NMSG
        /\ msgs' = [msgs EXCEPT ![q] = Append(@, [type |-> c.args.type, size |-> c.args.size])]
        /\ msg_map' = msg_map + 1
        /\ cbytes' = [cbytes EXCEPT ![q] = @ + c.args.size]
        /\ qnum' = [qnum EXCEPT ![q] = @ + 1]
        /\ WakeupIf(rwait, q)
        /\ rwait' = [rwait EXCEPT ![q] = FALSE]
        /\ Return(p)
        /\ UNCHANGED <<NMSQB, alloc, wwait, seq, qbytes, overlooked>>

(* umsgrcv() from its loop on; a message larger than the buffer stays. *)
Receive(p, c) ==
  LET q == c.q  i == Search(msgs[q], c.args.want) IN
  \/ i = 0 /\ Wait(p, c) /\ Unchanged
  \/ /\ (i = 0 /\ c.args.nowait) \/ (i # 0 /\ c.args.size < msgs[q][i].size)
     /\ Return(p)
     /\ Unchanged /\ UNCHANGED <<rwait, wwait>>
  \/ /\ i # 0 /\ c.args.size >= msgs[q][i].size
     /\ msgs' = [msgs EXCEPT ![q] = RemoveAt(@, i)]
     /\ msg_map' = msg_map - 1
     /\ cbytes' = [cbytes EXCEPT ![q] = @ - msgs[q][i].size]
     /\ qnum' = [qnum EXCEPT ![q] = @ - 1]
     /\ WakeupIf(wwait, q)
     /\ wwait' = [wwait EXCEPT ![q] = FALSE]
     /\ Return(p)
     /\ UNCHANGED <<NMSQB, alloc, rwait, seq, qbytes, overlooked>>

(* msgsnd() looks for the id in the array of queues, and not at IPC_ALLOC. *)
Msgsnd(p, id, m) ==
  LET Q == {q \in Queue : seq[q] = id} IN
  /\ st[p] = NoCall /\ Q # {} /\ m.size <= NMSQB
  /\ LET q == CHOOSE r \in Q : \A s \in Q : r <= s IN
     /\ Careful => alloc[q]
     /\ Send(p, InCall("snd", id, q, m))

(* msgrcv() and msgctl() know the queue from the id. *)
Found(id) == seq[id % NMSQID] = id /\ alloc[id % NMSQID]

Msgrcv(p, id, r) ==
  /\ st[p] = NoCall /\ Found(id)
  /\ Receive(p, InCall("rcv", id, id % NMSQID, r))

(* The way on from x_sleep() *)
Woken(p) ==
  LET c == st[p] IN
  /\ c.at = "woken"
  /\ \/ c.id = seq[c.q] /\ c.op = "snd" /\ Send(p, c)
     \/ c.id = seq[c.q] /\ c.op = "rcv" /\ Receive(p, c)
     \/ c.id # seq[c.q] /\ Return(p) /\ Unchanged /\ UNCHANGED <<rwait, wwait>>

Interrupted(p) ==
  /\ st[p].at = "signalled"
  /\ Return(p)
  /\ Unchanged /\ UNCHANGED <<rwait, wwait>>

-----------------------------------------------------------------------------
(* msgctl(), msgget(); signals and wakeups *)

NextSeq(q) == (seq[q] + STRIDE) % USHRT

NotInUse(id) == \A p \in Proc : st[p] # NoCall => st[p].id # id

(* Mutant: the size of what was in the queue is left. *)
RmidSized(id) ==
  LET q == id % NMSQID IN
  /\ Found(id) /\ (Careful => NotInUse(NextSeq(q)))
  /\ msgs' = [msgs EXCEPT ![q] = << >>]
  /\ msg_map' = msg_map - Len(msgs[q])
  /\ qnum' = [qnum EXCEPT ![q] = 0]
  /\ alloc' = [alloc EXCEPT ![q] = FALSE]
  /\ rwait' = [rwait EXCEPT ![q] = FALSE]
  /\ wwait' = [wwait EXCEPT ![q] = FALSE]
  /\ seq' = [seq EXCEPT ![q] = NextSeq(q)]
  /\ overlooked' = overlooked \cup Asleep(q)
  /\ UNCHANGED <<NMSQB, qbytes, cbytes, st, deferred>>

(* IPC_RMID: mode becomes 0, the flags with it, and nobody is woken. *)
Rmid(id) ==
  LET q == id % NMSQID IN
  /\ Found(id) /\ (Careful => NotInUse(NextSeq(q)))
  /\ msgs' = [msgs EXCEPT ![q] = << >>]
  /\ msg_map' = msg_map - Len(msgs[q])
  /\ cbytes' = [cbytes EXCEPT ![q] = 0]
  /\ qnum' = [qnum EXCEPT ![q] = 0]
  /\ alloc' = [alloc EXCEPT ![q] = FALSE]
  /\ rwait' = [rwait EXCEPT ![q] = FALSE]
  /\ wwait' = [wwait EXCEPT ![q] = FALSE]
  /\ seq' = [seq EXCEPT ![q] = NextSeq(q)]
  /\ overlooked' = overlooked \cup Asleep(q)
  /\ UNCHANGED <<NMSQB, qbytes, st, deferred>>

(* IPC_SET changes the size of this queue and what msgsnd() takes for the size
   of every queue; no wakeup. *)
IpcSet(id, n) ==
  LET q == id % NMSQID IN
  /\ Found(id)
  /\ NMSQB' = n
  /\ qbytes' = [qbytes EXCEPT ![q] = n]
  /\ overlooked' = IF n > qbytes[q] THEN overlooked \cup Asleep(q) ELSE overlooked
  /\ UNCHANGED <<alloc, rwait, wwait, seq, msgs, cbytes, qnum, msg_map, st, deferred>>

(* Of several free queues the one changed longest ago, to the second: any. *)
Msgget(q) ==
  /\ ~alloc[q]
  /\ alloc' = [alloc EXCEPT ![q] = TRUE]
  /\ qnum' = [qnum EXCEPT ![q] = 0]
  /\ rwait' = [rwait EXCEPT ![q] = FALSE]
  /\ wwait' = [wwait EXCEPT ![q] = FALSE]
  /\ UNCHANGED <<NMSQB, seq, msgs, cbytes, qbytes, msg_map, st, deferred, overlooked>>

Signal(p) ==
  /\ st[p].at = "asleep"
  /\ st' = [st EXCEPT ![p].at = "signalled"]
  /\ overlooked' = overlooked \ {p}
  /\ UNCHANGED <<NMSQB, alloc, rwait, wwait, seq, msgs, cbytes, qnum, qbytes, msg_map,
                 deferred>>

(* The deferred dwakeup(). *)
Defend(q) ==
  /\ q \in deferred
  /\ deferred' = deferred \ {q}
  /\ st' = [p \in Proc |-> IF p \in Asleep(q) THEN [st[p] EXCEPT !.at = "woken"]
                                              ELSE st[p]]
  /\ overlooked' = overlooked \ Asleep(q)
  /\ UNCHANGED <<NMSQB, alloc, rwait, wwait, seq, msgs, cbytes, qnum, qbytes, msg_map>>

(* msginit() *)
Init ==
  /\ NMSQB \in QBytes
  /\ alloc = [q \in Queue |-> FALSE]
  /\ rwait = alloc /\ wwait = alloc
  /\ seq = [q \in Queue |-> q]
  /\ msgs = [q \in Queue |-> << >>]
  /\ cbytes = [q \in Queue |-> 0] /\ qnum = cbytes
  /\ qbytes = [q \in Queue |-> NMSQB]
  /\ msg_map = 0
  /\ st = [p \in Proc |-> NoCall]
  /\ deferred = {} /\ overlooked = {}

Ids(p) == {seq[q] : q \in Knows[p]}

Next ==
  \/ \E p \in Proc : \E id \in Ids(p) : \/ \E m \in Sends[p] : Msgsnd(p, id, m)
                                   \/ \E r \in Receives[p] : Msgrcv(p, id, r)
  \/ \E p \in Proc : Woken(p) \/ Interrupted(p) \/ Signal(p)
  \/ \E p \in Proc : \E id \in Ids(p) : Rmid(id) \/ \E n \in QBytes : IpcSet(id, n)
  \/ \E q \in Queue : Msgget(q) \/ Defend(q)

Spec == Init /\ [][Next]_vars

-----------------------------------------------------------------------------
(* The counters of a queue are those of its messages, a free queue is empty, and
   msg_map counts the messages of all queues: umsgsnd() finds a free entry
   whenever the queue has room. *)
AccountingOK ==
  /\ \A q \in Queue :
       /\ qnum[q] = Len(msgs[q]) /\ qnum[q] <= NMSG
       /\ cbytes[q] = FoldLeft(LAMBDA n, m : n + m.size, 0, msgs[q])
       /\ ~alloc[q] => msgs[q] = << >>
  /\ msg_map = FoldLeft(LAMBDA n, q : n + Len(msgs[q - 1]), 0, [q \in 1..NMSQID |-> q])

(* A sender does not sleep while there is room for its message, nor a receiver
   while there is a message for it, unless a wakeup of the queue is deferred or
   the queue was removed or made larger, which wakes nobody, while it slept:
   the two flags and the one event of umsgsnd() and umsgrcv(). *)
NobodyStranded ==
  \A p \in Proc : st[p].at = "asleep" =>
    LET c == st[p] IN
    \/ c.q \in deferred \/ p \in overlooked
    \/ c.op = "snd" /\ Full(c.q, c.args.size)
    \/ c.op = "rcv" /\ \A i \in DOMAIN msgs[c.q] : ~Fits(msgs[c.q], c.args.want, i)

Live == {q \in Queue : alloc[q]}

B == INSTANCE Mailboxes WITH
       Messages <- UNION {{[type |-> m.type, size |-> m.size] : m \in Sends[p]} : p \in Proc},
       Wants <- UNION {{r.want : r \in Receives[p]} : p \in Proc},
       box <- [id \in {seq[q] : q \in Live} |->
                 msgs[CHOOSE q \in Live : seq[q] = id]],
       Nothing <- NoCall,
       asked <- [p \in Proc |-> IF st[p].at = "woken" /\ st[p].op = "rcv"
                                THEN [id |-> st[p].id, want |-> st[p].args.want]
                                ELSE NoCall]

(* What is sent to an id is received from that id and from no other, whatever
   queues were removed and made meanwhile, and who has slept for a message gets
   the oldest of the least type it asked for: umsgsnd() and umsgrcv(), which
   find the queue in different ways. *)
ImplementsMailboxes == B!Spec
=============================================================================
