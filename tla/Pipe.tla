-------------------------------- MODULE Pipe --------------------------------
(***************************************************************************)
(* One pipe inode: coh.386/pipe.c, the pipe branches of iopen, iclose,     *)
(* iread and iwrite (fs3.c), of uchsize (sys5.c), and the open-file        *)
(* references of fd.c that decide when pclose() is called.                 *)
(*                                                                         *)
(* Every routine of pipe.c runs with the inode's gate locked, and sleeps   *)
(* only in psleep(), which unlocks it, or in fread()/fwrite(), which keep  *)
(* it.  So one action is one turn of a routine's loop, or what follows the *)
(* wakeup in psleep().  A wakeup is deferred: Defend is the part of        *)
(* stand() that makes the sleepers runnable (module Sched).                *)
(***************************************************************************)
EXTENDS Integers, Sequences, FiniteSets

CONSTANTS
  Proc,         (* processes                                                *)
  NoProc,       (* nobody has the inode's gate                              *)
  File,         (* open files: entries FD, shared after a fork or a dup     *)
  NoFile,
  Modes,        (* the f_flag values, "r", "w", "rw", a process may open with *)
  PIPSIZE,      (* bytes in the ring                                        *)
  ReadSizes,    (* byte counts of read calls                                *)
  WriteSizes,   (* byte counts of write calls                               *)
  Junk,         (* what a block holds where no unread byte is               *)
  OpenSignals,  (* TRUE: signals also come to a process waiting in popen()  *)
  Resizing,     (* TRUE: processes call chsize() on the pipe                *)
  Polling       (* TRUE: processes call poll() on the pipe                  *)

ASSUME PipeAssumption ==
  /\ IsFiniteSet(Proc) /\ IsFiniteSet(File)
  /\ NoProc \notin Proc /\ NoFile \notin File
  /\ Modes \in [Proc -> SUBSET {"r", "w", "rw"}]
  /\ PIPSIZE \in Nat \ {0}
  /\ ReadSizes \subseteq 1..(2 * PIPSIZE) /\ WriteSizes \subseteq 1..(2 * PIPSIZE)
  /\ Junk \notin Proc \X Nat
  /\ {OpenSignals, Resizing, Polling} \subseteq BOOLEAN

VARIABLES
  pnc, prx, pwx,  (* characters in the ring, reader's and writer's offset   *)
  buf,            (* the ring: the pipe inode's blocks                      *)
  par, paw,       (* awake readers, awake writers                           *)
  psr, psw,       (* sleeping readers, sleeping writers                     *)
  inode,          (* who has the gate of the inode                          *)
  fd,             (* the open file a process has, if any                    *)
  mode,           (* f_flag of an open file; "none" when it is free         *)
  call,           (* the pipe routine a process is in                       *)
  deferred,       (* deferred wakeups: of "psw" for readers, of "psr" for
                     writers (the addresses they sleep on); deferred
                     dpollwake() of the event queues "iev" and "oev"        *)
  panicked

ring == <<pnc, prx, pwx, buf>>
counters == <<par, paw, psr, psw>>
files == <<fd, mode>>
vars == <<ring, counters, inode, files, call, deferred, panicked>>

Byte == Proc \X (1..(2 * PIPSIZE))
Cell == 0..(PIPSIZE - 1)

(* In a call: op; st, "run" until the first psleep(), then asleep, woken or
   signalled, "again" after the wakeup or "eintr" after a signal; the bytes wanted by a
   read; the bytes still to be written; the event queues a poll is on (its
   p_polls).  Whether the call is one with IONDLY
   or IONONBLOCK shows when it first would have to wait, and only then. *)
NoCall == [op |-> "none", st |-> "run", want |-> 0, todo |-> <<>>, on |-> {}]
Call(op, n, m) == [op |-> op, st |-> "run", want |-> n, todo |-> m, on |-> {}]
Polls(on) == [op |-> "poll", st |-> "asleep", want |-> 0, todo |-> <<>>, on |-> on]

TypeOK ==
  /\ pnc \in 0..PIPSIZE /\ prx \in Cell /\ pwx \in Cell
  /\ buf \in [Cell -> Byte \cup {Junk}]
  /\ {par, paw} \subseteq Int /\ {psr, psw} \subseteq Nat
  /\ inode \in Proc \cup {NoProc}
  /\ fd \in [Proc -> File \cup {NoFile}]
  /\ mode \in [File -> {"none", "r", "w", "rw"}]
  /\ call \in [Proc -> [op : {"none", "open", "read", "write", "poll"},
                        st : {"run", "asleep", "woken", "signalled", "again", "eintr"},
                        want : 0..(2 * PIPSIZE), todo : Seq(Byte),
                        on : SUBSET {"iev", "oev"}]]
  /\ deferred \subseteq {"psr", "psw", "iev", "oev"}
  /\ panicked \in BOOLEAN

-----------------------------------------------------------------------------
(* What the routines share. *)

Reads(m) == m \in {"r", "rw"}
Writes(m) == m \in {"w", "rw"}
Count(b) == IF b THEN 1 ELSE 0
Least(S) == CHOOSE x \in S : \A y \in S : x <= y

Readers == par # 0 \/ psr # 0
Writers == paw # 0 \/ psw # 0

Deferred(c, condition) == IF condition THEN {c} ELSE {}

(* What ppoll() looks at, with n characters in the ring. *)
PollIn(n) == n > 0
PollOut(n, readers) == n < PIPSIZE /\ readers

(* Mutant: pwake() looks at the readers that are awake. *)
WakeReadersAwake(n) ==
  Deferred("psw", par # 0) \cup Deferred("iev", Polling /\ PollIn(n))

(* Mutant: pollers are woken only where readers sleep too. *)
WakeReadersFirst(n) ==
  Deferred("psw", psr # 0) \cup Deferred("iev", Polling /\ psr # 0 /\ PollIn(n))

(* pwake(ip, IFWFW) and pwake(ip, IFWFR), with n characters in the ring: the
   wakeup() and the pollwake() that they defer. *)
WakeReaders(n) ==
  Deferred("psw", psr # 0) \cup Deferred("iev", Polling /\ PollIn(n))
WakeWriters(n, readers) ==
  Deferred("psr", psw # 0) \cup Deferred("oev", Polling /\ PollOut(n, readers))

(* p has the gate, or gets it now. *)
Gate(p) == inode \in {NoProc, p}

Mode(p) == mode[fd[p]]

(* Who waits as a reader: in pread() or in the IPR branch of popen(). *)
AsReader(p) == call[p].op = "read" \/ (call[p].op = "open" /\ Mode(p) = "r")

Asleep(p) == call[p].st = "asleep" /\ call[p].op # "poll"

(* The call may be one with IONDLY or IONONBLOCK. *)
NoDelay(p) == call[p].st = "run"

(* The call returns with the inode unlocked. *)
Return(p) ==
  /\ call' = [call EXCEPT ![p] = NoCall]
  /\ inode' = NoProc

(* The first half of psleep().  If a signal is pending already, x_sleep()
   returns at once and the counters and the gate are as they were. *)
PSleep(p) ==
  /\ \/ /\ call[p].op = "open" => OpenSignals
        /\ call' = [call EXCEPT ![p].st = "eintr"]
        /\ inode' = p
        /\ UNCHANGED counters
     \/ /\ call' = [call EXCEPT ![p].st = "asleep"]
        /\ inode' = NoProc
        /\ IF AsReader(p)
           THEN par' = par - 1 /\ psr' = psr + 1 /\ UNCHANGED <<paw, psw>>
           ELSE paw' = paw - 1 /\ psw' = psw + 1 /\ UNCHANGED <<par, psr>>
  /\ UNCHANGED <<ring, files, deferred, panicked>>

InPSleep(p) ==
  call[p].st \in {"asleep", "woken", "signalled"} /\ call[p].op # "poll"

Resume(p) ==
  /\ InPSleep(p) /\ ~Asleep(p)
  /\ call' = [call EXCEPT ![p].st = IF @ = "woken" THEN "again" ELSE "eintr"]
  /\ UNCHANGED <<ring, inode, files, deferred, panicked>>

(* Mutant: a sleeper that was interrupted stays counted as asleep. *)
BackMiscounted(p) ==
  /\ Resume(p)
  /\ IF AsReader(p) /\ call[p].st = "woken"
     THEN par' = par + 1 /\ psr' = psr - 1 /\ UNCHANGED <<paw, psw>>
     ELSE UNCHANGED counters

(* x_sleep() returns in psleep(); the process then waits for the gate. *)
Back(p) ==
  /\ Resume(p)
  /\ IF AsReader(p)
     THEN par' = par + 1 /\ psr' = psr - 1 /\ UNCHANGED <<paw, psw>>
     ELSE paw' = paw + 1 /\ psw' = psw - 1 /\ UNCHANGED <<par, psr>>

-----------------------------------------------------------------------------
(* popen() *)

StartOpen(p, f, m) ==
  /\ inode = NoProc /\ call[p] = NoCall
  /\ fd[p] = NoFile /\ mode[f] = "none"
  /\ fd' = [fd EXCEPT ![p] = f]
  /\ mode' = [mode EXCEPT ![f] = m]
  /\ par' = par + Count(Reads(m))
  /\ paw' = paw + Count(Writes(m))
  /\ IF m = "rw"
     THEN /\ deferred' = deferred \cup WakeReaders(pnc) \cup WakeWriters(pnc, TRUE)
          /\ UNCHANGED <<inode, call>>
     ELSE /\ inode' = p
          /\ call' = [call EXCEPT ![p] = Call("open", 0, <<>>)]
          /\ UNCHANGED deferred
  /\ UNCHANGED <<ring, psr, psw, panicked>>

Opening(p, m) ==
  /\ call[p].op = "open" /\ Mode(p) = m
  /\ call[p].st \in {"run", "again"}
  /\ Gate(p)

(* fdfinish() frees the entry of an open that failed. *)
FailOpen(p) ==
  /\ par' = par - Count(Reads(Mode(p)))
  /\ paw' = paw - Count(Writes(Mode(p)))
  /\ fd' = [fd EXCEPT ![p] = NoFile]
  /\ mode' = [mode EXCEPT ![fd[p]] = "none"]
  /\ Return(p)
  /\ UNCHANGED <<ring, psr, psw, deferred, panicked>>

(* A reader waits until there is a writer, or until one has been and left
   data behind. *)
OpenRead(p) ==
  /\ Opening(p, "r")
  /\ \/ /\ Writers \/ NoDelay(p) \/ (call[p].st = "again" /\ pnc # 0)
        /\ deferred' = deferred \cup WakeWriters(pnc, Readers)
        /\ Return(p)
        /\ UNCHANGED <<ring, counters, files, panicked>>
     \/ /\ ~Writers /\ (call[p].st = "again" => pnc = 0)
        /\ PSleep(p)

(* A writer waits until a reader opens; it does not look again. *)
OpenWrite(p) ==
  /\ Opening(p, "w")
  /\ \/ /\ Readers \/ call[p].st = "again"
        /\ deferred' = deferred \cup WakeReaders(pnc)
        /\ Return(p)
        /\ UNCHANGED <<ring, counters, files, panicked>>
     \/ /\ ~Readers /\ call[p].st = "run"
        /\ FailOpen(p) \/ PSleep(p)

(* psleep() returned -1: the call ends with EINTR. *)
Abort(p) ==
  /\ call[p].st = "eintr"
  /\ Gate(p)
  /\ IF call[p].op = "open"
     THEN FailOpen(p)
     ELSE Return(p) /\ UNCHANGED <<ring, counters, files, deferred, panicked>>

-----------------------------------------------------------------------------
(* pread() *)

(* sysio() locks the inode. *)
StartRead(p, n) ==
  /\ inode = NoProc /\ call[p] = NoCall /\ fd[p] # NoFile /\ Reads(Mode(p))
  /\ call' = [call EXCEPT ![p] = Call("read", n, <<>>)]
  /\ inode' = p
  /\ UNCHANGED <<ring, counters, files, deferred, panicked>>

Going(p, op) == call[p].op = op /\ call[p].st \in {"run", "again"} /\ Gate(p)

(* The loop at the start: nothing to read. *)
ReadEmpty(p) ==
  /\ Going(p, "read")
  /\ pnc = 0
  /\ \/ /\ NoDelay(p) \/ ~Writers
        /\ Return(p)
        /\ UNCHANGED <<ring, counters, files, deferred, panicked>>
     \/ Writers /\ PSleep(p)

(* Mutant: the offsets are not reset when the ring is empty. *)
TakeNoReset(n) ==
  /\ pnc' = pnc - n
  /\ prx' = (prx + n) % PIPSIZE
  /\ UNCHANGED pwx
  /\ buf' = [c \in Cell |-> IF c \in prx..(prx + n - 1) THEN Junk ELSE buf[c]]

(* Mutant: the reader's offset does not wrap. *)
TakeNoWrap(n) ==
  /\ pnc' = pnc - n
  /\ prx' = IF pnc' = 0 THEN 0 ELSE prx + n
  /\ pwx' = IF pnc' = 0 THEN 0 ELSE pwx
  /\ buf' = [c \in Cell |-> IF c \in prx..(prx + n - 1) THEN Junk ELSE buf[c]]

(* n bytes are taken from the ring, without wrapping; an empty ring starts
   over at offset 0.  (Nobody looks at a byte's block again once it is read.) *)
Take(n) ==
  /\ pnc' = pnc - n
  /\ prx' = IF pnc' = 0 \/ prx + n = PIPSIZE THEN 0 ELSE prx + n
  /\ pwx' = IF pnc' = 0 THEN 0 ELSE pwx
  /\ buf' = [c \in Cell |-> IF c \in prx..(prx + n - 1) THEN Junk ELSE buf[c]]

(* Mutant: writers are woken only when the reader empties the ring. *)
ReadChunkWakesLate(p) ==
  LET n == Least({PIPSIZE - prx, call[p].want, pnc}) IN
  /\ Going(p, "read")
  /\ pnc > 0
  /\ Take(n)
  /\ IF n = call[p].want \/ pnc' = 0
     THEN /\ deferred' = deferred \cup (IF pnc = PIPSIZE THEN WakeWriters(pnc', Readers) ELSE {})
          /\ Return(p)
     ELSE /\ call' = [call EXCEPT ![p].want = @ - n]
          /\ inode' = p
          /\ UNCHANGED deferred
  /\ UNCHANGED <<counters, files, panicked>>

(* One turn of the copying loop. *)
ReadChunk(p) ==
  LET n == Least({PIPSIZE - prx, call[p].want, pnc}) IN
  /\ Going(p, "read")
  /\ pnc > 0
  /\ Take(n)
  /\ IF n = call[p].want \/ pnc' = 0
     THEN deferred' = deferred \cup WakeWriters(pnc', Readers) /\ Return(p)
     ELSE /\ call' = [call EXCEPT ![p].want = @ - n]
          /\ inode' = p
          /\ UNCHANGED deferred
  /\ UNCHANGED <<counters, files, panicked>>

-----------------------------------------------------------------------------
(* pwrite() *)

StartWrite(p, n) ==
  /\ inode = NoProc /\ call[p] = NoCall /\ fd[p] # NoFile /\ Writes(Mode(p))
  /\ call' = [call EXCEPT ![p] = Call("write", 0, [i \in 1..n |-> <<p, i>>])]
  /\ inode' = p
  /\ UNCHANGED <<ring, counters, files, deferred, panicked>>

(* What can be written without wrapping. *)
Room(p) == Least({PIPSIZE - pwx, Len(call[p].todo), PIPSIZE - pnc})

(* Mutant: a write that fits in the pipe may be split. *)
BlockedOnlyFull(p) == Room(p) = 0

(* A write of up to PIPSIZE bytes is made in one piece or not at all. *)
Blocked(p) ==
  \/ Room(p) = 0
  \/ Len(call[p].todo) <= PIPSIZE /\ Room(p) # Len(call[p].todo)

WriteBroken(p) ==
  /\ Going(p, "write")
  /\ ~Readers
  /\ Return(p)   (* EPIPE; SIGPIPE is acted on as the call returns *)
  /\ UNCHANGED <<ring, counters, files, deferred, panicked>>

WriteBlocked(p) ==
  /\ Going(p, "write")
  /\ Readers /\ Blocked(p)
  /\ \/ /\ NoDelay(p)
        /\ Return(p)
        /\ UNCHANGED <<ring, counters, files, deferred, panicked>>
     \/ PSleep(p)

(* One turn of the copying loop; pwake(ip, IFWFW) is inside it. *)
WriteChunk(p) ==
  LET n == Room(p)  todo == call[p].todo IN
  /\ Going(p, "write")
  /\ Readers /\ ~Blocked(p)
  /\ buf' = [c \in Cell |-> IF c \in pwx..(pwx + n - 1)
                            THEN todo[c - pwx + 1] ELSE buf[c]]
  /\ pwx' = (pwx + n) % PIPSIZE
  /\ pnc' = pnc + n
  /\ deferred' = deferred \cup WakeReaders(pnc')
  /\ IF n = Len(todo)
     THEN Return(p)
     ELSE /\ call' = [call EXCEPT ![p].todo = SubSeq(@, n + 1, Len(@))]
          /\ inode' = p
  /\ UNCHANGED <<prx, counters, files, panicked>>

-----------------------------------------------------------------------------
(* poll() on the pipe: ppoll(), poll.c and the loop of upoll().  None of it
   locks the inode. *)

Ready(q) == IF q = "iev" THEN PollIn(pnc) ELSE PollOut(pnc, Readers)

(* Nothing of what is asked for is ready: pollopen() puts the process on each
   event queue, and it sleeps. *)
PollSleep(p, on) == call' = [call EXCEPT ![p] = Polls(on)]

(* Where something is ready at once nothing changes.  Any process that has the
   pipe open may ask for either event. *)
Poll(p, on) ==
  /\ Polling
  /\ call[p] = NoCall /\ fd[p] # NoFile
  /\ \A q \in on : ~Ready(q)
  /\ PollSleep(p, on)
  /\ UNCHANGED <<ring, counters, inode, files, deferred, panicked>>

(* Awake again, the process leaves all the queues (pollexit) and returns, with
   its events, a time that is over or EINTR; or it starts over. *)
PollAgain(p) ==
  /\ call[p].op = "poll" /\ call[p].st \in {"woken", "signalled"}
  /\ \/ call' = [call EXCEPT ![p] = NoCall]
     \/ /\ call[p].st = "woken" /\ \A q \in call[p].on : ~Ready(q)
        /\ PollSleep(p, call[p].on)
  /\ UNCHANGED <<ring, counters, inode, files, deferred, panicked>>

(* The timer calls wakeup(), which takes effect before a process runs again. *)
PollTimeout(p) ==
  /\ call[p].op = "poll" /\ call[p].st = "asleep"
  /\ call' = [call EXCEPT ![p].st = "woken"]
  /\ UNCHANGED <<ring, counters, inode, files, deferred, panicked>>

(* The deferred dpollwake(): it defers the wakeup() of each poller of the queue
   that is asleep, which defend() goes on to make. *)
DPollWake(q) ==
  /\ q \in deferred
  /\ deferred' = deferred \ {q}
  /\ call' = [p \in Proc |->
                IF call[p].st = "asleep" /\ q \in call[p].on
                THEN [call[p] EXCEPT !.st = "woken"] ELSE call[p]]
  /\ UNCHANGED <<ring, counters, inode, files, panicked>>

-----------------------------------------------------------------------------
(* pclose(), chsize(), and what happens around the pipe. *)

(* Mutant: the characters are not forgotten. *)
ClearOffsets ==
  /\ prx' = 0 /\ pwx' = 0
  /\ UNCHANGED <<pnc, buf>>

(* pclear() *)
Clear ==
  /\ pnc' = 0 /\ prx' = 0 /\ pwx' = 0
  /\ buf' = [c \in Cell |-> Junk]

(* fdclose() of the last reference calls pclose(), which wakes both sides,
   takes the file out of the counters and clears a pipe nobody has open. *)
Close(p) ==
  /\ call[p] = NoCall /\ fd[p] # NoFile
  /\ fd' = [fd EXCEPT ![p] = NoFile]
  /\ IF \E q \in Proc \ {p} : fd[q] = fd[p]
     THEN UNCHANGED <<ring, counters, mode, deferred, panicked>>
     ELSE /\ inode = NoProc
          /\ mode' = [mode EXCEPT ![fd[p]] = "none"]
          /\ deferred' = deferred \cup WakeReaders(pnc) \cup WakeWriters(pnc, Readers)
          /\ par' = par - Count(Reads(Mode(p)))
          /\ paw' = paw - Count(Writes(Mode(p)))
          /\ panicked' = (par' < 0 \/ paw' < 0)
          /\ IF par' = 0 /\ paw' = 0 /\ psr = 0 /\ psw = 0
             THEN Clear ELSE UNCHANGED ring
          /\ UNCHANGED <<psr, psw>>
  /\ UNCHANGED <<inode, call>>

(* A child, or a dup, uses the same open file. *)
Fork(p, q) ==
  /\ call[p] = NoCall /\ call[q] = NoCall
  /\ fd[p] # NoFile /\ fd[q] = NoFile
  /\ fd' = [fd EXCEPT ![q] = fd[p]]
  /\ UNCHANGED <<ring, counters, inode, mode, call, deferred, panicked>>

(* Mutant: the writer's offset stays where it is. *)
ChsizeInPlace(p, size) ==
  /\ Resizing
  /\ call[p] = NoCall /\ fd[p] # NoFile /\ Writes(Mode(p))
  /\ inode = NoProc
  /\ Readers
  /\ pnc' = size
  /\ deferred' = deferred \cup WakeReaders(size) \cup WakeWriters(size, Readers)
  /\ UNCHANGED <<prx, pwx, buf, counters, inode, files, call, panicked>>

(* uchsize() moves the writer's offset, and nothing else, to the new end. *)
Chsize(p, size) ==
  /\ Resizing
  /\ call[p] = NoCall /\ fd[p] # NoFile /\ Writes(Mode(p))
  /\ inode = NoProc
  /\ Readers
  /\ pnc' = size
  /\ pwx' = (pwx + size - pnc) % PIPSIZE
  /\ buf' = [c \in Cell |-> IF (c - prx) % PIPSIZE < size THEN buf[c] ELSE Junk]
  /\ deferred' = deferred \cup (IF size > 0 THEN WakeReaders(size) ELSE {})
                          \cup (IF size < PIPSIZE THEN WakeWriters(size, Readers) ELSE {})
  /\ UNCHANGED <<prx, counters, inode, files, call, panicked>>

(* A signal comes to a process in psleep() or poll() and ends its sleep. *)
Signal(p) ==
  /\ call[p].st \in {"asleep", "woken"}
  /\ call[p].op = "open" => OpenSignals
  /\ call' = [call EXCEPT ![p].st = "signalled"]
  /\ UNCHANGED <<ring, counters, inode, files, deferred, panicked>>

(* The deferred dwakeup() of one of the two sleep addresses. *)
Defend(c) ==
  /\ c \in deferred
  /\ deferred' = deferred \ {c}
  /\ call' = [p \in Proc |->
                IF Asleep(p) /\ AsReader(p) = (c = "psw")
                THEN [call[p] EXCEPT !.st = "woken"] ELSE call[p]]
  /\ UNCHANGED <<ring, counters, inode, files, panicked>>

-----------------------------------------------------------------------------
Init ==
  /\ pnc = 0 /\ prx = 0 /\ pwx = 0
  /\ buf = [c \in Cell |-> Junk]
  /\ par = 0 /\ paw = 0 /\ psr = 0 /\ psw = 0
  /\ inode = NoProc
  /\ fd = [p \in Proc |-> NoFile]
  /\ mode = [f \in File |-> "none"]
  /\ call = [p \in Proc |-> NoCall]
  /\ deferred = {}
  /\ panicked = FALSE

(* One step of the routine that p is in. *)
Step(p) ==
  \/ OpenRead(p) \/ OpenWrite(p)
  \/ ReadEmpty(p) \/ ReadChunk(p)
  \/ WriteBroken(p) \/ WriteBlocked(p) \/ WriteChunk(p)
  \/ Abort(p)

Transfer(p) ==
  (\E n \in ReadSizes : StartRead(p, n)) \/ (\E n \in WriteSizes : StartWrite(p, n))

Next ==
  /\ ~panicked
  /\ \/ \E p \in Proc : Step(p) \/ Back(p) \/ Transfer(p) \/ Close(p) \/ Signal(p)
     \/ \E p \in Proc : \E f \in File, m \in Modes[p] : StartOpen(p, f, m)
     \/ \E p, q \in Proc : Fork(p, q)
     \/ \E p \in Proc, n \in 0..PIPSIZE : Chsize(p, n)
     \/ \E c \in {"psr", "psw"} : Defend(c)
     \/ \E p \in Proc, on \in (SUBSET {"iev", "oev"}) \ {{}} : Poll(p, on)
     \/ \E p \in Proc : PollAgain(p) \/ PollTimeout(p)
     \/ \E q \in {"iev", "oev"} : DPollWake(q)

Spec == Init /\ [][Next]_vars

(* The kernel runs: a process that is awake gets on and gets the gate, and
   deferred wakeups are made (Sched: RunnableRuns, GateWaiterTestsAgain).  And
   a program that has the pipe open, for ever or again and again, goes on
   reading or writing. *)
Fairness ==
  /\ \A c \in {"psr", "psw"} : WF_vars(~panicked /\ Defend(c))
  /\ \A p \in Proc :
       /\ SF_vars(~panicked /\ (Step(p) \/ Back(p)))
       /\ SF_vars(~panicked /\ Transfer(p))

FairSpec == Spec /\ Fairness

-----------------------------------------------------------------------------
(* Properties. *)

(* The bytes to be read, the oldest first. *)
Content == [i \in 1..pnc |-> buf[(prx + i - 1) % PIPSIZE]]

(* The ring is a FIFO of bytes: what is read is what was written, in that
   order, and a write of up to PIPSIZE bytes goes in in one piece or not at
   all, whoever else writes, sleeps or is interrupted (pread, pwrite). *)
Promise == INSTANCE Fifo WITH
  content <- Content, todo <- [p \in Proc |-> call[p].todo],
  Capacity <- PIPSIZE, Filler <- Junk
ImplementsFifo == Promise!Spec

(* The counters say who has the pipe open: awake and sleeping readers
   together are the open files with IPR, an open that is still waiting
   included, and the sleeping ones are the processes in psleep(). *)
CountersOK ==
  /\ par + psr = Cardinality({f \in File : Reads(mode[f])})
  /\ paw + psw = Cardinality({f \in File : Writes(mode[f])})
  /\ psr = Cardinality({p \in Proc : InPSleep(p) /\ AsReader(p)})
  /\ psw = Cardinality({p \in Proc : InPSleep(p) /\ ~AsReader(p)})

(* The writer's offset is the reader's plus the characters in the ring, and
   no unread byte was lost to what the blocks held before. *)
RingOK ==
  /\ (prx + pnc) % PIPSIZE = pwx
  /\ ~Resizing => \A i \in 1..pnc : Content[i] # Junk

(* With the inode unlocked, who sleeps has something to wait for, or his
   wakeup is deferred: a reader for data or a writer to come; a writer for
   somebody to read what is in the ring, and if he has more to write than
   fits, for a full one.  (A smaller write may sleep although it would fit by
   now: another write may have made pwx wrap, and wakes no writers.) *)
ReaderNotStranded(p) ==
  IF call[p].op = "open" THEN ~Writers ELSE pnc = 0 /\ Writers

WriterNotStranded(p) ==
  IF call[p].op = "open" THEN ~Readers
  ELSE /\ Readers /\ pnc > 0
       /\ Len(call[p].todo) > PIPSIZE => pnc = PIPSIZE

NobodyStranded ==
  \A p \in Proc : Asleep(p) /\ inode = NoProc =>
    IF AsReader(p) THEN "psw" \in deferred \/ ReaderNotStranded(p)
                   ELSE "psr" \in deferred \/ WriterNotStranded(p)

(* With the inode unlocked, nobody sleeps in poll() for an event that is there,
   unless the dpollwake() of its queue is deferred: whatever fills or empties
   the ring, or opens it, calls pollwake() (ppoll, pwake, poll.c). *)
NoPollMissed ==
  inode = NoProc =>
    \A p \in Proc : call[p].op = "poll" /\ call[p].st = "asleep" =>
      \A q \in call[p].on : Ready(q) => q \in deferred

(* A pipe that nobody has open is empty: the next to open it does not find
   the data of the last (the pclear() in pclose). *)
EmptyWhenUnused ==
  (\A f \in File : mode[f] = "none") => pnc = 0

(* One writer, one reader: a write ends, by its last byte or by EPIPE, as
   long as the reader keeps reading or closes its end (pwrite, pread). *)
WriteReturns == \A p \in Proc : (call[p].op = "write") ~> (call[p] = NoCall)

(* And a read ends, with data or at the end of file, as long as the writer
   keeps writing or closes its end. *)
ReadReturns == \A p \in Proc : (call[p].op = "read") ~> (call[p] = NoCall)

(* pclose() asserts that the counters are in step: it panics when one of
   them would become negative. *)
NeverPanics == ~panicked
=============================================================================
