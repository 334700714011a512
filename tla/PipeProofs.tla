----------------------------- MODULE PipeProofs -----------------------------
(***************************************************************************)
(* Theorems about who has a pipe open and who waits for whom.              *)
(***************************************************************************)
EXTENDS PipeRingProofs, FiniteSetTheorems

LEMMA FileSet == NoProc \notin Proc /\ NoFile \notin File
BY PipeAssumption

(* p is in a routine of pipe.c. *)
InRoutine(p) == call[p].op \in {"open", "read", "write"}

Sleeps == {"asleep", "woken", "signalled"}

(* A process in a call has an open file of the mode the call needs, and a file
   that is still being opened is nobody else's. *)
FileInv ==
  \A p \in Proc :
    /\ fd[p] # NoFile => Mode(p) # "none"
    /\ call[p].op # "none" => fd[p] # NoFile
    /\ call[p].op = "open" => /\ Mode(p) \in {"r", "w"}
                              /\ \A q \in Proc \ {p} : fd[q] # fd[p]
    /\ call[p].op = "read" => Reads(Mode(p))
    /\ call[p].op = "write" => Writes(Mode(p))

(* The gate is held from the start of a routine to its first psleep(). *)
GateInv ==
  \A p \in Proc :
    /\ InRoutine(p) /\ call[p].st = "run" => inode = p
    /\ inode = p => InRoutine(p) /\ call[p].st \in {"run", "again", "eintr"}

-----------------------------------------------------------------------------
(* What a step does to the calls, the gate and the counters. *)

(* Sleepers are woken or signalled, or nothing of this happens. *)
Quiet ==
  /\ UNCHANGED <<counters, inode, files>>
  /\ \A q \in Proc :
       /\ call'[q].op = call[q].op
       /\ \/ call'[q].st = call[q].st
          \/ call[q].st \in Sleeps /\ call'[q].st \in {"woken", "signalled"}

(* p goes into poll(), or on with it, or is through. *)
Polled(p) ==
  /\ UNCHANGED <<counters, inode, files>>
  /\ call[p].op \in {"none", "poll"} /\ fd[p] # NoFile
  /\ \E c : call' = [call EXCEPT ![p] = c] /\ (c = NoCall \/ c.op = "poll")

(* p has the gate, and may run in its routine. *)
Runs(p) ==
  InRoutine(p) /\ Gate(p) /\ call[p].st \in {"run", "again", "eintr"}

Leaves(p) == Runs(p) /\ Return(p) /\ UNCHANGED <<counters, files>>

Continues(p) ==
  /\ Runs(p) /\ call[p].op \in {"read", "write"} /\ call[p].st # "eintr"
  /\ UNCHANGED <<counters, files>> /\ inode' = p
  /\ \A q \in Proc : call'[q].op = call[q].op /\ call'[q].st = call[q].st
  /\ \A q \in Proc \ {p} : call'[q] = call[q]

Sleeping(p) == Runs(p) /\ call[p].st # "eintr" /\ PSleep(p)

OpenFails(p) ==
  Runs(p) /\ call[p].op = "open" /\ call[p].st \in {"run", "eintr"} /\ FailOpen(p)

Shape ==
  \/ Quiet
  \/ \E p \in Proc : Polled(p) \/ Leaves(p) \/ Continues(p) \/ Sleeping(p) \/ OpenFails(p)
  \/ \E p \in Proc : Back(p) \/ Transfer(p) \/ Close(p)
  \/ \E p \in Proc : \E f \in File, m \in Modes[p] : StartOpen(p, f, m)
  \/ \E p, q \in Proc : Fork(p, q)

LEMMA WokenQuiet ==
  ASSUME Others, NEW S, S \subseteq {p \in Proc : call[p].st = "asleep"},
         UNCHANGED <<counters, inode, files>>,
         call' = [p \in Proc |-> IF p \in S THEN [call[p] EXCEPT !.st = "woken"] ELSE call[p]]
  PROVE  Quiet
<1>1. ASSUME NEW q \in Proc
      PROVE  /\ call'[q].op = call[q].op
             /\ \/ call'[q].st = call[q].st
                \/ call[q].st \in Sleeps /\ call'[q].st \in {"woken", "signalled"}
  BY DEF Others, GoodCall, Sleeps
<1>2. QED
  BY <1>1 DEF Quiet

LEMMA WakeQuiet ==
  ASSUME Others, NEW c, Defend(c) \/ DPollWake(c)
  PROVE  Quiet
<1>1. UNCHANGED <<counters, inode, files>>
  BY DEF Defend, DPollWake
<1>2. CASE Defend(c)
  <2> DEFINE S == {p \in Proc : Asleep(p) /\ AsReader(p) = (c = "psw")}
  <2>1. S \subseteq {p \in Proc : call[p].st = "asleep"}
    BY DEF Asleep
  <2>2. call' = [p \in Proc |-> IF p \in S THEN [call[p] EXCEPT !.st = "woken"] ELSE call[p]]
    BY <1>2, DefendIs
  <2> HIDE DEF S
  <2>3. QED
    BY <1>1, <2>1, <2>2, WokenQuiet
<1>3. CASE DPollWake(c)
  <2> DEFINE S == {p \in Proc : call[p].st = "asleep" /\ c \in call[p].on}
  <2>1. S \subseteq {p \in Proc : call[p].st = "asleep"}
    OBVIOUS
  <2>2. call' = [p \in Proc |-> IF p \in S THEN [call[p] EXCEPT !.st = "woken"] ELSE call[p]]
    BY <1>3, DPollWakeIs
  <2> HIDE DEF S
  <2>3. QED
    BY <1>1, <2>1, <2>2, WokenQuiet
<1>4. QED
  BY <1>2, <1>3

LEMMA SignalQuiet ==
  ASSUME Others, NEW p \in Proc, Signal(p) \/ PollTimeout(p)
  PROVE  Quiet
<1>1. /\ call[p].st \in Sleeps /\ UNCHANGED <<counters, inode, files>>
      /\ \E s \in {"woken", "signalled"} : call' = [call EXCEPT ![p].st = s]
  BY DEF Signal, PollTimeout, Sleeps
<1>2. PICK s \in {"woken", "signalled"} : call' = [call EXCEPT ![p].st = s]
  BY <1>1
<1>3. \A q \in Proc : /\ call'[q].op = call[q].op
                      /\ call'[q].st = IF q = p THEN s ELSE call[q].st
  BY <1>2 DEF Others, GoodCall
<1>4. QED
  BY <1>1, <1>3 DEF Quiet

LEMMA CopyShape ==
  ASSUME Others, NEW p \in Proc, ReadChunk(p) \/ WriteChunk(p)
  PROVE  Leaves(p) \/ Continues(p)
<1>1. Runs(p) /\ call[p].op \in {"read", "write"} /\ call[p].st # "eintr"
        /\ UNCHANGED <<counters, files>>
  BY DEF ReadChunk, WriteChunk, Going, Runs, InRoutine
<1>2. \/ Return(p)
      \/ /\ inode' = p
         /\ \/ \E n : call' = [call EXCEPT ![p].want = n]
            \/ \E t : call' = [call EXCEPT ![p].todo = t]
  BY DEF ReadChunk, WriteChunk
<1>3. CASE Return(p)
  BY <1>1, <1>3 DEF Leaves
<1>4. ASSUME inode' = p,
             \/ \E n : call' = [call EXCEPT ![p].want = n]
             \/ \E t : call' = [call EXCEPT ![p].todo = t]
      PROVE  Continues(p)
  <2>1. \A q \in Proc : call'[q].op = call[q].op /\ call'[q].st = call[q].st
    <3>1. ASSUME NEW n, call' = [call EXCEPT ![p].want = n], NEW q \in Proc
          PROVE  call'[q].op = call[q].op /\ call'[q].st = call[q].st
      BY <3>1 DEF Others, GoodCall
    <3>2. ASSUME NEW t, call' = [call EXCEPT ![p].todo = t], NEW q \in Proc
          PROVE  call'[q].op = call[q].op /\ call'[q].st = call[q].st
      BY <3>2 DEF Others, GoodCall
    <3>3. QED
      BY <1>4, <3>1, <3>2
  <2>2. \A q \in Proc \ {p} : call'[q] = call[q]
    BY <1>4 DEF Others
  <2>3. QED
    BY <1>1, <1>4, <2>1, <2>2 DEF Continues
<1>5. QED
  BY <1>2, <1>3, <1>4

LEMMA RoutineShape ==
  ASSUME Others, NEW p \in Proc, Step(p)
  PROVE  Leaves(p) \/ Continues(p) \/ Sleeping(p) \/ OpenFails(p)
<1>1. CASE OpenRead(p)
  <2>1. Runs(p) /\ call[p].st # "eintr"
    BY <1>1 DEF OpenRead, Opening, Runs, InRoutine
  <2>2. QED
    BY <1>1, <2>1 DEF OpenRead, Leaves, Sleeping
<1>2. CASE OpenWrite(p)
  <2>1. Runs(p) /\ call[p].st # "eintr" /\ call[p].op = "open"
    BY <1>2 DEF OpenWrite, Opening, Runs, InRoutine
  <2>2. QED
    BY <1>2, <2>1 DEF OpenWrite, Leaves, Sleeping, OpenFails
<1>3. CASE ReadEmpty(p) \/ WriteBroken(p) \/ WriteBlocked(p)
  <2>1. Runs(p) /\ call[p].st # "eintr"
    BY <1>3 DEF ReadEmpty, WriteBroken, WriteBlocked, Going, Runs, InRoutine
  <2>2. QED
    BY <1>3, <2>1 DEF ReadEmpty, WriteBroken, WriteBlocked, Leaves, Sleeping
<1>4. CASE ReadChunk(p) \/ WriteChunk(p)
  BY <1>4, CopyShape
<1>5. CASE Abort(p)
  <2>1. call[p].op # "none" /\ call[p].op # "poll"
    <3>1. call[p].st = "eintr" /\ call[p] \in GoodCall
      BY <1>5 DEF Abort, Others
    <3>2. QED
      BY <3>1 DEF GoodCall, NoCall
  <2>2. call[p].op \in Ops
    BY DEF Others, GoodCall
  <2>3. Runs(p)
    BY <1>5, <2>1, <2>2 DEF Abort, Runs, InRoutine, Ops
  <2>4. QED
    BY <1>5, <2>3 DEF Abort, Leaves, OpenFails
<1>6. QED
  BY <1>1, <1>2, <1>3, <1>4, <1>5 DEF Step

LEMMA StepShape ==
  ASSUME Typed, FileInv, [Next]_vars
  PROVE  Shape
<1>0. Others
  BY TypedIs
<1>1. CASE UNCHANGED vars
  BY <1>1 DEF vars, Shape, Quiet
<1>2. ASSUME NEW p \in Proc, Step(p) PROVE Shape
  BY <1>0, <1>2, RoutineShape DEF Shape
<1>3. ASSUME NEW p \in Proc, Signal(p) \/ PollTimeout(p) PROVE Shape
  BY <1>0, <1>3, SignalQuiet DEF Shape
<1>4. ASSUME NEW p \in Proc, NEW n \in 0..PIPSIZE, Chsize(p, n) PROVE Shape
  BY <1>4 DEF Chsize, Shape, Quiet
<1>5. ASSUME NEW c, Defend(c) \/ DPollWake(c) PROVE Shape
  BY <1>0, <1>5, WakeQuiet DEF Shape
<1>6. ASSUME NEW p \in Proc,
             PollAgain(p) \/ \E on \in (SUBSET {"iev", "oev"}) \ {{}} : Poll(p, on)
      PROVE  Shape
  <2>1. UNCHANGED <<counters, inode, files>> /\ call[p].op \in {"none", "poll"}
    BY <1>6 DEF PollAgain, Poll, NoCall
  <2>2. fd[p] # NoFile
    BY <1>6 DEF PollAgain, Poll, FileInv
  <2>3. \/ call' = [call EXCEPT ![p] = NoCall]
        \/ \E on : call' = [call EXCEPT ![p] = Polls(on)]
    BY <1>6 DEF PollAgain, Poll, PollSleep
  <2>4. \A on : Polls(on).op = "poll"
    BY DEF Polls
  <2>5. Polled(p)
    BY <2>1, <2>2, <2>3, <2>4 DEF Polled
  <2>6. QED
    BY <2>5 DEF Shape
<1>7. QED
  BY <1>1, <1>2, <1>3, <1>4, <1>5, <1>6 DEF Next, Shape

-----------------------------------------------------------------------------
(* FileInv and GateInv. *)

(* The calls may end, or begin where the file allows it. *)
LEMMA FilesKept ==
  ASSUME Others, FileInv, UNCHANGED files,
         \A q \in Proc :
           \/ call'[q].op \in {"none", call[q].op}
           \/ fd[q] # NoFile /\ \/ call'[q].op = "poll"
                                \/ call'[q].op = "read" /\ Reads(Mode(q))
                                \/ call'[q].op = "write" /\ Writes(Mode(q))
  PROVE  FileInv'
BY DEF FileInv, Mode, files, Others, Reads, Writes

(* The calls of all others are what they were. *)
LEMMA OtherCalls ==
  ASSUME Others, NEW p \in Proc, NEW c, call' = [call EXCEPT ![p] = c]
  PROVE  call'[p] = c /\ \A q \in Proc \ {p} : call'[q] = call[q]
BY DEF Others

LEMMA ReturnCalls ==
  ASSUME Others, NEW p \in Proc, Return(p)
  PROVE  /\ call'[p] = NoCall /\ NoCall.op = "none" /\ NoCall.st = "run" /\ inode' = NoProc
         /\ \A q \in Proc \ {p} : call'[q] = call[q]
BY DEF Others, Return, NoCall

(* What PSleep and Back do to the calls. *)
LEMMA PSleepCalls ==
  ASSUME Others, NEW p \in Proc, PSleep(p)
  PROVE  /\ call'[p].op = call[p].op
         /\ \/ call'[p].st = "eintr" /\ inode' = p /\ UNCHANGED counters
            \/ call'[p].st = "asleep" /\ inode' = NoProc
         /\ \A q \in Proc \ {p} : call'[q] = call[q]
         /\ UNCHANGED files
BY DEF Others, PSleep, GoodCall

LEMMA BackCalls ==
  ASSUME Others, NEW p \in Proc, Back(p)
  PROVE  /\ InPSleep(p) /\ call[p].st \in {"woken", "signalled"}
         /\ call'[p].op = call[p].op /\ call'[p].st \in {"again", "eintr"}
         /\ \A q \in Proc \ {p} : call'[q] = call[q]
         /\ UNCHANGED <<files, inode>>
<1>1. InPSleep(p) /\ ~Asleep(p) /\ UNCHANGED <<files, inode>>
  BY DEF Back, Resume
<1>2. call[p].st \in {"woken", "signalled"}
  BY <1>1 DEF InPSleep, Asleep
<1>3. call' = [call EXCEPT ![p].st = IF @ = "woken" THEN "again" ELSE "eintr"]
  BY DEF Back, Resume
<1>4. QED
  BY <1>1, <1>2, <1>3 DEF Others, GoodCall

LEMMA TransferCalls ==
  ASSUME Others, NEW p \in Proc, Transfer(p)
  PROVE  /\ inode = NoProc /\ inode' = p /\ UNCHANGED <<counters, files>>
         /\ call[p] = NoCall /\ fd[p] # NoFile
         /\ call'[p].op \in {"read", "write"} /\ call'[p].st = "run"
         /\ call'[p].op = "read" => Reads(Mode(p))
         /\ call'[p].op = "write" => Writes(Mode(p))
         /\ \A q \in Proc \ {p} : call'[q] = call[q]
<1>1. \A n, t : \A op \in Ops : Call(op, n, t).op = op /\ Call(op, n, t).st = "run"
  BY DEF Call
<1>2. CASE \E n \in ReadSizes : StartRead(p, n)
  <2>1. PICK n \in ReadSizes : StartRead(p, n)
    BY <1>2
  <2>2. call'[p] = Call("read", n, <<>>) /\ \A q \in Proc \ {p} : call'[q] = call[q]
    BY <2>1, OtherCalls DEF StartRead
  <2>3. call'[p].op = "read" /\ call'[p].st = "run"
    BY <1>1, <2>2 DEF Ops
  <2>4. QED
    BY <2>1, <2>2, <2>3 DEF StartRead
<1>3. CASE \E n \in WriteSizes : StartWrite(p, n)
  <2>1. PICK n \in WriteSizes : StartWrite(p, n)
    BY <1>3
  <2>2. /\ call'[p] = Call("write", 0, [i \in 1..n |-> <<p, i>>])
        /\ \A q \in Proc \ {p} : call'[q] = call[q]
    BY <2>1, OtherCalls DEF StartWrite
  <2>3. call'[p].op = "write" /\ call'[p].st = "run"
    BY <1>1, <2>2 DEF Ops
  <2>4. QED
    BY <2>1, <2>2, <2>3 DEF StartWrite
<1>4. QED
  BY <1>2, <1>3 DEF Transfer

LEMMA StartOpenCalls ==
  ASSUME Others, NEW p \in Proc, NEW f \in File, NEW m \in Modes[p], StartOpen(p, f, m)
  PROVE  /\ inode = NoProc /\ call[p] = NoCall /\ m \in {"r", "w", "rw"}
         /\ fd'[p] = f /\ \A q \in Proc \ {p} : fd'[q] = fd[q]
         /\ mode'[f] = m /\ \A g \in File \ {f} : mode'[g] = mode[g]
         /\ \/ m = "rw" /\ inode' = NoProc /\ call'[p] = NoCall
            \/ m # "rw" /\ inode' = p /\ call'[p].op = "open" /\ call'[p].st = "run"
         /\ \A q \in Proc \ {p} : call'[q] = call[q]
<1>1. m \in {"r", "w", "rw"}
  BY PipeAssumption
<1>2. /\ fd'[p] = f /\ \A q \in Proc \ {p} : fd'[q] = fd[q]
      /\ mode'[f] = m /\ \A g \in File \ {f} : mode'[g] = mode[g]
      /\ inode = NoProc /\ call[p] = NoCall
  BY DEF StartOpen, Others
<1>3. CASE m = "rw"
  BY <1>1, <1>2, <1>3 DEF StartOpen
<1>4. CASE m # "rw"
  <2>1. inode' = p /\ call' = [call EXCEPT ![p] = Call("open", 0, <<>>)]
    BY <1>4 DEF StartOpen
  <2>2. call'[p] = Call("open", 0, <<>>) /\ \A q \in Proc \ {p} : call'[q] = call[q]
    BY <2>1, OtherCalls
  <2>3. Call("open", 0, <<>>).op = "open" /\ Call("open", 0, <<>>).st = "run"
    BY DEF Call
  <2>4. QED
    BY <1>1, <1>2, <1>4, <2>1, <2>2, <2>3
<1>5. QED
  BY <1>3, <1>4

(* An open that fails, or the last close, frees the file. *)
LEMMA FileFreed ==
  ASSUME Others, FileInv, NEW p \in Proc, fd[p] # NoFile,
         \A q \in Proc \ {p} : fd[q] # fd[p],
         fd' = [fd EXCEPT ![p] = NoFile], mode' = [mode EXCEPT ![fd[p]] = "none"],
         call'[p].op = "none", \A q \in Proc \ {p} : call'[q] = call[q]
  PROVE  FileInv'
<1>1. fd'[p] = NoFile
  BY DEF Others
<1>2. ASSUME NEW q \in Proc \ {p} PROVE fd'[q] = fd[q] /\ (fd[q] # NoFile => Mode(q)' = Mode(q))
  BY DEF Others, Mode
<1>3. QED
  BY <1>1, <1>2 DEF FileInv

LEMMA FileStep ==
  ASSUME Others, FileInv, GateInv, Shape
  PROVE  FileInv'
<1>0. NoFile \notin File
  BY FileSet
<1>1. CASE Quiet
  BY <1>1, FilesKept DEF Quiet
<1>2. ASSUME NEW p \in Proc, Polled(p) PROVE FileInv'
  <2>1. PICK c : call' = [call EXCEPT ![p] = c] /\ (c = NoCall \/ c.op = "poll")
    BY <1>2 DEF Polled
  <2>2. \A q \in Proc : \/ call'[q].op \in {"none", call[q].op}
                        \/ fd[q] # NoFile /\ call'[q].op = "poll"
    BY <1>2, <2>1, OtherCalls DEF NoCall, Polled
  <2>3. UNCHANGED files
    BY <1>2 DEF Polled
  <2>4. QED
    BY <2>2, <2>3, FilesKept
<1>3. ASSUME NEW p \in Proc, Leaves(p) PROVE FileInv'
  <2>1. \A q \in Proc : call'[q].op \in {"none", call[q].op}
    BY <1>3, ReturnCalls DEF Leaves
  <2>2. QED
    BY <1>3, <2>1, FilesKept DEF Leaves
<1>4. ASSUME NEW p \in Proc, Continues(p) PROVE FileInv'
  BY <1>4, FilesKept DEF Continues
<1>5. ASSUME NEW p \in Proc, Sleeping(p) \/ Back(p) PROVE FileInv'
  <2>1. UNCHANGED files /\ \A q \in Proc : call'[q].op \in {"none", call[q].op}
    BY <1>5, PSleepCalls, BackCalls DEF Sleeping
  <2>2. QED
    BY <2>1, FilesKept
<1>6. ASSUME NEW p \in Proc, OpenFails(p) PROVE FileInv'
  <2>1. fd[p] # NoFile /\ \A q \in Proc \ {p} : fd[q] # fd[p]
    BY <1>6 DEF FileInv, OpenFails
  <2>2. Return(p) /\ fd' = [fd EXCEPT ![p] = NoFile] /\ mode' = [mode EXCEPT ![fd[p]] = "none"]
    BY <1>6 DEF OpenFails, FailOpen
  <2>3. QED
    BY <2>1, <2>2, ReturnCalls, FileFreed
<1>7. ASSUME NEW p \in Proc, Transfer(p) PROVE FileInv'
  BY <1>7, TransferCalls, FilesKept
<1>8. ASSUME NEW p \in Proc, Close(p) PROVE FileInv'
  <2>1. call[p].op = "none" /\ call' = call /\ fd[p] # NoFile /\ fd' = [fd EXCEPT ![p] = NoFile]
    BY <1>8 DEF Close, NoCall
  <2>2. CASE \E q \in Proc \ {p} : fd[q] = fd[p]
    <3>1. mode' = mode
      BY <1>8, <2>2 DEF Close
    <3>2. QED
      BY <2>1, <3>1 DEF FileInv, Others, Mode
  <2>3. CASE ~ \E q \in Proc \ {p} : fd[q] = fd[p]
    <3>1. mode' = [mode EXCEPT ![fd[p]] = "none"]
      BY <1>8, <2>3 DEF Close
    <3>2. QED
      BY <2>1, <2>3, <3>1, FileFreed
  <2>4. QED
    BY <2>2, <2>3
<1>9. ASSUME NEW p \in Proc, NEW f \in File, NEW m \in Modes[p], StartOpen(p, f, m)
      PROVE  FileInv'
  <2>1. mode[f] = "none"
    BY <1>9 DEF StartOpen
  <2>2. \A q \in Proc : fd[q] # f
    BY <1>0, <2>1 DEF FileInv, Mode
  <2>3. ASSUME NEW q \in Proc \ {p}
        PROVE  fd'[q] = fd[q] /\ call'[q] = call[q] /\ (fd[q] # NoFile => Mode(q)' = Mode(q))
    BY <1>9, <2>2, StartOpenCalls DEF Others, Mode
  <2>4. /\ fd'[p] = f /\ Mode(p)' = m /\ m \in {"r", "w", "rw"}
        /\ call'[p].op = "none" \/ (call'[p].op = "open" /\ m # "rw")
    BY <1>9, StartOpenCalls DEF NoCall, Mode
  <2>5. \A q \in Proc \ {p} : fd'[q] # fd'[p]
    BY <2>2, <2>3, <2>4
  <2>6. ASSUME NEW q \in Proc \ {p}
        PROVE  /\ fd'[q] # NoFile => Mode(q)' # "none"
               /\ call'[q].op # "none" => fd'[q] # NoFile
               /\ call'[q].op = "open" => /\ Mode(q)' \in {"r", "w"}
                                          /\ \A x \in Proc \ {q} : fd'[x] # fd'[q]
               /\ call'[q].op = "read" => Reads(Mode(q)')
               /\ call'[q].op = "write" => Writes(Mode(q)')
    BY <2>3, <2>5 DEF FileInv
  <2>7. /\ fd'[p] # NoFile /\ Mode(p)' # "none"
        /\ call'[p].op = "open" => Mode(p)' \in {"r", "w"}
        /\ call'[p].op \in {"none", "open"}
    BY <1>0, <2>4
  <2>8. QED
    BY <2>5, <2>6, <2>7 DEF FileInv
<1>10. ASSUME NEW p \in Proc, NEW q \in Proc, Fork(p, q) PROVE FileInv'
  <2>1. /\ call[p].op = "none" /\ call[q].op = "none" /\ fd[p] # NoFile
        /\ fd' = [fd EXCEPT ![q] = fd[p]] /\ mode' = mode /\ call' = call
    BY <1>10 DEF Fork, NoCall
  <2>2. ASSUME NEW x \in Proc PROVE fd'[x] = IF x = q THEN fd[p] ELSE fd[x]
    BY <2>1 DEF Others
  <2>3. QED
    BY <2>1, <2>2 DEF FileInv, Mode
<1>11. QED
  BY <1>1, <1>2, <1>3, <1>4, <1>5, <1>6, <1>7, <1>8, <1>9, <1>10 DEF Shape

LEMMA GateStep ==
  ASSUME Others, GateInv, Shape
  PROVE  GateInv'
<1>0. NoProc \notin Proc
  BY FileSet
<1>1. CASE Quiet
  <2>1. ASSUME NEW q \in Proc
        PROVE  /\ InRoutine(q)' /\ call'[q].st = "run" => inode' = q
               /\ inode' = q => InRoutine(q)' /\ call'[q].st \in {"run", "again", "eintr"}
    BY <1>1 DEF Quiet, GateInv, InRoutine, Sleeps
  <2>2. QED
    BY <2>1 DEF GateInv
<1>2. ASSUME NEW p \in Proc, Polled(p) PROVE GateInv'
  <2>1. PICK c : call' = [call EXCEPT ![p] = c] /\ (c = NoCall \/ c.op = "poll")
    BY <1>2 DEF Polled
  <2>2. call'[p].op \in {"none", "poll"} /\ \A q \in Proc \ {p} : call'[q] = call[q]
    <3>1. c.op \in {"none", "poll"}
      BY <2>1 DEF NoCall
    <3>2. QED
      BY <2>1, <3>1, OtherCalls
  <2>3. QED
    BY <1>2, <2>2 DEF Polled, GateInv, InRoutine
<1>3. ASSUME NEW p \in Proc, Leaves(p) PROVE GateInv'
  BY <1>0, <1>3, ReturnCalls DEF Leaves, Runs, Gate, GateInv, InRoutine
<1>4. ASSUME NEW p \in Proc, Continues(p) PROVE GateInv'
  BY <1>0, <1>4 DEF Continues, Runs, Gate, GateInv, InRoutine
<1>5. ASSUME NEW p \in Proc, Sleeping(p) PROVE GateInv'
  BY <1>0, <1>5, PSleepCalls DEF Sleeping, Runs, Gate, GateInv, InRoutine
<1>6. ASSUME NEW p \in Proc, Back(p) PROVE GateInv'
  BY <1>0, <1>6, BackCalls DEF GateInv, InRoutine
<1>7. ASSUME NEW p \in Proc, OpenFails(p) PROVE GateInv'
  <2>1. Return(p)
    BY <1>7 DEF OpenFails, FailOpen
  <2>2. QED
    BY <1>0, <1>7, <2>1, ReturnCalls DEF OpenFails, Runs, Gate, GateInv, InRoutine
<1>8. ASSUME NEW p \in Proc, Transfer(p) PROVE GateInv'
  BY <1>0, <1>8, TransferCalls DEF GateInv, InRoutine
<1>9. ASSUME NEW p \in Proc, Close(p) \/ \E q \in Proc : Fork(p, q) PROVE GateInv'
  BY <1>9 DEF Close, Fork, GateInv, InRoutine
<1>10. ASSUME NEW p \in Proc, NEW f \in File, NEW m \in Modes[p], StartOpen(p, f, m)
       PROVE  GateInv'
  BY <1>0, <1>10, StartOpenCalls DEF GateInv, InRoutine, NoCall
<1>11. QED
  BY <1>1, <1>2, <1>3, <1>4, <1>5, <1>6, <1>7, <1>8, <1>9, <1>10 DEF Shape

-----------------------------------------------------------------------------
(* The counters. *)

ReadersOf(m) == {f \in File : Reads(m[f])}
WritersOf(m) == {f \in File : Writes(m[f])}
SleepingReaders == {p \in Proc : InPSleep(p) /\ AsReader(p)}
SleepingWriters == {p \in Proc : InPSleep(p) /\ ~AsReader(p)}

LEMMA CountersAre ==
  CountersOK <=> /\ par + psr = Cardinality(ReadersOf(mode))
                 /\ paw + psw = Cardinality(WritersOf(mode))
                 /\ psr = Cardinality(SleepingReaders)
                 /\ psw = Cardinality(SleepingWriters)
BY DEF CountersOK, ReadersOf, WritersOf, SleepingReaders, SleepingWriters

LEMMA Finite ==
  /\ \A m : /\ IsFiniteSet(ReadersOf(m)) /\ Cardinality(ReadersOf(m)) \in Nat
            /\ IsFiniteSet(WritersOf(m)) /\ Cardinality(WritersOf(m)) \in Nat
  /\ IsFiniteSet(SleepingReaders) /\ Cardinality(SleepingReaders) \in Nat
  /\ IsFiniteSet(SleepingWriters) /\ Cardinality(SleepingWriters) \in Nat
<1>1. IsFiniteSet(File) /\ IsFiniteSet(Proc)
  BY PipeAssumption
<1>2. \A m : IsFiniteSet(ReadersOf(m)) /\ IsFiniteSet(WritersOf(m))
  <2> TAKE m
  <2>1. ReadersOf(m) \in SUBSET File /\ WritersOf(m) \in SUBSET File
    BY DEF ReadersOf, WritersOf
  <2>2. QED
    BY <1>1, <2>1, FS_Subset
<1>3. IsFiniteSet(SleepingReaders) /\ IsFiniteSet(SleepingWriters)
  <2>1. SleepingReaders \in SUBSET Proc /\ SleepingWriters \in SUBSET Proc
    BY DEF SleepingReaders, SleepingWriters
  <2>2. QED
    BY <1>1, <2>1, FS_Subset
<1>4. QED
  BY <1>2, <1>3, FS_CardinalityType

LEMMA OneMore ==
  ASSUME NEW S, IsFiniteSet(S), NEW x, x \notin S, NEW T, T = S \cup {x}
  PROVE  Cardinality(T) = Cardinality(S) + 1
BY FS_AddElement

LEMMA OneLess ==
  ASSUME NEW S, IsFiniteSet(S), NEW x, x \in S, NEW T, T = S \ {x}
  PROVE  Cardinality(T) = Cardinality(S) - 1
BY FS_RemoveElement

(* A file that was free is opened with mode x. *)
LEMMA FileOpened ==
  ASSUME NEW m \in [File -> {"none", "r", "w", "rw"}], NEW f \in File, m[f] = "none",
         NEW x \in {"r", "w", "rw"}, NEW n, n = [m EXCEPT ![f] = x]
  PROVE  /\ Cardinality(ReadersOf(n)) = Cardinality(ReadersOf(m)) + Count(Reads(x))
         /\ Cardinality(WritersOf(n)) = Cardinality(WritersOf(m)) + Count(Writes(x))
<1>1. ASSUME Reads(x)
      PROVE  Cardinality(ReadersOf(n)) = Cardinality(ReadersOf(m)) + Count(Reads(x))
  <2>1. ReadersOf(n) = ReadersOf(m) \cup {f} /\ f \notin ReadersOf(m)
    BY <1>1 DEF ReadersOf, Reads
  <2>2. QED
    BY <1>1, <2>1, Finite, OneMore DEF Count
<1>2. ASSUME ~Reads(x)
      PROVE  Cardinality(ReadersOf(n)) = Cardinality(ReadersOf(m)) + Count(Reads(x))
  <2>1. ReadersOf(n) = ReadersOf(m)
    BY <1>2 DEF ReadersOf, Reads
  <2>2. QED
    BY <1>2, <2>1, Finite DEF Count
<1>3. ASSUME Writes(x)
      PROVE  Cardinality(WritersOf(n)) = Cardinality(WritersOf(m)) + Count(Writes(x))
  <2>1. WritersOf(n) = WritersOf(m) \cup {f} /\ f \notin WritersOf(m)
    BY <1>3 DEF WritersOf, Writes
  <2>2. QED
    BY <1>3, <2>1, Finite, OneMore DEF Count
<1>4. ASSUME ~Writes(x)
      PROVE  Cardinality(WritersOf(n)) = Cardinality(WritersOf(m)) + Count(Writes(x))
  <2>1. WritersOf(n) = WritersOf(m)
    BY <1>4 DEF WritersOf, Writes
  <2>2. QED
    BY <1>4, <2>1, Finite DEF Count
<1>5. QED
  BY <1>1, <1>2, <1>3, <1>4

(* A file is closed. *)
LEMMA FileClosed ==
  ASSUME NEW m \in [File -> {"none", "r", "w", "rw"}], NEW f \in File,
         NEW n, n = [m EXCEPT ![f] = "none"]
  PROVE  /\ Cardinality(ReadersOf(n)) = Cardinality(ReadersOf(m)) - Count(Reads(m[f]))
         /\ Cardinality(WritersOf(n)) = Cardinality(WritersOf(m)) - Count(Writes(m[f]))
<1>1. ASSUME Reads(m[f])
      PROVE  Cardinality(ReadersOf(n)) = Cardinality(ReadersOf(m)) - Count(Reads(m[f]))
  <2>1. ReadersOf(n) = ReadersOf(m) \ {f} /\ f \in ReadersOf(m)
    BY <1>1 DEF ReadersOf, Reads
  <2>2. QED
    BY <1>1, <2>1, Finite, OneLess DEF Count
<1>2. ASSUME ~Reads(m[f])
      PROVE  Cardinality(ReadersOf(n)) = Cardinality(ReadersOf(m)) - Count(Reads(m[f]))
  <2>1. ReadersOf(n) = ReadersOf(m)
    BY <1>2 DEF ReadersOf, Reads
  <2>2. QED
    BY <1>2, <2>1, Finite DEF Count
<1>3. ASSUME Writes(m[f])
      PROVE  Cardinality(WritersOf(n)) = Cardinality(WritersOf(m)) - Count(Writes(m[f]))
  <2>1. WritersOf(n) = WritersOf(m) \ {f} /\ f \in WritersOf(m)
    BY <1>3 DEF WritersOf, Writes
  <2>2. QED
    BY <1>3, <2>1, Finite, OneLess DEF Count
<1>4. ASSUME ~Writes(m[f])
      PROVE  Cardinality(WritersOf(n)) = Cardinality(WritersOf(m)) - Count(Writes(m[f]))
  <2>1. WritersOf(n) = WritersOf(m)
    BY <1>4 DEF WritersOf, Writes
  <2>2. QED
    BY <1>4, <2>1, Finite DEF Count
<1>5. QED
  BY <1>1, <1>2, <1>3, <1>4

(* Who waited goes on waiting on the same side. *)
LEMMA SameSleepers ==
  ASSUME \A q \in Proc : /\ InPSleep(q)' <=> InPSleep(q)
                         /\ InPSleep(q) => (AsReader(q)' <=> AsReader(q))
  PROVE  SleepingReaders' = SleepingReaders /\ SleepingWriters' = SleepingWriters
BY DEF SleepingReaders, SleepingWriters

(* All the counters depend on are the modes and the sleepers. *)
LEMMA CountersKept ==
  ASSUME CountersOK, UNCHANGED counters, ReadersOf(mode') = ReadersOf(mode),
         WritersOf(mode') = WritersOf(mode),
         SleepingReaders' = SleepingReaders, SleepingWriters' = SleepingWriters
  PROVE  CountersOK'
BY CountersAre DEF CountersOK, ReadersOf, WritersOf, SleepingReaders, SleepingWriters, counters

LEMMA SidesKept ==
  ASSUME Others, FileInv, UNCHANGED files,
         \A q \in Proc : /\ InPSleep(q)' <=> InPSleep(q)
                         /\ InPSleep(q) => call'[q].op = call[q].op
  PROVE  SleepingReaders' = SleepingReaders /\ SleepingWriters' = SleepingWriters
<1>1. \A q \in Proc : InPSleep(q) => (AsReader(q)' <=> AsReader(q))
  BY DEF AsReader, Mode, files
<1>2. QED
  BY <1>1, SameSleepers

(* The sleepers when a file comes or goes that only p has. *)
LEMMA SidesOfOthers ==
  ASSUME Others, FileInv, NEW p \in Proc, ~InPSleep(p), ~InPSleep(p)',
         \A q \in Proc \ {p} :
           /\ call'[q] = call[q]
           /\ fd[q] # NoFile => fd'[q] = fd[q] /\ mode'[fd[q]] = mode[fd[q]]
  PROVE  SleepingReaders' = SleepingReaders /\ SleepingWriters' = SleepingWriters
<1>1. ASSUME NEW q \in Proc \ {p}
      PROVE  /\ InPSleep(q)' <=> InPSleep(q)
             /\ InPSleep(q) => (AsReader(q)' <=> AsReader(q))
  <2>1. call[q] \in GoodCall
    BY DEF Others
  <2>2. InPSleep(q) => call[q].op # "none"
    BY <2>1 DEF InPSleep, GoodCall, NoCall
  <2>3. QED
    BY <2>2 DEF InPSleep, AsReader, Mode, FileInv
<1>2. QED
  BY <1>1, SameSleepers

LEMMA PSleepSides ==
  ASSUME Others, FileInv, NEW p \in Proc, Sleeping(p), call'[p].st = "asleep"
  PROVE  /\ AsReader(p) => /\ SleepingReaders' = SleepingReaders \cup {p}
                           /\ SleepingWriters' = SleepingWriters
         /\ ~AsReader(p) => /\ SleepingWriters' = SleepingWriters \cup {p}
                            /\ SleepingReaders' = SleepingReaders
         /\ p \notin SleepingReaders /\ p \notin SleepingWriters
<1>1. ~InPSleep(p)
  BY DEF Sleeping, Runs, InPSleep
<1>2. InPSleep(p)' /\ (AsReader(p)' <=> AsReader(p))
  BY PSleepCalls DEF Sleeping, Runs, InRoutine, InPSleep, AsReader, Mode, files
<1>3. ASSUME NEW q \in Proc \ {p}
      PROVE  (InPSleep(q)' <=> InPSleep(q)) /\ (AsReader(q)' <=> AsReader(q))
  BY PSleepCalls DEF Sleeping, InPSleep, AsReader, Mode, files
<1>4. QED
  BY <1>1, <1>2, <1>3 DEF SleepingReaders, SleepingWriters

LEMMA BackSides ==
  ASSUME Others, FileInv, NEW p \in Proc, Back(p)
  PROVE  /\ AsReader(p) => /\ SleepingReaders' = SleepingReaders \ {p}
                           /\ SleepingWriters' = SleepingWriters
                           /\ p \in SleepingReaders
         /\ ~AsReader(p) => /\ SleepingWriters' = SleepingWriters \ {p}
                            /\ SleepingReaders' = SleepingReaders
                            /\ p \in SleepingWriters
<1>1. InPSleep(p) /\ ~InPSleep(p)'
  BY BackCalls DEF InPSleep
<1>2. ASSUME NEW q \in Proc \ {p}
      PROVE  (InPSleep(q)' <=> InPSleep(q)) /\ (AsReader(q)' <=> AsReader(q))
  BY BackCalls DEF InPSleep, AsReader, Mode, files
<1>3. QED
  BY <1>1, <1>2 DEF SleepingReaders, SleepingWriters

LEMMA CounterStep ==
  ASSUME Others, FileInv, CountersOK, Shape
  PROVE  CountersOK'
<1>0. NoFile \notin File
  BY FileSet
<1>a. /\ Cardinality(ReadersOf(mode)) \in Nat /\ Cardinality(WritersOf(mode)) \in Nat
      /\ par + psr = Cardinality(ReadersOf(mode)) /\ paw + psw = Cardinality(WritersOf(mode))
      /\ psr = Cardinality(SleepingReaders) /\ psw = Cardinality(SleepingWriters)
      /\ par \in Int /\ paw \in Int /\ psr \in Int /\ psw \in Int
      /\ IsFiniteSet(SleepingReaders) /\ IsFiniteSet(SleepingWriters)
  BY CountersAre, Finite DEF Others
<1>b. ASSUME /\ par' + psr' = Cardinality(ReadersOf(mode'))
             /\ paw' + psw' = Cardinality(WritersOf(mode'))
             /\ psr' = Cardinality(SleepingReaders') /\ psw' = Cardinality(SleepingWriters')
      PROVE  CountersOK'
  BY <1>b DEF CountersOK, ReadersOf, WritersOf, SleepingReaders, SleepingWriters
<1>c. ASSUME UNCHANGED <<counters, files>>,
             \A q \in Proc : /\ InPSleep(q)' <=> InPSleep(q)
                             /\ InPSleep(q) => call'[q].op = call[q].op
      PROVE  CountersOK'
  <2>1. SleepingReaders' = SleepingReaders /\ SleepingWriters' = SleepingWriters
    BY <1>c, SidesKept
  <2>2. QED
    BY <1>a, <1>b, <1>c, <2>1 DEF counters, files
<1>d. ASSUME NEW q \in Proc, call[q].op \in {"none", "poll"} PROVE ~InPSleep(q)
  <2>1. call[q] \in GoodCall
    BY DEF Others
  <2>2. QED
    BY <1>d, <2>1 DEF InPSleep, GoodCall, NoCall
<1>1. CASE Quiet
  <2>1. \A q \in Proc : /\ InPSleep(q)' <=> InPSleep(q)
                        /\ InPSleep(q) => call'[q].op = call[q].op
    BY <1>1 DEF Quiet, InPSleep, Sleeps
  <2>2. QED
    BY <1>1, <1>c, <2>1 DEF Quiet
<1>2. ASSUME NEW p \in Proc, Polled(p) PROVE CountersOK'
  <2>1. PICK c : call' = [call EXCEPT ![p] = c] /\ (c = NoCall \/ c.op = "poll")
    BY <1>2 DEF Polled
  <2>2. c.op = "poll" \/ c.st = "run"
    BY <2>1 DEF NoCall
  <2>3. ~InPSleep(p) /\ ~InPSleep(p)' /\ \A q \in Proc \ {p} : call'[q] = call[q]
    BY <1>2, <1>d, <2>1, <2>2, OtherCalls DEF Polled, InPSleep
  <2>4. QED
    BY <1>2, <1>c, <2>3 DEF Polled, InPSleep
<1>3. ASSUME NEW p \in Proc, Leaves(p) PROVE CountersOK'
  <2>1. ~InPSleep(p) /\ ~InPSleep(p)' /\ \A q \in Proc \ {p} : call'[q] = call[q]
    BY <1>3, ReturnCalls DEF Leaves, Runs, InPSleep
  <2>2. QED
    BY <1>3, <1>c, <2>1 DEF Leaves, InPSleep
<1>4. ASSUME NEW p \in Proc, Continues(p) PROVE CountersOK'
  BY <1>4, <1>c DEF Continues, InPSleep
<1>5. ASSUME NEW p \in Proc, Sleeping(p) PROVE CountersOK'
  <2>1. CASE call'[p].st = "asleep"
    <3>1. call' # [call EXCEPT ![p].st = "eintr"]
      BY <2>1 DEF Others, GoodCall
    <3>2. /\ AsReader(p) => par' = par - 1 /\ psr' = psr + 1 /\ paw' = paw /\ psw' = psw
          /\ ~AsReader(p) => paw' = paw - 1 /\ psw' = psw + 1 /\ par' = par /\ psr' = psr
          /\ mode' = mode
      BY <1>5, <3>1 DEF Sleeping, PSleep, files
    <3>3. /\ AsReader(p) => /\ Cardinality(SleepingReaders') = psr + 1
                            /\ Cardinality(SleepingWriters') = psw
          /\ ~AsReader(p) => /\ Cardinality(SleepingReaders') = psr
                             /\ Cardinality(SleepingWriters') = psw + 1
      BY <1>5, <1>a, <2>1, PSleepSides, OneMore
    <3>4. QED
      BY <1>a, <1>b, <3>2, <3>3
  <2>2. CASE call'[p].st # "asleep"
    <3>1. UNCHANGED <<counters, files>>
      BY <1>5, <2>2, PSleepCalls DEF Sleeping
    <3>2. ~InPSleep(p) /\ ~InPSleep(p)' /\ \A q \in Proc \ {p} : call'[q] = call[q]
      BY <1>5, <2>2, PSleepCalls DEF Sleeping, Runs, InPSleep
    <3>3. QED
      BY <1>c, <3>1, <3>2 DEF InPSleep
  <2>3. QED
    BY <2>1, <2>2
<1>6. ASSUME NEW p \in Proc, Back(p) PROVE CountersOK'
  <2>1. /\ AsReader(p) => par' = par + 1 /\ psr' = psr - 1 /\ paw' = paw /\ psw' = psw
        /\ ~AsReader(p) => paw' = paw + 1 /\ psw' = psw - 1 /\ par' = par /\ psr' = psr
        /\ mode' = mode
    BY <1>6 DEF Back, Resume, files
  <2>2. /\ AsReader(p) => /\ Cardinality(SleepingReaders') = psr - 1
                          /\ Cardinality(SleepingWriters') = psw
        /\ ~AsReader(p) => /\ Cardinality(SleepingReaders') = psr
                           /\ Cardinality(SleepingWriters') = psw - 1
    BY <1>6, <1>a, BackSides, OneLess
  <2>3. QED
    BY <1>a, <1>b, <2>1, <2>2
<1>7. ASSUME NEW p \in Proc, fd[p] # NoFile, \A q \in Proc \ {p} : fd[q] # fd[p],
             mode' = [mode EXCEPT ![fd[p]] = "none"], fd' = [fd EXCEPT ![p] = NoFile],
             par' = par - Count(Reads(Mode(p))), paw' = paw - Count(Writes(Mode(p))),
             psr' = psr, psw' = psw, ~InPSleep(p), ~InPSleep(p)',
             \A q \in Proc \ {p} : call'[q] = call[q]
      PROVE  CountersOK'
  <2>1. SleepingReaders' = SleepingReaders /\ SleepingWriters' = SleepingWriters
    <3>1. \A q \in Proc \ {p} :
            fd[q] # NoFile => fd'[q] = fd[q] /\ mode'[fd[q]] = mode[fd[q]]
      BY <1>7 DEF Others
    <3>2. QED
      BY <1>7, <3>1, SidesOfOthers
  <2>2. /\ Cardinality(ReadersOf(mode')) = Cardinality(ReadersOf(mode)) - Count(Reads(Mode(p)))
        /\ Cardinality(WritersOf(mode')) = Cardinality(WritersOf(mode)) - Count(Writes(Mode(p)))
    <3>1. fd[p] \in File /\ mode \in [File -> {"none", "r", "w", "rw"}]
      BY <1>7 DEF Others
    <3>2. QED
      BY <1>7, <3>1, FileClosed DEF Mode
  <2>3. QED
    BY <1>7, <1>a, <1>b, <2>1, <2>2, CountType
<1>8. ASSUME NEW p \in Proc, OpenFails(p) PROVE CountersOK'
  <2>1. /\ Return(p) /\ fd' = [fd EXCEPT ![p] = NoFile]
        /\ mode' = [mode EXCEPT ![fd[p]] = "none"]
        /\ par' = par - Count(Reads(Mode(p))) /\ paw' = paw - Count(Writes(Mode(p)))
        /\ psr' = psr /\ psw' = psw
    BY <1>8 DEF OpenFails, FailOpen
  <2>2. fd[p] # NoFile /\ \A q \in Proc \ {p} : fd[q] # fd[p]
    BY <1>8 DEF FileInv, OpenFails
  <2>3. ~InPSleep(p) /\ ~InPSleep(p)' /\ \A q \in Proc \ {p} : call'[q] = call[q]
    BY <1>8, <2>1, ReturnCalls DEF OpenFails, Runs, InPSleep
  <2>4. QED
    BY <1>7, <2>1, <2>2, <2>3
<1>9. ASSUME NEW p \in Proc, Transfer(p) PROVE CountersOK'
  <2>1. ~InPSleep(p) /\ ~InPSleep(p)' /\ \A q \in Proc \ {p} : call'[q] = call[q]
    BY <1>9, TransferCalls DEF InPSleep, NoCall
  <2>2. QED
    BY <1>9, <1>c, <2>1, TransferCalls DEF InPSleep
<1>10. ASSUME NEW p \in Proc, Close(p) PROVE CountersOK'
  <2>1. /\ call[p] = NoCall /\ call' = call /\ fd[p] # NoFile
        /\ fd' = [fd EXCEPT ![p] = NoFile]
    BY <1>10 DEF Close
  <2>2. ~InPSleep(p) /\ ~InPSleep(p)'
    BY <2>1 DEF NoCall, InPSleep
  <2>3. CASE \E q \in Proc \ {p} : fd[q] = fd[p]
    <3>1. UNCHANGED <<counters, mode>>
      BY <1>10, <2>3 DEF Close
    <3>2. \A q \in Proc \ {p} : fd'[q] = fd[q]
      BY <2>1 DEF Others
    <3>3. SleepingReaders' = SleepingReaders /\ SleepingWriters' = SleepingWriters
      BY <2>1, <2>2, <3>1, <3>2, SidesOfOthers
    <3>4. QED
      BY <1>a, <1>b, <3>1, <3>3 DEF counters
  <2>4. CASE ~ \E q \in Proc \ {p} : fd[q] = fd[p]
    <3>1. /\ mode' = [mode EXCEPT ![fd[p]] = "none"]
          /\ par' = par - Count(Reads(Mode(p))) /\ paw' = paw - Count(Writes(Mode(p)))
          /\ psr' = psr /\ psw' = psw
      BY <1>10, <2>4 DEF Close
    <3>2. QED
      BY <1>7, <2>1, <2>2, <2>4, <3>1
  <2>5. QED
    BY <2>3, <2>4
<1>11. ASSUME NEW p \in Proc, NEW f \in File, NEW m \in Modes[p], StartOpen(p, f, m)
       PROVE  CountersOK'
  <2>1. /\ mode[f] = "none" /\ m \in {"r", "w", "rw"} /\ mode' = [mode EXCEPT ![f] = m]
        /\ par' = par + Count(Reads(m)) /\ paw' = paw + Count(Writes(m))
        /\ psr' = psr /\ psw' = psw
    BY <1>11, StartOpenCalls DEF StartOpen
  <2>2. \A q \in Proc : fd[q] # f
    BY <1>0, <2>1 DEF FileInv, Mode
  <2>3. SleepingReaders' = SleepingReaders /\ SleepingWriters' = SleepingWriters
    <3>1. ~InPSleep(p) /\ ~InPSleep(p)'
      BY <1>11, StartOpenCalls DEF InPSleep, NoCall
    <3>2. \A q \in Proc \ {p} :
            /\ call'[q] = call[q]
            /\ fd[q] # NoFile => fd'[q] = fd[q] /\ mode'[fd[q]] = mode[fd[q]]
      BY <1>11, <2>2, StartOpenCalls DEF Others
    <3>3. QED
      BY <3>1, <3>2, SidesOfOthers
  <2>4. /\ Cardinality(ReadersOf(mode')) = Cardinality(ReadersOf(mode)) + Count(Reads(m))
        /\ Cardinality(WritersOf(mode')) = Cardinality(WritersOf(mode)) + Count(Writes(m))
    <3>1. mode \in [File -> {"none", "r", "w", "rw"}]
      BY DEF Others
    <3>2. QED
      BY <2>1, <3>1, FileOpened, ZenonT(60)
  <2>5. QED
    BY <1>a, <1>b, <2>1, <2>3, <2>4, CountType
<1>12. ASSUME NEW p \in Proc, NEW q \in Proc, Fork(p, q) PROVE CountersOK'
  <2>1. /\ UNCHANGED <<counters, mode>> /\ call' = call /\ call[q] = NoCall
        /\ fd' = [fd EXCEPT ![q] = fd[p]]
    BY <1>12 DEF Fork
  <2>2. ~InPSleep(q) /\ ~InPSleep(q)'
    BY <2>1 DEF NoCall, InPSleep
  <2>3. \A x \in Proc \ {q} : fd'[x] = fd[x]
    BY <2>1 DEF Others
  <2>4. SleepingReaders' = SleepingReaders /\ SleepingWriters' = SleepingWriters
    BY <2>1, <2>2, <2>3, SidesOfOthers
  <2>5. QED
    BY <1>a, <1>b, <2>1, <2>4 DEF counters
<1>13. QED
  BY <1>1, <1>2, <1>3, <1>4, <1>5, <1>6, <1>8, <1>9, <1>10, <1>11, <1>12 DEF Shape

-----------------------------------------------------------------------------
PipeInv == Typed /\ RingInv /\ FileInv /\ GateInv /\ CountersOK

LEMMA PipeInit == Init => PipeInv
<1> SUFFICES ASSUME Init PROVE PipeInv
  OBVIOUS
<1>1. Typed /\ RingInv
  BY InitTyped
<1>2. \A p \in Proc : call[p].op = "none" /\ call[p].st = "run" /\ fd[p] = NoFile
  BY DEF Init, NoCall
<1>3. FileInv /\ GateInv
  BY <1>2, FileSet DEF Init, FileInv, GateInv, InRoutine
<1>4. CountersOK
  <2>1. SleepingReaders = {} /\ SleepingWriters = {}
    BY <1>2 DEF SleepingReaders, SleepingWriters, InPSleep
  <2>2. ReadersOf(mode) = {} /\ WritersOf(mode) = {}
    BY DEF Init, ReadersOf, WritersOf, Reads, Writes
  <2>3. QED
    BY <2>1, <2>2, FS_EmptySet, CountersAre DEF Init
<1>5. QED
  BY <1>1, <1>3, <1>4 DEF PipeInv

LEMMA PipeStep ==
  ASSUME PipeInv, [Next]_vars
  PROVE  PipeInv'
<1>1. Typed' /\ RingInv'
  BY NextTyped DEF PipeInv
<1>2. Others /\ Shape
  BY TypedIs, StepShape DEF PipeInv
<1>3. FileInv' /\ GateInv' /\ CountersOK'
  BY <1>2, FileStep, GateStep, CounterStep DEF PipeInv
<1>4. QED
  BY <1>1, <1>3 DEF PipeInv

LEMMA PipeInvariant == Spec => []PipeInv
<1>1. PipeInv /\ [Next]_vars => PipeInv'
  BY PipeStep
<1>2. QED
  BY <1>1, PipeInit, PTL DEF Spec

(* The counters of pipe.c are who has the pipe open and who waits, whatever
   opens, closes, waits, is woken or is interrupted. *)
THEOREM CountersKeptRight == Spec => []CountersOK
<1>1. PipeInv => CountersOK
  BY DEF PipeInv
<1>2. QED
  BY <1>1, PipeInvariant, PTL

(* The state has its types; the counts of the sleepers, psr and psw, which are
   only ever incremented and decremented, never become negative. *)
THEOREM TypesKept == Spec => []TypeOK
<1>1. ASSUME PipeInv PROVE TypeOK
  <2>1. psr \in Nat /\ psw \in Nat
    BY <1>1, CountersAre, Finite DEF PipeInv
  <2>2. call \in [Proc -> [op : {"none", "open", "read", "write", "poll"},
                        st : {"run", "asleep", "woken", "signalled", "again", "eintr"},
                        want : 0..(2 * PIPSIZE), todo : Seq(Byte),
                        on : SUBSET {"iev", "oev"}]]
    BY <1>1 DEF PipeInv, Typed, GoodCall, Ops, States
  <2>3. QED
    BY <1>1, <2>1, <2>2 DEF PipeInv, Typed, TypeOK
<1>2. QED
  BY <1>1, PipeInvariant, PTL

-----------------------------------------------------------------------------
(* Who waits for whom. *)

(* Between two steps of the process that has the gate a wakeup may be owed: by
   an open that has counted itself already, and by a read that goes on. *)
OpeningWriter ==
  \E p \in Proc : inode = p /\ call[p].op = "open" /\ call[p].st = "run" /\ Mode(p) = "w"
OpeningReader ==
  \E p \in Proc : inode = p /\ call[p].op = "open" /\ call[p].st = "run" /\ Mode(p) = "r"
Draining ==
  \E p \in Proc :
    inode = p /\ call[p].op = "read" /\ call[p].st \in {"run", "again"} /\ pnc > 0

(* NobodyStranded, with the inode locked too. *)
WaitInv ==
  \A p \in Proc : Asleep(p) =>
    /\ AsReader(p) => "psw" \in deferred \/ OpeningWriter \/ ReaderNotStranded(p)
    /\ ~AsReader(p) => \/ "psr" \in deferred \/ OpeningReader \/ Draining
                       \/ WriterNotStranded(p)

(* No signal comes to a process in popen(). *)
SilentInv == \A p \in Proc : call[p].op = "open" => call[p].st \notin {"signalled", "eintr"}

LEMMA SleeperCount ==
  ASSUME PipeInv, NEW p \in Proc, InPSleep(p)
  PROVE  (AsReader(p) => psr # 0) /\ (~AsReader(p) => psw # 0)
<1>1. ASSUME AsReader(p) PROVE psr # 0
  <2>1. p \in SleepingReaders
    BY <1>1 DEF SleepingReaders
  <2>2. Cardinality(SleepingReaders) # 0
    BY <2>1, Finite, FS_EmptySet
  <2>3. QED
    BY <2>2, CountersAre DEF PipeInv
<1>2. ASSUME ~AsReader(p) PROVE psw # 0
  <2>1. p \in SleepingWriters
    BY <1>2 DEF SleepingWriters
  <2>2. Cardinality(SleepingWriters) # 0
    BY <2>1, Finite, FS_EmptySet
  <2>3. QED
    BY <2>2, CountersAre DEF PipeInv
<1>3. QED
  BY <1>1, <1>2

LEMMA SleeperMode ==
  ASSUME PipeInv, NEW p \in Proc, InPSleep(p)
  PROVE  /\ AsReader(p) => Reads(Mode(p))
         /\ ~AsReader(p) => Writes(Mode(p))
         /\ fd[p] \in File
<1>1. call[p] \in GoodCall /\ FileInv /\ fd[p] \in File \cup {NoFile}
  BY DEF PipeInv, Typed
<1>2. InRoutine(p)
  BY <1>1 DEF InPSleep, InRoutine, GoodCall, NoCall, Ops
<1>3. QED
  BY <1>1, <1>2 DEF InRoutine, FileInv, AsReader, Reads, Writes

(* There are readers when a file is open for reading, an open that waits
   included; and in the same way writers. *)
SidesAre ==
  /\ Readers <=> \E f \in File : Reads(mode[f])
  /\ Writers <=> \E f \in File : Writes(mode[f])

LEMMA SidesOpen == PipeInv => SidesAre
<1> SUFFICES ASSUME PipeInv PROVE SidesAre
  OBVIOUS
<1>1. /\ Cardinality(ReadersOf(mode)) \in Nat /\ Cardinality(WritersOf(mode)) \in Nat
      /\ par + psr = Cardinality(ReadersOf(mode)) /\ paw + psw = Cardinality(WritersOf(mode))
      /\ psr = Cardinality(SleepingReaders) /\ psw = Cardinality(SleepingWriters)
      /\ par \in Int /\ paw \in Int /\ psr \in Nat /\ psw \in Nat
  BY CountersAre, Finite DEF PipeInv, Typed
<1>2. /\ Cardinality(ReadersOf(mode)) = 0 <=> ReadersOf(mode) = {}
      /\ Cardinality(WritersOf(mode)) = 0 <=> WritersOf(mode) = {}
      /\ Cardinality(SleepingReaders) = 0 <=> SleepingReaders = {}
      /\ Cardinality(SleepingWriters) = 0 <=> SleepingWriters = {}
  BY Finite, FS_EmptySet
<1>3. /\ SleepingReaders # {} => ReadersOf(mode) # {}
      /\ SleepingWriters # {} => WritersOf(mode) # {}
  BY SleeperMode DEF SleepingReaders, SleepingWriters, ReadersOf, WritersOf, Mode
<1>4. Readers <=> ReadersOf(mode) # {}
  BY <1>1, <1>2, <1>3 DEF Readers
<1>5. Writers <=> WritersOf(mode) # {}
  BY <1>1, <1>2, <1>3 DEF Writers
<1>6. QED
  BY <1>4, <1>5 DEF SidesAre, ReadersOf, WritersOf

LEMMA SidesOpenNext == PipeInv' => SidesAre'
BY SidesOpen, PTL

LEMMA SidesSame ==
  ASSUME PipeInv, PipeInv', ReadersOf(mode') = ReadersOf(mode),
         WritersOf(mode') = WritersOf(mode)
  PROVE  (Readers' <=> Readers) /\ (Writers' <=> Writers)
BY SidesOpen, SidesOpenNext DEF SidesAre, ReadersOf, WritersOf

(* The process that has the gate, or takes it, owes nothing but what it owes
   itself. *)
LEMMA Owing ==
  ASSUME PipeInv, NEW p \in Proc, Gate(p)
  PROVE  /\ OpeningWriter => call[p].op = "open" /\ Mode(p) = "w"
         /\ OpeningReader => call[p].op = "open" /\ Mode(p) = "r"
         /\ Draining => call[p].op = "read" /\ call[p].st \in {"run", "again"} /\ pnc > 0
BY FileSet DEF Gate, OpeningWriter, OpeningReader, Draining

LEMMA NothingOwed ==
  ASSUME inode = NoProc PROVE ~OpeningWriter /\ ~OpeningReader /\ ~Draining
BY FileSet DEF OpeningWriter, OpeningReader, Draining

(* Nobody falls asleep, and nothing changes of what is waited for. *)
SleepersKept ==
  \A q \in Proc : Asleep(q)' =>
    /\ Asleep(q) /\ call'[q].op = call[q].op /\ call'[q].todo = call[q].todo
    /\ AsReader(q)' <=> AsReader(q)

OwedKept ==
  /\ OpeningWriter => OpeningWriter'
  /\ OpeningReader => OpeningReader'
  /\ Draining => Draining'

SidesKeptOpen == (Readers' <=> Readers) /\ (Writers' <=> Writers)

LEMMA WaitKept ==
  ASSUME WaitInv, pnc' = pnc, SidesKeptOpen, OwedKept, SleepersKept,
         \A c \in deferred : c \in {"psr", "psw"} => c \in deferred'
  PROVE  WaitInv'
<1> SUFFICES ASSUME NEW q \in Proc, Asleep(q)'
             PROVE  /\ AsReader(q)' => \/ "psw" \in deferred' \/ OpeningWriter'
                                       \/ ReaderNotStranded(q)'
                    /\ ~AsReader(q)' => \/ "psr" \in deferred' \/ OpeningReader' \/ Draining'
                                        \/ WriterNotStranded(q)'
  BY DEF WaitInv
<1>0. /\ Asleep(q) /\ call'[q].op = call[q].op /\ call'[q].todo = call[q].todo
      /\ AsReader(q)' <=> AsReader(q)
  BY DEF SleepersKept
<1>1. /\ AsReader(q) => "psw" \in deferred \/ OpeningWriter \/ ReaderNotStranded(q)
      /\ ~AsReader(q) => \/ "psr" \in deferred \/ OpeningReader \/ Draining
                         \/ WriterNotStranded(q)
  BY <1>0 DEF WaitInv
<1>2. /\ ReaderNotStranded(q)' <=> ReaderNotStranded(q)
      /\ WriterNotStranded(q)' <=> WriterNotStranded(q)
  BY <1>0 DEF ReaderNotStranded, WriterNotStranded, SidesKeptOpen
<1>3. QED
  BY <1>0, <1>1, <1>2 DEF OwedKept

(* What an asleep process of the other side, or of either, may rely on when p
   takes a step that leaves the other calls alone. *)
LEMMA OtherSleepers ==
  ASSUME Others, FileInv, NEW p \in Proc,
         \A q \in Proc \ {p} :
           /\ call'[q] = call[q]
           /\ fd[q] # NoFile => fd'[q] = fd[q] /\ mode'[fd[q]] = mode[fd[q]]
  PROVE  \A q \in Proc \ {p} : Asleep(q)' =>
           /\ Asleep(q) /\ call'[q].op = call[q].op /\ call'[q].todo = call[q].todo
           /\ AsReader(q)' <=> AsReader(q)
<1> TAKE q \in Proc \ {p}
<1>1. call[q] \in GoodCall
  BY DEF Others
<1>2. Asleep(q) => call[q].op # "none"
  BY <1>1 DEF Asleep, GoodCall, NoCall
<1>3. Asleep(q) => fd[q] # NoFile
  BY <1>2 DEF FileInv
<1>4. QED
  BY <1>3 DEF Asleep, AsReader, Mode

LEMMA InvParts ==
  ASSUME PipeInv
  PROVE  Others /\ RingType /\ RingInv /\ FileInv /\ GateInv /\ CountersOK
BY TypedIs DEF PipeInv

LEMMA WakesAre ==
  ASSUME NEW n, NEW readers
  PROVE  /\ psr # 0 => "psw" \in WakeReaders(n)
         /\ psw # 0 => "psr" \in WakeWriters(n, readers)
BY DEF WakeReaders, WakeWriters, Deferred

LEMMA AsleepIn == ASSUME NEW q, Asleep(q) PROVE InPSleep(q)
BY DEF Asleep, InPSleep

(* p goes to sleep, with something to wait for. *)
LEMMA PSleepWait ==
  ASSUME PipeInv, PipeInv', WaitInv, NEW p \in Proc, Sleeping(p),
         AsReader(p) => ReaderNotStranded(p), ~AsReader(p) => WriterNotStranded(p),
         OpeningWriter => ~Readers, OpeningReader => ~Writers, ~Draining
  PROVE  WaitInv'
<1>1. Others /\ FileInv /\ PSleep(p)
  BY InvParts DEF Sleeping
<1>2. UNCHANGED <<pnc, deferred, files>>
  BY <1>1 DEF PSleep, ring
<1>3. (Readers' <=> Readers) /\ (Writers' <=> Writers)
  BY <1>2, SidesSame DEF files
<1>4. \A q \in Proc : Asleep(q)' => /\ q = p \/ Asleep(q)
                                    /\ call'[q].op = call[q].op /\ call'[q].todo = call[q].todo
                                    /\ AsReader(q)' <=> AsReader(q)
  <2>1. call'[p].todo = call[p].todo /\ call'[p].op = call[p].op
    BY <1>1 DEF PSleep, Others, GoodCall
  <2>2. \A q \in Proc \ {p} : call'[q] = call[q]
    BY <1>1, PSleepCalls
  <2>3. QED
    BY <1>2, <2>1, <2>2 DEF Asleep, AsReader, Mode, files
<1>5. \A q \in Proc : call'[q].op = call[q].op /\ call'[q].todo = call[q].todo =>
        /\ ReaderNotStranded(q)' <=> ReaderNotStranded(q)
        /\ WriterNotStranded(q)' <=> WriterNotStranded(q)
  BY <1>2, <1>3 DEF ReaderNotStranded, WriterNotStranded
<1> SUFFICES ASSUME NEW q \in Proc, Asleep(q)'
             PROVE  /\ AsReader(q)' => "psw" \in deferred' \/ ReaderNotStranded(q)'
                    /\ ~AsReader(q)' => "psr" \in deferred' \/ WriterNotStranded(q)'
  BY DEF WaitInv
<1>6. CASE q = p
  BY <1>4, <1>5, <1>6
<1>7. CASE q # p
  <2>1. Asleep(q)
    BY <1>4, <1>7
  <2>2. (AsReader(q) => Readers) /\ (~AsReader(q) => Writers)
    BY <2>1, SleeperMode, AsleepIn, SidesOpen DEF SidesAre, Mode
  <2>3. /\ AsReader(q) => "psw" \in deferred \/ ReaderNotStranded(q)
        /\ ~AsReader(q) => "psr" \in deferred \/ WriterNotStranded(q)
    BY <2>1, <2>2 DEF WaitInv
  <2>4. QED
    BY <1>2, <1>4, <1>5, <2>3
<1>8. QED
  BY <1>6, <1>7

(* p leaves its routine, and wakes whom it owes a wakeup. *)
LEMMA LeaveWait ==
  ASSUME PipeInv, PipeInv', WaitInv, NEW p \in Proc, Leaves(p), pnc' = pnc,
         deferred \subseteq deferred',
         OpeningWriter => (psr # 0 => "psw" \in deferred'),
         OpeningReader => (psw # 0 => "psr" \in deferred'),
         ~Draining
  PROVE  WaitInv'
<1>1. Others /\ FileInv /\ Return(p) /\ UNCHANGED files
  BY InvParts DEF Leaves
<1>2. (Readers' <=> Readers) /\ (Writers' <=> Writers)
  BY <1>1, SidesSame DEF files
<1> SUFFICES ASSUME NEW q \in Proc, Asleep(q)'
             PROVE  /\ AsReader(q)' => "psw" \in deferred' \/ ReaderNotStranded(q)'
                    /\ ~AsReader(q)' => "psr" \in deferred' \/ WriterNotStranded(q)'
  BY DEF WaitInv
<1>3. q # p
  BY <1>1, ReturnCalls DEF Asleep
<1>4. /\ Asleep(q) /\ call'[q].op = call[q].op /\ call'[q].todo = call[q].todo
      /\ AsReader(q)' <=> AsReader(q)
  BY <1>1, <1>3, ReturnCalls DEF Asleep, AsReader, Mode, files
<1>5. /\ ReaderNotStranded(q)' <=> ReaderNotStranded(q)
      /\ WriterNotStranded(q)' <=> WriterNotStranded(q)
  BY <1>2, <1>4 DEF ReaderNotStranded, WriterNotStranded
<1>6. (AsReader(q) => psr # 0) /\ (~AsReader(q) => psw # 0)
  BY <1>4, SleeperCount, AsleepIn
<1>7. QED
  BY <1>4, <1>5, <1>6 DEF WaitInv

LEMMA OpenReadWait ==
  ASSUME PipeInv, PipeInv', WaitInv, NEW p \in Proc, OpenRead(p)
  PROVE  WaitInv'
<1>1. /\ Runs(p) /\ call[p].op = "open" /\ Mode(p) = "r" /\ call[p].st # "eintr"
      /\ AsReader(p)
  BY DEF OpenRead, Opening, Runs, InRoutine, AsReader
<1>2. ~OpeningWriter /\ ~Draining
  BY <1>1, Owing DEF Runs
<1>3. CASE PSleep(p) /\ ~Writers
  <2>1. Sleeping(p) /\ ReaderNotStranded(p)
    BY <1>1, <1>3 DEF Sleeping, ReaderNotStranded
  <2>2. QED
    BY <1>1, <1>2, <1>3, <2>1, PSleepWait
<1>4. CASE /\ Return(p) /\ deferred' = deferred \cup WakeWriters(pnc, Readers)
           /\ UNCHANGED <<ring, counters, files>>
  <2>1. Leaves(p) /\ pnc' = pnc
    BY <1>1, <1>4 DEF Leaves, ring
  <2>2. psw # 0 => "psr" \in deferred'
    BY <1>4, WakesAre
  <2>3. deferred \subseteq deferred'
    BY <1>4
  <2>4. QED
    BY <1>2, <2>1, <2>2, <2>3, LeaveWait
<1>5. QED
  BY <1>3, <1>4 DEF OpenRead

LEMMA OpenFailsWait ==
  ASSUME PipeInv, PipeInv', WaitInv, NEW p \in Proc, OpenFails(p), Mode(p) = "w", ~Readers
  PROVE  WaitInv'
<1>1. /\ Others /\ FileInv /\ Return(p) /\ UNCHANGED <<pnc, psr, psw, deferred>>
      /\ par' = par - Count(Reads(Mode(p)))
      /\ fd' = [fd EXCEPT ![p] = NoFile] /\ mode' = [mode EXCEPT ![fd[p]] = "none"]
      /\ Gate(p) /\ call[p].op = "open" /\ Count(Reads(Mode(p))) = 0
  BY InvParts DEF OpenFails, FailOpen, Runs, ring, Reads, Count
<1>2. ~Readers'
  BY <1>1 DEF Others, Readers
<1>3. ~Draining /\ ~OpeningReader
  BY <1>1, Owing
<1>4. /\ \A q \in Proc \ {p} : fd'[q] = fd[q]
      /\ \A q \in Proc \ {p} : fd[q] # NoFile => mode'[fd[q]] = mode[fd[q]]
      /\ ~Asleep(p)'
  <2>1. \A q \in Proc \ {p} : fd[q] # fd[p]
    BY <1>1 DEF FileInv
  <2>2. ~Asleep(p)'
    BY <1>1, ReturnCalls DEF Asleep
  <2>3. QED
    BY <1>1, <2>1, <2>2 DEF Others
<1> SUFFICES ASSUME NEW q \in Proc, Asleep(q)'
             PROVE  ~AsReader(q)' /\ ("psr" \in deferred' \/ WriterNotStranded(q)')
  BY DEF WaitInv
<1>5. /\ Asleep(q) /\ call'[q].op = call[q].op /\ (AsReader(q)' <=> AsReader(q))
  BY <1>1, <1>4, ReturnCalls, OtherSleepers
<1>6. ~AsReader(q)
  BY <1>5, SleeperMode, AsleepIn, SidesOpen DEF SidesAre, Mode
<1>7. "psr" \in deferred \/ WriterNotStranded(q)
  BY <1>3, <1>5, <1>6 DEF WaitInv
<1>8. QED
  BY <1>1, <1>2, <1>5, <1>6, <1>7 DEF WriterNotStranded

LEMMA OpenWriteWait ==
  ASSUME PipeInv, PipeInv', WaitInv, NEW p \in Proc, OpenWrite(p)
  PROVE  WaitInv'
<1>1. /\ Runs(p) /\ call[p].op = "open" /\ Mode(p) = "w" /\ call[p].st # "eintr"
      /\ ~AsReader(p)
  BY DEF OpenWrite, Opening, Runs, InRoutine, AsReader
<1>2. ~OpeningReader /\ ~Draining
  BY <1>1, Owing DEF Runs
<1>3. CASE PSleep(p) /\ ~Readers
  <2>1. Sleeping(p) /\ WriterNotStranded(p)
    BY <1>1, <1>3 DEF Sleeping, WriterNotStranded
  <2>2. QED
    BY <1>1, <1>2, <1>3, <2>1, PSleepWait
<1>4. CASE FailOpen(p) /\ ~Readers /\ call[p].st = "run"
  BY <1>1, <1>4, OpenFailsWait DEF OpenFails
<1>5. CASE /\ Return(p) /\ deferred' = deferred \cup WakeReaders(pnc)
           /\ UNCHANGED <<ring, counters, files>>
  <2>1. Leaves(p) /\ pnc' = pnc
    BY <1>1, <1>5 DEF Leaves, ring
  <2>2. psr # 0 => "psw" \in deferred'
    BY <1>5, WakesAre
  <2>3. deferred \subseteq deferred'
    BY <1>5
  <2>4. QED
    BY <1>2, <2>1, <2>2, <2>3, LeaveWait
<1>6. QED
  BY <1>3, <1>4, <1>5 DEF OpenWrite

LEMMA ReadEmptyWait ==
  ASSUME PipeInv, PipeInv', WaitInv, NEW p \in Proc, ReadEmpty(p)
  PROVE  WaitInv'
<1>1. /\ Runs(p) /\ call[p].op = "read" /\ call[p].st # "eintr" /\ AsReader(p) /\ pnc = 0
  BY DEF ReadEmpty, Going, Runs, InRoutine, AsReader
<1>2. ~OpeningWriter /\ ~OpeningReader /\ ~Draining
  BY <1>1, Owing DEF Runs
<1>3. CASE PSleep(p) /\ Writers
  <2>1. Sleeping(p) /\ ReaderNotStranded(p)
    BY <1>1, <1>3 DEF Sleeping, ReaderNotStranded
  <2>2. QED
    BY <1>1, <1>2, <2>1, PSleepWait
<1>4. CASE Return(p) /\ UNCHANGED <<ring, counters, files, deferred>>
  <2>1. Leaves(p) /\ pnc' = pnc /\ deferred' = deferred
    BY <1>1, <1>4 DEF Leaves, ring
  <2>2. QED
    BY <1>2, <2>1, LeaveWait
<1>5. QED
  BY <1>3, <1>4 DEF ReadEmpty

(* Why a writer waits: a whole ring is free when nothing is in it. *)
LEMMA BlockedWhy ==
  ASSUME PipeInv, ~Resizing, NEW p \in Proc, call[p].op = "write", Readers, Blocked(p)
  PROVE  WriterNotStranded(p)
<1>1. RingType /\ RingInv /\ call[p] \in GoodCall
  BY InvParts DEF Others
<1>2. call[p].todo \in Seq(Byte) /\ call[p].todo # <<>>
  BY <1>1 DEF GoodCall
<1>3. PICK k \in Nat : k = Len(call[p].todo) /\ k > 0
  BY <1>2
<1>4. PIPSIZE \in Nat \ {0} /\ PIPSIZE - pwx \in Nat /\ PIPSIZE - pnc \in Nat
        /\ PIPSIZE - pwx > 0
  BY <1>1, RingHasSize DEF RingType, Cell
<1>5. Room(p) \in {PIPSIZE - pwx, k, PIPSIZE - pnc} /\ Room(p) \in Nat
        /\ Room(p) <= k
  BY <1>3, <1>4, LeastOf DEF Room
<1>6. Room(p) = 0 \/ (k <= PIPSIZE /\ Room(p) # k)
  BY <1>3 DEF Blocked
<1>7. pnc = 0 => pwx = 0
  BY <1>1, <1>4 DEF RingInv, At
<1>8. pnc > 0
  BY <1>1, <1>3, <1>4, <1>5, <1>6, <1>7 DEF RingType
<1>9. k > PIPSIZE => pnc = PIPSIZE
  BY <1>1, <1>3, <1>4, <1>5, <1>6 DEF RingType
<1>10. QED
  BY <1>3, <1>8, <1>9 DEF WriterNotStranded

LEMMA WriteEndsWait ==
  ASSUME PipeInv, PipeInv', WaitInv, ~Resizing, NEW p \in Proc,
         WriteBroken(p) \/ WriteBlocked(p)
  PROVE  WaitInv'
<1>1. /\ Runs(p) /\ call[p].op = "write" /\ call[p].st # "eintr" /\ ~AsReader(p)
  BY DEF WriteBroken, WriteBlocked, Going, Runs, InRoutine, AsReader
<1>2. ~OpeningWriter /\ ~OpeningReader /\ ~Draining
  BY <1>1, Owing DEF Runs
<1>3. CASE PSleep(p) /\ Readers /\ Blocked(p)
  <2>1. Sleeping(p) /\ WriterNotStranded(p)
    BY <1>1, <1>3, BlockedWhy DEF Sleeping
  <2>2. QED
    BY <1>1, <1>2, <2>1, PSleepWait
<1>4. CASE Return(p) /\ UNCHANGED <<ring, counters, files, deferred>>
  <2>1. Leaves(p) /\ pnc' = pnc /\ deferred' = deferred
    BY <1>1, <1>4 DEF Leaves, ring
  <2>2. QED
    BY <1>2, <2>1, LeaveWait
<1>5. QED
  BY <1>3, <1>4 DEF WriteBroken, WriteBlocked

LEMMA AbortWait ==
  ASSUME PipeInv, PipeInv', WaitInv, SilentInv, NEW p \in Proc, Abort(p)
  PROVE  WaitInv'
<1>1. Runs(p) /\ call[p].op # "open" /\ call[p].st = "eintr"
  <2>1. call[p] \in GoodCall /\ call[p].st = "eintr"
    BY InvParts DEF Others, Abort
  <2>2. InRoutine(p)
    BY <2>1 DEF InRoutine, GoodCall, NoCall, Ops
  <2>3. QED
    BY <2>1, <2>2 DEF Abort, Runs, SilentInv
<1>2. ~OpeningWriter /\ ~OpeningReader /\ ~Draining
  BY <1>1, Owing DEF Runs
<1>3. Leaves(p) /\ pnc' = pnc /\ deferred' = deferred
  BY <1>1 DEF Leaves, Abort, ring
<1>4. QED
  BY <1>2, <1>3, LeaveWait

(* The process that has the gate moves bytes. *)
LEMMA CopyCalls ==
  ASSUME Others, NEW p \in Proc, ReadChunk(p) \/ WriteChunk(p)
  PROVE  /\ UNCHANGED <<counters, files>> /\ Runs(p)
         /\ \A q \in Proc \ {p} : call'[q] = call[q]
         /\ ~Asleep(p)'
         /\ \/ call'[p].op = "none" /\ Return(p)
            \/ call'[p].op = call[p].op /\ call'[p].st = call[p].st /\ inode' = p
<1>1. CASE Leaves(p)
  BY <1>1, ReturnCalls DEF Leaves, Asleep
<1>2. CASE Continues(p)
  BY <1>2 DEF Continues, Asleep, Runs
<1>3. QED
  BY <1>1, <1>2, CopyShape

LEMMA ReadChunkWait ==
  ASSUME PipeInv, PipeInv', WaitInv, NEW p \in Proc, ReadChunk(p)
  PROVE  WaitInv'
<1> DEFINE n == ReadSize(p)
<1>1. /\ call[p].op = "read" /\ call[p].st \in {"run", "again"} /\ Gate(p) /\ pnc > 0
      /\ pnc' = pnc - n
      /\ \/ Return(p) /\ deferred' = deferred \cup WakeWriters(pnc', Readers)
         \/ pnc' # 0 /\ deferred' = deferred
      /\ Others /\ FileInv
  BY InvParts DEF ReadChunk, ReadSize, Going, Take
<1>2. pnc' >= 0
  BY DEF PipeInv, Typed
<1>3. ~OpeningWriter /\ ~OpeningReader
  BY <1>1, Owing
<1>4. (Readers' <=> Readers) /\ (Writers' <=> Writers)
  BY <1>1, CopyCalls, SidesSame DEF files
<1> SUFFICES ASSUME NEW q \in Proc, Asleep(q)'
             PROVE  /\ AsReader(q)' => "psw" \in deferred' \/ ReaderNotStranded(q)'
                    /\ ~AsReader(q)' => "psr" \in deferred' \/ Draining'
  BY DEF WaitInv
<1>5. /\ q # p /\ Asleep(q) /\ call'[q] = call[q] /\ (AsReader(q)' <=> AsReader(q))
  BY <1>1, CopyCalls DEF Asleep, AsReader, Mode, files
<1>6. ASSUME AsReader(q) PROVE "psw" \in deferred' \/ ReaderNotStranded(q)'
  <2>1. "psw" \in deferred \/ ReaderNotStranded(q)
    BY <1>3, <1>5, <1>6 DEF WaitInv
  <2>2. "psw" \in deferred => "psw" \in deferred'
    BY <1>1
  <2>3. call[q].op = "open" /\ ReaderNotStranded(q) => ReaderNotStranded(q)'
    BY <1>4, <1>5 DEF ReaderNotStranded
  <2>4. call[q].op # "open" => ~ReaderNotStranded(q)
    BY <1>1 DEF ReaderNotStranded
  <2>5. QED
    BY <2>1, <2>2, <2>3, <2>4
<1>7. ASSUME ~AsReader(q) PROVE "psr" \in deferred' \/ Draining'
  <2>1. psw # 0
    BY <1>5, <1>7, SleeperCount, AsleepIn
  <2>2. CASE deferred' = deferred \cup WakeWriters(pnc', Readers)
    BY <2>1, <2>2, WakesAre
  <2>3. CASE pnc' # 0 /\ ~Return(p)
    <3>1. inode' = p /\ call'[p].op = "read" /\ call'[p].st \in {"run", "again"}
      BY <1>1, <2>3, CopyCalls
    <3>2. pnc' > 0
      BY <1>2, <2>3 DEF PipeInv, Typed
    <3>3. QED
      BY <3>1, <3>2 DEF Draining
  <2>4. CASE pnc' # 0 /\ Return(p) /\ deferred' # deferred \cup WakeWriters(pnc', Readers)
    <3>1. call'[p].op = "none"
      BY <1>1, <2>4, ReturnCalls
    <3>2. call' # [call EXCEPT ![p].want = @ - n]
      <4>1. PICK c, k : c = call[p] /\ c \in GoodCall /\ c.op = "read" /\ k = c.want - n
        BY <1>1 DEF Others
      <4>2. [c EXCEPT !.want = k].op = "read"
        BY <4>1 DEF GoodCall
      <4>3. [call EXCEPT ![p].want = @ - n][p] = [c EXCEPT !.want = k]
        BY <1>1, <4>1 DEF Others
      <4>4. QED
        BY <3>1, <4>2, <4>3
    <3>3. QED
      BY <2>4, <3>2 DEF ReadChunk, ReadSize
  <2>5. QED
    BY <1>1, <2>2, <2>3, <2>4
<1>8. QED
  BY <1>5, <1>6, <1>7

LEMMA WriteChunkWait ==
  ASSUME PipeInv, PipeInv', WaitInv, NEW p \in Proc, WriteChunk(p)
  PROVE  WaitInv'
<1>1. /\ call[p].op = "write" /\ Gate(p) /\ ~Blocked(p) /\ pnc' = pnc + Room(p)
      /\ deferred' = deferred \cup WakeReaders(pnc')
      /\ Others /\ FileInv
  BY InvParts DEF WriteChunk, Going
<1>2. ~OpeningWriter /\ ~OpeningReader /\ ~Draining
  BY <1>1, Owing
<1>3. (Readers' <=> Readers) /\ (Writers' <=> Writers)
  BY <1>1, CopyCalls, SidesSame DEF files
<1>4. Room(p) \in Nat /\ Room(p) # 0 /\ pnc # PIPSIZE /\ pnc \in Nat
  <2>1. RingType /\ call[p] \in GoodCall /\ PIPSIZE \in Nat
    BY InvParts, RingHasSize DEF Others
  <2>2. PIPSIZE - pwx \in Nat /\ Len(call[p].todo) \in Nat /\ PIPSIZE - pnc \in Nat
    BY <2>1 DEF RingType, Cell, GoodCall
  <2>3. Room(p) \in Nat /\ Room(p) <= PIPSIZE - pnc
    BY <2>2, LeastOf DEF Room
  <2>4. Room(p) # 0
    BY <1>1 DEF Blocked
  <2>5. QED
    BY <2>1, <2>3, <2>4 DEF RingType
<1> SUFFICES ASSUME NEW q \in Proc, Asleep(q)'
             PROVE  /\ AsReader(q)' => "psw" \in deferred'
                    /\ ~AsReader(q)' => "psr" \in deferred' \/ WriterNotStranded(q)'
  BY DEF WaitInv
<1>5. /\ q # p /\ Asleep(q) /\ call'[q] = call[q] /\ (AsReader(q)' <=> AsReader(q))
  BY <1>1, CopyCalls DEF Asleep, AsReader, Mode, files
<1>6. ASSUME AsReader(q) PROVE "psw" \in deferred'
  BY <1>1, <1>5, <1>6, SleeperCount, AsleepIn, WakesAre
<1>7. ASSUME ~AsReader(q) PROVE "psr" \in deferred' \/ WriterNotStranded(q)'
  <2>1. "psr" \in deferred \/ WriterNotStranded(q)
    BY <1>2, <1>5, <1>7 DEF WaitInv
  <2>2. WriterNotStranded(q) => WriterNotStranded(q)'
    BY <1>1, <1>3, <1>4, <1>5 DEF WriterNotStranded
  <2>3. QED
    BY <1>1, <2>1, <2>2
<1>8. QED
  BY <1>5, <1>6, <1>7

LEMMA StartOpenWait ==
  ASSUME PipeInv, PipeInv', WaitInv, NEW p \in Proc, NEW f \in File, NEW m \in Modes[p],
         StartOpen(p, f, m)
  PROVE  WaitInv'
<1>1. /\ inode = NoProc /\ pnc' = pnc /\ psr' = psr /\ psw' = psw
      /\ par' = par + Count(Reads(m)) /\ paw' = paw + Count(Writes(m))
      /\ mode[f] = "none" /\ m \in {"r", "w", "rw"}
      /\ deferred \subseteq deferred'
      /\ m = "rw" => deferred' = deferred \cup WakeReaders(pnc) \cup WakeWriters(pnc, TRUE)
      /\ m # "rw" => /\ inode' = p /\ call'[p].op = "open" /\ call'[p].st = "run"
                     /\ Mode(p)' = m
      /\ ~Asleep(p)' /\ Others /\ FileInv
  <2>1. Others /\ FileInv
    BY InvParts
  <2>2. /\ inode = NoProc /\ pnc' = pnc /\ psr' = psr /\ psw' = psw
        /\ par' = par + Count(Reads(m)) /\ paw' = paw + Count(Writes(m))
        /\ mode[f] = "none"
        /\ deferred \subseteq deferred'
        /\ m = "rw" => deferred' = deferred \cup WakeReaders(pnc) \cup WakeWriters(pnc, TRUE)
    BY DEF StartOpen, ring
  <2>3. /\ m \in {"r", "w", "rw"} /\ fd'[p] = f /\ mode'[f] = m
        /\ m # "rw" => inode' = p /\ call'[p].op = "open" /\ call'[p].st = "run"
        /\ m = "rw" => call'[p] = NoCall
    BY <2>1, StartOpenCalls
  <2>4. Mode(p)' = m
    BY <2>3 DEF Mode
  <2>5. ~Asleep(p)'
    BY <2>3 DEF Asleep, NoCall
  <2>6. QED
    BY <2>1, <2>2, <2>3, <2>4, <2>5
<1>2. ~OpeningWriter /\ ~OpeningReader /\ ~Draining
  BY <1>1, NothingOwed
<1>3. /\ m = "r" => OpeningReader' /\ (Writers' <=> Writers)
      /\ m = "w" => OpeningWriter' /\ (Readers' <=> Readers)
  <2>1. m = "r" => paw' = paw
    BY <1>1 DEF Count, Writes, Others
  <2>2. m = "w" => par' = par
    BY <1>1 DEF Count, Reads, Others
  <2>3. QED
    BY <1>1, <2>1, <2>2 DEF OpeningReader, OpeningWriter, Readers, Writers
<1>4. \A q \in Proc \ {p} : Asleep(q)' =>
        /\ Asleep(q) /\ call'[q] = call[q] /\ (AsReader(q)' <=> AsReader(q))
  <2>1. \A q \in Proc : fd[q] # f
    BY <1>1, FileSet DEF FileInv, Mode
  <2>2. \A q \in Proc \ {p} :
          /\ call'[q] = call[q]
          /\ fd[q] # NoFile => fd'[q] = fd[q] /\ mode'[fd[q]] = mode[fd[q]]
    BY <1>1, <2>1, StartOpenCalls DEF Others
  <2>3. QED
    BY <1>1, <2>2, OtherSleepers
<1> SUFFICES ASSUME NEW q \in Proc, Asleep(q)'
             PROVE  /\ AsReader(q)' => \/ "psw" \in deferred' \/ OpeningWriter'
                                       \/ ReaderNotStranded(q)'
                    /\ ~AsReader(q)' => \/ "psr" \in deferred' \/ OpeningReader'
                                        \/ WriterNotStranded(q)'
  BY DEF WaitInv
<1>5. /\ Asleep(q) /\ call'[q] = call[q] /\ (AsReader(q)' <=> AsReader(q))
  BY <1>1, <1>4
<1>6. (AsReader(q) => psr # 0) /\ (~AsReader(q) => psw # 0)
  BY <1>5, SleeperCount, AsleepIn
<1>7. CASE m = "rw"
  BY <1>1, <1>5, <1>6, <1>7, WakesAre
<1>8. CASE m = "r"
  <2>1. ReaderNotStranded(q) => ReaderNotStranded(q)'
    BY <1>1, <1>3, <1>5, <1>8 DEF ReaderNotStranded
  <2>2. AsReader(q) => "psw" \in deferred \/ ReaderNotStranded(q)
    BY <1>2, <1>5 DEF WaitInv
  <2>3. QED
    BY <1>1, <1>3, <1>5, <1>8, <2>1, <2>2
<1>9. CASE m = "w"
  <2>1. WriterNotStranded(q) => WriterNotStranded(q)'
    BY <1>1, <1>3, <1>5, <1>9 DEF WriterNotStranded
  <2>2. ~AsReader(q) => "psr" \in deferred \/ WriterNotStranded(q)
    BY <1>2, <1>5 DEF WaitInv
  <2>3. QED
    BY <1>1, <1>3, <1>5, <1>9, <2>1, <2>2
<1>10. QED
  BY <1>1, <1>7, <1>8, <1>9

LEMMA CloseWait ==
  ASSUME PipeInv, PipeInv', WaitInv, NEW p \in Proc, Close(p)
  PROVE  WaitInv'
<1>1. /\ call' = call /\ inode' = inode /\ Others /\ FileInv /\ call[p] = NoCall
      /\ fd' = [fd EXCEPT ![p] = NoFile] /\ ~Asleep(p)'
  BY InvParts DEF Close, Asleep, NoCall
<1>2. CASE \E q \in Proc \ {p} : fd[q] = fd[p]
  <2>1. UNCHANGED <<ring, counters, mode, deferred>>
    BY <1>2 DEF Close
  <2>2. (Readers' <=> Readers) /\ (Writers' <=> Writers)
    BY <2>1, SidesSame
  <2>3. \A q \in Proc \ {p} : Asleep(q)' =>
           /\ Asleep(q) /\ call'[q].op = call[q].op /\ call'[q].todo = call[q].todo
           /\ AsReader(q)' <=> AsReader(q)
    <3>1. \A q \in Proc \ {p} :
            /\ call'[q] = call[q]
            /\ fd[q] # NoFile => fd'[q] = fd[q] /\ mode'[fd[q]] = mode[fd[q]]
      BY <1>1, <2>1 DEF Others
    <3>2. QED
      BY <1>1, <3>1, OtherSleepers
  <2>4. /\ OpeningWriter => OpeningWriter'
        /\ OpeningReader => OpeningReader'
        /\ Draining => Draining'
    <3>1. \A q \in Proc : call[q].op = "open" => Mode(q)' = Mode(q)
      BY <1>1, <2>1 DEF Others, Mode, NoCall
    <3>2. QED
      BY <1>1, <2>1, <3>1 DEF OpeningWriter, OpeningReader, Draining, ring
  <2>5. pnc' = pnc /\ deferred' = deferred
    BY <2>1 DEF ring
  <2>6. SleepersKept
    BY <1>1, <2>3 DEF SleepersKept
  <2>7. OwedKept
    BY <2>4 DEF OwedKept
  <2>8. SidesKeptOpen
    BY <2>2 DEF SidesKeptOpen
  <2>9. QED
    BY <2>5, <2>6, <2>7, <2>8, WaitKept
<1>3. CASE ~ \E q \in Proc \ {p} : fd[q] = fd[p]
  <2>1. /\ mode' = [mode EXCEPT ![fd[p]] = "none"] /\ fd[p] # NoFile
        /\ deferred' = deferred \cup WakeReaders(pnc) \cup WakeWriters(pnc, Readers)
    BY <1>3 DEF Close
  <2>2. ASSUME NEW q \in Proc, Asleep(q)'
        PROVE  Asleep(q) /\ (AsReader(q)' <=> AsReader(q))
    <3>1. \A x \in Proc \ {p} :
            /\ call'[x] = call[x]
            /\ fd[x] # NoFile => fd'[x] = fd[x] /\ mode'[fd[x]] = mode[fd[x]]
      BY <1>1, <1>3, <2>1 DEF Others
    <3>2. QED
      BY <1>1, <2>2, <3>1, OtherSleepers
  <2>3. ASSUME NEW q \in Proc, Asleep(q)'
        PROVE  /\ AsReader(q)' => "psw" \in deferred'
               /\ ~AsReader(q)' => "psr" \in deferred'
    BY <2>1, <2>2, <2>3, SleeperCount, AsleepIn, WakesAre
  <2>4. QED
    BY <2>3 DEF WaitInv
<1>4. QED
  BY <1>2, <1>3

(* A deferred wakeup of one side is made. *)
LEMMA DefendWait ==
  ASSUME PipeInv, PipeInv', WaitInv, NEW c \in {"psr", "psw"}, Defend(c)
  PROVE  WaitInv'
<1>1. /\ UNCHANGED <<ring, counters, inode, files>> /\ deferred' = deferred \ {c}
      /\ call' = [p \in Proc |->
                    IF Asleep(p) /\ AsReader(p) = (c = "psw")
                    THEN [call[p] EXCEPT !.st = "woken"] ELSE call[p]]
      /\ Others
  BY InvParts DEF Defend
<1>2. (Readers' <=> Readers) /\ (Writers' <=> Writers)
  BY <1>1, SidesSame DEF files
<1>3. ASSUME NEW q \in Proc, Asleep(q)'
      PROVE  /\ Asleep(q) /\ call'[q] = call[q] /\ (AsReader(q)' <=> AsReader(q))
             /\ AsReader(q) => c # "psw"
             /\ ~AsReader(q) => c # "psr"
  <2>1. \/ call'[q] = call[q] /\ ~ (Asleep(q) /\ AsReader(q) = (c = "psw"))
        \/ call'[q] = [call[q] EXCEPT !.st = "woken"]
    BY <1>1
  <2>2. [call[q] EXCEPT !.st = "woken"].st = "woken"
    BY <1>1 DEF Others, GoodCall
  <2>3. call'[q] = call[q] /\ ~ (Asleep(q) /\ AsReader(q) = (c = "psw"))
    BY <1>3, <2>1, <2>2 DEF Asleep
  <2>4. Asleep(q) /\ (AsReader(q)' <=> AsReader(q))
    BY <1>1, <1>3, <2>3 DEF Asleep, AsReader, Mode, files
  <2>5. (AsReader(q) => c # "psw") /\ (~AsReader(q) => c # "psr")
    BY <2>3, <2>4 DEF AsReader
  <2>6. QED
    BY <2>3, <2>4, <2>5
<1>4. /\ OpeningWriter => OpeningWriter'
      /\ OpeningReader => OpeningReader'
      /\ Draining => Draining'
  <2>1. \A q \in Proc : /\ call[q].st \in {"run", "again"} => call'[q] = call[q]
    BY <1>1 DEF Asleep
  <2>2. QED
    BY <1>1, <2>1 DEF OpeningWriter, OpeningReader, Draining, Mode, files, ring
<1> SUFFICES ASSUME NEW q \in Proc, Asleep(q)'
             PROVE  /\ AsReader(q)' => \/ "psw" \in deferred' \/ OpeningWriter'
                                       \/ ReaderNotStranded(q)'
                    /\ ~AsReader(q)' => \/ "psr" \in deferred' \/ OpeningReader' \/ Draining'
                                        \/ WriterNotStranded(q)'
  BY DEF WaitInv
<1>5. /\ ReaderNotStranded(q) => ReaderNotStranded(q)'
      /\ WriterNotStranded(q) => WriterNotStranded(q)'
  BY <1>1, <1>2, <1>3 DEF ReaderNotStranded, WriterNotStranded, ring
<1>6. QED
  BY <1>1, <1>3, <1>4, <1>5 DEF WaitInv

(* Steps of processes that are not at work on the ring. *)
LEMMA QuietWait ==
  ASSUME PipeInv, PipeInv', WaitInv, UNCHANGED <<pnc, inode, files>>,
         \A c \in deferred : c \in {"psr", "psw"} => c \in deferred',
         \A q \in Proc : /\ InRoutine(q) /\ call[q].st \in {"run", "again"} => call'[q] = call[q]
                         /\ Asleep(q)' => /\ Asleep(q) /\ call'[q].op = call[q].op
                                          /\ call'[q].todo = call[q].todo
  PROVE  WaitInv'
<1>1. SleepersKept
  BY DEF SleepersKept, AsReader, Mode, files
<1>2. OwedKept
  <2>1. \A q \in Proc : Mode(q)' = Mode(q)
    BY DEF Mode, files
  <2>2. OpeningWriter => OpeningWriter'
    BY <2>1 DEF OpeningWriter, InRoutine
  <2>3. OpeningReader => OpeningReader'
    BY <2>1 DEF OpeningReader, InRoutine
  <2>4. Draining => Draining'
    BY DEF Draining, InRoutine
  <2>5. QED
    BY <2>2, <2>3, <2>4 DEF OwedKept
<1>3. SidesKeptOpen
  <2>1. mode' = mode
    BY DEF files
  <2>2. QED
    BY <2>1, SidesSame DEF SidesKeptOpen
<1>4. QED
  BY <1>1, <1>2, <1>3, WaitKept

LEMMA EntryFields ==
  /\ NoCall.op = "none" /\ NoCall.st = "run"
  /\ \A on : Polls(on).op = "poll" /\ Polls(on).st = "asleep" /\ Polls(on).on = on
BY DEF NoCall, Polls

LEMMA AroundWait ==
  ASSUME PipeInv, PipeInv', WaitInv, NEW p \in Proc,
         \/ Back(p) \/ Signal(p) \/ PollTimeout(p) \/ PollAgain(p)
         \/ \E on \in (SUBSET {"iev", "oev"}) \ {{}} : Poll(p, on)
  PROVE  WaitInv'
<1>0. Others
  BY InvParts
<1>1. UNCHANGED <<pnc, inode, files, deferred>>
  BY DEF Back, Resume, Signal, PollTimeout, PollAgain, Poll, ring
<1>2. ~ (InRoutine(p) /\ call[p].st \in {"run", "again"})
  BY DEF Back, Resume, InPSleep, Signal, PollTimeout, PollAgain, Poll, InRoutine, NoCall
<1>3. ~Asleep(p)'
  <2>1. CASE Back(p)
    BY <1>0, <2>1, BackCalls DEF Asleep
  <2>2. CASE Signal(p) \/ PollTimeout(p)
    <3>1. \E s \in {"woken", "signalled"} : call' = [call EXCEPT ![p].st = s]
      BY <2>2 DEF Signal, PollTimeout
    <3>2. call'[p].st \in {"woken", "signalled"}
      BY <1>0, <3>1 DEF Others, GoodCall
    <3>3. QED
      BY <3>2 DEF Asleep
  <2>3. CASE PollAgain(p) \/ \E on \in (SUBSET {"iev", "oev"}) \ {{}} : Poll(p, on)
    <3>1. \/ call' = [call EXCEPT ![p] = NoCall]
          \/ \E on : call' = [call EXCEPT ![p] = Polls(on)]
      BY <2>3 DEF PollAgain, Poll, PollSleep
    <3>2. call'[p] = NoCall \/ \E on : call'[p] = Polls(on)
      BY <1>0, <3>1 DEF Others
    <3>3. call'[p].st = "run" \/ call'[p].op = "poll"
      BY <3>2, EntryFields
    <3>4. QED
      BY <3>3 DEF Asleep
  <2>4. QED
    BY <2>1, <2>2, <2>3
<1>4. \A q \in Proc \ {p} : call'[q] = call[q]
  BY <1>0 DEF Others, Back, Resume, Signal, PollTimeout, PollAgain, Poll, PollSleep
<1>5. QED
  BY <1>1, <1>2, <1>3, <1>4, QuietWait DEF Asleep

LEMMA DPollWakeWait ==
  ASSUME PipeInv, PipeInv', WaitInv, NEW c \in {"iev", "oev"}, DPollWake(c)
  PROVE  WaitInv'
<1>1. /\ UNCHANGED <<pnc, inode, files>> /\ deferred' = deferred \ {c}
      /\ call' = [p \in Proc |->
                IF call[p].st = "asleep" /\ c \in call[p].on
                THEN [call[p] EXCEPT !.st = "woken"] ELSE call[p]]
      /\ Others
  BY InvParts DEF DPollWake, ring
<1>2. ASSUME NEW q \in Proc
      PROVE  /\ call[q].st \in {"run", "again"} => call'[q] = call[q]
             /\ call'[q].st = "asleep" => call'[q] = call[q]
  <2>1. \/ call'[q] = call[q]
        \/ call'[q] = [call[q] EXCEPT !.st = "woken"] /\ call[q].st = "asleep"
    BY <1>1
  <2>2. [call[q] EXCEPT !.st = "woken"].st = "woken"
    BY <1>1 DEF Others, GoodCall
  <2>3. QED
    BY <2>1, <2>2
<1>3. QED
  BY <1>1, <1>2, QuietWait DEF Asleep

LEMMA TransferWait ==
  ASSUME PipeInv, PipeInv', WaitInv, NEW p \in Proc, Transfer(p)
  PROVE  WaitInv'
<1>0. Others
  BY InvParts
<1>1. inode = NoProc /\ UNCHANGED <<pnc, files, deferred>> /\ ~Asleep(p)'
        /\ \A q \in Proc \ {p} : call'[q] = call[q]
  <2>1. UNCHANGED <<pnc, deferred>>
    BY DEF Transfer, StartRead, StartWrite, ring
  <2>2. QED
    BY <1>0, <2>1, TransferCalls DEF Asleep
<1>2. SleepersKept
  BY <1>1 DEF SleepersKept, Asleep, AsReader, Mode, files
<1>3. OwedKept
  BY <1>1, NothingOwed DEF OwedKept
<1>4. SidesKeptOpen
  BY <1>1, SidesSame DEF SidesKeptOpen, files
<1>5. QED
  BY <1>1, <1>2, <1>3, <1>4, WaitKept

LEMMA ForkWait ==
  ASSUME PipeInv, PipeInv', WaitInv, NEW p \in Proc, NEW q \in Proc, Fork(p, q)
  PROVE  WaitInv'
<1>1. /\ UNCHANGED <<pnc, inode, mode, deferred, call>>
      /\ call[q].op = "none" /\ call[q].st = "run"
      /\ \A x \in Proc \ {q} : fd'[x] = fd[x]
  BY InvParts DEF Fork, ring, NoCall, Others
<1>2. ~Asleep(q)' /\ \A x \in Proc \ {q} : Mode(x)' = Mode(x)
  BY <1>1 DEF Asleep, Mode
<1>3. SleepersKept
  BY <1>1, <1>2 DEF SleepersKept, Asleep, AsReader
<1>4. OwedKept
  BY <1>1, <1>2 DEF OwedKept, OpeningWriter, OpeningReader, Draining
<1>5. SidesKeptOpen
  BY <1>1, SidesSame DEF SidesKeptOpen
<1>6. QED
  BY <1>1, <1>3, <1>4, <1>5, WaitKept

LEMMA WaitStep ==
  ASSUME ~Resizing, PipeInv, PipeInv', SilentInv, WaitInv, [Next]_vars
  PROVE  WaitInv'
<1>1. CASE UNCHANGED vars
  BY <1>1, QuietWait DEF vars, ring, Asleep
<1>2. ASSUME NEW p \in Proc, Step(p) PROVE WaitInv'
  BY <1>2, OpenReadWait, OpenWriteWait, ReadEmptyWait, ReadChunkWait, WriteEndsWait,
     WriteChunkWait, AbortWait DEF Step
<1>3. ASSUME NEW p \in Proc,
             \/ Back(p) \/ Signal(p) \/ PollTimeout(p) \/ PollAgain(p)
             \/ \E on \in (SUBSET {"iev", "oev"}) \ {{}} : Poll(p, on)
      PROVE  WaitInv'
  BY <1>3, AroundWait
<1>4. ASSUME NEW p \in Proc, Transfer(p) \/ Close(p) \/ \E q \in Proc : Fork(p, q)
      PROVE  WaitInv'
  BY <1>4, TransferWait, CloseWait, ForkWait
<1>5. ASSUME NEW p \in Proc, NEW f \in File, NEW m \in Modes[p], StartOpen(p, f, m)
      PROVE  WaitInv'
  BY <1>5, StartOpenWait
<1>6. ASSUME NEW c \in {"psr", "psw"}, Defend(c) PROVE WaitInv'
  BY <1>6, DefendWait
<1>7. ASSUME NEW c \in {"iev", "oev"}, DPollWake(c) PROVE WaitInv'
  BY <1>7, DPollWakeWait
<1>8. ASSUME NEW p \in Proc, NEW n \in 0..PIPSIZE, Chsize(p, n) PROVE WaitInv'
  BY <1>8 DEF Chsize
<1>9. QED
  BY <1>1, <1>2, <1>3, <1>4, <1>5, <1>6, <1>7, <1>8 DEF Next

LEMMA SilentStep ==
  ASSUME ~OpenSignals, PipeInv, SilentInv, [Next]_vars
  PROVE  SilentInv'
<1>0. Others
  BY InvParts
<1>1. ASSUME \A q \in Proc : call'[q].op = "open" =>
               \/ call[q].op = "open" /\ call'[q].st = call[q].st
               \/ call'[q].st \notin {"signalled", "eintr"}
      PROVE  SilentInv'
  BY <1>1 DEF SilentInv
<1>2. CASE UNCHANGED vars
  BY <1>1, <1>2 DEF vars
<1>3. ASSUME NEW p \in Proc, PSleep(p) PROVE SilentInv'
  <2>1. call[p].op = "open" => call' = [call EXCEPT ![p].st = "asleep"]
    BY <1>3 DEF PSleep
  <2>2. call[p].op = "open" => call'[p].st = "asleep"
    BY <1>0, <2>1 DEF Others, GoodCall
  <2>3. QED
    BY <1>0, <1>1, <1>3, <2>2, PSleepCalls
<1>4. ASSUME NEW p \in Proc, Return(p) PROVE SilentInv'
  BY <1>0, <1>1, <1>4, ReturnCalls
<1>5. ASSUME NEW p \in Proc, Step(p) PROVE SilentInv'
  <2>1. Leaves(p) \/ Continues(p) \/ Sleeping(p) \/ OpenFails(p)
    BY <1>0, <1>5, RoutineShape
  <2>2. CASE Continues(p)
    BY <1>1, <2>2 DEF Continues
  <2>3. QED
    BY <1>3, <1>4, <2>1, <2>2 DEF Leaves, Sleeping, OpenFails, FailOpen
<1>6. ASSUME NEW p \in Proc, Back(p) PROVE SilentInv'
  <2>1. call[p].op = "open" => call[p].st = "woken"
    BY <1>0, <1>6, BackCalls DEF SilentInv
  <2>2. call[p].st = "woken" => call'[p].st = "again"
    BY <1>0, <1>6 DEF Back, Resume, Others, GoodCall
  <2>3. QED
    BY <1>0, <1>1, <1>6, <2>1, <2>2, BackCalls
<1>7. ASSUME NEW p \in Proc, Signal(p) \/ PollTimeout(p) PROVE SilentInv'
  <2>1. call[p].op # "open" /\ \E s : call' = [call EXCEPT ![p].st = s]
    BY <1>7 DEF Signal, PollTimeout
  <2>2. call'[p].op # "open" /\ \A q \in Proc \ {p} : call'[q] = call[q]
    BY <1>0, <2>1 DEF Others, GoodCall
  <2>3. QED
    BY <1>1, <2>2
<1>8. ASSUME NEW p \in Proc,
             PollAgain(p) \/ \E on \in (SUBSET {"iev", "oev"}) \ {{}} : Poll(p, on)
      PROVE  SilentInv'
  <2>1. \/ call' = [call EXCEPT ![p] = NoCall]
        \/ \E on : call' = [call EXCEPT ![p] = Polls(on)]
    BY <1>8 DEF PollAgain, Poll, PollSleep
  <2>2. /\ call'[p] = NoCall \/ \E on : call'[p] = Polls(on)
        /\ \A q \in Proc \ {p} : call'[q] = call[q]
    BY <1>0, <2>1 DEF Others
  <2>3. call'[p].op # "open"
    BY <2>2, EntryFields
  <2>4. QED
    BY <1>1, <2>2, <2>3
<1>9. ASSUME NEW p \in Proc, Transfer(p) PROVE SilentInv'
  BY <1>0, <1>1, <1>9, TransferCalls
<1>10. ASSUME NEW p \in Proc, Close(p) \/ \E q \in Proc : Fork(p, q) PROVE SilentInv'
  BY <1>1, <1>10 DEF Close, Fork
<1>11. ASSUME NEW p \in Proc, NEW f \in File, NEW m \in Modes[p], StartOpen(p, f, m)
       PROVE  SilentInv'
  BY <1>0, <1>1, <1>11, StartOpenCalls DEF NoCall
<1>12. ASSUME NEW c, Defend(c) \/ DPollWake(c) PROVE SilentInv'
  <2>1. \E S : call' = [p \in Proc |-> IF p \in S THEN [call[p] EXCEPT !.st = "woken"] ELSE call[p]]
    BY <1>12, DefendIs, DPollWakeIs
  <2>2. \A q \in Proc : /\ call'[q].op = call[q].op
                        /\ call'[q].st = call[q].st \/ call'[q].st = "woken"
    BY <1>0, <2>1 DEF Others, GoodCall
  <2>3. QED
    BY <1>1, <2>2
<1>13. ASSUME NEW p \in Proc, NEW n \in 0..PIPSIZE, Chsize(p, n) PROVE SilentInv'
  BY <1>1, <1>13 DEF Chsize
<1>14. QED
  BY <1>2, <1>5, <1>6, <1>7, <1>8, <1>9, <1>10, <1>11, <1>12, <1>13 DEF Next

LEMMA WaitInit == Init => SilentInv /\ WaitInv
<1> SUFFICES ASSUME Init PROVE SilentInv /\ WaitInv
  OBVIOUS
<1>1. \A p \in Proc : call[p].op = "none" /\ call[p].st = "run"
  BY DEF Init, NoCall
<1>2. QED
  BY <1>1 DEF SilentInv, WaitInv, Asleep

(* With the inode unlocked nobody sleeps in psleep() for what is there: the
   wakeups of pread(), pwrite(), popen() and pclose() are enough, as long as no
   signal ends a wait in popen() and nobody calls chsize() on the pipe. *)
THEOREM NobodyStrandedHolds ==
  ASSUME ~OpenSignals, ~Resizing PROVE Spec => []NobodyStranded
<1>1. PipeInv /\ PipeInv' /\ SilentInv /\ WaitInv /\ [Next]_vars => (SilentInv /\ WaitInv)'
  BY WaitStep, SilentStep
<1>2. WaitInv => NobodyStranded
  BY NothingOwed DEF WaitInv, NobodyStranded
<1>3. QED
  BY <1>1, <1>2, WaitInit, PipeInvariant, PTL DEF Spec

-----------------------------------------------------------------------------
(* Who sleeps in poll(). *)

(* The open for reading that is under way is the only one. *)
OpeningFirst ==
  \E p \in Proc :
    /\ inode = p /\ call[p].op = "open" /\ call[p].st = "run" /\ Mode(p) = "r"
    /\ \A f \in File \ {fd[p]} : ~Reads(mode[f])

PollOwed == Draining \/ OpeningFirst

(* NoPollMissed, with the inode locked too. *)
PollInv ==
  \A p \in Proc : call[p].op = "poll" =>
    /\ Polling
    /\ call[p].st = "asleep" =>
         /\ "iev" \in call[p].on /\ PollIn(pnc) => "iev" \in deferred
         /\ "oev" \in call[p].on /\ PollOut(pnc, Readers) => "oev" \in deferred \/ PollOwed

(* Nobody begins to sleep in poll(), and what becomes ready is announced. *)
PollersKept ==
  \A q \in Proc : call'[q].op = "poll" =>
    /\ call[q].op = "poll"
    /\ call'[q].st = "asleep" => call[q].st = "asleep" /\ call'[q].on = call[q].on
QueuesKept == \A c \in deferred : c \in {"iev", "oev"} => c \in deferred'
InKept == PollIn(pnc') => PollIn(pnc) \/ "iev" \in deferred'
OutKept ==
  PollOut(pnc', Readers') =>
    "oev" \in deferred' \/ PollOwed' \/ (PollOut(pnc, Readers) /\ ~PollOwed)

LEMMA PollKept ==
  ASSUME PollInv, PollersKept, QueuesKept, Polling => InKept /\ OutKept
  PROVE  PollInv'
<1> SUFFICES ASSUME NEW q \in Proc, call'[q].op = "poll"
             PROVE  /\ Polling
                    /\ call'[q].st = "asleep" =>
                         /\ "iev" \in call'[q].on /\ PollIn(pnc') => "iev" \in deferred'
                         /\ "oev" \in call'[q].on /\ PollOut(pnc', Readers') =>
                              "oev" \in deferred' \/ PollOwed'
  BY DEF PollInv
<1>1. /\ call[q].op = "poll"
      /\ call'[q].st = "asleep" => call[q].st = "asleep" /\ call'[q].on = call[q].on
  BY DEF PollersKept
<1>2. /\ Polling
      /\ call[q].st = "asleep" =>
         /\ "iev" \in call[q].on /\ PollIn(pnc) => "iev" \in deferred
         /\ "oev" \in call[q].on /\ PollOut(pnc, Readers) => "oev" \in deferred \/ PollOwed
  BY <1>1 DEF PollInv
<1>3. ASSUME call'[q].st = "asleep", "iev" \in call'[q].on, PollIn(pnc')
      PROVE  "iev" \in deferred'
  BY <1>1, <1>2, <1>3 DEF QueuesKept, InKept
<1>4. ASSUME call'[q].st = "asleep", "oev" \in call'[q].on, PollOut(pnc', Readers')
      PROVE  "oev" \in deferred' \/ PollOwed'
  BY <1>1, <1>2, <1>4 DEF QueuesKept, OutKept
<1>5. QED
  BY <1>2, <1>3, <1>4

(* Only p's call changes, and not to a poll. *)
LEMMA PollersOfOthers ==
  ASSUME NEW p \in Proc, call'[p].op # "poll", \A q \in Proc \ {p} : call'[q] = call[q]
  PROVE  PollersKept
BY DEF PollersKept

(* Nothing is owed but by p, which has or takes the gate. *)
LEMMA PollOwing ==
  ASSUME PipeInv, NEW p \in Proc, Gate(p)
  PROVE  PollOwed =>
           \/ call[p].op = "read" /\ call[p].st \in {"run", "again"} /\ pnc > 0
           \/ call[p].op = "open" /\ Mode(p) = "r" /\ call[p].st = "run"
                /\ \A f \in File \ {fd[p]} : ~Reads(mode[f])
BY FileSet DEF PollOwed, Gate, OpeningFirst, Draining

LEMMA NoPollOwed ==
  ASSUME inode = NoProc PROVE ~PollOwed
BY FileSet DEF PollOwed, OpeningFirst, Draining

(* The steps that leave the ring as it is, and open no file for reading. *)
LEMMA SamePolls ==
  ASSUME PollInv, PollersKept, QueuesKept, pnc' = pnc, Readers' => Readers, PollOwed => PollOwed'
  PROVE  PollInv'
<1>1. InKept /\ OutKept
  BY DEF InKept, OutKept, PollOut
<1>2. QED
  BY <1>1, PollKept

LEMMA FewerReaders ==
  ASSUME PipeInv, PipeInv', ReadersOf(mode') \subseteq ReadersOf(mode)
  PROVE  Readers' => Readers
BY SidesOpen, SidesOpenNext DEF SidesAre, ReadersOf

LEMMA QueuesAre ==
  ASSUME Polling, NEW n, NEW readers
  PROVE  /\ PollIn(n) => "iev" \in WakeReaders(n)
         /\ PollOut(n, readers) => "oev" \in WakeWriters(n, readers)
BY DEF WakeReaders, WakeWriters, Deferred

(* A routine that goes to sleep or ends without having changed the ring. *)
LEMMA IdlePolls ==
  ASSUME PipeInv, PipeInv', PollInv, NEW p \in Proc, Leaves(p) \/ Sleeping(p) \/ OpenFails(p),
         pnc' = pnc, deferred \subseteq deferred', ~PollOwed
  PROVE  PollInv'
<1>1. Others /\ FileInv
  BY InvParts
<1>2. PollersKept
  <2>1. call'[p].op # "poll" /\ \A q \in Proc \ {p} : call'[q] = call[q]
    BY <1>1, ReturnCalls, PSleepCalls DEF Leaves, Sleeping, OpenFails, FailOpen, Runs, InRoutine
  <2>2. QED
    BY <2>1, PollersOfOthers
<1>3. ReadersOf(mode') \subseteq ReadersOf(mode)
  <2>1. mode' = mode \/ mode' = [mode EXCEPT ![fd[p]] = "none"]
    BY <1>1, PSleepCalls DEF Leaves, Sleeping, OpenFails, FailOpen, files
  <2>2. QED
    BY <1>1, <2>1 DEF ReadersOf, Reads, Others
<1>4. Readers' => Readers
  BY <1>3, FewerReaders
<1>5. QED
  BY <1>2, <1>4, SamePolls DEF QueuesKept

LEMMA OpenReadPolls ==
  ASSUME PipeInv, PipeInv', PollInv, NEW p \in Proc, OpenRead(p)
  PROVE  PollInv'
<1>0. Others /\ FileInv
  BY InvParts
<1>1. Runs(p) /\ call[p].op = "open" /\ Mode(p) = "r" /\ call[p].st # "eintr"
  BY DEF OpenRead, Opening, Runs, InRoutine
<1>2. CASE /\ Return(p) /\ deferred' = deferred \cup WakeWriters(pnc, Readers)
           /\ UNCHANGED <<ring, counters, files>>
  <2>1. pnc' = pnc /\ (Readers' <=> Readers)
    BY <1>2 DEF ring, counters, Readers
  <2>2. PollersKept
    BY <1>0, <1>2, ReturnCalls, PollersOfOthers
  <2>3. Polling => InKept /\ OutKept
    BY <1>2, <2>1, QueuesAre DEF InKept, OutKept, PollOut
  <2>4. QED
    BY <1>2, <2>2, <2>3, PollKept DEF QueuesKept
<1>3. CASE PSleep(p) /\ ~Writers
  <2>1. Sleeping(p) /\ pnc' = pnc /\ deferred' = deferred
    BY <1>1, <1>3 DEF Sleeping, PSleep, ring
  <2>2. CASE ~PollOwed
    BY <2>1, <2>2, IdlePolls
  <2>3. CASE PollOwed
    <3>1. \A f \in File \ {fd[p]} : ~Reads(mode[f])
      BY <1>1, <2>3, PollOwing DEF Runs
    <3>2. \A f \in File : ~Writes(mode[f])
      BY <1>3, SidesOpen DEF SidesAre
    <3>3. \A q \in Proc : call[q].op # "poll"
      <4> SUFFICES ASSUME NEW q \in Proc, call[q].op = "poll" PROVE FALSE
        OBVIOUS
      <4>1. fd[q] # NoFile /\ Mode(q) # "none" /\ fd[q] # fd[p]
        BY <1>0, <1>1 DEF FileInv
      <4>2. fd[q] \in File /\ Mode(q) \in {"r", "w", "rw"}
        BY <1>0, <4>1 DEF Others, Mode
      <4>3. QED
        BY <3>1, <3>2, <4>1, <4>2 DEF Reads, Writes, Mode
    <3>4. \A q \in Proc : call'[q].op # "poll"
      BY <1>0, <1>3, <3>3, PSleepCalls
    <3>5. QED
      BY <3>4 DEF PollInv
  <2>4. QED
    BY <2>2, <2>3
<1>4. QED
  BY <1>2, <1>3 DEF OpenRead

LEMMA ReadChunkPolls ==
  ASSUME PipeInv, PipeInv', PollInv, NEW p \in Proc, ReadChunk(p)
  PROVE  PollInv'
<1> DEFINE n == ReadSize(p)
<1>0. Others /\ RingType /\ RingInv /\ FileInv
  BY InvParts
<1>1. /\ call[p].op = "read" /\ call[p].st \in {"run", "again"} /\ pnc > 0
      /\ deferred \subseteq deferred' /\ (Readers' <=> Readers)
      /\ \/ deferred' = deferred \cup WakeWriters(pnc', Readers)
         \/ pnc' # 0 /\ inode' = p /\ call' = [call EXCEPT ![p].want = @ - n]
  BY DEF ReadChunk, ReadSize, Going, counters, Readers
<1>2. pnc' >= 0 /\ (pnc' # 0 => pnc' > 0)
  BY DEF PipeInv, Typed
<1>3. PollersKept
  BY <1>0, <1>1, CopyCalls, PollersOfOthers
<1>4. InKept
  BY <1>1 DEF InKept, PollIn
<1>5. ASSUME Polling PROVE OutKept
  <2>1. CASE deferred' = deferred \cup WakeWriters(pnc', Readers)
    <3>1. PollOut(pnc', Readers') => PollOut(pnc', Readers)
      BY <1>1 DEF PollOut
    <3>2. PollOut(pnc', Readers) => "oev" \in WakeWriters(pnc', Readers)
      BY <1>5, QueuesAre
    <3>3. QED
      BY <2>1, <3>1, <3>2 DEF OutKept
  <2>2. CASE pnc' # 0 /\ inode' = p /\ call' = [call EXCEPT ![p].want = @ - n]
    <3>1. call'[p].op = "read" /\ call'[p].st \in {"run", "again"}
      BY <1>0, <1>1, <2>2 DEF Others, GoodCall
    <3>2. Draining'
      BY <1>2, <2>2, <3>1 DEF Draining
    <3>3. QED
      BY <3>2 DEF OutKept, PollOwed
  <2>3. QED
    BY <1>1, <2>1, <2>2
<1>6. QED
  BY <1>1, <1>3, <1>4, <1>5, PollKept DEF QueuesKept

LEMMA WriteChunkPolls ==
  ASSUME PipeInv, PipeInv', PollInv, NEW p \in Proc, WriteChunk(p)
  PROVE  PollInv'
<1>0. Others /\ RingType /\ FileInv
  BY InvParts
<1>1. /\ call[p].op = "write" /\ Gate(p) /\ pnc' = pnc + Room(p)
      /\ deferred' = deferred \cup WakeReaders(pnc') /\ (Readers' <=> Readers)
  BY DEF WriteChunk, Going, counters, Readers
<1>2. ~PollOwed
  BY <1>1, PollOwing
<1>3. pnc \in Nat /\ PIPSIZE \in Nat /\ pnc' >= pnc
  <2>1. call[p].todo \in Seq(Byte) /\ PIPSIZE \in Nat
    BY <1>0, RingHasSize DEF Others, GoodCall
  <2>2. PIPSIZE - pwx \in Nat /\ PIPSIZE - pnc \in Nat /\ Len(call[p].todo) \in Nat
          /\ pnc \in Nat
    BY <1>0, <2>1 DEF RingType, Cell
  <2>3. Room(p) \in Nat
    BY <2>2, LeastOf DEF Room
  <2>4. QED
    BY <1>1, <2>1, <2>2, <2>3
<1>4. PollersKept
  BY <1>0, <1>1, CopyCalls, PollersOfOthers
<1>5. ASSUME Polling PROVE InKept
  BY <1>1, <1>5, QueuesAre DEF InKept
<1>6. OutKept
  <2>1. pnc' \in Nat
    BY DEF PipeInv, Typed
  <2>2. pnc' < PIPSIZE => pnc < PIPSIZE
    BY <1>3, <2>1
  <2>3. QED
    BY <1>1, <1>2, <2>2 DEF OutKept, PollOut
<1>7. QED
  BY <1>1, <1>4, <1>5, <1>6, PollKept DEF QueuesKept

LEMMA RoutinePolls ==
  ASSUME PipeInv, PipeInv', PollInv, NEW p \in Proc, Step(p)
  PROVE  PollInv'
<1>0. Others /\ FileInv
  BY InvParts
<1>1. CASE OpenRead(p)
  BY <1>1, OpenReadPolls
<1>2. CASE ReadChunk(p)
  BY <1>2, ReadChunkPolls
<1>3. CASE WriteChunk(p)
  BY <1>3, WriteChunkPolls
<1>4. CASE OpenWrite(p) \/ ReadEmpty(p) \/ WriteBroken(p) \/ WriteBlocked(p) \/ Abort(p)
  <2>1. pnc' = pnc /\ deferred \subseteq deferred' /\ Gate(p)
    BY <1>4 DEF OpenWrite, Opening, ReadEmpty, WriteBroken, WriteBlocked, Going, Abort,
                FailOpen, PSleep, ring
  <2>2. ~PollOwed
    <3>1. \/ call[p].op = "open" /\ Mode(p) = "w"
          \/ call[p].op = "read" /\ pnc = 0
          \/ call[p].op = "write"
          \/ call[p].st = "eintr"
      BY <1>4 DEF OpenWrite, Opening, ReadEmpty, WriteBroken, WriteBlocked, Going, Abort
    <3>2. QED
      BY <2>1, <3>1, PollOwing
  <2>3. Leaves(p) \/ Continues(p) \/ Sleeping(p) \/ OpenFails(p)
    BY <1>0, RoutineShape
  <2>4. CASE Continues(p)
    <3>1. Readers' <=> Readers
      BY <2>4 DEF Continues, counters, Readers
    <3>2. PollersKept
      BY <2>4, PollersOfOthers DEF Continues
    <3>3. QED
      BY <2>1, <2>2, <3>1, <3>2, SamePolls DEF QueuesKept
  <2>5. QED
    BY <2>1, <2>2, <2>3, <2>4, IdlePolls
<1>5. QED
  BY <1>1, <1>2, <1>3, <1>4 DEF Step

(* What the process with the gate owes does not depend on the others. *)
LEMMA PollOwedKept ==
  ASSUME UNCHANGED <<pnc, inode, mode>>,
         \A q \in Proc : InRoutine(q) /\ call[q].st \in {"run", "again"} =>
                           call'[q] = call[q] /\ fd'[q] = fd[q]
  PROVE  PollOwed => PollOwed'
<1>1. Draining => Draining'
  BY DEF Draining, InRoutine
<1>2. OpeningFirst => OpeningFirst'
  BY DEF OpeningFirst, InRoutine, Mode
<1>3. QED
  BY <1>1, <1>2 DEF PollOwed

LEMMA AroundPolls ==
  ASSUME PipeInv, PipeInv', PollInv, NEW p \in Proc,
         Back(p) \/ Signal(p) \/ PollTimeout(p) \/ Transfer(p) \/ \E q \in Proc : Fork(p, q)
  PROVE  PollInv'
<1>0. Others /\ FileInv
  BY InvParts
<1>1. UNCHANGED <<pnc, mode, deferred>>
  BY DEF Back, Resume, Signal, PollTimeout, Transfer, StartRead, StartWrite, Fork, ring, files
<1>2. Readers' => Readers
  BY <1>1, FewerReaders
<1>3. PollersKept
  <2>1. CASE Signal(p) \/ PollTimeout(p)
    <3>1. \E s \in {"woken", "signalled"} : call' = [call EXCEPT ![p].st = s]
      BY <2>1 DEF Signal, PollTimeout
    <3>2. /\ call'[p].op = call[p].op /\ call'[p].st \in {"woken", "signalled"}
          /\ \A q \in Proc \ {p} : call'[q] = call[q]
      BY <1>0, <3>1 DEF Others, GoodCall
    <3>3. QED
      BY <3>2 DEF PollersKept
  <2>2. CASE Back(p)
    BY <1>0, <2>2, BackCalls, PollersOfOthers DEF InPSleep
  <2>3. CASE Transfer(p)
    BY <1>0, <2>3, TransferCalls, PollersOfOthers
  <2>4. CASE \E q \in Proc : Fork(p, q)
    BY <2>4 DEF Fork, PollersKept
  <2>5. QED
    BY <2>1, <2>2, <2>3, <2>4
<1>4. PollOwed => PollOwed'
  <2>1. CASE Transfer(p)
    BY <1>0, <2>1, TransferCalls, NoPollOwed
  <2>2. CASE Back(p) \/ Signal(p) \/ PollTimeout(p)
    <3>1. inode' = inode /\ fd' = fd /\ ~ (InRoutine(p) /\ call[p].st \in {"run", "again"})
      BY <2>2 DEF Back, Resume, Signal, PollTimeout, InPSleep, files, InRoutine
    <3>2. \A q \in Proc \ {p} : call'[q] = call[q]
      BY <1>0, <2>2 DEF Others, Back, Resume, Signal, PollTimeout
    <3>3. QED
      BY <1>1, <3>1, <3>2, PollOwedKept
  <2>3. CASE \E q \in Proc : Fork(p, q)
    <3>1. PICK q \in Proc : Fork(p, q)
      BY <2>3
    <3>2. inode' = inode /\ call' = call /\ call[q].op = "none"
            /\ \A x \in Proc \ {q} : fd'[x] = fd[x]
      BY <1>0, <3>1 DEF Fork, NoCall, Others
    <3>3. QED
      BY <1>1, <3>2, PollOwedKept DEF InRoutine
  <2>4. QED
    BY <2>1, <2>2, <2>3
<1>5. QED
  BY <1>1, <1>2, <1>3, <1>4, SamePolls DEF QueuesKept

(* Deferred wakeups are made; of those, dpollwake() takes its queue away. *)
LEMMA WakePolls ==
  ASSUME PipeInv, PipeInv', PollInv, NEW c \in {"psr", "psw", "iev", "oev"},
         \/ c \in {"psr", "psw"} /\ Defend(c)
         \/ c \in {"iev", "oev"} /\ DPollWake(c)
  PROVE  PollInv'
<1>0. Others
  BY InvParts
<1>1. /\ UNCHANGED <<pnc, inode, mode, fd>> /\ deferred' = deferred \ {c}
      /\ Readers' <=> Readers
  BY DEF Defend, DPollWake, ring, files, counters, Readers
<1>2. \A q \in Proc : \/ call'[q] = call[q]
                      \/ /\ call[q].st = "asleep" /\ call'[q].op = call[q].op
                         /\ call'[q].st = "woken"
  <2>1. \A q \in Proc : \/ call'[q] = call[q]
                        \/ /\ call[q].st = "asleep"
                           /\ call'[q] = [call[q] EXCEPT !.st = "woken"]
    BY DEF Defend, DPollWake, Asleep
  <2>2. ASSUME NEW q \in Proc
        PROVE  /\ [call[q] EXCEPT !.st = "woken"].op = call[q].op
               /\ [call[q] EXCEPT !.st = "woken"].st = "woken"
    BY <1>0 DEF Others, GoodCall
  <2>3. QED
    BY <2>1, <2>2
<1>3. PollOwed => PollOwed'
  BY <1>1, <1>2, PollOwedKept
<1>4. ASSUME NEW q \in Proc, call'[q].op = "poll", call'[q].st = "asleep"
      PROVE  call'[q] = call[q] /\ (c \in {"iev", "oev"} => c \notin call[q].on)
  <2>1. call'[q] = call[q]
    BY <1>2, <1>4
  <2>2. ASSUME c \in {"iev", "oev"}, c \in call[q].on PROVE FALSE
    <3>1. call'[q] = [call[q] EXCEPT !.st = "woken"]
      BY <1>4, <2>1, <2>2 DEF DPollWake
    <3>2. call'[q].st = "woken"
      BY <1>0, <3>1 DEF Others, GoodCall
    <3>3. QED
      BY <1>4, <3>2
  <2>3. QED
    BY <2>1, <2>2
<1> SUFFICES ASSUME NEW q \in Proc, call'[q].op = "poll"
             PROVE  /\ Polling
                    /\ call'[q].st = "asleep" =>
                         /\ "iev" \in call'[q].on /\ PollIn(pnc') => "iev" \in deferred'
                         /\ "oev" \in call'[q].on /\ PollOut(pnc', Readers') =>
                              "oev" \in deferred' \/ PollOwed'
  BY DEF PollInv
<1>5. Polling
  BY <1>2 DEF PollInv
<1>6. ASSUME call'[q].st = "asleep"
      PROVE  /\ "iev" \in call'[q].on /\ PollIn(pnc') => "iev" \in deferred'
             /\ "oev" \in call'[q].on /\ PollOut(pnc', Readers') => "oev" \in deferred' \/ PollOwed'
  <2>1. /\ "iev" \in call[q].on /\ PollIn(pnc) => "iev" \in deferred
        /\ "oev" \in call[q].on /\ PollOut(pnc, Readers) => "oev" \in deferred \/ PollOwed
    BY <1>4, <1>6 DEF PollInv
  <2>2. PollOut(pnc', Readers') <=> PollOut(pnc, Readers)
    BY <1>1 DEF PollOut
  <2>3. call'[q] = call[q] /\ (c \in {"iev", "oev"} => c \notin call[q].on)
    BY <1>4, <1>6
  <2>4. QED
    BY <1>1, <1>3, <2>1, <2>2, <2>3
<1>7. QED
  BY <1>5, <1>6

LEMMA PollPolls ==
  ASSUME PipeInv, PipeInv', PollInv, NEW p \in Proc,
         PollAgain(p) \/ \E on \in (SUBSET {"iev", "oev"}) \ {{}} : Poll(p, on)
  PROVE  PollInv'
<1>0. Others
  BY InvParts
<1>1. /\ UNCHANGED <<pnc, inode, mode, fd, deferred>> /\ (Readers' <=> Readers)
      /\ ~InRoutine(p)
  BY DEF PollAgain, Poll, ring, files, counters, Readers, InRoutine, NoCall
<1>2. \A q \in Proc \ {p} : call'[q] = call[q]
  BY <1>0 DEF Others, PollAgain, Poll, PollSleep
<1>3. PollOwed => PollOwed'
  BY <1>1, <1>2, PollOwedKept
<1>4. \/ call'[p] = NoCall
      \/ \E on : /\ call'[p] = Polls(on) /\ Polling
                 /\ \A c \in on : ~Ready(c)
  <2>1. CASE PollAgain(p)
    <3>1. Polling
      BY <2>1 DEF PollAgain, PollInv
    <3>2. \/ call' = [call EXCEPT ![p] = NoCall]
          \/ /\ \A c \in call[p].on : ~Ready(c)
             /\ call' = [call EXCEPT ![p] = Polls(call[p].on)]
      BY <2>1 DEF PollAgain, PollSleep
    <3>3. QED
      BY <1>0, <3>1, <3>2 DEF Others
  <2>2. CASE \E on \in (SUBSET {"iev", "oev"}) \ {{}} : Poll(p, on)
    BY <1>0, <2>2 DEF Poll, PollSleep, Others
  <2>3. QED
    BY <2>1, <2>2
<1> SUFFICES ASSUME NEW q \in Proc, call'[q].op = "poll"
             PROVE  /\ Polling
                    /\ call'[q].st = "asleep" =>
                         /\ "iev" \in call'[q].on /\ PollIn(pnc') => "iev" \in deferred'
                         /\ "oev" \in call'[q].on /\ PollOut(pnc', Readers') =>
                              "oev" \in deferred' \/ PollOwed'
  BY DEF PollInv
<1>5. PollOut(pnc', Readers') <=> PollOut(pnc, Readers)
  BY <1>1 DEF PollOut
<1>6. CASE q # p
  BY <1>1, <1>2, <1>3, <1>5, <1>6 DEF PollInv
<1>7. CASE q = p
  <2>1. PICK on : call'[p] = Polls(on) /\ Polling /\ \A c \in on : ~Ready(c)
    BY <1>4, <1>7, EntryFields
  <2>2. /\ "iev" \in on => ~PollIn(pnc)
        /\ "oev" \in on => ~PollOut(pnc, Readers)
    BY <2>1 DEF Ready
  <2>3. call'[q].on = on
    BY <1>7, <2>1, EntryFields
  <2>4. QED
    BY <1>1, <1>5, <2>1, <2>2, <2>3
<1>8. QED
  BY <1>6, <1>7

LEMMA ClosePolls ==
  ASSUME PipeInv, PipeInv', PollInv, NEW p \in Proc, Close(p)
  PROVE  PollInv'
<1>0. Others /\ FileInv /\ RingType
  BY InvParts
<1>1. /\ call' = call /\ call[p].op = "none" /\ inode' = inode /\ deferred \subseteq deferred'
      /\ \A q \in Proc \ {p} : fd'[q] = fd[q]
  BY <1>0 DEF Close, NoCall, Others
<1>2. PollersKept
  BY <1>1 DEF PollersKept
<1>3. Readers' => Readers
  <2>1. mode' = mode \/ mode' = [mode EXCEPT ![fd[p]] = "none"]
    BY DEF Close
  <2>2. ReadersOf(mode') \subseteq ReadersOf(mode)
    BY <1>0, <2>1 DEF ReadersOf, Reads, Others
  <2>3. QED
    BY <2>2, FewerReaders
<1>4. CASE \E q \in Proc \ {p} : fd[q] = fd[p]
  <2>1. UNCHANGED <<pnc, mode>>
    BY <1>4 DEF Close, ring
  <2>2. PollOwed => PollOwed'
    BY <1>1, <2>1, PollOwedKept DEF InRoutine
  <2>3. QED
    BY <1>1, <1>2, <1>3, <2>1, <2>2, SamePolls DEF QueuesKept
<1>5. CASE ~ \E q \in Proc \ {p} : fd[q] = fd[p]
  <2>1. inode = NoProc /\ ~PollOwed
    BY <1>5, NoPollOwed DEF Close
  <2>2. CASE UNCHANGED ring
    BY <1>1, <1>2, <1>3, <2>1, <2>2, SamePolls DEF QueuesKept, ring
  <2>3. CASE par' = 0 /\ psr = 0 /\ Clear
    <3>1. psr' = psr /\ pnc' = 0
      BY <1>5, <2>3 DEF Close, Clear
    <3>2. InKept /\ OutKept
      BY <2>3, <3>1 DEF InKept, OutKept, PollIn, PollOut, Readers
    <3>3. QED
      BY <1>1, <1>2, <3>2, PollKept DEF QueuesKept
  <2>4. QED
    BY <1>5, <2>2, <2>3 DEF Close
<1>6. QED
  BY <1>4, <1>5

LEMMA ChsizePolls ==
  ASSUME PipeInv, PipeInv', PollInv, NEW p \in Proc, NEW n \in 0..PIPSIZE, Chsize(p, n)
  PROVE  PollInv'
<1>1. /\ inode = NoProc /\ call' = call /\ (Readers' <=> Readers) /\ pnc' = n
      /\ deferred' = deferred \cup (IF n > 0 THEN WakeReaders(n) ELSE {})
                          \cup (IF n < PIPSIZE THEN WakeWriters(n, Readers) ELSE {})
  BY DEF Chsize, counters, Readers
<1>2. ASSUME Polling PROVE InKept /\ OutKept
  <2>1. PollIn(n) => "iev" \in deferred'
    BY <1>1, <1>2, QueuesAre DEF PollIn
  <2>2. PollOut(n, Readers) => "oev" \in deferred'
    BY <1>1, <1>2, QueuesAre DEF PollOut
  <2>3. QED
    BY <1>1, <2>1, <2>2 DEF InKept, OutKept, PollOut
<1>3. PollersKept /\ QueuesKept
  BY <1>1 DEF PollersKept, QueuesKept
<1>4. QED
  BY <1>2, <1>3, PollKept

LEMMA StartOpenPolls ==
  ASSUME PipeInv, PipeInv', PollInv, NEW p \in Proc, NEW f \in File, NEW m \in Modes[p],
         StartOpen(p, f, m)
  PROVE  PollInv'
<1>1. Others /\ FileInv
  BY InvParts
<1>2. /\ inode = NoProc /\ pnc' = pnc /\ deferred \subseteq deferred'
      /\ m = "rw" => deferred' = deferred \cup WakeReaders(pnc) \cup WakeWriters(pnc, TRUE)
  BY DEF StartOpen, ring
<1>3. /\ m \in {"r", "w", "rw"} /\ fd'[p] = f /\ mode'[f] = m
      /\ \A g \in File \ {f} : mode'[g] = mode[g]
      /\ m # "rw" => inode' = p /\ call'[p].op = "open" /\ call'[p].st = "run"
      /\ call'[p].op # "poll" /\ \A q \in Proc \ {p} : call'[q] = call[q]
      /\ mode[f] = "none"
  BY <1>1, StartOpenCalls, EntryFields, ZenonT(60) DEF StartOpen
<1>4. ~PollOwed /\ PollersKept
  BY <1>2, <1>3, NoPollOwed, PollersOfOthers
<1>5. ASSUME Polling PROVE InKept /\ OutKept
  <2>1. InKept
    BY <1>2 DEF InKept
  <2>2. CASE m = "rw"
    <3>1. PollOut(pnc', Readers') => "oev" \in WakeWriters(pnc, TRUE)
      BY <1>2, <1>5, QueuesAre DEF PollOut
    <3>2. QED
      BY <1>2, <2>1, <2>2, <3>1 DEF OutKept
  <2>3. CASE m = "w"
    <3>1. ReadersOf(mode') \subseteq ReadersOf(mode)
      BY <1>3, <2>3 DEF ReadersOf, Reads
    <3>2. Readers' => Readers
      BY <3>1, FewerReaders
    <3>3. QED
      BY <1>2, <1>4, <2>1, <3>2 DEF OutKept, PollOut
  <2>4. CASE m = "r"
    <3>1. CASE Readers
      BY <1>2, <1>4, <2>1, <3>1 DEF OutKept, PollOut
    <3>2. CASE ~Readers
      <4>1. \A g \in File \ {f} : ~Reads(mode'[g])
        BY <1>3, <3>2, SidesOpen DEF SidesAre
      <4>2. OpeningFirst'
        BY <1>3, <2>4, <4>1 DEF OpeningFirst, Mode
      <4>3. QED
        BY <2>1, <4>2 DEF OutKept, PollOwed
    <3>3. QED
      BY <3>1, <3>2
  <2>5. QED
    BY <1>3, <2>2, <2>3, <2>4
<1>6. QED
  BY <1>2, <1>4, <1>5, PollKept DEF QueuesKept

LEMMA PollStep ==
  ASSUME PipeInv, PipeInv', PollInv, [Next]_vars
  PROVE  PollInv'
<1>1. CASE UNCHANGED vars
  <2>1. UNCHANGED <<pnc, inode, mode, fd, call, deferred, counters>>
    BY <1>1 DEF vars, ring, files
  <2>2. (Readers' <=> Readers) /\ (PollOwed => PollOwed')
    BY <2>1, PollOwedKept DEF counters, Readers
  <2>3. PollersKept /\ QueuesKept
    BY <2>1 DEF PollersKept, QueuesKept
  <2>4. QED
    BY <2>1, <2>2, <2>3, SamePolls
<1>2. ASSUME NEW p \in Proc, Step(p) PROVE PollInv'
  BY <1>2, RoutinePolls
<1>3. ASSUME NEW p \in Proc,
             Back(p) \/ Signal(p) \/ PollTimeout(p) \/ Transfer(p) \/ \E q \in Proc : Fork(p, q)
      PROVE  PollInv'
  BY <1>3, AroundPolls
<1>4. ASSUME NEW p \in Proc, Close(p) PROVE PollInv'
  BY <1>4, ClosePolls
<1>5. ASSUME NEW p \in Proc, NEW f \in File, NEW m \in Modes[p], StartOpen(p, f, m)
      PROVE  PollInv'
  BY <1>5, StartOpenPolls
<1>6. ASSUME NEW c \in {"psr", "psw"}, Defend(c) PROVE PollInv'
  BY <1>6, WakePolls
<1>7. ASSUME NEW c \in {"iev", "oev"}, DPollWake(c) PROVE PollInv'
  BY <1>7, WakePolls
<1>8. ASSUME NEW p \in Proc, NEW n \in 0..PIPSIZE, Chsize(p, n) PROVE PollInv'
  BY <1>8, ChsizePolls
<1>9. ASSUME NEW p \in Proc,
             PollAgain(p) \/ \E on \in (SUBSET {"iev", "oev"}) \ {{}} : Poll(p, on)
      PROVE  PollInv'
  BY <1>9, PollPolls
<1>10. QED
  BY <1>1, <1>2, <1>3, <1>4, <1>5, <1>6, <1>7, <1>8, <1>9 DEF Next

(* With the inode unlocked nobody sleeps in poll() for an event that is there,
   whatever fills, empties, opens, closes or resizes the pipe, and whatever
   signals come: pread(), pwrite(), popen(), pclose() and chsize() announce all
   that ppoll() looks at. *)
THEOREM NoPollMissedHolds == Spec => []NoPollMissed
<1>1. Init => PollInv
  <2>1. Init => \A p \in Proc : call[p].op = "none"
    BY DEF Init, NoCall
  <2>2. QED
    BY <2>1 DEF PollInv
<1>2. PipeInv /\ PipeInv' /\ PollInv /\ [Next]_vars => PollInv'
  BY PollStep
<1>3. PipeInv /\ PollInv => NoPollMissed
  <2> SUFFICES ASSUME PipeInv, PollInv, inode = NoProc, NEW p \in Proc,
                      call[p].op = "poll", call[p].st = "asleep",
                      NEW q \in call[p].on, Ready(q)
               PROVE  q \in deferred
    BY DEF NoPollMissed
  <2>1. q \in {"iev", "oev"}
    BY InvParts DEF Others, GoodCall
  <2>2. ~PollOwed
    BY NoPollOwed
  <2>3. QED
    BY <2>1, <2>2 DEF PollInv, Ready
<1>4. QED
  BY <1>1, <1>2, <1>3, PipeInvariant, PTL DEF Spec

-----------------------------------------------------------------------------
(* Data in the pipe belongs to somebody. *)

(* p has just counted its open, which may still fail. *)
Arriving(p) == call[p].op = "open" /\ call[p].st = "run"

(* Somebody has the pipe open whose open() cannot fail any more. *)
InUse == \E f \in File : mode[f] # "none" /\ \A p \in Proc : Arriving(p) => fd[p] # f

UsedInv == pnc # 0 => InUse

LEMMA UsedKept ==
  ASSUME InUse,
         \A f \in File : mode[f] # "none" => mode'[f] # "none",
         \A q \in Proc : Arriving(q)' => Arriving(q) /\ fd'[q] = fd[q]
  PROVE  InUse'
BY DEF InUse

(* A process in a routine but popen(), or outside, has the pipe open for good. *)
LEMMA UsedBy ==
  ASSUME PipeInv, NEW p \in Proc, fd[p] # NoFile, ~Arriving(p)
  PROVE  InUse
<1>1. fd[p] \in File /\ mode[fd[p]] # "none"
  BY InvParts DEF Others, FileInv, Mode
<1>2. \A q \in Proc : Arriving(q) => fd[q] # fd[p]
  BY InvParts DEF FileInv, Arriving
<1>3. QED
  BY <1>1, <1>2 DEF InUse

LEMMA CloseUsed ==
  ASSUME PipeInv, PipeInv', InUse, NEW p \in Proc, Close(p), pnc' # 0
  PROVE  InUse'
<1>0. Others /\ GateInv' /\ call' = call /\ \A q \in Proc \ {p} : fd'[q] = fd[q]
  BY InvParts DEF Others, Close, PipeInv
<1>1. ~Arriving(p)'
  BY <1>0 DEF Close, NoCall, Arriving
<1>2. CASE \E q \in Proc \ {p} : fd[q] = fd[p]
  <2>1. mode' = mode
    BY <1>2 DEF Close
  <2>2. QED
    BY <1>0, <1>1, <2>1, UsedKept DEF Arriving
<1>3. CASE ~ \E q \in Proc \ {p} : fd[q] = fd[p]
  <2>1. inode = NoProc /\ inode' = inode
    BY <1>3 DEF Close
  <2>2. ~(par' = 0 /\ paw' = 0 /\ psr = 0 /\ psw = 0) /\ psr' = psr /\ psw' = psw
    BY <1>3 DEF Close, Clear
  <2>3. Readers' \/ Writers'
    BY <2>2 DEF Readers, Writers
  <2>4. \E f \in File : mode'[f] # "none"
    BY <2>3, SidesOpenNext DEF SidesAre, Reads, Writes
  <2>5. \A q \in Proc : ~Arriving(q)'
    BY <1>0, <2>1, FileSet DEF GateInv, Arriving, InRoutine
  <2>6. QED
    BY <2>4, <2>5 DEF InUse
<1>4. QED
  BY <1>2, <1>3

LEMMA StartOpenUsed ==
  ASSUME PipeInv, InUse, NEW p \in Proc, NEW f \in File, NEW m \in Modes[p], StartOpen(p, f, m)
  PROVE  InUse'
<1>1. mode[f] = "none"
  BY DEF StartOpen
<1>2. /\ fd'[p] = f /\ \A q \in Proc \ {p} : fd'[q] = fd[q] /\ call'[q] = call[q]
      /\ \A g \in File \ {f} : mode'[g] = mode[g]
  BY InvParts, StartOpenCalls
<1>3. PICK g \in File : mode[g] # "none" /\ \A q \in Proc : Arriving(q) => fd[q] # g
  BY DEF InUse
<1>4. mode'[g] # "none" /\ \A q \in Proc : Arriving(q)' => fd'[q] # g
  BY <1>1, <1>2, <1>3 DEF Arriving
<1>5. QED
  BY <1>4 DEF InUse

LEMMA OpenFailsUsed ==
  ASSUME PipeInv, SilentInv, InUse, NEW p \in Proc, OpenFails(p)
  PROVE  InUse'
<1>0. Others
  BY InvParts
<1>1. Arriving(p) /\ Return(p) /\ fd' = [fd EXCEPT ![p] = NoFile]
        /\ mode' = [mode EXCEPT ![fd[p]] = "none"]
  BY DEF OpenFails, FailOpen, SilentInv, Arriving
<1>2. PICK g \in File : mode[g] # "none" /\ \A q \in Proc : Arriving(q) => fd[q] # g
  BY DEF InUse
<1>3. mode'[g] # "none"
  BY <1>0, <1>1, <1>2 DEF Others
<1>4. \A q \in Proc : Arriving(q)' => fd'[q] # g
  BY <1>0, <1>1, <1>2, ReturnCalls DEF Arriving, Others
<1>5. QED
  BY <1>3, <1>4 DEF InUse

(* Of a call that goes on only StartOpen makes an opener that has just come. *)
LEMMA RoutineUsed ==
  ASSUME PipeInv, InUse,
         \/ Quiet
         \/ \E p \in Proc : Polled(p) \/ Leaves(p) \/ Continues(p) \/ Sleeping(p)
         \/ \E p \in Proc : Back(p) \/ Transfer(p)
         \/ \E p, q \in Proc : Fork(p, q)
  PROVE  InUse'
<1>0. Others
  BY InvParts
<1>1. ASSUME UNCHANGED files, \A q \in Proc : Arriving(q)' => Arriving(q)
      PROVE  InUse'
  BY <1>1, UsedKept DEF files
<1>2. CASE Quiet
  BY <1>1, <1>2 DEF Quiet, Arriving
<1>3. ASSUME NEW p \in Proc, Polled(p) PROVE InUse'
  <2>1. call'[p].op # "open" /\ \A q \in Proc \ {p} : call'[q] = call[q]
    BY <1>0, <1>3 DEF Polled, Others, NoCall
  <2>2. QED
    BY <1>1, <1>3, <2>1 DEF Polled, Arriving
<1>4. ASSUME NEW p \in Proc, Leaves(p) PROVE InUse'
  BY <1>0, <1>1, <1>4, ReturnCalls DEF Leaves, Arriving
<1>5. ASSUME NEW p \in Proc, Continues(p) PROVE InUse'
  BY <1>1, <1>5 DEF Continues, Arriving
<1>6. ASSUME NEW p \in Proc, Sleeping(p) PROVE InUse'
  BY <1>0, <1>1, <1>6, PSleepCalls DEF Sleeping, Arriving
<1>7. ASSUME NEW p \in Proc, Back(p) PROVE InUse'
  BY <1>0, <1>1, <1>7, BackCalls DEF Arriving
<1>8. ASSUME NEW p \in Proc, Transfer(p) PROVE InUse'
  BY <1>0, <1>1, <1>8, TransferCalls DEF Arriving
<1>9. ASSUME NEW p \in Proc, NEW q \in Proc, Fork(p, q) PROVE InUse'
  <2>1. /\ call' = call /\ call[q].op = "none" /\ mode' = mode
        /\ \A x \in Proc \ {q} : fd'[x] = fd[x]
    BY <1>0, <1>9 DEF Fork, NoCall, Others
  <2>2. QED
    BY <2>1, UsedKept DEF Arriving
<1>10. QED
  BY <1>2, <1>3, <1>4, <1>5, <1>6, <1>7, <1>8, <1>9

LEMMA UsedStep ==
  ASSUME PipeInv, PipeInv', SilentInv, UsedInv, [Next]_vars
  PROVE  UsedInv'
<1>0. Others /\ Typed /\ FileInv
  BY InvParts DEF PipeInv
<1>1. CASE pnc # 0
  <2>1. InUse
    BY <1>1 DEF UsedInv
  <2>2. Shape
    BY <1>0, StepShape
  <2>3. ASSUME NEW p \in Proc, OpenFails(p) PROVE InUse'
    BY <2>1, <2>3, OpenFailsUsed
  <2>4. ASSUME NEW p \in Proc, Close(p), pnc' # 0 PROVE InUse'
    BY <2>1, <2>4, CloseUsed
  <2>5. ASSUME NEW p \in Proc, NEW f \in File, NEW m \in Modes[p], StartOpen(p, f, m)
        PROVE  InUse'
    BY <2>1, <2>5, StartOpenUsed
  <2>6. pnc' # 0 => InUse'
    BY <2>1, <2>2, <2>3, <2>4, <2>5, RoutineUsed DEF Shape
  <2>7. QED
    BY <2>6 DEF UsedInv
<1>2. CASE pnc = 0
  <2>1. ASSUME NEW p \in Proc, WriteChunk(p) PROVE InUse'
    <3>1. call[p].op = "write" /\ fd[p] # NoFile /\ ~Arriving(p)
      BY <1>0, <2>1 DEF WriteChunk, Going, FileInv, Arriving
    <3>2. InUse
      BY <3>1, UsedBy
    <3>3. Leaves(p) \/ Continues(p)
      BY <1>0, <2>1, CopyShape
    <3>4. QED
      BY <3>2, <3>3, RoutineUsed
  <2>2. ASSUME NEW p \in Proc, NEW n \in 0..PIPSIZE, Chsize(p, n) PROVE InUse'
    <3>1. fd[p] # NoFile /\ ~Arriving(p) /\ Quiet
      BY <2>2 DEF Chsize, NoCall, Arriving, Quiet
    <3>2. InUse
      BY <3>1, UsedBy
    <3>3. QED
      BY <3>1, <3>2, RoutineUsed
  <2>3. \/ pnc' = pnc \/ pnc' = 0
        \/ \E p \in Proc : ReadChunk(p) \/ WriteChunk(p)
        \/ \E p \in Proc, n \in 0..PIPSIZE : Chsize(p, n)
    <3>1. ASSUME NEW p \in Proc, Step(p) PROVE pnc' = pnc \/ ReadChunk(p) \/ WriteChunk(p)
      BY <3>1 DEF Step, OpenRead, OpenWrite, ReadEmpty, WriteBroken, WriteBlocked, Abort,
                  FailOpen, PSleep, ring
    <3>2. ASSUME NEW p \in Proc, Close(p) PROVE pnc' = pnc \/ pnc' = 0
      BY <3>2 DEF Close, Clear, ring
    <3>3. ASSUME NEW p \in Proc, Transfer(p) PROVE pnc' = pnc
      BY <3>3 DEF Transfer, StartRead, StartWrite, ring
    <3>4. ASSUME NEW p \in Proc, Back(p) \/ Signal(p) \/ PollAgain(p) \/ PollTimeout(p)
          PROVE  pnc' = pnc
      BY <3>4 DEF Back, Resume, Signal, PollAgain, PollTimeout, ring
    <3>5. ASSUME NEW p, NEW f, NEW m, StartOpen(p, f, m) PROVE pnc' = pnc
      BY <3>5 DEF StartOpen, ring
    <3>6. ASSUME NEW p, NEW q, Fork(p, q) \/ Poll(p, q) PROVE pnc' = pnc
      BY <3>6 DEF Fork, Poll, ring
    <3>7. ASSUME NEW c, Defend(c) \/ DPollWake(c) PROVE pnc' = pnc
      BY <3>7 DEF Defend, DPollWake, ring
    <3>8. CASE UNCHANGED vars
      BY <3>8 DEF vars, ring
    <3>9. QED
      BY <3>1, <3>2, <3>3, <3>4, <3>5, <3>6, <3>7, <3>8 DEF Next
  <2>4. \A p \in Proc : ~ReadChunk(p)
    BY <1>2 DEF ReadChunk
  <2>5. pnc' # 0 => InUse'
    BY <1>2, <2>1, <2>2, <2>3, <2>4
  <2>6. QED
    BY <2>5 DEF UsedInv
<1>3. QED
  BY <1>1, <1>2

(* Who opens a pipe that nobody has open does not find what was written before:
   the last pclose() clears it, and no open() that fails was the last to have
   it, as long as no signal ends a wait in popen(). *)
THEOREM EmptyWhenUnusedHolds ==
  ASSUME ~OpenSignals PROVE Spec => []EmptyWhenUnused
<1>1. Init => SilentInv /\ UsedInv
  BY WaitInit DEF Init, UsedInv
<1>2. PipeInv /\ PipeInv' /\ SilentInv /\ UsedInv /\ [Next]_vars => (SilentInv /\ UsedInv)'
  BY SilentStep, UsedStep
<1>3. UsedInv => EmptyWhenUnused
  BY DEF UsedInv, InUse, EmptyWhenUnused
<1>4. QED
  BY <1>1, <1>2, <1>3, PipeInvariant, PTL DEF Spec
=============================================================================
