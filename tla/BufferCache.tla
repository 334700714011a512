---------------------------- MODULE BufferCache ----------------------------
(***************************************************************************)
(* The buffer cache of one block device: coh.386/bio.c, with its callers   *)
(* reduced to what they do with a buffer (fs1.c, fs2.c, fs3.c).            *)
(*                                                                         *)
(* Kernel code is not preempted (module Sched), so that an action is what  *)
(* a routine does up to a sleep: for a buffer's gate, for a transfer, or   *)
(* for any buffer at all (bufneed).  The driver completes requests in any  *)
(* order, at interrupt level or from stand(): bdone().  A buffer's gate is *)
(* handed to the driver with a transfer that nobody waits for, and         *)
(* unlocked by bdone().                                                    *)
(*                                                                         *)
(* The kernel is one with STREAMS, where a failed ASSERT() halts it.       *)
(***************************************************************************)
EXTENDS Naturals, Sequences, FiniteSets, FiniteSetsExt

CONSTANTS
  Proc,     (* processes                                                    *)
  NBUF,     (* buffers                                                      *)
  NHASH,    (* buckets                                                      *)
  Block,    (* blocks of the device                                         *)
  NODEV,    (* b_dev of a buffer that caches nothing                        *)
  Hash,     (* HASH(dev, bno) % NHASH                                       *)
  Data,     (* contents of a block                                          *)
  Driver,   (* who has the gate of a buffer in an asynchronous transfer     *)
  Free,     (* nobody has the gate                                          *)
  Errors,   (* TRUE: reads may fail                                         *)
  Collide   (* TRUE: processes may ask for the block that another, asleep
               for want of a buffer, asks for                               *)

Buf == 1..NBUF
BNULL == 0
Bucket == 0..(NHASH - 1)

ASSUME BufferAssumption ==
  /\ NBUF \in Nat \ {0} /\ NHASH \in Nat \ {0}
  /\ NODEV \notin Block
  /\ Hash \in [Block -> Bucket]
  /\ Driver \notin Proc /\ Free \notin Proc \cup {Driver}
  /\ Errors \in BOOLEAN /\ Collide \in BOOLEAN

VARIABLES
  hash,     (* hasharray[]; b_hashval, b_hashf, b_hashb of the buffers      *)
  lru,      (* from firstbuf to lastbuf                                     *)
  buf,      (* b_dev and b_bno; BFNTP, BFMOD, BFASY, BFERR; the data        *)
  gate,     (* who has b_gate                                               *)
  req,      (* b_req of a buffer that the driver has                        *)
  disk,     (* the device                                                   *)
  bufneed,  (* bufneed                                                      *)
  wake,     (* a deferred wakeup of those who sleep on bufneed              *)
  st,       (* where processes are                                          *)
  failed    (* the ASSERT() that failed, in bread() or in bclaim()          *)

buffers == <<hash, lru, buf, gate, req>>
vars == <<buffers, disk, bufneed, wake, st, failed>>

(* pc: the sleep a process is in, "scan" when it is woken from bufneed, "use"
   and "fill" with a buffer locked that it read, or will overwrite; the block
   wanted, the buffer, and what it will do with the buffer. *)
Pcs == {"idle", "gate", "need", "scan", "io", "use", "fill", "wio", "sgate", "sio"}
Ops == {"read", "fill", "ahead"}
At(pc, x, b, op) == [pc |-> pc, want |-> x, buf |-> b, op |-> op]
Idle == At("idle", NODEV, BNULL, "read")

TypeOK ==
  /\ hash \in [array : [Bucket -> Buf \cup {BNULL}], val : [Buf -> Bucket],
               fwd : [Buf -> Buf \cup {BNULL}], back : [Buf -> Buf \cup {BNULL}]]
  /\ lru \in [Buf -> Buf] /\ \A b \in Buf : \E i \in Buf : lru[i] = b
  /\ buf \in [Buf -> [blk : Block \cup {NODEV}, ntp : BOOLEAN, mod : BOOLEAN,
                      asy : BOOLEAN, err : BOOLEAN, data : Data]]
  /\ gate \in [Buf -> Proc \cup {Driver, Free}]
  /\ req \in [Buf -> {"none", "read", "write"}]
  /\ disk \in [Block -> Data]
  /\ bufneed \in BOOLEAN /\ wake \in BOOLEAN
  /\ st \in [Proc -> [pc : Pcs, want : Block \cup {NODEV}, buf : Buf \cup {BNULL},
                      op : Ops]]
  /\ failed \in {"none", "bread", "bclaim"}

-----------------------------------------------------------------------------
(* Hash chains and the LRU list. *)

(* The n-th buffer of a chain. *)
Walk(h) ==
  LET w[n \in 0..NBUF] ==
        IF n = 0 THEN hash.array[h]
        ELSE IF w[n - 1] = BNULL THEN BNULL ELSE hash.fwd[w[n - 1]]
  IN w

(* Mutant: only the head of the chain is looked at. *)
CachedHead(x) ==
  LET b == hash.array[Hash[x]]
  IN IF b # BNULL /\ buf[b].blk = x THEN b ELSE BNULL

(* The buffer of the hash chain that caches a block. *)
Cached(x) ==
  LET w == Walk(Hash[x])
      hits == {n \in 0..NBUF : w[n] # BNULL /\ buf[w[n]].blk = x}
  IN IF hits = {} THEN BNULL ELSE w[Min(hits)]

HASHdelete(h, b) ==
  LET f == h.fwd[b]  k == h.back[b] IN
  [array |-> IF k = BNULL THEN [h.array EXCEPT ![h.val[b]] = f] ELSE h.array,
   val |-> h.val,
   fwd |-> [c \in Buf |-> IF c = b THEN BNULL ELSE IF c = k THEN f ELSE h.fwd[c]],
   back |-> [c \in Buf |-> IF c = b THEN BNULL ELSE IF c = f THEN k ELSE h.back[c]]]

HASHinsert(h, b, v) ==
  LET f == h.array[v] IN
  [array |-> [h.array EXCEPT ![v] = b],
   val |-> [h.val EXCEPT ![b] = v],
   fwd |-> [h.fwd EXCEPT ![b] = f],
   back |-> [c \in Buf |-> IF c = f THEN b ELSE h.back[c]]]

(* Mutant: the buffer is not unlinked from where it was. *)
LRUupdateLinked(b) == <<b>> \o lru

(* A buffer is unlinked from where it is, and linked in front. *)
LRUupdate(b) ==
  LET at == CHOOSE i \in Buf : lru[i] = b
  IN [i \in Buf |-> IF i = 1 THEN b ELSE IF i <= at THEN lru[i - 1] ELSE lru[i]]

-----------------------------------------------------------------------------
(* bclaim() and bread() *)

Is(p, pc) == failed = "none" /\ st[p].pc = pc

(* Mutant: a buffer that was modified is taken like any other. *)
ScanDirty(p, x, op) ==
  LET free == {i \in DOMAIN lru : gate[lru[i]] = Free}
      v == lru[Max(free)]
  IN IF free = {}
     THEN /\ bufneed' = TRUE
          /\ st' = [st EXCEPT ![p] = At("need", x, BNULL, op)]
          /\ UNCHANGED buffers
     ELSE /\ lru' = LRUupdate(v)
          /\ hash' = HASHinsert(HASHdelete(hash, v), v, Hash[x])
          /\ buf' = [buf EXCEPT ![v] = [@ EXCEPT !.blk = x, !.ntp = TRUE, !.mod = FALSE,
                                                 !.err = FALSE, !.asy = (op = "ahead")]]
          /\ gate' = [gate EXCEPT ![v] = IF op = "ahead" THEN Driver ELSE p]
          /\ req' = [req EXCEPT ![v] = IF op = "fill" THEN "none" ELSE "read"]
          /\ st' = [st EXCEPT ![p] =
                      CASE op = "read" -> At("io", x, v, op)
                        [] op = "fill" -> At("fill", x, v, op)
                        [] op = "ahead" -> Idle]
          /\ UNCHANGED bufneed

(* The block is not cached: the oldest buffer that nobody has locked and that
   is not modified is taken for it; the modified ones that are older are
   handed to the driver on the way.  bread() then has the block read. *)
Scan(p, x, op) ==
  LET free == {i \in DOMAIN lru : gate[lru[i]] = Free}
      clean == {i \in free : ~buf[lru[i]].mod}
      at == IF clean = {} THEN 0 ELSE Max(clean)
      flushed == {lru[i] : i \in {j \in free : j > at}}
      v == lru[at]
      buf1 == [b \in Buf |-> IF b \in flushed
                             THEN [buf[b] EXCEPT !.ntp = TRUE, !.asy = TRUE] ELSE buf[b]]
      gate1 == [b \in Buf |-> IF b \in flushed THEN Driver ELSE gate[b]]
      req1 == [b \in Buf |-> IF b \in flushed THEN "write" ELSE req[b]]
  IN IF at = 0
     THEN /\ bufneed' = TRUE
          /\ st' = [st EXCEPT ![p] = At("need", x, BNULL, op)]
          /\ buf' = buf1 /\ gate' = gate1 /\ req' = req1
          /\ UNCHANGED <<hash, lru>>
     ELSE /\ lru' = LRUupdate(v)
          /\ hash' = HASHinsert(HASHdelete(hash, v), v, Hash[x])
          /\ buf' = [buf1 EXCEPT ![v] = [@ EXCEPT !.blk = x, !.ntp = TRUE, !.mod = FALSE,
                                                  !.err = FALSE, !.asy = (op = "ahead")]]
          /\ gate' = [gate1 EXCEPT ![v] = IF op = "ahead" THEN Driver ELSE p]
          /\ req' = [req1 EXCEPT ![v] = IF op = "fill" THEN "none" ELSE "read"]
          /\ st' = [st EXCEPT ![p] =
                      CASE op = "read" -> At("io", x, v, op)
                        [] op = "fill" -> At("fill", x, v, op)
                        [] op = "ahead" -> Idle]
          /\ UNCHANGED bufneed

(* lock() has returned with the gate of the buffer that was found. *)
Locked(p, x, b, op) ==
  IF buf[b].blk # x
  THEN failed' = "bclaim" /\ UNCHANGED <<buffers, st>>
  ELSE LET invalid == buf[b].ntp \/ buf[b].err
           reading == invalid /\ op = "read"
       IN /\ lru' = LRUupdate(b)
          /\ buf' = [buf EXCEPT ![b].ntp = invalid]
          /\ gate' = [gate EXCEPT ![b] = p]
          /\ req' = [req EXCEPT ![b] = IF reading THEN "read" ELSE @]
          /\ st' = [st EXCEPT ![p] =
                      At(IF reading THEN "io" ELSE IF op = "read" THEN "use" ELSE "fill",
                         x, b, op)]
          /\ UNCHANGED <<hash, failed>>

Undisturbed(x) ==
  Collide \/ \A q \in Proc : st[q].pc \in {"need", "scan"} => st[q].want # x

(* bread(BUF_SYNC), and bclaim(BUF_SYNC) of a block to be overwritten. *)
Claim(p, x, op) ==
  LET b == Cached(x) IN
  /\ Is(p, "idle") /\ op \in {"read", "fill"} /\ Undisturbed(x)
  /\ IF b = BNULL
     THEN Scan(p, x, op) /\ UNCHANGED failed
     ELSE /\ IF gate[b] = Free
             THEN Locked(p, x, b, op)
             ELSE /\ st' = [st EXCEPT ![p] = At("gate", x, b, op)]
                  /\ UNCHANGED <<buffers, failed>>
          /\ UNCHANGED bufneed
  /\ UNCHANGED <<disk, wake>>

LockGate(p) ==
  /\ Is(p, "gate")
  /\ gate[st[p].buf] = Free
  /\ Locked(p, st[p].want, st[p].buf, st[p].op)
  /\ UNCHANGED <<disk, bufneed, wake>>

(* Mutant: the buffer is not locked for the driver. *)
ReadAheadUnlocked(p, x) ==
  LET b == Cached(x) IN
  /\ Is(p, "idle") /\ Undisturbed(x)
  /\ b # BNULL
  /\ ~buf[b].asy
  /\ lru' = LRUupdate(b)
  /\ buf' = [buf EXCEPT ![b].asy = TRUE, ![b].ntp = TRUE]
  /\ req' = [req EXCEPT ![b] = "read"]
  /\ UNCHANGED <<hash, gate, disk, wake, bufneed, st, failed>>

(* bread(BUF_ASYNC): nothing is done for a block that is cached, or being
   read or written asynchronously.  Any other transfer has the gate locked. *)
ReadAhead(p, x) ==
  LET b == Cached(x) IN
  /\ Is(p, "idle") /\ Undisturbed(x)
  /\ IF b = BNULL
     THEN Scan(p, x, "ahead") /\ UNCHANGED failed
     ELSE /\ lru' = LRUupdate(b)
          /\ IF buf[b].ntp /\ ~buf[b].asy
             THEN IF gate[b] # Free
                  THEN failed' = "bread" /\ UNCHANGED <<buf, gate, req>>
                  ELSE /\ buf' = [buf EXCEPT ![b].asy = TRUE]
                       /\ gate' = [gate EXCEPT ![b] = Driver]
                       /\ req' = [req EXCEPT ![b] = "read"]
                       /\ UNCHANGED failed
             ELSE UNCHANGED <<buf, gate, req, failed>>
          /\ UNCHANGED <<hash, bufneed, st>>
  /\ UNCHANGED <<disk, wake>>

(* Back from the sleep on bufneed, the LRU list is searched again, and the
   hash chain is not. *)
Rescan(p) ==
  /\ Is(p, "scan")
  /\ Scan(p, st[p].want, st[p].op)
  /\ UNCHANGED <<disk, wake, failed>>

-----------------------------------------------------------------------------
(* brelease(), bwrite(), and what the owner of a buffer does with it. *)

(* Mutant: bufneed is cleared without a wakeup. *)
BreleaseSilent(b, h) ==
  /\ buf' = [buf EXCEPT ![b] = [h EXCEPT !.ntp = FALSE, !.err = FALSE,
                                         !.blk = IF h.err THEN NODEV ELSE @]]
  /\ gate' = [gate EXCEPT ![b] = Free]
  /\ bufneed' = FALSE
  /\ UNCHANGED wake

(* brelease() of a buffer with header h. *)
Brelease(b, h) ==
  /\ buf' = [buf EXCEPT ![b] = [h EXCEPT !.ntp = FALSE, !.err = FALSE,
                                         !.blk = IF h.err THEN NODEV ELSE @]]
  /\ gate' = [gate EXCEPT ![b] = Free]
  /\ bufneed' = FALSE
  /\ wake' = (wake \/ bufneed)

(* bread() returns when the transfer is over, with nothing after an error. *)
ReadDone(p) ==
  LET b == st[p].buf IN
  /\ Is(p, "io")
  /\ ~buf[b].ntp
  /\ IF buf[b].err
     THEN Brelease(b, buf[b]) /\ st' = [st EXCEPT ![p] = Idle]
     ELSE st' = [st EXCEPT ![p].pc = "use"] /\ UNCHANGED <<buf, gate, bufneed, wake>>
  /\ UNCHANGED <<hash, lru, req, disk, failed>>

Modify(p, d) ==
  /\ Is(p, "use") \/ Is(p, "fill")
  /\ buf' = [buf EXCEPT ![st[p].buf].data = d, ![st[p].buf].mod = TRUE]
  /\ st' = [st EXCEPT ![p].pc = "use"]
  /\ UNCHANGED <<hash, lru, gate, req, disk, bufneed, wake, failed>>

Release(p) ==
  /\ Is(p, "use")
  /\ Brelease(st[p].buf, buf[st[p].buf])
  /\ st' = [st EXCEPT ![p] = Idle]
  /\ UNCHANGED <<hash, lru, req, disk, failed>>

(* bwrite(bp, 0): the gate goes to the driver. *)
WriteBehind(p) ==
  LET b == st[p].buf IN
  /\ Is(p, "use") /\ buf[b].mod
  /\ buf' = [buf EXCEPT ![b].asy = TRUE, ![b].ntp = TRUE]
  /\ gate' = [gate EXCEPT ![b] = Driver]
  /\ req' = [req EXCEPT ![b] = "write"]
  /\ st' = [st EXCEPT ![p] = Idle]
  /\ UNCHANGED <<hash, lru, disk, bufneed, wake, failed>>

(* bwrite(bp, 1), and the brelease() after it. *)
WriteThrough(p) ==
  LET b == st[p].buf IN
  /\ Is(p, "use") /\ buf[b].mod
  /\ buf' = [buf EXCEPT ![b].asy = FALSE, ![b].ntp = TRUE]
  /\ req' = [req EXCEPT ![b] = "write"]
  /\ st' = [st EXCEPT ![p].pc = "wio"]
  /\ UNCHANGED <<hash, lru, gate, disk, bufneed, wake, failed>>

WriteDone(p) ==
  LET b == st[p].buf IN
  /\ Is(p, "wio")
  /\ ~buf[b].ntp
  /\ Brelease(b, buf[b])
  /\ st' = [st EXCEPT ![p] = Idle]
  /\ UNCHANGED <<hash, lru, req, disk, failed>>

-----------------------------------------------------------------------------
(* bsync(): down from buffer n, each modified one is locked and written. *)

SyncFrom(p, n, gates) ==
  LET dirty == {b \in Buf : b <= n /\ buf[b].mod}
      b == Max(dirty)
  IN IF dirty = {}
     THEN /\ st' = [st EXCEPT ![p] = Idle]
          /\ gate' = gates
          /\ UNCHANGED <<buf, req>>
     ELSE IF gates[b] # Free
     THEN /\ st' = [st EXCEPT ![p] = At("sgate", NODEV, b, "read")]
          /\ gate' = gates
          /\ UNCHANGED <<buf, req>>
     ELSE /\ st' = [st EXCEPT ![p] = At("sio", NODEV, b, "read")]
          /\ gate' = [gates EXCEPT ![b] = p]
          /\ buf' = [buf EXCEPT ![b].asy = FALSE, ![b].ntp = TRUE]
          /\ req' = [req EXCEPT ![b] = "write"]

Sync(p) ==
  /\ Is(p, "idle")
  /\ \E b \in Buf : buf[b].mod
  /\ SyncFrom(p, NBUF, gate)
  /\ UNCHANGED <<hash, lru, disk, bufneed, wake, failed>>

(* The gate is locked.  Whoever had it may have had the buffer written. *)
SyncLocked(p) ==
  LET b == st[p].buf IN
  /\ Is(p, "sgate")
  /\ gate[b] = Free
  /\ SyncFrom(p, b, gate)
  /\ UNCHANGED <<hash, lru, disk, bufneed, wake, failed>>

(* The gate is unlocked, and not by brelease(). *)
SyncWritten(p) ==
  LET b == st[p].buf IN
  /\ Is(p, "sio")
  /\ ~buf[b].ntp
  /\ SyncFrom(p, b - 1, [gate EXCEPT ![b] = Free])
  /\ UNCHANGED <<hash, lru, disk, bufneed, wake, failed>>

-----------------------------------------------------------------------------
(* The driver, and the deferred wakeup. *)

(* The transfer is over: bdone().  The driver sets BFERR if it failed. *)
Bdone(b, ok) ==
  LET h == [buf[b] EXCEPT
              !.data = IF req[b] = "read" /\ ok THEN disk[buf[b].blk] ELSE @,
              !.mod = IF req[b] = "write" THEN FALSE ELSE @,
              !.err = IF ok THEN @ ELSE TRUE,
              !.blk = IF req[b] = "read" /\ ~ok THEN NODEV ELSE @,
              !.asy = FALSE]
  IN
  /\ failed = "none"
  /\ req[b] # "none"
  /\ ok \/ (Errors /\ req[b] = "read")
  /\ disk' = IF req[b] = "write" THEN [disk EXCEPT ![buf[b].blk] = buf[b].data] ELSE disk
  /\ req' = [req EXCEPT ![b] = "none"]
  /\ IF buf[b].asy
     THEN Brelease(b, h)
     ELSE /\ buf' = [buf EXCEPT ![b] = [h EXCEPT !.ntp = FALSE]]
          /\ UNCHANGED <<gate, bufneed, wake>>
  /\ UNCHANGED <<hash, lru, st, failed>>

Defend ==
  /\ failed = "none"
  /\ wake
  /\ wake' = FALSE
  /\ st' = [p \in Proc |-> IF st[p].pc = "need" THEN [st[p] EXCEPT !.pc = "scan"] ELSE st[p]]
  /\ UNCHANGED <<buffers, disk, bufneed, failed>>

(* bufinit(), with the memory that kalloc() gives cleared. *)
Init ==
  /\ hash = [array |-> [h \in Bucket |-> BNULL], val |-> [b \in Buf |-> 0],
             fwd |-> [b \in Buf |-> BNULL], back |-> [b \in Buf |-> BNULL]]
  /\ lru = [i \in Buf |-> i]
  /\ disk \in [Block -> Data]
  /\ \E d \in Data :
       buf = [b \in Buf |-> [blk |-> NODEV, ntp |-> FALSE, mod |-> FALSE, asy |-> FALSE,
                             err |-> FALSE, data |-> d]]
  /\ gate = [b \in Buf |-> Free]
  /\ req = [b \in Buf |-> "none"]
  /\ bufneed = FALSE /\ wake = FALSE
  /\ st = [p \in Proc |-> Idle]
  /\ failed = "none"

Next ==
  \/ \E p \in Proc, x \in Block, op \in {"read", "fill"} : Claim(p, x, op)
  \/ \E p \in Proc, x \in Block : ReadAhead(p, x)
  \/ \E p \in Proc : LockGate(p) \/ Rescan(p) \/ ReadDone(p) \/ Release(p)
  \/ \E p \in Proc, d \in Data : Modify(p, d)
  \/ \E p \in Proc : WriteBehind(p) \/ WriteThrough(p) \/ WriteDone(p)
  \/ \E p \in Proc : Sync(p) \/ SyncLocked(p) \/ SyncWritten(p)
  \/ \E b \in Buf, ok \in BOOLEAN : Bdone(b, ok)
  \/ Defend

Spec == Init /\ [][Next]_vars

-----------------------------------------------------------------------------
(* Properties. *)

(* A block has one buffer: what the comment of bclaim() says, "If the
   requested buffer is in the buffer cache, return a pointer to it." *)
OneBufferPerBlock ==
  \A b, c \in Buf : b # c /\ buf[b].blk # NODEV => buf[b].blk # buf[c].blk

(* A buffer is with the driver exactly while it is marked so: a transfer that
   nobody waits for has its gate, the others are those of the gate's owner,
   and data that are not valid are out of everybody else's reach. *)
TransfersOK ==
  \A b \in Buf :
    /\ buf[b].asy <=> gate[b] = Driver
    /\ gate[b] = Driver => req[b] # "none"
    /\ req[b] # "none" => buf[b].ntp /\ gate[b] # Free
    /\ req[b] = "write" => buf[b].mod
    /\ buf[b].ntp /\ req[b] = "none" =>
         \E p \in Proc : st[p].buf = b /\ st[p].pc \in {"use", "fill"} /\ gate[b] = p

(* Who sleeps for want of a buffer has set bufneed, or is about to be woken. *)
NeedAnnounced ==
  (\E p \in Proc : st[p].pc = "need") => bufneed \/ wake

(* What a bread() of the block gives: the buffer's data if they are valid or
   newer than the device's. *)
Content ==
  [x \in Block |->
     LET own == {b \in Buf : buf[b].blk = x /\ (buf[b].mod \/ ~buf[b].ntp)}
     IN IF own = {} THEN disk[x] ELSE buf[CHOOSE b \in own : TRUE].data]

(* Who may look at and change the block's data. *)
Holder ==
  [x \in Block |->
     LET own == {p \in Proc : st[p].pc \in {"use", "fill"} /\ buf[st[p].buf].blk = x}
     IN IF own = {} THEN Free ELSE CHOOSE p \in own : TRUE]

(* The cache is a store of blocks: nothing that was written is lost by write
   behind, eviction, sync or reading ahead, and two processes never have a
   block at once. *)
Promise == INSTANCE BlockStore WITH content <- Content, holder <- Holder, Nobody <- Free
ImplementsBlockStore == Promise!Spec
=============================================================================
