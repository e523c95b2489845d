-------------------------------- MODULE Log --------------------------------
(***************************************************************************)
(* The redo log (storage/log.c) on top of the buffer cache and the disk.   *)
(* System calls that write the file system bracket their writes with       *)
(* begin_op and end_op; the last one out commits the whole group: blocks   *)
(* to the log, header to the log, blocks home, header cleared.  A crash    *)
(* may come between any two disk writes; recovery then runs before any     *)
(* system call (forkret).                                                  *)
(*                                                                         *)
(* A section of log.c under log.lock is one step, and so is one disk       *)
(* write: sectors are written whole (BSIZE is the sector size).  The       *)
(* buffer cache is reduced to what the log needs of it: the buffered       *)
(* contents of a block, if it has a buffer, and B_DIRTY, which keeps the   *)
(* buffer from being recycled.  Log blocks are only ever written through   *)
(* to the disk, so their buffers never differ from it.                     *)
(***************************************************************************)
EXTENDS Naturals, Sequences, FiniteSets

CONSTANTS
  Proc,          \* processes making file system calls
  Block, Val,    \* home blocks and their contents
  Writes,        \* what the calls of a process may write, and where
  None,          \* no buffer, no block
  MAXOPBLOCKS,   \* distinct blocks one call may write
  LOGSIZE,       \* blocks the header has room for
  NLOG           \* log.size: blocks of the log on disk, header included

ASSUME SizeAssumption ==
  /\ MAXOPBLOCKS \in Nat /\ LOGSIZE \in Nat /\ NLOG \in Nat
  /\ 0 < MAXOPBLOCKS /\ MAXOPBLOCKS <= LOGSIZE
ASSUME NoneAssumption == None \notin Val /\ None \notin Block
ASSUME ProcAssumption == IsFiniteSet(Proc)
ASSUME WritesAssumption == Writes \in [Proc -> SUBSET (Block \X Val)]

VARIABLES
  disk,         \* home blocks on disk
  dlog,         \* data blocks of the log on disk
  head,         \* header block on disk: the blocks of a committed group
  cache,        \* buffered contents of each block, or None
  dirty,        \* blocks whose buffer has B_DIRTY
  lh,           \* log.lh: block[0..n-1]
  outstanding, committing,
  phase, tail,  \* progress of commit() or recover_from_log()
  recovering,   \* recovery has not finished
  panicked,
  pc,           \* where each process is
  cur,          \* the buffer each process holds locked
  wrote         \* blocks the current call of each process has logged

stable == <<disk, dlog, head>>
buffers == <<cache, dirty>>
control == <<outstanding, committing>>
commitvars == <<phase, tail, recovering>>
procs == <<pc, cur, wrote>>
vars == <<stable, buffers, lh, control, commitvars, panicked, procs>>

Label == {"idle", "begin", "asleep", "op", "modified", "logging", "commit"}
Phase == {"none", "readhead", "log", "install", "finish"}

TypeOK ==
  /\ disk \in [Block -> Val]
  /\ dlog \in [1..LOGSIZE -> Val]
  /\ head \in Seq(Block)
  /\ cache \in [Block -> Val \cup {None}]
  /\ dirty \in SUBSET Block
  /\ lh \in Seq(Block)
  /\ outstanding \in Nat
  /\ committing \in BOOLEAN
  /\ phase \in Phase
  /\ tail \in 1..(LOGSIZE + 1)
  /\ recovering \in BOOLEAN
  /\ panicked \in BOOLEAN
  /\ pc \in [Proc -> Label]
  /\ cur \in [Proc -> Block \cup {None}]
  /\ wrote \in [Proc -> SUBSET Block]

\* The machine boots with an empty log.
Init ==
  /\ disk \in [Block -> Val]
  /\ dlog \in [1..LOGSIZE -> Val]
  /\ head = <<>>
  /\ cache = [b \in Block |-> None]
  /\ dirty = {}
  /\ lh = <<>>
  /\ outstanding = 0
  /\ committing = FALSE
  /\ phase = "readhead"
  /\ tail = 1
  /\ recovering = TRUE
  /\ panicked = FALSE
  /\ pc = [p \in Proc |-> "idle"]
  /\ cur = [p \in Proc |-> None]
  /\ wrote = [p \in Proc |-> {}]

\* What bread() returns for a block.
View(b) == IF cache[b] # None THEN cache[b] ELSE disk[b]

Range1(s) == {s[i] : i \in 1..Len(s)}

At(p, l) == ~panicked /\ pc[p] = l

Goto(p, l) == pc' = [pc EXCEPT ![p] = l]

\* wakeup(&log), and where the caller goes.
WakeAnd(p, l) ==
  pc' = [q \in Proc |-> IF q = p THEN l
                        ELSE IF pc[q] = "asleep" THEN "begin" ELSE pc[q]]

(***************************************************************************)
(* begin_op                                                                *)
(***************************************************************************)
Call(p) ==
  /\ At(p, "idle")
  /\ ~recovering
  /\ Goto(p, "begin")
  /\ UNCHANGED <<stable, buffers, lh, control, commitvars, panicked, cur, wrote>>

\* The slots the open group has in use are forgotten.
MutMustWait == committing \/ (outstanding + 1) * MAXOPBLOCKS > LOGSIZE

MustWait == committing \/ Len(lh) + (outstanding + 1) * MAXOPBLOCKS > LOGSIZE

BeginSleep(p) ==
  /\ At(p, "begin")
  /\ MustWait
  /\ Goto(p, "asleep")
  /\ UNCHANGED <<stable, buffers, lh, control, commitvars, panicked, cur, wrote>>

BeginOp(p) ==
  /\ At(p, "begin")
  /\ ~MustWait
  /\ outstanding' = outstanding + 1
  /\ wrote' = [wrote EXCEPT ![p] = {}]
  /\ Goto(p, "op")
  /\ UNCHANGED <<stable, buffers, lh, committing, commitvars, panicked, cur>>

(***************************************************************************)
(* The body of a call: bread, modify, log_write, brelse                    *)
(***************************************************************************)
\* bread() locks the buffer, then the caller changes b->data.  A call writes
\* at most MAXOPBLOCKS different blocks (param.h).
Modify(p, b, v) ==
  /\ At(p, "op")
  /\ <<b, v>> \in Writes[p]
  /\ Cardinality(wrote[p] \cup {b}) <= MAXOPBLOCKS
  /\ \A q \in Proc : cur[q] # b
  /\ cache' = [cache EXCEPT ![b] = v]
  /\ cur' = [cur EXCEPT ![p] = b]
  /\ Goto(p, "modified")
  /\ UNCHANGED <<stable, dirty, lh, control, commitvars, panicked, wrote>>

TooBig == Len(lh) >= LOGSIZE \/ Len(lh) >= NLOG - 1

\* The checks of log_write, made before log.lock is taken.
LogCheck(p) ==
  /\ At(p, "modified")
  /\ IF TooBig \/ outstanding < 1
       THEN panicked' = TRUE /\ UNCHANGED pc
       ELSE Goto(p, "logging") /\ UNCHANGED panicked
  /\ UNCHANGED <<stable, buffers, lh, control, commitvars, cur, wrote>>

\* Record the block unless it is already there, pin its buffer; brelse.
LogWrite(p) ==
  /\ At(p, "logging")
  /\ lh' = IF cur[p] \in Range1(lh) THEN lh ELSE Append(lh, cur[p])
  /\ dirty' = dirty \cup {cur[p]}
  /\ wrote' = [wrote EXCEPT ![p] = @ \cup {cur[p]}]
  /\ cur' = [cur EXCEPT ![p] = None]
  /\ Goto(p, "op")
  /\ UNCHANGED <<stable, cache, control, commitvars, panicked>>

\* bread() of a block that has no buffer, by anybody, in a call or not.
Load(b) ==
  /\ ~panicked
  /\ ~recovering
  /\ cache[b] = None
  /\ cache' = [cache EXCEPT ![b] = disk[b]]
  /\ UNCHANGED <<stable, dirty, lh, control, commitvars, panicked, procs>>

\* bget() recycles any buffer that nobody holds and that is not dirty.
Evict(b) ==
  /\ ~panicked
  /\ cache[b] # None
  /\ b \notin dirty
  /\ \A q \in Proc : cur[q] # b
  /\ cache' = [cache EXCEPT ![b] = None]
  /\ UNCHANGED <<stable, dirty, lh, control, commitvars, panicked, procs>>

(***************************************************************************)
(* end_op and commit                                                       *)
(***************************************************************************)
\* Nobody is told that reserved space was given back.
MutEndOp(p) ==
  /\ At(p, "op")
  /\ outstanding > 1
  /\ outstanding' = outstanding - 1
  /\ wrote' = [wrote EXCEPT ![p] = {}]
  /\ Goto(p, "idle")
  /\ UNCHANGED <<stable, buffers, lh, committing, commitvars, panicked, cur>>

\* Others are still at it: give up the reserved space and wake waiters.
EndOp(p) ==
  /\ At(p, "op")
  /\ outstanding > 1
  /\ outstanding' = outstanding - 1
  /\ wrote' = [wrote EXCEPT ![p] = {}]
  /\ WakeAnd(p, "idle")
  /\ UNCHANGED <<stable, buffers, lh, committing, commitvars, panicked, cur>>

\* The last one out commits, if anything was written.
EndOpCommit(p) ==
  /\ At(p, "op")
  /\ outstanding = 1
  /\ outstanding' = 0
  /\ committing' = TRUE
  /\ wrote' = [wrote EXCEPT ![p] = {}]
  /\ Goto(p, "commit")
  /\ phase' = IF Len(lh) > 0 THEN "log" ELSE "finish"
  /\ tail' = 1
  /\ UNCHANGED <<stable, buffers, lh, recovering, panicked, cur>>

\* write_log: one block from the cache to the log.
WriteLog ==
  /\ ~panicked
  /\ phase = "log"
  /\ tail <= Len(lh)
  /\ dlog' = [dlog EXCEPT ![tail] = View(lh[tail])]
  /\ tail' = tail + 1
  /\ UNCHANGED <<disk, head, buffers, lh, control, phase, recovering, panicked,
                 procs>>

\* The header is written too early, one block short.
MutWriteHead ==
  /\ ~panicked
  /\ phase = "log"
  /\ tail >= Len(lh)
  /\ head' = lh
  /\ phase' = "install"
  /\ tail' = 1
  /\ UNCHANGED <<disk, dlog, buffers, lh, control, recovering, panicked, procs>>

\* write_head: the point at which the group commits.
WriteHead ==
  /\ ~panicked
  /\ phase = "log"
  /\ tail > Len(lh)
  /\ head' = lh
  /\ phase' = "install"
  /\ tail' = 1
  /\ UNCHANGED <<disk, dlog, buffers, lh, control, recovering, panicked, procs>>

\* install_trans: one block from the log to its home; bwrite clears B_DIRTY.
\* Commit and recovery share it.
InstallTrans ==
  /\ ~panicked
  /\ phase = "install"
  /\ tail <= Len(lh)
  /\ disk' = [disk EXCEPT ![lh[tail]] = dlog[tail]]
  /\ cache' = [cache EXCEPT ![lh[tail]] = dlog[tail]]
  /\ dirty' = dirty \ {lh[tail]}
  /\ tail' = tail + 1
  /\ UNCHANGED <<dlog, head, lh, control, phase, recovering, panicked, procs>>

\* log.lh.n = 0; write_head erases the group from the log.
ClearHead ==
  /\ ~panicked
  /\ phase = "install"
  /\ tail > Len(lh)
  /\ lh' = <<>>
  /\ head' = <<>>
  /\ phase' = IF recovering THEN "none" ELSE "finish"
  /\ tail' = 1
  /\ recovering' = FALSE
  /\ UNCHANGED <<disk, dlog, buffers, control, panicked, procs>>

\* The end of end_op after commit().
CommitDone(p) ==
  /\ At(p, "commit")
  /\ phase = "finish"
  /\ committing' = FALSE
  /\ phase' = "none"
  /\ WakeAnd(p, "idle")
  /\ UNCHANGED <<stable, buffers, lh, outstanding, tail, recovering, panicked,
                 cur, wrote>>

(***************************************************************************)
(* Crash and recovery                                                      *)
(***************************************************************************)
\* Everything but the disk is lost.
Crash ==
  /\ cache' = [b \in Block |-> None]
  /\ dirty' = {}
  /\ lh' = <<>>
  /\ outstanding' = 0
  /\ committing' = FALSE
  /\ phase' = "readhead"
  /\ tail' = 1
  /\ recovering' = TRUE
  /\ panicked' = FALSE
  /\ pc' = [p \in Proc |-> "idle"]
  /\ cur' = [p \in Proc |-> None]
  /\ wrote' = [p \in Proc |-> {}]
  /\ UNCHANGED stable

ReadHead ==
  /\ ~panicked
  /\ phase = "readhead"
  /\ lh' = head
  /\ phase' = "install"
  /\ UNCHANGED <<stable, buffers, control, tail, recovering, panicked, procs>>

DiskStep == WriteLog \/ WriteHead \/ InstallTrans \/ ClearHead \/ ReadHead

Next ==
  \/ \E p \in Proc :
       \/ Call(p) \/ BeginSleep(p) \/ BeginOp(p)
       \/ \E b \in Block, v \in Val : Modify(p, b, v)
       \/ LogCheck(p) \/ LogWrite(p) \/ EndOp(p) \/ EndOpCommit(p) \/ CommitDone(p)
  \/ \E b \in Block : Load(b) \/ Evict(b)
  \/ DiskStep
  \/ Crash

Spec == Init /\ [][Next]_vars

\* Disk requests complete and a call that has begun gets to its end.
Fairness ==
  /\ WF_vars(DiskStep)
  /\ \A p \in Proc :
       /\ WF_vars(BeginSleep(p) \/ BeginOp(p))
       /\ WF_vars(LogCheck(p))
       /\ WF_vars(LogWrite(p))
       /\ SF_vars(EndOp(p) \/ EndOpCommit(p))
       /\ WF_vars(CommitDone(p))

FairSpec == Spec /\ Fairness

(***************************************************************************)
(* Properties                                                              *)
(***************************************************************************)
\* What recovery would make of the disk as it is now.
Durable ==
  [b \in Block |-> IF b \in Range1(head)
                     THEN dlog[CHOOSE i \in 1..Len(head) : head[i] = b]
                     ELSE disk[b]]

Active == {p \in Proc : pc[p] \in {"op", "modified", "logging"}}

A == INSTANCE AtomicDisk WITH
       durable <- Durable,
       mem <- IF recovering THEN Durable ELSE [b \in Block |-> View(b)],
       active <- Active

\* File system calls are atomic across crashes: whatever the interleaving of
\* calls, the point of the crash, and further crashes during recovery, the
\* disk comes back as the last committed group left it, and a group commits
\* as a whole while no call is in progress.
ImplementsAtomicDisk == A!Spec

\* begin_op's reservation works: the header never overflows, although
\* log_write tests for room before it takes log.lock; and that test stops the
\* kernel only for a block that is in the header already, and would have been
\* absorbed, unless the log on disk is smaller than the header.
LogFits ==
  /\ Len(lh) <= LOGSIZE
  /\ panicked /\ LOGSIZE < NLOG =>
       \E p \in Proc : pc[p] = "modified" /\ cur[p] \in Range1(lh)

\* When no call is in progress and nobody is committing, every completed call
\* is on disk.
QuiescentDurable ==
  ~recovering /\ ~panicked /\ outstanding = 0 /\ ~committing =>
    head = <<>> /\ dirty = {} /\ \A b \in Block : View(b) = disk[b]

Busy(b) == \E p \in Proc : cur[p] = b

\* Log slots the calls in progress may still ask for.
Reserved ==
  {r \in Active \X (1..MAXOPBLOCKS) : r[2] > Cardinality(wrote[r[1]])}

\* Who is where: commit() runs alone, recovery before everybody.
ControlInv ==
  /\ outstanding = Cardinality(Active)
  /\ committing => Active = {}
  /\ committing <=> \E p \in Proc : pc[p] = "commit"
  /\ \A p, q \in Proc : pc[p] = "commit" /\ pc[q] = "commit" => p = q
  /\ phase \in {"log", "finish"} => committing
  /\ phase = "none" => ~committing /\ ~recovering
  /\ phase = "install" => committing \/ recovering
  /\ phase = "readhead" => recovering
  /\ recovering =>
       phase \in {"readhead", "install"} /\ \A p \in Proc : pc[p] = "idle"

\* The slots in use and the slots reserved fit into the header.
ReserveInv ==
  /\ Len(lh) + Cardinality(Reserved) <= LOGSIZE
  /\ \A p \in Active :
       /\ IsFiniteSet(wrote[p])
       /\ wrote[p] \subseteq Range1(lh)
       /\ Cardinality(wrote[p]) <= MAXOPBLOCKS
       /\ pc[p] # "op" => Cardinality(wrote[p] \cup {cur[p]}) <= MAXOPBLOCKS

\* The header on disk names a group exactly while it is being installed, and
\* no block twice; the header in memory is empty between groups.
HeadInv ==
  /\ phase = "install" => head = lh
  /\ phase \in {"none", "log", "finish"} => head = <<>>
  /\ phase = "readhead" => lh = <<>> /\ tail = 1 /\ Len(head) <= LOGSIZE
  /\ phase = "finish" => lh = <<>>
  /\ phase = "none" /\ Active = {} => lh = <<>>
  /\ \A i, j \in 1..Len(lh) : lh[i] = lh[j] => i = j
  /\ \A i, j \in 1..Len(head) : head[i] = head[j] => i = j

\* Who holds which buffer, and which buffers differ from the disk.
BufferInv ==
  /\ \A p \in Proc : cur[p] # None <=> pc[p] \in {"modified", "logging"}
  /\ \A p, q \in Proc : cur[p] = cur[q] /\ cur[p] # None => p = q
  /\ \A b \in Block : b \in dirty \/ Busy(b) => cache[b] # None
  /\ \A b \in Block : b \notin dirty /\ ~Busy(b) => View(b) = disk[b]
  /\ recovering => dirty = {}
  /\ phase = "install" /\ ~recovering => dirty = {lh[i] : i \in tail..Len(lh)}
  /\ phase # "install" /\ ~recovering => dirty = Range1(lh)

\* How far write_log() and install_trans() have come.
CopyInv ==
  /\ phase \in {"log", "install"} => tail <= Len(lh) + 1
  /\ phase = "log" => \A i \in 1..(tail - 1) : dlog[i] = View(lh[i])
  /\ phase = "install" => \A i \in 1..(tail - 1) : disk[lh[i]] = dlog[i]
  /\ phase = "install" /\ ~recovering =>
       \A i \in tail..Len(lh) : cache[lh[i]] = dlog[i]

\* The inductive invariant behind the properties above.
Inv == TypeOK /\ ControlInv /\ ReserveInv /\ HeadInv /\ BufferInv /\ CopyInv

\* Whoever sleeps in begin_op is woken up, and all of them at once: end_op
\* calls wakeup also when it gives back reserved space without a commit.
BeginWakes ==
  (\E p \in Proc : pc[p] = "asleep") ~>
    (panicked \/ \A p \in Proc : pc[p] # "asleep")
=============================================================================
