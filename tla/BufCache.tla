------------------------------ MODULE BufCache ------------------------------
(***************************************************************************)
(* The buffer cache (storage/bio.c) on top of the IDE driver               *)
(* (storage/ide.c) and its disk.                                           *)
(*                                                                         *)
(* A user is one bread() ... brelse() span of some process.  The bodies    *)
(* under bcache.lock and idelock are single steps, and the buffers'        *)
(* sleeplocks are taken and given in one step: module SleepLock shows that *)
(* they are mutexes.  Sleeping in iderw() is kept, because a kill() also   *)
(* ends it.                                                                *)
(***************************************************************************)
EXTENDS Naturals, FiniteSets, Sequences, Functions

CONSTANTS
  User, NoUser,
  Buf, NoBuf,        \* NBUF buffers
  Block, NoBlock,
  Val,
  MaxDirty,          \* buffers the log keeps dirty at a time: at most LOGSIZE
  Outcome            \* whether a disk request succeeds: {TRUE} or BOOLEAN

ASSUME NoneAssumption == NoUser \notin User /\ NoBuf \notin Buf /\ NoBlock \notin Block
ASSUME BoundAssumption ==
  IsFiniteSet(User) /\ IsFiniteSet(Buf) /\ MaxDirty \in Nat /\ Outcome \subseteq BOOLEAN

VARIABLES
  mru,               \* bcache.head.next, ... : most recently used first
  blockno, refcnt, data, owner,   \* per buffer
  valid, dirty,      \* the buffers with B_VALID, with B_DIRTY
  idequeue,
  busy,              \* the controller works on the head of idequeue
  disk,
  pc, blk, buf,      \* per user: place in the code, block wanted, buffer
  changed,           \* users whose changes are not yet written or logged
  panicked

cache == <<mru, blockno, refcnt>>
flags == <<valid, dirty>>
ide == <<idequeue, busy>>
user == <<pc, blk, buf, changed>>
vars == <<cache, flags, data, owner, ide, disk, user, panicked>>

Label == {"idle", "lock", "got", "sync", "asleep", "awake", "held", "unlocked"}

TypeOK ==
  /\ mru \in [1..Cardinality(Buf) -> Buf]
  /\ blockno \in [Buf -> Block \cup {NoBlock}]
  /\ refcnt \in [Buf -> Nat]
  /\ valid \subseteq Buf /\ dirty \subseteq Buf
  /\ data \in [Buf -> Val]
  /\ owner \in [Buf -> User \cup {NoUser}]
  /\ idequeue \in Seq(Buf)
  /\ busy \in BOOLEAN
  /\ disk \in [Block -> Val]
  /\ pc \in [User -> Label]
  /\ blk \in [User -> Block \cup {NoBlock}]
  /\ buf \in [User -> Buf \cup {NoBuf}]
  /\ changed \subseteq User
  /\ panicked \in BOOLEAN

\* binit(): every buffer is on the list, for no block of the disk in use.
Init ==
  /\ mru = CHOOSE f \in Bijection(1..Cardinality(Buf), Buf) : TRUE
  /\ blockno = [b \in Buf |-> NoBlock]
  /\ refcnt = [b \in Buf |-> 0]
  /\ valid = {} /\ dirty = {}
  /\ \E v \in Val : data = [b \in Buf |-> v]
  /\ owner = [b \in Buf |-> NoUser]
  /\ idequeue = <<>>
  /\ busy = FALSE
  /\ disk \in [Block -> Val]
  /\ pc = [u \in User |-> "idle"]
  /\ blk = [u \in User |-> NoBlock]
  /\ buf = [u \in User |-> NoBuf]
  /\ changed = {}
  /\ panicked = FALSE

Goto(u, l) == pc' = [pc EXCEPT ![u] = l]

(***************************************************************************)
(* bget                                                                    *)
(***************************************************************************)
Cached(k) == {b \in Buf : blockno[b] = k}

\* The last buffers of the list that could be recycled are tried first.
MutUnused == {j \in DOMAIN mru : refcnt[mru[j]] = 0}

Unused == {j \in DOMAIN mru : refcnt[mru[j]] = 0 /\ mru[j] \notin dirty}

Want(u, k, b) ==
  /\ blk' = [blk EXCEPT ![u] = k]
  /\ buf' = [buf EXCEPT ![u] = b]
  /\ Goto(u, "lock")
  /\ UNCHANGED <<mru, data, owner, ide, disk, changed, panicked>>

BgetHit(u, k) ==
  /\ pc[u] = "idle" /\ ~panicked
  /\ \E b \in Cached(k) :
       /\ refcnt' = [refcnt EXCEPT ![b] = @ + 1]
       /\ Want(u, k, b)
       /\ UNCHANGED <<blockno, flags>>

BgetRecycle(u, k) ==
  /\ pc[u] = "idle" /\ ~panicked
  /\ Cached(k) = {}
  /\ \E j \in Unused :
       /\ \A i \in Unused : i <= j
       /\ blockno' = [blockno EXCEPT ![mru[j]] = k]
       /\ refcnt' = [refcnt EXCEPT ![mru[j]] = 1]
       /\ valid' = valid \ {mru[j]}
       /\ dirty' = dirty \ {mru[j]}
       /\ Want(u, k, mru[j])

\* panic("bget: no buffers")
BgetPanic(u, k) ==
  /\ pc[u] = "idle" /\ ~panicked
  /\ Cached(k) = {}
  /\ Unused = {}
  /\ panicked' = TRUE
  /\ UNCHANGED <<cache, flags, data, owner, ide, disk, user>>

\* acquiresleep(&b->lock) at the end of bget().
Lock(u) ==
  /\ pc[u] = "lock" /\ ~panicked
  /\ owner[buf[u]] = NoUser
  /\ owner' = [owner EXCEPT ![buf[u]] = u]
  /\ Goto(u, "got")
  /\ UNCHANGED <<cache, flags, data, ide, disk, blk, buf, changed, panicked>>

\* The rest of bread(): iderw() unless the buffer is valid.
Bread(u) ==
  /\ pc[u] = "got" /\ ~panicked
  /\ Goto(u, IF buf[u] \in valid THEN "held" ELSE "sync")
  /\ UNCHANGED <<cache, flags, data, owner, ide, disk, blk, buf, changed, panicked>>

(***************************************************************************)
(* What the holder of a buffer does                                        *)
(***************************************************************************)
\* The caller of bread() changes the block in memory.
Change(u, v) ==
  /\ pc[u] = "held" /\ ~panicked
  /\ data' = [data EXCEPT ![buf[u]] = v]
  /\ changed' = changed \cup {u}
  /\ UNCHANGED <<cache, flags, owner, ide, disk, pc, blk, buf, panicked>>

Bwrite(u) ==
  /\ pc[u] = "held" /\ ~panicked
  /\ dirty' = dirty \cup {buf[u]}
  /\ changed' = changed \ {u}
  /\ Goto(u, "sync")
  /\ UNCHANGED <<cache, valid, data, owner, ide, disk, blk, buf, panicked>>

\* log_write() pins the buffer; the log bounds how many it pins.
LogWrite(u) ==
  /\ pc[u] = "held" /\ ~panicked
  /\ buf[u] \in dirty \/ Cardinality(dirty) < MaxDirty
  /\ dirty' = dirty \cup {buf[u]}
  /\ changed' = changed \ {u}
  /\ UNCHANGED <<cache, valid, data, owner, ide, disk, pc, blk, buf, panicked>>

\* brelse() gives up the lock and only then, under bcache.lock, its count.
Unlock(u) ==
  /\ pc[u] = "held" /\ ~panicked
  /\ u \notin changed
  /\ owner' = [owner EXCEPT ![buf[u]] = NoUser]
  /\ Goto(u, "unlocked")
  /\ UNCHANGED <<cache, flags, data, ide, disk, blk, buf, changed, panicked>>

ToFront(b) ==
  LET at == CHOOSE j \in DOMAIN mru : mru[j] = b
  IN  [j \in DOMAIN mru |->
         IF j = 1 THEN b ELSE IF j <= at THEN mru[j - 1] ELSE mru[j]]

Brelse(u) ==
  /\ pc[u] = "unlocked" /\ ~panicked
  /\ LET b == buf[u] IN
       /\ refcnt' = [refcnt EXCEPT ![b] = @ - 1]
       /\ mru' = IF refcnt[b] = 1 THEN ToFront(b) ELSE mru
  /\ Goto(u, "idle")
  /\ blk' = [blk EXCEPT ![u] = NoBlock]
  /\ buf' = [buf EXCEPT ![u] = NoBuf]
  /\ UNCHANGED <<blockno, flags, data, owner, ide, disk, changed, panicked>>

(***************************************************************************)
(* The IDE driver                                                          *)
(***************************************************************************)
Synced(b) == b \in valid \ dirty

\* iderw(): append to the queue, start the disk if the queue was empty, and
\* sleep.
Iderw(u) ==
  /\ pc[u] = "sync" /\ ~panicked
  /\ IF Synced(buf[u])
       THEN /\ panicked' = TRUE            \* panic("iderw: nothing to do")
            /\ UNCHANGED <<ide, pc>>
       ELSE /\ idequeue' = Append(idequeue, buf[u])
            /\ busy' = TRUE
            /\ Goto(u, "asleep")
            /\ UNCHANGED panicked
  /\ UNCHANGED <<cache, flags, data, owner, disk, blk, buf, changed>>

\* kill() makes a sleeping process runnable, whatever it sleeps for.
Kill(u) ==
  /\ pc[u] = "asleep" /\ ~panicked
  /\ Goto(u, "awake")
  /\ UNCHANGED <<cache, flags, data, owner, ide, disk, blk, buf, changed, panicked>>

\* The test of iderw()'s loop; "if" in the place of "while".
MutIderwLoop(u) ==
  /\ pc[u] = "awake" /\ ~panicked
  /\ Goto(u, "held")
  /\ UNCHANGED <<cache, flags, data, owner, ide, disk, blk, buf, changed, panicked>>

IderwLoop(u) ==
  /\ pc[u] = "awake" /\ ~panicked
  /\ Goto(u, IF Synced(buf[u]) THEN "held" ELSE "asleep")
  /\ UNCHANGED <<cache, flags, data, owner, ide, disk, blk, buf, changed, panicked>>

\* ideintr() does not go on with the next request.
MutIdeintr(ok) ==
  /\ busy /\ ~panicked
  /\ LET b == Head(idequeue) IN
       /\ idequeue' = Tail(idequeue)
       /\ busy' = FALSE
       /\ disk' = IF b \in dirty /\ ok THEN [disk EXCEPT ![blockno[b]] = data[b]] ELSE disk
       /\ data' = IF b \notin dirty /\ ok THEN [data EXCEPT ![b] = disk[blockno[b]]] ELSE data
       /\ valid' = valid \cup {b}
       /\ dirty' = dirty \ {b}
       /\ pc' = [u \in User |-> IF pc[u] = "asleep" /\ buf[u] = b THEN "awake" ELSE pc[u]]
  /\ UNCHANGED <<cache, owner, blk, buf, changed, panicked>>

\* The disk has finished with the head of the queue, with an error unless ok,
\* and interrupts.  ideintr() looks for an error only before it takes the
\* data of a read, and marks the buffer valid in every case.
Ideintr(ok) ==
  /\ busy /\ ~panicked
  /\ LET b == Head(idequeue) IN
       /\ idequeue' = Tail(idequeue)
       /\ busy' = (Tail(idequeue) # <<>>)
       /\ disk' = IF b \in dirty /\ ok THEN [disk EXCEPT ![blockno[b]] = data[b]] ELSE disk
       /\ data' = IF b \notin dirty /\ ok THEN [data EXCEPT ![b] = disk[blockno[b]]] ELSE data
       /\ valid' = valid \cup {b}
       /\ dirty' = dirty \ {b}
       /\ pc' = [u \in User |-> IF pc[u] = "asleep" /\ buf[u] = b THEN "awake" ELSE pc[u]]
  /\ UNCHANGED <<cache, owner, blk, buf, changed, panicked>>

Interrupt == \E ok \in Outcome : Ideintr(ok)

(***************************************************************************)
(* The specification                                                       *)
(***************************************************************************)
Bget(u) == \E k \in Block : BgetHit(u, k) \/ BgetRecycle(u, k) \/ BgetPanic(u, k)

Use(u) == (\E v \in Val : Change(u, v)) \/ Bwrite(u) \/ LogWrite(u) \/ Unlock(u)

\* The steps a user takes on its own, without a choice.
Kernel(u) == Lock(u) \/ Bread(u) \/ Iderw(u) \/ IderwLoop(u) \/ Brelse(u)

Next == Interrupt \/ \E u \in User : Bget(u) \/ Use(u) \/ Kernel(u) \/ Kill(u)

Spec == Init /\ [][Next]_vars

\* Processes run, and the disk answers.
FairSpec == Spec /\ WF_vars(Interrupt) /\ \A u \in User : WF_vars(Kernel(u))

(***************************************************************************)
(* Properties                                                              *)
(***************************************************************************)
\* What a block holds: the data of its buffer if that has some, and else
\* the disk's.
Contents ==
  [k \in Block |-> IF \E b \in Cached(k) : b \in valid
                     THEN data[CHOOSE b \in Cached(k) : b \in valid]
                     ELSE disk[k]]

Holder ==
  [k \in Block |-> IF \E b \in Cached(k) : owner[b] # NoUser
                     THEN owner[CHOOSE b \in Cached(k) : owner[b] # NoUser]
                     ELSE NoUser]

S == INSTANCE BlockStore WITH store <- Contents, holder <- Holder

\* The cache and the driver keep what was last put in each block, whatever is
\* recycled, read and written back, and let one user at a time change it.
ImplementsBlockStore == S!Spec

Queued(b) == \E j \in DOMAIN idequeue : idequeue[j] = b

\* No block is in two buffers, and the count of a buffer is the number of its
\* users: bget() takes bcache.lock once for the look-up and the recycling.
OneBufPerBlock ==
  /\ \A a, b \in Buf : blockno[a] = blockno[b] /\ blockno[a] # NoBlock => a = b
  /\ \A b \in Buf : refcnt[b] = Cardinality({u \in User : buf[u] = b})
  /\ \A u \in User : pc[u] # "idle" => blockno[buf[u]] = blk[u]

\* idequeue holds each buffer at most once, and only locked ones whose owner
\* is in iderw().
QueueSound ==
  /\ busy <=> idequeue # <<>>
  /\ \A j, k \in DOMAIN idequeue : idequeue[j] = idequeue[k] => j = k
  /\ \A j \in DOMAIN idequeue :
       LET u == owner[idequeue[j]] IN u # NoUser /\ pc[u] \in {"asleep", "awake"}

\* bread() and bwrite() come back with the data there and the disk done with
\* the buffer, also when a kill() ended the sleep early: buffers, their users
\* and the requests of the driver always fit together.
HeldIsValid ==
  /\ TypeOK /\ OneBufPerBlock /\ QueueSound
  /\ \A u \in User : pc[u] = "held" => buf[u] \in valid /\ ~Queued(buf[u])

\* Who has which buffer, and who its lock.
Holding == {"got", "sync", "asleep", "awake", "held"}

OwnerInv ==
  /\ \A u \in User : /\ pc[u] = "idle" <=> buf[u] = NoBuf
                     /\ pc[u] # "idle" => blk[u] \in Block
                     /\ pc[u] \in Holding => owner[buf[u]] = u
                     /\ u \in changed => pc[u] = "held"
  /\ \A b \in Buf : owner[b] # NoUser =>
       buf[owner[b]] = b /\ pc[owner[b]] \in Holding

\* A request is for a buffer that has no data or must be written.
DataInv ==
  \A b \in Buf : /\ Queued(b) => ~Synced(b)
                 /\ b \in dirty => b \in valid
                 /\ b \in valid => blockno[b] \in Block

\* The inductive invariant behind HeldIsValid.
Inv == HeldIsValid /\ OwnerInv /\ DataInv

\* A buffer with data and no changes is what the disk has, if that makes no
\* errors.
CleanInv ==
  \A b \in Buf : Synced(b) /\ (\A u \in changed : buf[u] # b) =>
    data[b] = disk[blockno[b]]

\* Every request that is queued is answered.
RequestsDone == \A u \in User : (pc[u] = "asleep" /\ ~panicked) ~> (pc[u] = "held" \/ panicked)
=============================================================================
