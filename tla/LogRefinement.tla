--------------------------- MODULE LogRefinement ---------------------------
(***************************************************************************)
(* The log implements AtomicDisk: every step of log.c, of the buffer cache *)
(* under it, and every crash is a step of the abstract disk or leaves it   *)
(* alone.  A group commits in the one write of the header, WriteHead.      *)
(***************************************************************************)
EXTENDS LogProofs

USE SizeAssumption, NoneAssumption

\* What AtomicDisk calls mem: what a read returns once recovery is over.
Mem == IF recovering THEN Durable ELSE [b \in Block |-> View(b)]

NoRepeat(h) == \A i, j \in 1..Len(h) : h[i] = h[j] => i = j

\* Recovery from header h and log blocks l onto the home blocks d.
Recovered(h, l, d) ==
  [b \in Block |-> IF b \in Range1(h) THEN l[CHOOSE i \in 1..Len(h) : h[i] = b]
                   ELSE d[b]]

\* recover_from_log() gives a block of the header its copy in the log and
\* leaves the other blocks alone.
LEMMA RecoveredAt ==
  ASSUME NEW h \in Seq(Block), NoRepeat(h), NEW l, NEW d
  PROVE  /\ \A i \in 1..Len(h) : Recovered(h, l, d)[h[i]] = l[i]
         /\ \A b \in Block \ Range1(h) : Recovered(h, l, d)[b] = d[b]
<1>1. ASSUME NEW i \in 1..Len(h) PROVE Recovered(h, l, d)[h[i]] = l[i]
  <2>1. h[i] \in Block /\ h[i] \in Range1(h)
    BY DEF Range1
  <2>2. (CHOOSE j \in 1..Len(h) : h[j] = h[i]) = i
    BY DEF NoRepeat
  <2> QED
    BY <2>1, <2>2, Zenon DEF Recovered
<1>2. ASSUME NEW b \in Block \ Range1(h) PROVE Recovered(h, l, d)[b] = d[b]
  BY DEF Recovered
<1> QED
  BY <1>1, <1>2, Zenon

\* The same, to compare with another disk.
LEMMA RecoveredIs ==
  ASSUME NEW h \in Seq(Block), NoRepeat(h), NEW l, NEW d, NEW f, f = [b \in Block |-> f[b]],
         \A i \in 1..Len(h) : f[h[i]] = l[i],
         \A b \in Block \ Range1(h) : f[b] = d[b]
  PROVE  Recovered(h, l, d) = f
<1>1. ASSUME NEW b \in Block PROVE Recovered(h, l, d)[b] = f[b]
  <2>1. CASE b \in Range1(h)
    <3>1. PICK i \in 1..Len(h) : h[i] = b
      BY <2>1 DEF Range1
    <3> QED
      BY <3>1, RecoveredAt
  <2>2. CASE b \notin Range1(h)
    BY <2>2, RecoveredAt
  <2> QED
    BY <2>1, <2>2
<1>2. Recovered(h, l, d) = [b \in Block |-> Recovered(h, l, d)[b]]
  BY DEF Recovered
<1> QED
  BY <1>1, <1>2

LEMMA DurableIsRecovered ==
  Durable = Recovered(head, dlog, disk) /\ Durable' = Recovered(head', dlog', disk')
<1> QED
  BY DEF Durable, Recovered

\* With an empty header the disk is what it is.
LEMMA NoHeader ==
  ASSUME NEW l, NEW d \in [Block -> Val]
  PROVE  Recovered(<<>>, l, d) = d
<1>1. Range1(<<>>) = {}
  BY DEF Range1
<1> QED
  BY <1>1 DEF Recovered

\* Steps that leave the disk, the buffers and the calls alone.
LEMMA QuietSteps ==
  ASSUME Inv, UNCHANGED <<stable, cache, recovering>>
  PROVE  Durable' = Durable /\ Mem' = Mem
<1>1. Durable' = Durable
  BY DEF Durable, stable
<1>2. \A b \in Block : View(b)' = View(b)
  BY DEF View, stable
<1> QED
  BY <1>1, <1>2, Zenon DEF Mem

\* Steps of a process outside a call, or inside it without writing.
LEMMA MoveMaps ==
  ASSUME Inv, NEW p \in Proc,
         Call(p) \/ BeginSleep(p) \/ LogCheck(p) \/ LogWrite(p) \/ CommitDone(p)
  PROVE  Durable' = Durable /\ Mem' = Mem /\ Active' = Active
<1>1. UNCHANGED <<stable, cache, recovering>>
  BY Zenon DEF Call, BeginSleep, LogCheck, LogWrite, CommitDone, buffers, commitvars
<1>2. Active' = Active
  BY DEF Call, BeginSleep, LogCheck, LogWrite, CommitDone, At, Goto, WakeAnd,
         Active, Inv, TypeOK
<1> QED
  BY <1>1, <1>2, QuietSteps, Zenon

LEMMA BeginMaps ==
  ASSUME Inv, NEW p \in Proc, BeginOp(p)
  PROVE  /\ p \notin Active /\ Active' = Active \cup {p}
         /\ Durable' = Durable /\ Mem' = Mem
<1>1. UNCHANGED <<stable, cache, recovering>>
  BY Zenon DEF BeginOp, buffers, commitvars
<1>2. p \notin Active /\ Active' = Active \cup {p}
  BY DEF BeginOp, At, Goto, Active, Inv, TypeOK
<1> QED
  BY <1>1, <1>2, QuietSteps

LEMMA EndMaps ==
  ASSUME Inv, NEW p \in Proc, EndOp(p) \/ EndOpCommit(p)
  PROVE  /\ p \in Active /\ Active' = Active \ {p}
         /\ Durable' = Durable /\ Mem' = Mem
<1>1. UNCHANGED <<stable, cache, recovering>>
  BY Zenon DEF EndOp, EndOpCommit, buffers, commitvars
<1>2. p \in Active /\ Active' = Active \ {p}
  BY DEF EndOp, EndOpCommit, At, Goto, WakeAnd, Active, Inv, TypeOK
<1> QED
  BY <1>1, <1>2, QuietSteps, Zenon

\* A change to a buffer is what every later read sees.
LEMMA ModifyMaps ==
  ASSUME Inv, NEW p \in Proc, NEW b \in Block, NEW v \in Val, Modify(p, b, v)
  PROVE  /\ p \in Active /\ Active' = Active
         /\ Durable' = Durable /\ Mem' = [Mem EXCEPT ![b] = v]
<1>1. p \in Active /\ Active' = Active
  BY DEF Modify, At, Goto, Active, Inv, TypeOK
<1>2. ~recovering /\ ~recovering'
  BY <1>1, InCall DEF Modify, commitvars
<1>3. Durable' = Durable
  BY DEF Modify, Durable, stable
<1>4. ASSUME NEW x \in Block PROVE View(x)' = IF x = b THEN v ELSE View(x)
  <2>1. cache' = [cache EXCEPT ![b] = v] /\ disk' = disk /\ v # None
    BY Zenon DEF Modify, stable
  <2>2. cache'[b] = v /\ (x # b => cache'[x] = cache[x])
    BY <2>1 DEF Inv, TypeOK
  <2> QED
    BY <2>1, <2>2, Zenon DEF View
<1> QED
  BY <1>1, <1>2, <1>3, <1>4, Zenon DEF Mem

\* Reading a block in and recycling its buffer change nothing a read sees.
LEMMA BufferMaps ==
  ASSUME Inv, NEW b \in Block, Load(b) \/ Evict(b)
  PROVE  Durable' = Durable /\ Mem' = Mem /\ Active' = Active
<1>1. UNCHANGED <<stable, recovering, procs>>
  BY Zenon DEF Load, Evict, commitvars
<1>2. Durable' = Durable /\ Active' = Active
  BY <1>1 DEF Durable, stable, Active, procs
<1>3. ASSUME NEW x \in Block PROVE View(x)' = View(x)
  <2>1. CASE x = b
    BY <2>1, Zenon DEF Load, Evict, View, stable, Inv, TypeOK, BufferInv, Busy
  <2>2. CASE x # b
    BY <2>2, Zenon DEF Load, Evict, View, stable, Inv, TypeOK
  <2> QED
    BY <2>1, <2>2, Zenon
<1> QED
  BY <1>1, <1>2, <1>3, Zenon DEF Mem

\* Blocks written to the log mean nothing before the header is written.
LEMMA WriteLogMaps ==
  ASSUME Inv, WriteLog
  PROVE  Durable' = Durable /\ Mem' = Mem /\ Active' = Active
<1>1. head = <<>> /\ head' = <<>> /\ disk' = disk /\ disk \in [Block -> Val]
  BY Zenon DEF WriteLog, Inv, TypeOK, HeadInv
<1>2. Durable' = Durable
  BY <1>1, NoHeader, DurableIsRecovered, Zenon
<1>3. UNCHANGED <<cache, recovering, pc>>
  BY Zenon DEF WriteLog, buffers, procs
<1> QED
  BY <1>1, <1>2, <1>3, Zenon DEF Mem, View, Active

\* While a group is committed or recovered, recovery's result for the blocks of
\* the header is in the log.
LEMMA InstallFacts ==
  ASSUME Inv, phase = "install"
  PROVE  /\ head = lh /\ lh \in Seq(Block) /\ NoRepeat(lh)
         /\ \A i \in 1..Len(lh) : Durable[lh[i]] = dlog[i]
         /\ \A b \in Block \ Range1(lh) : Durable[b] = disk[b]
<1>1. head = lh /\ lh \in Seq(Block) /\ NoRepeat(lh)
  BY DEF Inv, TypeOK, HeadInv, NoRepeat
<1> QED
  BY <1>1, RecoveredAt, DurableIsRecovered

\* The one write of the header is the commit: it makes durable what the calls
\* of the group have written, all of it at once, while no call is open.
LEMMA WriteHeadMaps ==
  ASSUME Inv, WriteHead
  PROVE  Active = {} /\ Active' = {} /\ Durable' = Mem /\ Mem' = Mem
<1>1. /\ UNCHANGED <<disk, dlog, buffers, lh, recovering, procs>>
      /\ phase = "log" /\ tail > Len(lh) /\ head' = lh
  BY Zenon DEF WriteHead
<1>2. Active = {} /\ Active' = {} /\ ~recovering /\ dirty = Range1(lh)
  BY <1>1, Zenon DEF Inv, ControlInv, BufferInv, Active, procs
<1>3. ASSUME NEW b \in Block PROVE ~Busy(b)
  <2>1. ASSUME NEW p \in Proc PROVE cur[p] = None
    BY <1>2, Zenon DEF Inv, BufferInv, Active
  <2> QED
    BY <2>1, Zenon DEF Busy
<1>4. lh \in Seq(Block) /\ NoRepeat(lh)
  BY Zenon DEF Inv, TypeOK, HeadInv, NoRepeat
<1>5. Mem = [b \in Block |-> View(b)] /\ Mem' = Mem
  BY <1>1, <1>2, Zenon DEF Mem, View, buffers
<1>6. ASSUME NEW i \in 1..Len(lh) PROVE Mem[lh[i]] = dlog[i]
  <2>1. i \in 1..(tail - 1) /\ lh[i] \in Block
    BY <1>1 DEF Inv, TypeOK
  <2> QED
    BY <1>1, <1>5, <2>1, Zenon DEF Inv, CopyInv
<1>7. ASSUME NEW b \in Block \ Range1(lh) PROVE Mem[b] = disk[b]
  BY <1>2, <1>3, <1>5, Zenon DEF Inv, BufferInv
<1>8. Mem = [b \in Block |-> Mem[b]]
  BY <1>5
<1>9. Recovered(lh, dlog, disk) = Mem
  BY <1>4, <1>6, <1>7, <1>8, RecoveredIs
<1> QED
  BY <1>1, <1>2, <1>5, <1>9, DurableIsRecovered

\* Copying a block home repeats what the header already promises.
LEMMA InstallTransMaps ==
  ASSUME Inv, InstallTrans
  PROVE  Durable' = Durable /\ Mem' = Mem /\ Active' = Active
<1>1. /\ UNCHANGED <<dlog, head, lh, recovering, procs>>
      /\ phase = "install" /\ tail <= Len(lh)
      /\ disk' = [disk EXCEPT ![lh[tail]] = dlog[tail]]
      /\ cache' = [cache EXCEPT ![lh[tail]] = dlog[tail]]
  BY Zenon DEF InstallTrans
<1>2. Len(lh) <= LOGSIZE /\ Len(lh) \in Nat
  BY Finite DEF Inv, TypeOK, ReserveInv
<1>3. tail \in 1..Len(lh) /\ lh[tail] \in Block /\ dlog[tail] \in Val
  BY <1>1, <1>2 DEF Inv, TypeOK
<1>4. Durable' = Durable
  <2>1. ASSUME NEW b \in Block \ Range1(lh) PROVE Durable[b] = disk'[b]
    <3>1. b # lh[tail]
      BY <1>3, Zenon DEF Range1
    <3> QED
      BY <1>1, <3>1, InstallFacts, Zenon DEF Inv, TypeOK
  <2>2. Durable = [b \in Block |-> Durable[b]]
    BY DEF Durable
  <2>3. Recovered(lh, dlog, disk') = Durable
    <3>1. lh \in Seq(Block) /\ NoRepeat(lh)
      BY <1>1, InstallFacts, Zenon
    <3>2. \A i \in 1..Len(lh) : Durable[lh[i]] = dlog[i]
      BY <1>1, InstallFacts, Zenon
    <3> QED
      BY <2>1, <2>2, <3>1, <3>2, RecoveredIs
  <2> QED
    BY <1>1, <2>3, InstallFacts, DurableIsRecovered, Zenon
<1>5. ASSUME ~recovering, NEW b \in Block PROVE View(b)' = View(b)
  <2>1. CASE b = lh[tail]
    <3>1. tail \in tail..Len(lh)
      BY <1>3
    <3>2. cache[b] = dlog[tail]
      BY <1>1, <1>5, <2>1, <3>1, Zenon DEF Inv, CopyInv
    <3>3. cache'[b] = dlog[tail]
      BY <1>1, <1>3, <2>1, Zenon DEF Inv, TypeOK
    <3> QED
      BY <1>3, <3>2, <3>3, Zenon DEF View
  <2>2. CASE b # lh[tail]
    <3>1. cache'[b] = cache[b] /\ disk'[b] = disk[b]
      BY <1>1, <2>2, Zenon DEF Inv, TypeOK
    <3> QED
      BY <3>1, Zenon DEF View
  <2> QED
    BY <2>1, <2>2, Zenon
<1> QED
  BY <1>1, <1>4, <1>5, Zenon DEF Mem, Active, procs

\* The header is erased only when the home blocks say the same.
LEMMA ClearHeadMaps ==
  ASSUME Inv, ClearHead
  PROVE  Durable' = Durable /\ Mem' = Mem /\ Active' = Active
<1>1. /\ UNCHANGED <<disk, dlog, buffers, procs>>
      /\ phase = "install" /\ tail > Len(lh)
      /\ head' = <<>> /\ ~recovering'
  BY Zenon DEF ClearHead
<1>2. disk \in [Block -> Val] /\ disk = [b \in Block |-> disk[b]]
  BY DEF Inv, TypeOK
<1>3. Durable' = disk
  BY <1>1, <1>2, NoHeader, DurableIsRecovered, Zenon
<1>4. Durable = disk
  BY <1>1, <1>2, InstallFacts, Installed, RecoveredIs, DurableIsRecovered
<1>5. ASSUME NEW b \in Block PROVE View(b)' = View(b) /\ View(b) = disk[b]
  BY <1>1, Installed, Zenon DEF View, buffers
<1>6. Mem' = disk /\ Mem = disk
  BY <1>1, <1>2, <1>4, <1>5, Zenon DEF Mem
<1> QED
  BY <1>1, <1>3, <1>4, <1>6, Zenon DEF Active, procs

\* A crash falls back to what was durable.
LEMMA CrashMaps ==
  ASSUME Inv, Crash
  PROVE  Durable' = Durable /\ Mem' = Durable /\ Active' = {}
<1>1. Durable' = Durable /\ recovering'
  BY DEF Crash, Durable, stable
<1>2. Active' = {}
  BY DEF Crash, Active
<1> QED
  BY <1>1, <1>2, Zenon DEF Mem

LEMMA ReadHeadMaps ==
  ASSUME Inv, ReadHead
  PROVE  Durable' = Durable /\ Mem' = Mem /\ Active' = Active
<1>1. UNCHANGED <<stable, cache, recovering, pc>>
  BY DEF ReadHead, buffers, procs
<1> QED
  BY <1>1, QuietSteps, Zenon DEF Active

\* File system calls are atomic across crashes, for any number of processes and
\* blocks and any sizes: log.c implements AtomicDisk.
THEOREM LogImplementsAtomicDisk == Spec => ImplementsAtomicDisk
<1>1. Init => A!Init
  <2> SUFFICES ASSUME Init PROVE A!Init
    OBVIOUS
  <2>1. Durable = disk /\ disk \in [Block -> Val]
    BY NoHeader, DurableIsRecovered, Zenon DEF Init
  <2>2. recovering /\ Active = {}
    BY Zenon DEF Init, Active
  <2> QED
    BY <2>1, <2>2, Zenon DEF A!Init
<1>2. Inv /\ [Next]_vars => [A!Next]_A!vars
  <2> SUFFICES ASSUME Inv, [Next]_vars
               PROVE  \/ A!Next
                      \/ Durable' = Durable /\ Mem' = Mem /\ Active' = Active
    BY DEF A!vars, Mem
  <2>1. ASSUME NEW p \in Proc, BeginOp(p) PROVE A!Begin(p)
    BY <2>1, BeginMaps, Zenon DEF A!Begin, Mem
  <2>2. ASSUME NEW p \in Proc, EndOp(p) \/ EndOpCommit(p) PROVE A!End(p)
    BY <2>2, EndMaps, Zenon DEF A!End, Mem
  <2>3. ASSUME NEW p \in Proc, NEW b \in Block, NEW v \in Val, Modify(p, b, v)
        PROVE  A!Write(p, b, v)
    BY <2>3, ModifyMaps DEF A!Write, Mem
  <2>4. ASSUME WriteHead PROVE A!Commit
    BY <2>4, WriteHeadMaps DEF A!Commit, Mem
  <2>5. ASSUME Crash PROVE A!Crash
    BY <2>5, CrashMaps DEF A!Crash, Mem
  <2>6. CASE \E p \in Proc : Call(p) \/ BeginSleep(p) \/ LogCheck(p) \/ LogWrite(p)
                             \/ CommitDone(p)
    BY <2>6, MoveMaps
  <2>7. CASE \E b \in Block : Load(b) \/ Evict(b)
    BY <2>7, BufferMaps
  <2>8. CASE WriteLog \/ InstallTrans \/ ClearHead \/ ReadHead
    BY <2>8, WriteLogMaps, InstallTransMaps, ClearHeadMaps, ReadHeadMaps, Zenon
  <2>9. CASE UNCHANGED vars
    <3>1. UNCHANGED <<stable, cache, recovering, pc>>
      BY <2>9 DEF vars, buffers, commitvars, procs
    <3> QED
      BY <3>1, QuietSteps, Zenon DEF Active
  <2> QED
    BY <2>1, <2>2, <2>3, <2>4, <2>5, <2>6, <2>7, <2>8, <2>9, Zenon
       DEF Next, DiskStep, A!Next
<1> QED
  BY <1>1, <1>2, LogInvariance, PTL DEF Spec, ImplementsAtomicDisk, A!Spec
=============================================================================
