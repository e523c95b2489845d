-------------------------------- MODULE Pipe --------------------------------
(***************************************************************************)
(* A pipe (core/pipe.c) shared by processes that write to it, read from    *)
(* it, close their ends and get killed.  The counters nread and nwrite are *)
(* 32-bit and wrap; their width is scaled down to WRAP.                    *)
(*                                                                         *)
(* p->lock is a variable; one iteration of the copy loops is one step of   *)
(* its owner.  sleep() gives the lock up and parks the process, which is   *)
(* what module SleepLock establishes about sleep() and wakeup().  Each end *)
(* is one struct file, shared by the processes that hold it (fork, dup):   *)
(* fileclose() calls pipeclose() for the last of them.                     *)
(***************************************************************************)
EXTENDS Integers, Sequences

CONSTANTS
  PIPESIZE,
  WRAP,              \* 2^32 in the code
  Byte,
  Writer, Reader,    \* processes holding the write and the read end
  NoProc,
  Victim,            \* processes that kill() may be called on
  MaxN               \* largest count passed to read and write

ASSUME SizeAssumption ==
  /\ PIPESIZE \in Nat \ {0} /\ WRAP \in Nat /\ MaxN \in Nat \ {0}
  /\ WRAP > PIPESIZE /\ WRAP % PIPESIZE = 0
ASSUME EndsAssumption ==
    /\ Victim \subseteq Writer \cup Reader /\ Writer \cap Reader = {}
    /\ NoProc \notin Writer \cup Reader

Proc == Writer \cup Reader

VARIABLES
  data, nread, nwrite, readopen, writeopen,  \* struct pipe
  lock,                \* owner of p->lock
  freed,               \* the page of the pipe was given back
  refs,                \* processes that still hold their end
  killed,
  pc, n, i,            \* per process: place in the code, count, index
  ret                  \* end of file or failure reported to each process

ring == <<data, nread, nwrite>>
ends == <<readopen, writeopen, freed, refs>>
procs == <<pc, n, i, ret>>
vars == <<ring, ends, lock, killed, procs>>

Label == {"idle", "enter", "write", "nowrite", "read", "noread", "copy",
          "close", "gone"}

TypeOK ==
  /\ data \in [0..(PIPESIZE - 1) -> Byte]
  /\ nread \in 0..(WRAP - 1) /\ nwrite \in 0..(WRAP - 1)
  /\ readopen \in BOOLEAN /\ writeopen \in BOOLEAN
  /\ lock \in Proc \cup {NoProc}
  /\ freed \in BOOLEAN
  /\ refs \in SUBSET Proc
  /\ killed \in SUBSET Proc
  /\ pc \in [Proc -> Label]
  /\ n \in [Proc -> 0..MaxN] /\ i \in [Proc -> 0..MaxN]
  /\ ret \in [Proc -> {"none", "eof", "fail"}]

\* pipealloc() succeeded; both ends are passed on by fork.
Init ==
  /\ data \in [0..(PIPESIZE - 1) -> Byte]
  /\ nread = 0 /\ nwrite = 0
  /\ readopen = TRUE /\ writeopen = TRUE
  /\ lock = NoProc
  /\ freed = FALSE
  /\ refs = Proc
  /\ killed = {}
  /\ pc = [p \in Proc |-> "idle"]
  /\ n = [p \in Proc |-> 0]
  /\ i = [p \in Proc |-> 0]
  /\ ret = [p \in Proc |-> "none"]

Full == nwrite = (nread + PIPESIZE) % WRAP
Empty == nread = nwrite

Goto(p, l) == pc' = [pc EXCEPT ![p] = l]

\* wakeup(&p->nread) is for the sleepers at "noread", wakeup(&p->nwrite) for
\* those at "nowrite": they go back to acquire p->lock.
WakeAnd(sleepers, p, l) ==
  pc' = [q \in Proc |-> IF q = p THEN l
                        ELSE IF pc[q] = sleepers THEN "enter" ELSE pc[q]]

\* The call ends and its locals with it.
Return(p, r) ==
  /\ ret' = [ret EXCEPT ![p] = r]
  /\ n' = [n EXCEPT ![p] = 0]
  /\ i' = [i EXCEPT ![p] = 0]

\* read(fd, buf, k) or write(fd, buf, k).  trap() lets no killed process make
\* another call: it exits, and exit() closes its end.
Call(p, k) ==
  /\ pc[p] = "idle"
  /\ p \in refs
  /\ p \notin killed
  /\ n' = [n EXCEPT ![p] = k]
  /\ Goto(p, "enter")
  /\ UNCHANGED <<ring, ends, lock, killed, i, ret>>

\* acquire(&p->lock), at the entry and at the end of sleep().
Enter(p) ==
  /\ pc[p] = "enter"
  /\ lock = NoProc
  /\ lock' = p
  /\ Goto(p, IF p \in Writer THEN "write" ELSE "read")
  /\ UNCHANGED <<ring, ends, killed, n, i, ret>>

(***************************************************************************)
(* pipewrite                                                               *)
(***************************************************************************)
\* One byte into the ring, without the test for a full pipe.
MutPut(p, b) ==
  /\ pc[p] = "write"
  /\ i[p] < n[p]
  /\ data' = [data EXCEPT ![nwrite % PIPESIZE] = b]
  /\ nwrite' = (nwrite + 1) % WRAP
  /\ i' = [i EXCEPT ![p] = @ + 1]
  /\ UNCHANGED <<nread, ends, lock, killed, pc, n, ret>>

Put(p, b) ==
  /\ pc[p] = "write"
  /\ i[p] < n[p]
  /\ ~Full
  /\ data' = [data EXCEPT ![nwrite % PIPESIZE] = b]
  /\ nwrite' = (nwrite + 1) % WRAP
  /\ i' = [i EXCEPT ![p] = @ + 1]
  /\ UNCHANGED <<nread, ends, lock, killed, pc, n, ret>>

\* Full, and nobody will ever read, or the writer was killed.
WriteFail(p) ==
  /\ pc[p] = "write"
  /\ i[p] < n[p]
  /\ Full
  /\ ~readopen \/ p \in killed
  /\ lock' = NoProc
  /\ Return(p, "fail")
  /\ Goto(p, "idle")
  /\ UNCHANGED <<ring, ends, killed>>

\* Full: wake the readers and sleep on nwrite.
WriteSleep(p) ==
  /\ pc[p] = "write"
  /\ i[p] < n[p]
  /\ Full
  /\ readopen /\ p \notin killed
  /\ WakeAnd("noread", p, "nowrite")
  /\ lock' = NoProc
  /\ UNCHANGED <<ring, ends, killed, n, i, ret>>

WriteDone(p) ==
  /\ pc[p] = "write"
  /\ i[p] = n[p]
  /\ WakeAnd("noread", p, "idle")
  /\ lock' = NoProc
  /\ Return(p, ret[p])
  /\ UNCHANGED <<ring, ends, killed>>

(***************************************************************************)
(* piperead                                                                *)
(***************************************************************************)
ReadFail(p) ==
  /\ pc[p] = "read"
  /\ Empty /\ writeopen
  /\ p \in killed
  /\ lock' = NoProc
  /\ Return(p, "fail")
  /\ Goto(p, "idle")
  /\ UNCHANGED <<ring, ends, killed>>

ReadSleep(p) ==
  /\ pc[p] = "read"
  /\ Empty /\ writeopen
  /\ p \notin killed
  /\ Goto(p, "noread")
  /\ lock' = NoProc
  /\ UNCHANGED <<ring, ends, killed, n, i, ret>>

\* The first loop is left: go on to copy.  A reader that leaves it on every
\* wakeup would take an empty pipe for a closed one.
MutReadReady(p) ==
  /\ pc[p] = "read"
  /\ Goto(p, "copy")
  /\ UNCHANGED <<ring, ends, lock, killed, n, i, ret>>

ReadReady(p) ==
  /\ pc[p] = "read"
  /\ ~(Empty /\ writeopen)
  /\ Goto(p, "copy")
  /\ UNCHANGED <<ring, ends, lock, killed, n, i, ret>>

Get(p) ==
  /\ pc[p] = "copy"
  /\ i[p] < n[p]
  /\ ~Empty
  /\ nread' = (nread + 1) % WRAP
  /\ i' = [i EXCEPT ![p] = @ + 1]
  /\ UNCHANGED <<data, nwrite, ends, lock, killed, pc, n, ret>>

ReadDone(p) ==
  /\ pc[p] = "copy"
  /\ i[p] = n[p] \/ Empty
  /\ WakeAnd("nowrite", p, "idle")
  /\ lock' = NoProc
  /\ Return(p, IF i[p] = 0 THEN "eof" ELSE ret[p])
  /\ UNCHANGED <<ring, ends, killed>>

(***************************************************************************)
(* close, kill                                                             *)
(***************************************************************************)
Peers(p) == IF p \in Writer THEN Writer ELSE Reader

\* fileclose(): the last holder of an end goes on to pipeclose().
Close(p) ==
  /\ pc[p] = "idle"
  /\ p \in refs
  /\ refs' = refs \ {p}
  /\ Goto(p, IF refs \cap Peers(p) = {p} THEN "close" ELSE "gone")
  /\ UNCHANGED <<ring, readopen, writeopen, freed, lock, killed, n, i, ret>>

\* pipeclose() wakes nobody.
MutPipeClose(p) ==
  /\ pc[p] = "close"
  /\ lock = NoProc
  /\ IF p \in Writer
       THEN /\ writeopen' = FALSE
            /\ freed' = ~readopen
            /\ UNCHANGED readopen
       ELSE /\ readopen' = FALSE
            /\ freed' = ~writeopen
            /\ UNCHANGED writeopen
  /\ Goto(p, "gone")
  /\ UNCHANGED <<ring, refs, lock, killed, n, i, ret>>

\* pipeclose() frees the pipe with the first end that is closed.
MutPipeFree(p) ==
  /\ pc[p] = "close"
  /\ lock = NoProc
  /\ IF p \in Writer
       THEN /\ writeopen' = FALSE
            /\ WakeAnd("noread", p, "gone")
            /\ UNCHANGED readopen
       ELSE /\ readopen' = FALSE
            /\ WakeAnd("nowrite", p, "gone")
            /\ UNCHANGED writeopen
  /\ freed' = TRUE
  /\ UNCHANGED <<ring, refs, lock, killed, n, i, ret>>

PipeClose(p) ==
  /\ pc[p] = "close"
  /\ lock = NoProc
  /\ IF p \in Writer
       THEN /\ writeopen' = FALSE
            /\ WakeAnd("noread", p, "gone")
            /\ freed' = ~readopen
            /\ UNCHANGED readopen
       ELSE /\ readopen' = FALSE
            /\ WakeAnd("nowrite", p, "gone")
            /\ freed' = ~writeopen
            /\ UNCHANGED writeopen
  /\ UNCHANGED <<ring, refs, lock, killed, n, i, ret>>

\* kill() also wakes its victim.
Kill(p) ==
  /\ p \in Victim \ killed
  /\ killed' = killed \cup {p}
  /\ IF pc[p] \in {"noread", "nowrite"} THEN Goto(p, "enter") ELSE UNCHANGED pc
  /\ UNCHANGED <<ring, ends, lock, n, i, ret>>

Step(p) ==
  \/ Enter(p)
  \/ (\E b \in Byte : Put(p, b)) \/ WriteFail(p) \/ WriteSleep(p) \/ WriteDone(p)
  \/ ReadFail(p) \/ ReadSleep(p) \/ ReadReady(p) \/ Get(p) \/ ReadDone(p)
  \/ PipeClose(p)

UserStep(p) == (\E k \in 1..MaxN : Call(p, k)) \/ Close(p)

Next == \E p \in Proc : Step(p) \/ UserStep(p) \/ Kill(p)

\* When every end is closed nothing is left to do.
Spec == Init /\ [][Next]_vars

\* Processes run, and one that holds an end goes on using it or closes it in
\* the end (exit closes it for the others).
FairSpec == Spec /\ \A p \in Proc : WF_vars(Step(p)) /\ WF_vars(UserStep(p))

(***************************************************************************)
(* Properties                                                              *)
(***************************************************************************)
\* The bytes in the pipe, oldest first.
Contents ==
  [k \in 1..((nwrite - nread) % WRAP) |-> data[(nread + k - 1) % PIPESIZE]]

Q == INSTANCE ByteQueue WITH
       q <- Contents, Capacity <- PIPESIZE, ropen <- readopen, wopen <- writeopen

\* The pipe is a FIFO queue of at most PIPESIZE bytes, whoever writes and
\* reads it, also when the counters wrap around and when writers sleep in
\* the middle of a write.
ImplementsByteQueue == Q!Spec

\* What a call returns is true: once a read has returned 0, the write end is
\* closed and there will never be anything more to read, and only a killed
\* process or one whose readers are gone sees a call fail.
ResultsTrue ==
  /\ TypeOK
  /\ (\E p \in Proc : ret[p] = "eof") => ~writeopen /\ Empty
  /\ \A p \in Proc : ret[p] = "fail" => p \in killed \/ (p \in Writer /\ ~readopen)

\* The page is freed only when nobody can touch the pipe any more, not even
\* to wait for its lock.
NoUseAfterFree == freed => \A p \in Proc : pc[p] = "gone"

(***************************************************************************)
(* The inductive invariant.                                                *)
(***************************************************************************)
\* p->lock is held exactly by the process inside the copy loops, and each end
\* runs its own function.
LockInv ==
  /\ \A p \in Proc : pc[p] \in {"write", "read", "copy"} <=> lock = p
  /\ \A p \in Writer : pc[p] \notin {"read", "noread", "copy"}
  /\ \A p \in Reader : pc[p] \notin {"write", "nowrite"}

\* fileclose() lets one process of each end, the last one, reach pipeclose(),
\* and an end is open until that process has been there.
EndsInv ==
  /\ \A p \in Proc : p \in refs <=> pc[p] \notin {"close", "gone"}
  /\ \A p \in Proc : pc[p] = "close" => \A q \in Peers(p) : q = p \/ pc[q] = "gone"
  /\ ~writeopen => \A p \in Writer : pc[p] = "gone"
  /\ ~readopen => \A p \in Reader : pc[p] = "gone"
  /\ freed => ~readopen /\ ~writeopen

\* A call asks for at least one byte, a reader that has copied nothing knows
\* that there is a byte to copy or no writer, and the ring is never overrun.
LoopInv ==
  /\ \A p \in Proc : pc[p] \notin {"idle", "close", "gone"} => n[p] > 0
  /\ \A p \in Reader : pc[p] # "copy" => i[p] = 0
  /\ \A p \in Reader : pc[p] = "copy" /\ i[p] = 0 => ~(Empty /\ writeopen)
  /\ (nwrite - nread) % WRAP <= PIPESIZE

Inv == ResultsTrue /\ LockInv /\ EndsInv /\ LoopInv

\* Sleeping readers and writers are woken in the end, by data, by room, or by
\* the other end being closed.
SleepersWake ==
  \A p \in Proc : (pc[p] \in {"noread", "nowrite"}) ~>
                  (pc[p] \notin {"noread", "nowrite"})
=============================================================================
