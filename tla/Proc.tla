-------------------------------- MODULE Proc --------------------------------
(***************************************************************************)
(* The process table and the per-CPU schedulers (core/proc.c), driven by   *)
(* the trap handler (platform/x86/trap.c): fork, exit, wait, kill, yield,  *)
(* sleep and wakeup, the scheduler loop, and ptable.lock, which a process  *)
(* hands to the scheduler and back through swtch.                          *)
(*                                                                         *)
(* Slots of ptable.proc are numbered 1..NPROC, 0 is the null pointer and   *)
(* initproc is slot 1.  Code that runs with ptable.lock held and does not  *)
(* switch stacks is one step; a step that switches leaves the lock with    *)
(* the CPU.  pc[p] is the point in the kernel where the thread of slot p   *)
(* is, or where it resumes when a scheduler switches to it.                *)
(***************************************************************************)
EXTENDS Naturals, FiniteSetsExt

CONSTANTS
  NPROC,        \* slots of the process table
  Cpu, NoCpu,   \* processors; NoCpu: ptable.lock is free
  MaxPid,       \* bound: nobody calls fork once nextpid is above it
  KillPids      \* arguments user programs pass to kill()

ASSUME NprocAssumption == NPROC \in Nat /\ NPROC > 0
ASSUME CpuAssumption == NoCpu \notin Cpu
ASSUME PidAssumption == MaxPid \in Nat /\ KillPids \subseteq Nat

Slot == 1..NPROC
NULL == 0
initproc == 1
Cursor == 1..(NPROC + 1)   \* positions of a loop over the table
IO == NPROC + 1   \* any channel that is not a process (ticks, a buffer, ...)

State == {"UNUSED", "EMBRYO", "SLEEPING", "RUNNABLE", "RUNNING", "ZOMBIE"}

Calls == {"fork", "wait", "kill", "other"}

Label == Calls \cup {"none", "forkret", "user", "ret", "kstack", "copy",
                     "ready", "exit", "yielded", "waited", "slept", "dead"}

VARIABLES
  state, pid, parent, chan, killed,  \* the fields of struct proc
  kstack,    \* slots with a kernel stack and, once forked, a page directory
  pc,        \* see above
  resume,    \* where a thread goes on after yield() or sleep()
  np,        \* the child a thread is forking
  nextpid,
  plock,     \* lk->cpu of ptable.lock
  at,        \* what each CPU is doing: see CpuAt
  scan,      \* the loop variable p of scheduler()
  cpuproc,   \* c->proc
  panicked   \* a panic froze the machine

table == <<state, pid, parent, chan, killed, kstack>>
thread == <<pc, resume, np>>
sched == <<plock, at, scan, cpuproc>>
vars == <<table, thread, sched, nextpid, panicked>>

\* "loop": between two passes, lock free; "scan": scanning with the lock held;
\* "proc": on the stack of process cpuproc; "sched": still on that stack, in
\* sched(), about to swtch.
CpuAt == {"loop", "scan", "proc", "sched"}

TableType ==
  /\ state \in [Slot -> State]
  /\ pid \in [Slot -> Nat]
  /\ parent \in [Slot -> Slot \cup {NULL}]
  /\ chan \in [Slot -> Slot \cup {NULL, IO}]
  /\ killed \in [Slot -> BOOLEAN]
  /\ kstack \in SUBSET Slot

ThreadType ==
  /\ pc \in [Slot -> Label]
  /\ resume \in [Slot -> Label]
  /\ np \in [Slot -> Slot \cup {NULL}]

SchedType ==
  /\ plock \in Cpu \cup {NoCpu}
  /\ at \in [Cpu -> CpuAt]
  /\ scan \in [Cpu -> Cursor]
  /\ cpuproc \in [Cpu -> Slot \cup {NULL}]

TypeOK ==
  /\ TableType
  /\ ThreadType
  /\ SchedType
  /\ nextpid \in Nat
  /\ panicked \in BOOLEAN

\* After userinit(): one RUNNABLE process, every CPU about to enter scheduler().
Init ==
  /\ state = [p \in Slot |-> IF p = initproc THEN "RUNNABLE" ELSE "UNUSED"]
  /\ pid = [p \in Slot |-> IF p = initproc THEN 1 ELSE 0]
  /\ parent = [p \in Slot |-> NULL]
  /\ chan = [p \in Slot |-> NULL]
  /\ killed = [p \in Slot |-> FALSE]
  /\ kstack = {initproc}
  /\ pc = [p \in Slot |-> IF p = initproc THEN "forkret" ELSE "none"]
  /\ resume = [p \in Slot |-> "none"]
  /\ np = [p \in Slot |-> NULL]
  /\ nextpid = 2
  /\ plock = NoCpu
  /\ at = [c \in Cpu |-> "loop"]
  /\ scan = [c \in Cpu |-> 1]
  /\ cpuproc = [c \in Cpu |-> NULL]
  /\ panicked = FALSE

On(c, l) == ~panicked /\ at[c] = "proc" /\ pc[cpuproc[c]] = l

Goto(p, l) == pc' = [pc EXCEPT ![p] = l]

(***************************************************************************)
(* scheduler                                                               *)
(***************************************************************************)
SchedAcquire(c) ==
  /\ ~panicked
  /\ at[c] = "loop"
  /\ plock = NoCpu
  /\ plock' = c
  /\ scan' = [scan EXCEPT ![c] = 1]
  /\ at' = [at EXCEPT ![c] = "scan"]
  /\ UNCHANGED <<table, thread, cpuproc, nextpid, panicked>>

RunnableFrom(n) == {p \in Slot : p >= n /\ state[p] = "RUNNABLE"}

\* The first RUNNABLE slot at or after the loop variable gets the CPU, with
\* ptable.lock held: it is the process's job to release it.
Dispatch(c) ==
  /\ ~panicked
  /\ at[c] = "scan"
  /\ RunnableFrom(scan[c]) # {}
  /\ LET p == Min(RunnableFrom(scan[c])) IN
       /\ cpuproc' = [cpuproc EXCEPT ![c] = p]
       /\ state' = [state EXCEPT ![p] = "RUNNING"]
       /\ scan' = [scan EXCEPT ![c] = p]
  /\ at' = [at EXCEPT ![c] = "proc"]
  /\ UNCHANGED <<pid, parent, chan, killed, kstack, thread, plock, nextpid,
                 panicked>>

\* End of a pass over the table.
SchedRelease(c) ==
  /\ ~panicked
  /\ at[c] = "scan"
  /\ RunnableFrom(scan[c]) = {}
  /\ plock' = NoCpu
  /\ at' = [at EXCEPT ![c] = "loop"]
  /\ UNCHANGED <<table, thread, scan, cpuproc, nextpid, panicked>>

\* swtch() in sched(): back on the scheduler's stack, c->proc = 0, next slot.
MutSwtch(c) ==
  /\ ~panicked
  /\ at[c] = "sched"
  /\ cpuproc' = [cpuproc EXCEPT ![c] = NULL]
  /\ scan' = [scan EXCEPT ![c] = 1]
  /\ at' = [at EXCEPT ![c] = "scan"]
  /\ UNCHANGED <<table, thread, plock, nextpid, panicked>>

Swtch(c) ==
  /\ ~panicked
  /\ at[c] = "sched"
  /\ cpuproc' = [cpuproc EXCEPT ![c] = NULL]
  /\ scan' = [scan EXCEPT ![c] = @ + 1]
  /\ at' = [at EXCEPT ![c] = "scan"]
  /\ UNCHANGED <<table, thread, plock, nextpid, panicked>>

\* A thread that was switched to with the lock held gives it up: forkret(),
\* the end of yield(), and of a sleep() whose lock is not ptable.lock.
Forkret(c) ==
  /\ On(c, "forkret")
  /\ plock' = NoCpu
  /\ Goto(cpuproc[c], "user")
  /\ UNCHANGED <<table, resume, np, at, scan, cpuproc, nextpid, panicked>>

YieldReturn(c) ==
  /\ On(c, "yielded")
  /\ plock' = NoCpu
  /\ Goto(cpuproc[c], resume[cpuproc[c]])
  /\ resume' = [resume EXCEPT ![cpuproc[c]] = "none"]
  /\ UNCHANGED <<table, np, at, scan, cpuproc, nextpid, panicked>>

SleepReturn(c) ==
  /\ On(c, "slept")
  /\ chan' = [chan EXCEPT ![cpuproc[c]] = NULL]
  /\ plock' = NoCpu
  /\ Goto(cpuproc[c], resume[cpuproc[c]])
  /\ resume' = [resume EXCEPT ![cpuproc[c]] = "none"]
  /\ UNCHANGED <<state, pid, parent, killed, kstack, np, at, scan, cpuproc,
                 nextpid, panicked>>

(***************************************************************************)
(* trap                                                                    *)
(***************************************************************************)
\* A system call: a killed process exits instead of making it.
\* MaxPid keeps the state space finite.
Syscall(c, call) ==
  /\ On(c, "user")
  /\ call = "fork" => nextpid <= MaxPid
  /\ Goto(cpuproc[c], IF killed[cpuproc[c]] THEN "exit" ELSE call)
  /\ UNCHANGED <<table, resume, np, sched, nextpid, panicked>>

\* A system call that does not touch the process table.
OtherCall(c) ==
  /\ On(c, "other")
  /\ Goto(cpuproc[c], "ret")
  /\ UNCHANGED <<table, resume, np, sched, nextpid, panicked>>

\* The check of killed on the way back to user space.
ReturnToUser(c) ==
  /\ On(c, "ret")
  /\ Goto(cpuproc[c], IF killed[cpuproc[c]] THEN "exit" ELSE "user")
  /\ UNCHANGED <<table, resume, np, sched, nextpid, panicked>>

\* A fault in user space.
Fault(c) ==
  /\ On(c, "user")
  /\ killed' = [killed EXCEPT ![cpuproc[c]] = TRUE]
  /\ Goto(cpuproc[c], "exit")
  /\ UNCHANGED <<state, pid, parent, chan, kstack, resume, np, sched, nextpid,
                 panicked>>

\* Points of a thread where interrupts are on: it holds no spin lock.
Preemptible == Calls \cup {"user", "ret", "kstack", "copy", "ready", "exit"}

\* A clock tick in user space finds the process killed.
TimerExit(c) ==
  /\ On(c, "user")
  /\ killed[cpuproc[c]]
  /\ Goto(cpuproc[c], "exit")
  /\ UNCHANGED <<table, resume, np, sched, nextpid, panicked>>

\* A clock tick: yield().  A process interrupted in user space checks killed
\* again when it resumes; one interrupted in the kernel goes on there.
MutTimer(c) ==
  LET p == cpuproc[c] IN
  /\ \E l \in Preemptible : On(c, l) /\ (l = "user" => ~killed[p])
  /\ plock = NoCpu
  /\ state' = [state EXCEPT ![p] = "RUNNABLE"]
  /\ resume' = [resume EXCEPT ![p] = IF pc[p] = "user" THEN "ret" ELSE pc[p]]
  /\ Goto(p, "yielded")
  /\ at' = [at EXCEPT ![c] = "sched"]
  /\ UNCHANGED <<pid, parent, chan, killed, kstack, np, scan, cpuproc, nextpid,
                 plock, panicked>>

Timer(c) ==
  LET p == cpuproc[c] IN
  /\ \E l \in Preemptible : On(c, l) /\ (l = "user" => ~killed[p])
  /\ plock = NoCpu
  /\ plock' = c
  /\ state' = [state EXCEPT ![p] = "RUNNABLE"]
  /\ resume' = [resume EXCEPT ![p] = IF pc[p] = "user" THEN "ret" ELSE pc[p]]
  /\ Goto(p, "yielded")
  /\ at' = [at EXCEPT ![c] = "sched"]
  /\ UNCHANGED <<pid, parent, chan, killed, kstack, np, scan, cpuproc, nextpid,
                 panicked>>

(***************************************************************************)
(* fork                                                                    *)
(***************************************************************************)

AllocProc(c) ==
  LET p == cpuproc[c]
      free == {q \in Slot : state[q] = "UNUSED"} IN
  /\ On(c, "fork")
  /\ plock = NoCpu
  /\ free # {}
  /\ LET q == Min(free) IN
       /\ state' = [state EXCEPT ![q] = "EMBRYO"]
       /\ pid' = [pid EXCEPT ![q] = nextpid]
       /\ np' = [np EXCEPT ![p] = q]
  /\ nextpid' = nextpid + 1
  /\ Goto(p, "kstack")
  /\ UNCHANGED <<parent, chan, killed, kstack, resume, sched, panicked>>

\* No slot is free: fork returns -1.
AllocFail(c) ==
  /\ On(c, "fork")
  /\ plock = NoCpu
  /\ \A q \in Slot : state[q] # "UNUSED"
  /\ Goto(cpuproc[c], "ret")
  /\ UNCHANGED <<table, resume, np, sched, nextpid, panicked>>

\* The kernel stack of the child, and its first context: forkret.
KstackOk(c) ==
  LET p == cpuproc[c] IN
  /\ On(c, "kstack")
  /\ kstack' = kstack \cup {np[p]}
  /\ pc' = [pc EXCEPT ![p] = "copy", ![np[p]] = "forkret"]
  /\ UNCHANGED <<state, pid, parent, chan, killed, resume, np, sched, nextpid,
                 panicked>>

\* Out of memory: the slot is given back without the lock, pid and all.
KstackFail(c) ==
  LET p == cpuproc[c] IN
  /\ On(c, "kstack")
  /\ state' = [state EXCEPT ![np[p]] = "UNUSED"]
  /\ np' = [np EXCEPT ![p] = NULL]
  /\ Goto(p, "ret")
  /\ UNCHANGED <<pid, parent, chan, killed, kstack, resume, sched, nextpid,
                 panicked>>

\* copyuvm succeeds; np->parent is set without the lock.
CopyOk(c) ==
  LET p == cpuproc[c] IN
  /\ On(c, "copy")
  /\ parent' = [parent EXCEPT ![np[p]] = p]
  /\ Goto(p, "ready")
  /\ UNCHANGED <<state, pid, chan, killed, kstack, resume, np, sched, nextpid,
                 panicked>>

\* copyuvm fails: stack freed, slot given back without the lock.
CopyFail(c) ==
  LET p == cpuproc[c] IN
  /\ On(c, "copy")
  /\ kstack' = kstack \ {np[p]}
  /\ state' = [state EXCEPT ![np[p]] = "UNUSED"]
  /\ pc' = [pc EXCEPT ![p] = "ret", ![np[p]] = "none"]
  /\ np' = [np EXCEPT ![p] = NULL]
  /\ UNCHANGED <<pid, parent, chan, killed, resume, sched, nextpid, panicked>>

\* The child may run: from here on it may even exit before fork returns.
Ready(c) ==
  LET p == cpuproc[c] IN
  /\ On(c, "ready")
  /\ plock = NoCpu
  /\ state' = [state EXCEPT ![np[p]] = "RUNNABLE"]
  /\ np' = [np EXCEPT ![p] = NULL]
  /\ Goto(p, "ret")
  /\ UNCHANGED <<pid, parent, chan, killed, kstack, resume, sched, nextpid,
                 panicked>>

(***************************************************************************)
(* exit, wait, kill, and system calls that sleep                           *)
(***************************************************************************)
\* wakeup1 for each channel of a set, on a given state function.
Wakeup1(st, chans) ==
  [q \in Slot |-> IF st[q] = "SLEEPING" /\ chan[q] \in chans
                    THEN "RUNNABLE" ELSE st[q]]

Children(p) == {q \in Slot : parent[q] = p}

ExitPanic(c) ==
  /\ On(c, "exit")
  /\ cpuproc[c] = initproc
  /\ panicked' = TRUE
  /\ UNCHANGED <<table, thread, sched, nextpid>>

\* Nobody is woken.
MutExit(c) ==
  LET p == cpuproc[c] IN
  /\ On(c, "exit")
  /\ p # initproc
  /\ plock = NoCpu
  /\ plock' = c
  /\ state' = [state EXCEPT ![p] = "ZOMBIE"]
  /\ parent' = [q \in Slot |-> IF parent[q] = p THEN initproc ELSE parent[q]]
  /\ Goto(p, "dead")
  /\ at' = [at EXCEPT ![c] = "sched"]
  /\ UNCHANGED <<pid, chan, killed, kstack, resume, np, scan, cpuproc, nextpid,
                 panicked>>

\* Files closed, then under the lock: wake the parent, pass the children to
\* init (and wake init if one of them is a zombie), become a ZOMBIE, sched().
Exit(c) ==
  LET p == cpuproc[c]
      zombies == {q \in Children(p) : state[q] = "ZOMBIE"} IN
  /\ On(c, "exit")
  /\ p # initproc
  /\ plock = NoCpu
  /\ plock' = c
  /\ state' = [Wakeup1(state, {parent[p]} \cup
                              (IF zombies = {} THEN {} ELSE {initproc}))
                 EXCEPT ![p] = "ZOMBIE"]
  /\ parent' = [q \in Slot |-> IF parent[q] = p THEN initproc ELSE parent[q]]
  /\ Goto(p, "dead")
  /\ at' = [at EXCEPT ![c] = "sched"]
  /\ UNCHANGED <<pid, chan, killed, kstack, resume, np, scan, cpuproc, nextpid,
                 panicked>>

\* One turn of wait()'s loop runs with the lock held: taken at the call, or
\* still held when sleep() returns (which also clears p->chan).
InWait(c) ==
  \/ On(c, "wait") /\ plock = NoCpu
  \/ On(c, "waited")

ZombieKids(p) == {q \in Children(p) : state[q] = "ZOMBIE"}

ClearChan(p) == [chan EXCEPT ![p] = NULL]

\* The first zombie child is reaped.
WaitReap(c) ==
  LET p == cpuproc[c]
      q == Min(ZombieKids(p)) IN
  /\ InWait(c)
  /\ ZombieKids(p) # {}
  /\ kstack' = kstack \ {q}
  /\ pid' = [pid EXCEPT ![q] = 0]
  /\ parent' = [parent EXCEPT ![q] = NULL]
  /\ killed' = [killed EXCEPT ![q] = FALSE]
  /\ state' = [state EXCEPT ![q] = "UNUSED"]
  /\ chan' = ClearChan(p)
  /\ pc' = [pc EXCEPT ![p] = "ret", ![q] = "none"]
  /\ plock' = NoCpu
  /\ UNCHANGED <<resume, np, at, scan, cpuproc, nextpid, panicked>>

\* No children, or killed: wait returns -1.
WaitFail(c) ==
  LET p == cpuproc[c] IN
  /\ InWait(c)
  /\ ZombieKids(p) = {}
  /\ Children(p) = {} \/ killed[p]
  /\ chan' = ClearChan(p)
  /\ Goto(p, "ret")
  /\ plock' = NoCpu
  /\ UNCHANGED <<state, pid, parent, killed, kstack, resume, np, at, scan,
                 cpuproc, nextpid, panicked>>

\* sleep(curproc, &ptable.lock): on to sched() with the lock held.
WaitSleep(c) ==
  LET p == cpuproc[c] IN
  /\ InWait(c)
  /\ ZombieKids(p) = {}
  /\ Children(p) # {}
  /\ ~killed[p]
  /\ chan' = [chan EXCEPT ![p] = p]
  /\ state' = [state EXCEPT ![p] = "SLEEPING"]
  /\ Goto(p, "waited")
  /\ plock' = c
  /\ at' = [at EXCEPT ![c] = "sched"]
  /\ UNCHANGED <<pid, parent, killed, kstack, resume, np, scan, cpuproc, nextpid,
                 panicked>>

\* kill(n): the first slot whose pid is n, whatever its state.
Kill(c, n) ==
  LET p == cpuproc[c]
      hit == {q \in Slot : pid[q] = n} IN
  /\ On(c, "kill")
  /\ plock = NoCpu
  /\ IF hit = {}
       THEN UNCHANGED <<state, killed>>
       ELSE LET q == Min(hit) IN
              /\ killed' = [killed EXCEPT ![q] = TRUE]
              /\ state' = IF state[q] = "SLEEPING"
                            THEN [state EXCEPT ![q] = "RUNNABLE"] ELSE state
  /\ Goto(p, "ret")
  /\ UNCHANGED <<pid, parent, chan, kstack, resume, np, sched, nextpid, panicked>>

\* Any other system call that sleeps, on a channel that is not a process, or
\* exit() while it closes files and puts its directory back.
Sleep(c) ==
  LET p == cpuproc[c] IN
  /\ On(c, "other") \/ (On(c, "exit") /\ p # initproc)
  /\ plock = NoCpu
  /\ resume' = [resume EXCEPT ![p] = pc[p]]
  /\ chan' = [chan EXCEPT ![p] = IO]
  /\ state' = [state EXCEPT ![p] = "SLEEPING"]
  /\ Goto(p, "slept")
  /\ plock' = c
  /\ at' = [at EXCEPT ![c] = "sched"]
  /\ UNCHANGED <<pid, parent, killed, kstack, np, scan, cpuproc, nextpid,
                 panicked>>

\* A device interrupt calls wakeup() on that channel.
IoWakeup ==
  /\ ~panicked
  /\ plock = NoCpu
  /\ \E q \in Slot : state[q] = "SLEEPING" /\ chan[q] = IO
  /\ state' = Wakeup1(state, {IO})
  /\ UNCHANGED <<pid, parent, chan, killed, kstack, thread, sched, nextpid,
                 panicked>>

SchedulerStep(c) ==
  SchedAcquire(c) \/ Dispatch(c) \/ SchedRelease(c) \/ Swtch(c)

\* One turn of the loop in wait().
Wait(c) == WaitReap(c) \/ WaitFail(c) \/ WaitSleep(c)

\* Steps of a thread inside the kernel.
KernelStep(c) ==
  \/ Forkret(c) \/ YieldReturn(c) \/ SleepReturn(c) \/ ReturnToUser(c)
  \/ AllocProc(c) \/ AllocFail(c) \/ KstackOk(c) \/ KstackFail(c)
  \/ CopyOk(c) \/ CopyFail(c) \/ Ready(c)
  \/ ExitPanic(c) \/ Exit(c) \/ Wait(c) \/ Sleep(c) \/ OtherCall(c)
  \/ \E n \in KillPids : Kill(c, n)

\* Steps that depend on what the user program or the hardware does next.
UserStep(c) ==
  \/ \E call \in Calls : Syscall(c, call)
  \/ Fault(c) \/ TimerExit(c) \/ Timer(c)

Next ==
  \/ IoWakeup
  \/ \E c \in Cpu : SchedulerStep(c) \/ KernelStep(c) \/ UserStep(c)

Spec == Init /\ [][Next]_vars

\* What keeps the machine going: CPUs execute, clock ticks and device
\* interrupts keep coming.  Idle schedulers take and release ptable.lock for
\* ever; an interrupt handler that spins for it meanwhile gets it in the end.
Fairness ==
  /\ \A c \in Cpu : /\ WF_vars(SchedulerStep(c) \/ KernelStep(c))
                    /\ WF_vars(Timer(c) \/ TimerExit(c))
  /\ SF_vars(IoWakeup)

\* init.c calls wait() for ever: whenever init has a CPU it gets some way
\* before the next clock tick, its other system calls return in the end, and
\* again and again the system call it makes is wait().
InitWaits ==
  LET init(A(_)) == \E c \in Cpu : cpuproc[c] = initproc /\ A(c)
      CallWait(c) == Syscall(c, "wait")
      Progress(c) == KernelStep(c) /\ ~On(c, "yielded")
  IN  /\ SF_vars(init(Progress))
      /\ SF_vars(init(OtherCall))
      /\ SF_vars(init(CallWait))

FairSpec == Spec /\ Fairness /\ InitWaits

(***************************************************************************)
(* Properties                                                              *)
(***************************************************************************)
Alive == {"SLEEPING", "RUNNABLE", "RUNNING"}

\* A kernel stack is never used by two CPUs at once, and never freed while a
\* CPU is on it: neither a woken or preempted process that another CPU picks
\* up at once, nor a zombie that its parent reaps at once, may still be
\* executing.  Holding ptable.lock across swtch is what guarantees it.
OwnStack ==
  \A c \in Cpu : cpuproc[c] # NULL =>
    /\ cpuproc[c] \in kstack
    /\ \A d \in Cpu \ {c} : cpuproc[d] # cpuproc[c]

\* The preconditions sched() asserts with its panics: ptable.lock is held by
\* the calling CPU and the process is no longer RUNNING; and the process
\* behind panic("zombie exit") is never switched to.
SchedCalledRight ==
  \A c \in Cpu :
    /\ at[c] = "sched" => plock = c /\ state[cpuproc[c]] # "RUNNING"
    /\ at[c] = "proc" => pc[cpuproc[c]] # "dead"

\* No exit is missed: a process asleep in wait() has a child to wait for, and
\* none of its children is already a zombie, however the children came to be
\* its children (init inherits some) and whichever exited first.
NoMissedExit ==
  \A p \in Slot : state[p] = "SLEEPING" /\ chan[p] = p =>
    Children(p) # {} /\ ZombieKids(p) = {}

\* Every process but init has a parent that is alive and can reap it: exit()
\* leaves no process behind with a dead parent.
LiveParent ==
  \A p \in Slot \ {initproc} : state[p] \in Alive \cup {"ZOMBIE"} =>
    parent[p] \in Slot /\ state[parent[p]] \in Alive

\* kill() and wait() name processes by pid: two slots never share one.
UniquePid ==
  \A p, q \in Slot : pid[p] = pid[q] /\ pid[p] # 0 => p = q

\* Labels of threads that are switched to with ptable.lock held.
HandOff == {"forkret", "yielded", "waited", "slept"}

\* Where a thread is, seeing through an interrupt that preempted it.
Point(p) == IF pc[p] = "yielded" THEN resume[p] ELSE pc[p]

Forking == {"kstack", "copy", "ready"}

\* ptable.lock is held exactly by a CPU that scans the table, is in sched(),
\* or has just switched to a process; a process is RUNNING exactly when a
\* CPU executes it.
CpuOK(c) ==
  /\ plock = c <=> \/ at[c] \in {"scan", "sched"}
                   \/ at[c] = "proc" /\ pc[cpuproc[c]] \in HandOff
  /\ cpuproc[c] = NULL <=> at[c] \in {"loop", "scan"}
  /\ at[c] = "proc" => state[cpuproc[c]] = "RUNNING"
  /\ at[c] = "sched" => state[cpuproc[c]] \in {"RUNNABLE", "SLEEPING", "ZOMBIE"}
  /\ at[c] \in {"proc", "sched"} => scan[c] \in Slot
  /\ \A d \in Cpu : cpuproc[c] = cpuproc[d] /\ cpuproc[c] # NULL => c = d

CpuInv == \A c \in Cpu : CpuOK(c)

\* Which point of the code goes with which state, and who has a stack.
SlotOK(p) ==
  /\ state[p] = "UNUSED" => pc[p] = "none" /\ p \notin kstack
  /\ state[p] = "EMBRYO" => pc[p] \in {"none", "forkret"}
  /\ state[p] \in {"SLEEPING", "RUNNABLE"} => pc[p] \in HandOff
  /\ state[p] = "SLEEPING" => pc[p] \in {"waited", "slept"}
  /\ state[p] = "RUNNING" =>
       /\ pc[p] \notin {"none", "dead"}
       /\ \E c \in Cpu : cpuproc[c] = p
  /\ state[p] = "ZOMBIE" => pc[p] = "dead"
  /\ state[p] \in Alive \cup {"ZOMBIE"} => p \in kstack
  /\ pc[p] = "yielded" => resume[p] \in Preemptible
  /\ pc[p] = "slept" => resume[p] \in {"other", "exit"}
  /\ pc[p] = "waited" => chan[p] = p
  /\ state[p] = "SLEEPING" /\ chan[p] = p => pc[p] = "waited"

SlotInv == \A p \in Slot : SlotOK(p)

\* A forking thread owns the EMBRYO it is setting up, and its parent field is
\* null until the thread sets it.
ForkOK(p) ==
  /\ np[p] # NULL <=> state[p] \in Alive /\ Point(p) \in Forking
  /\ np[p] # NULL => /\ state[np[p]] = "EMBRYO"
                     /\ np[p] \in kstack <=> Point(p) # "kstack"
                     /\ np[p] \in kstack <=> pc[np[p]] = "forkret"
                     /\ parent[np[p]] = IF Point(p) = "ready" THEN p ELSE NULL
                     /\ \A q \in Slot : np[q] = np[p] => q = p
  /\ state[p] = "EMBRYO" => \E q \in Slot : np[q] = p
  /\ state[p] = "UNUSED" => parent[p] = NULL

ForkInv == \A p \in Slot : ForkOK(p)

\* init stays and has no parent; everybody else has one, and not itself.
FamilyInv ==
  /\ state[initproc] \in Alive
  /\ parent[initproc] = NULL
  /\ \A p \in Slot : parent[p] # p
  /\ LiveParent

PidInv ==
  /\ UniquePid
  /\ \A p \in Slot : pid[p] < nextpid

\* The inductive invariant: OwnStack, SchedCalledRight, NoMissedExit,
\* LiveParent and UniquePid all follow from it.
Inv ==
  /\ TypeOK /\ CpuInv /\ SlotInv /\ ForkInv
  /\ FamilyInv /\ PidInv /\ NoMissedExit

\* A RUNNABLE process gets a CPU.
RunnableRuns ==
  \A p \in Slot : (state[p] = "RUNNABLE") ~> (state[p] = "RUNNING" \/ panicked)

\* A zombie whose parent is init, born or inherited, is reaped.
OrphansReaped ==
  \A p \in Slot : (state[p] = "ZOMBIE" /\ parent[p] = initproc) ~>
                  (state[p] # "ZOMBIE" \/ panicked)
=============================================================================
