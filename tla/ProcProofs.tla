----------------------------- MODULE ProcProofs -----------------------------
(***************************************************************************)
(* System calls, traps, sleep(), exit() and the scheduler preserve the     *)
(* invariant of Proc; so it holds for any number of slots and CPUs, and with*)
(* it the safety of the process table.                                     *)
(***************************************************************************)
EXTENDS ProcLemmas

(* System calls, traps, sleep() and exit(). *)

\* forkret() releases ptable.lock.
LEMMA ForkretInv ==
  ASSUME Inv, NEW c \in Cpu, Forkret(c)
  PROVE  Inv'
<1> USE SlotFacts, Labels, CpuAssumption DEF Forkret, On, Goto
<1>0. PICK p : p = cpuproc[c]
  OBVIOUS
<1>1. at[c] = "proc" /\ pc[p] \in {"forkret"}
  BY <1>0
<1>2. p \in Slot /\ (plock = c <=> pc[p] \in HandOff)
  BY <1>0, <1>1, Current, Zenon
<1>4. TypeOK'
  BY <1>0, <1>1, <1>2, Zenon DEF table, thread, sched, Inv, TypeOK, TableType,
     ThreadType, SchedType
<1>5. Moves(c, p)
  BY <1>0, <1>1, <1>2, <1>4 DEF Moves, table, thread, sched, HandOff,
     Forking, Point,
     Inv, TypeOK, TableType, ThreadType, SchedType
<1> QED
  BY <1>5, MovesInv

\* The end of yield() releases ptable.lock.
LEMMA YieldReturnInv ==
  ASSUME Inv, NEW c \in Cpu, YieldReturn(c)
  PROVE  Inv'
<1> USE SlotFacts, Labels, CpuAssumption DEF YieldReturn, On, Goto
<1>0. PICK p : p = cpuproc[c]
  OBVIOUS
<1>1. at[c] = "proc" /\ pc[p] \in {"yielded"}
  BY <1>0
<1>2. p \in Slot /\ (plock = c <=> pc[p] \in HandOff)
  BY <1>0, <1>1, Current, Zenon
<1>3. resume[p] \in Preemptible
  BY <1>1, <1>2, Zenon DEF Inv, SlotInv, SlotOK
<1>4. TypeOK'
  BY <1>0, <1>1, <1>2, Zenon DEF table, thread, sched, Inv, TypeOK, TableType,
     ThreadType, SchedType
<1>5. Moves(c, p)
  BY <1>0, <1>1, <1>2, <1>3, <1>4 DEF Moves, table, thread, sched, HandOff,
     Forking, Point, Preemptible, Calls,
     Inv, TypeOK, TableType, ThreadType, SchedType
<1> QED
  BY <1>5, MovesInv

\* The end of a sleep() on a lock other than ptable.lock.
LEMMA SleepReturnInv ==
  ASSUME Inv, NEW c \in Cpu, SleepReturn(c)
  PROVE  Inv'
<1> USE SlotFacts, Labels, CpuAssumption DEF SleepReturn, On, Goto
<1>0. PICK p : p = cpuproc[c]
  OBVIOUS
<1>1. at[c] = "proc" /\ pc[p] \in {"slept"}
  BY <1>0
<1>2. p \in Slot /\ (plock = c <=> pc[p] \in HandOff)
  BY <1>0, <1>1, Current, Zenon
<1>3. resume[p] \in {"other", "exit"}
  BY <1>1, <1>2, Zenon DEF Inv, SlotInv, SlotOK
<1>4. TypeOK'
  BY <1>0, <1>1, <1>2, Zenon DEF table, thread, sched, Inv, TypeOK, TableType,
     ThreadType, SchedType
<1>5. Moves(c, p)
  BY <1>0, <1>1, <1>2, <1>3, <1>4 DEF Moves, table, thread, sched, HandOff,
     Forking, Point, Preemptible, Calls,
     Inv, TypeOK, TableType, ThreadType, SchedType
<1> QED
  BY <1>5, MovesInv, Zenon

\* The check of killed on the way out of trap().
LEMMA ReturnToUserInv ==
  ASSUME Inv, NEW c \in Cpu, ReturnToUser(c)
  PROVE  Inv'
<1> USE SlotFacts, Labels, CpuAssumption DEF ReturnToUser, On, Goto
<1>0. PICK p : p = cpuproc[c]
  OBVIOUS
<1>1. at[c] = "proc" /\ pc[p] \in {"ret"}
  BY <1>0
<1>2. p \in Slot /\ (plock = c <=> pc[p] \in HandOff)
  BY <1>0, <1>1, Current, Zenon
<1>4. TypeOK'
  BY <1>0, <1>1, <1>2, Zenon DEF table, thread, sched, Inv, TypeOK, TableType,
     ThreadType, SchedType
<1>5. Moves(c, p)
  BY <1>0, <1>1, <1>2, <1>4, Zenon DEF Moves, table, thread, sched, HandOff,
     Forking, Point,
     Inv, TypeOK, TableType, ThreadType, SchedType
<1> QED
  BY <1>5, MovesInv, Zenon

\* allocproc() finds no slot.
LEMMA AllocFailInv ==
  ASSUME Inv, NEW c \in Cpu, AllocFail(c)
  PROVE  Inv'
<1> USE SlotFacts, Labels, CpuAssumption DEF AllocFail, On, Goto
<1>0. PICK p : p = cpuproc[c]
  OBVIOUS
<1>1. at[c] = "proc" /\ pc[p] \in {"fork"}
  BY <1>0
<1>2. p \in Slot /\ (plock = c <=> pc[p] \in HandOff)
  BY <1>0, <1>1, Current, Zenon
<1>4. TypeOK'
  BY <1>0, <1>1, <1>2, Zenon DEF table, thread, sched, Inv, TypeOK,
     TableType, ThreadType, SchedType
<1>5. Moves(c, p)
  BY <1>0, <1>1, <1>2, <1>4, Zenon DEF Moves, table, thread, sched, HandOff,
     Forking, Point,
     Inv, TypeOK, TableType, ThreadType, SchedType
<1> QED
  BY <1>5, MovesInv, Zenon

\* A system call that does not touch the table.
LEMMA OtherCallInv ==
  ASSUME Inv, NEW c \in Cpu, OtherCall(c)
  PROVE  Inv'
<1> USE SlotFacts, Labels, CpuAssumption DEF OtherCall, On, Goto
<1>0. PICK p : p = cpuproc[c]
  OBVIOUS
<1>1. at[c] = "proc" /\ pc[p] \in {"other"}
  BY <1>0
<1>2. p \in Slot /\ (plock = c <=> pc[p] \in HandOff)
  BY <1>0, <1>1, Current, Zenon
<1>4. TypeOK'
  BY <1>0, <1>1, <1>2, Zenon DEF table, thread, sched, Inv, TypeOK,
     TableType, ThreadType, SchedType
<1>5. Moves(c, p)
  BY <1>0, <1>1, <1>2, <1>4, Zenon DEF Moves, table, thread, sched, HandOff,
     Forking, Point,
     Inv, TypeOK, TableType, ThreadType, SchedType
<1> QED
  BY <1>5, MovesInv, Zenon

\* A fault in user space.
LEMMA FaultInv ==
  ASSUME Inv, NEW c \in Cpu, Fault(c)
  PROVE  Inv'
<1> USE SlotFacts, Labels, CpuAssumption DEF Fault, On, Goto
<1>0. PICK p : p = cpuproc[c]
  OBVIOUS
<1>1. at[c] = "proc" /\ pc[p] \in {"user"}
  BY <1>0, Zenon
<1>2. p \in Slot /\ (plock = c <=> pc[p] \in HandOff)
  BY <1>0, <1>1, Current, Zenon
<1>4. TypeOK'
  BY <1>0, <1>1, <1>2, Zenon DEF table, thread, sched, Inv, TypeOK,
     TableType, ThreadType, SchedType
<1>5. Moves(c, p)
  BY <1>0, <1>1, <1>2, <1>4, Zenon DEF Moves, table, thread, sched, HandOff,
     Forking, Point,
     Inv, TypeOK, TableType, ThreadType, SchedType
<1> QED
  BY <1>5, MovesInv, Zenon

\* A clock tick finds the process killed.
LEMMA TimerExitInv ==
  ASSUME Inv, NEW c \in Cpu, TimerExit(c)
  PROVE  Inv'
<1> USE SlotFacts, Labels, CpuAssumption DEF TimerExit, On, Goto
<1>0. PICK p : p = cpuproc[c]
  OBVIOUS
<1>1. at[c] = "proc" /\ pc[p] \in {"user"}
  BY <1>0
<1>2. p \in Slot /\ (plock = c <=> pc[p] \in HandOff)
  BY <1>0, <1>1, Current, Zenon
<1>4. TypeOK'
  BY <1>0, <1>1, <1>2, Zenon DEF table, thread, sched, Inv, TypeOK,
     TableType, ThreadType, SchedType
<1>5. Moves(c, p)
  BY <1>0, <1>1, <1>2, <1>4, Zenon DEF Moves, table, thread, sched,
     HandOff, Forking, Point,
     Inv, TypeOK, TableType, ThreadType, SchedType
<1> QED
  BY <1>5, MovesInv, Zenon

\* wait() returns -1.
LEMMA WaitFailInv ==
  ASSUME Inv, NEW c \in Cpu, WaitFail(c)
  PROVE  Inv'
<1> USE SlotFacts, Labels, CpuAssumption DEF WaitFail, On, Goto, InWait, ClearChan
<1>0. PICK p : p = cpuproc[c]
  OBVIOUS
<1>1. at[c] = "proc" /\ pc[p] \in {"wait", "waited"}
  BY <1>0, Zenon
<1>2. p \in Slot /\ (plock = c <=> pc[p] \in HandOff)
  BY <1>0, <1>1, Current, Zenon
<1>4. TypeOK'
  BY <1>0, <1>1, <1>2, Zenon DEF table, thread, sched, Inv, TypeOK,
     TableType, ThreadType, SchedType
<1>5. Moves(c, p)
  BY <1>0, <1>1, <1>2, <1>4 DEF Moves, table, thread, sched, HandOff,
     Forking, Point,
     Inv, TypeOK, TableType, ThreadType, SchedType
<1> QED
  BY <1>5, MovesInv, Zenon

\* A system call begins.
LEMMA SyscallInv ==
  ASSUME Inv, NEW c \in Cpu, NEW call \in Calls, Syscall(c, call)
  PROVE  Inv'
<1> USE SlotFacts, Labels, CpuAssumption DEF Syscall, On, Goto
<1>0. PICK p : p = cpuproc[c]
  OBVIOUS
<1>1. at[c] = "proc" /\ pc[p] \in {"user"}
  BY <1>0, Zenon
<1>2. p \in Slot /\ (plock = c <=> pc[p] \in HandOff)
  BY <1>0, <1>1, Current, Zenon
<1>4. TypeOK'
  BY <1>0, <1>1, <1>2, Zenon DEF table, thread, sched, Inv, TypeOK,
     TableType, ThreadType, SchedType
<1>5. Moves(c, p)
  BY <1>0, <1>1, <1>2, <1>4, Zenon DEF Moves, table, thread, sched, HandOff,
     Forking, Point, Calls,
     Inv, TypeOK, TableType, ThreadType, SchedType
<1> QED
  BY <1>5, MovesInv, Zenon

\* kill().
LEMMA KillInv ==
  ASSUME Inv, NEW c \in Cpu, NEW n \in KillPids, Kill(c, n)
  PROVE  Inv'
<1> USE SlotFacts, Labels, CpuAssumption
<1>0. PICK p : p = cpuproc[c]
  BY Zenon
<1> DEFINE hit == {q \in Slot : pid[q] = n}
           k == Min(hit)
<1>1. at[c] = "proc" /\ pc[p] = "kill" /\ plock = NoCpu
  BY <1>0, Zenon DEF Kill, On
<1>2. /\ p \in Slot
      /\ state[p] = "RUNNING"
      /\ \A d \in Cpu : cpuproc[d] = p => d = c
  BY <1>0, <1>1, Current, Zenon
<1>3. /\ pc' = [pc EXCEPT ![p] = "ret"]
      /\ UNCHANGED <<pid, parent, chan, kstack, resume, np, plock, at, scan,
                     cpuproc, nextpid, panicked>>
  BY <1>0 DEF Kill, Goto, sched
<1>4. /\ killed' \in [Slot -> BOOLEAN]
      /\ state' \in [Slot -> State]
      /\ \A q \in Slot : \/ state'[q] = state[q]
                         \/ state[q] = "SLEEPING" /\ state'[q] = "RUNNABLE"
  <2>1. CASE hit = {}
    BY <2>1, Zenon DEF Kill, Inv, TypeOK, TableType
  <2>2. CASE hit # {}
    <3>1. k \in Slot
      <4>1. hit \subseteq Slot
        BY Zenon
      <4> HIDE DEF hit
      <4> QED
        BY Zenon, <2>2, <4>1, FirstMatch
    <3>2. /\ killed' = [killed EXCEPT ![k] = TRUE]
          /\ state' = IF state[k] = "SLEEPING"
                        THEN [state EXCEPT ![k] = "RUNNABLE"] ELSE state
      BY <2>2 DEF Kill
    <3> HIDE DEF k
    <3> QED
      BY <3>1, <3>2 DEF Inv, TypeOK, TableType, State
  <2> QED
    BY <2>1, <2>2, Zenon
<1> HIDE DEF hit, k
<1>5. TypeOK'
  BY Zenon, <1>2, <1>3, <1>4 DEF Inv, TypeOK, TableType, ThreadType, SchedType
<1>6. Moves(c, p)
  BY <1>0, <1>1, <1>2, <1>3, <1>4, <1>5, Zenon
     DEF Moves, HandOff, Forking, Point, Inv, TypeOK, ThreadType
<1> QED
  BY <1>6, MovesInv, Zenon

\* A clock tick: yield().
LEMMA TimerInv ==
  ASSUME Inv, NEW c \in Cpu, Timer(c)
  PROVE  Inv'
<1> USE SlotFacts, Labels, CpuAssumption DEF Timer, On, Goto, Preemptible
<1>0. PICK p : p = cpuproc[c]
  BY Zenon
<1>1. at[c] = "proc" /\ pc[p] \in Preemptible
  BY <1>0, Zenon
<1>2. p \in Slot /\ state[p] = "RUNNING" /\ (plock = c <=> pc[p] \in HandOff)
  BY <1>0, <1>1, Current, Zenon
<1>3. TypeOK'
  BY <1>0, <1>1, <1>2, Zenon DEF Inv, TypeOK, TableType, ThreadType,
     SchedType, State, CpuAt
<1>4. SlotOK(p)'
  <2>1. /\ state'[p] = "RUNNABLE" /\ pc'[p] = "yielded"
        /\ resume'[p] \in Preemptible
    BY <1>0, <1>1, <1>2, Zenon DEF Inv, TypeOK, TableType, ThreadType, Calls
  <2>2. p \in kstack'
    BY <1>0, <1>2, Zenon DEF Inv, SlotInv, SlotOK, Alive
  <2> QED
    BY <1>2, <2>1, <2>2, Zenon DEF SlotOK, HandOff, Preemptible, Calls
<1>5. Blocks(c, p)
  <2>1. /\ plock \in {c, NoCpu} /\ plock' = c
        /\ at' = [at EXCEPT ![c] = "sched"]
        /\ UNCHANGED <<scan, cpuproc, pid, parent, kstack, np, nextpid>>
    BY Zenon, <1>0, <1>1, <1>2 DEF HandOff
  <2>2. ASSUME NEW q \in Slot \ {p}
        PROVE  UNCHANGED <<pc[q], resume[q], chan[q], state[q]>>
    BY <1>0, <1>2, Zenon DEF Inv, TypeOK, TableType, ThreadType
  <2>3. /\ state'[p] = "RUNNABLE" /\ pc'[p] = "yielded"
        /\ resume'[p] \in Preemptible
    BY <1>0, <1>1, <1>2 DEF Inv, TypeOK, TableType, ThreadType, Calls
  <2>4. Point(p)' \in Forking \/ Point(p) \in Forking => Point(p)' = Point(p)
    <3>1. resume'[p] = IF pc[p] = "user" THEN "ret" ELSE pc[p]
      BY <1>0, <1>1, <1>2, Zenon DEF Inv, TypeOK, ThreadType
    <3> QED
      BY SMTT(30), <1>1, <2>3, <3>1 DEF Point, Forking, Calls
  <2>5. state'[p] = "SLEEPING" /\ chan'[p] = p =>
          Children(p) # {} /\ ZombieKids(p) = {}
    BY <1>0, <1>2, <2>3, Zenon
  <2> QED
    BY <1>0, <1>1, <1>3, <1>4, <2>1, <2>2, <2>3, <2>4, <2>5, Zenon
       DEF Blocks
<1> QED
  BY <1>5, BlocksInv, Zenon

\* wait() goes to sleep.
LEMMA WaitSleepInv ==
  ASSUME Inv, NEW c \in Cpu, WaitSleep(c)
  PROVE  Inv'
<1> USE SlotFacts, Labels, CpuAssumption DEF WaitSleep, On, Goto, InWait
<1>0. PICK p : p = cpuproc[c]
  BY Zenon
<1>1. at[c] = "proc" /\ pc[p] \in {"wait", "waited"}
  BY <1>0, Zenon
<1>2. p \in Slot /\ state[p] = "RUNNING" /\ (plock = c <=> pc[p] \in HandOff)
  BY <1>0, <1>1, Current, Zenon
<1>3. TypeOK'
  BY <1>0, <1>1, <1>2, Zenon DEF Inv, TypeOK, TableType, ThreadType,
     SchedType, State, CpuAt
<1>4. SlotOK(p)'
  <2>1. state'[p] = "SLEEPING" /\ pc'[p] = "waited" /\ chan'[p] = p
    BY <1>0, <1>1, <1>2, Zenon DEF Inv, TypeOK, TableType, ThreadType
  <2>2. p \in kstack'
    BY <1>0, <1>2, Zenon DEF Inv, SlotInv, SlotOK, Alive
  <2> QED
    BY <1>2, <2>1, <2>2, Zenon DEF SlotOK, HandOff, Preemptible, Calls
<1>5. Blocks(c, p)
  <2>1. /\ plock \in {c, NoCpu} /\ plock' = c
        /\ at' = [at EXCEPT ![c] = "sched"]
        /\ UNCHANGED <<scan, cpuproc, pid, parent, kstack, np, nextpid>>
    BY Zenon, <1>0, <1>1, <1>2 DEF HandOff
  <2>2. ASSUME NEW q \in Slot \ {p}
        PROVE  UNCHANGED <<pc[q], resume[q], chan[q], state[q]>>
    BY <1>0, <1>2, Zenon DEF Inv, TypeOK, TableType, ThreadType
  <2>3. state'[p] = "SLEEPING" /\ pc'[p] = "waited" /\ chan'[p] = p
    BY <1>0, <1>1, <1>2, Zenon DEF Inv, TypeOK, TableType, ThreadType, Calls
  <2>4. Point(p)' \in Forking \/ Point(p) \in Forking => Point(p)' = Point(p)
    BY <1>1, <2>3, Zenon DEF Point, Forking
  <2>5. state'[p] = "SLEEPING" /\ chan'[p] = p =>
          Children(p) # {} /\ ZombieKids(p) = {}
    BY <1>0, <1>2, <2>3, Zenon
  <2> QED
    BY <1>0, <1>1, <1>3, <1>4, <2>1, <2>2, <2>3, <2>4, <2>5, Zenon
       DEF Blocks
<1> QED
  BY <1>5, BlocksInv, Zenon

\* Any other sleep.
LEMMA SleepInv ==
  ASSUME Inv, NEW c \in Cpu, Sleep(c)
  PROVE  Inv'
<1> USE SlotFacts, Labels, CpuAssumption DEF Sleep, On, Goto
<1>0. PICK p : p = cpuproc[c]
  BY Zenon
<1>1. at[c] = "proc" /\ pc[p] \in {"other", "exit"}
  BY <1>0, Zenon
<1>2. p \in Slot /\ state[p] = "RUNNING" /\ (plock = c <=> pc[p] \in HandOff)
  BY <1>0, <1>1, Current, Zenon
<1>3. TypeOK'
  BY <1>0, <1>1, <1>2, Zenon DEF Inv, TypeOK, TableType, ThreadType,
     SchedType, State, CpuAt
<1>4. SlotOK(p)'
  <2>1. /\ state'[p] = "SLEEPING" /\ pc'[p] = "slept"
        /\ chan'[p] = IO /\ resume'[p] \in {"other", "exit"}
    BY <1>0, <1>1, <1>2, Zenon DEF Inv, TypeOK, TableType, ThreadType
  <2>2. p \in kstack'
    BY <1>0, <1>2, Zenon DEF Inv, SlotInv, SlotOK, Alive
  <2> QED
    BY <1>2, <2>1, <2>2, Zenon DEF SlotOK, HandOff, Preemptible, Calls
<1>5. Blocks(c, p)
  <2>1. /\ plock \in {c, NoCpu} /\ plock' = c
        /\ at' = [at EXCEPT ![c] = "sched"]
        /\ UNCHANGED <<scan, cpuproc, pid, parent, kstack, np, nextpid>>
    BY Zenon, <1>0, <1>1, <1>2 DEF HandOff
  <2>2. ASSUME NEW q \in Slot \ {p}
        PROVE  UNCHANGED <<pc[q], resume[q], chan[q], state[q]>>
    BY <1>0, <1>2, Zenon DEF Inv, TypeOK, TableType, ThreadType
  <2>3. /\ state'[p] = "SLEEPING" /\ pc'[p] = "slept"
        /\ chan'[p] = IO /\ resume'[p] \in {"other", "exit"}
    BY <1>0, <1>1, <1>2, Zenon DEF Inv, TypeOK, TableType, ThreadType, Calls
  <2>4. Point(p)' \in Forking \/ Point(p) \in Forking => Point(p)' = Point(p)
    BY Zenon, <1>1, <2>3 DEF Point, Forking
  <2>5. state'[p] = "SLEEPING" /\ chan'[p] = p =>
          Children(p) # {} /\ ZombieKids(p) = {}
    BY <1>0, <1>2, <2>3, Zenon
  <2> QED
    BY Zenon, <1>0, <1>1, <1>3, <1>4, <2>1, <2>2, <2>3, <2>4, <2>5 DEF Blocks
<1> QED
  BY <1>5, BlocksInv, Zenon

\* exit(): the children go to init, the parent is woken.
LEMMA ExitInv ==
  ASSUME Inv, NEW c \in Cpu, Exit(c)
  PROVE  Inv'
<1> USE SlotFacts, Labels, CpuAssumption
<1> DEFINE p == cpuproc[c]
           zombies == {q \in Children(p) : state[q] = "ZOMBIE"}
           chans == {parent[p]} \cup (IF zombies = {} THEN {} ELSE {initproc})
<1>1. at[c] = "proc" /\ pc[p] = "exit" /\ plock = NoCpu /\ p # initproc
  BY Zenon DEF Exit, On
<1>2. /\ p \in Slot
      /\ state[p] = "RUNNING"
      /\ \A d \in Cpu : cpuproc[d] = p => d = c
  BY <1>1, Current, Zenon
<1>3. /\ pc' = [pc EXCEPT ![p] = "dead"]
      /\ at' = [at EXCEPT ![c] = "sched"]
      /\ plock' = c
      /\ parent' = [q \in Slot |-> IF parent[q] = p THEN initproc ELSE parent[q]]
      /\ UNCHANGED <<pid, chan, killed, kstack, resume, np, scan, cpuproc,
                     nextpid, panicked>>
  BY Zenon DEF Exit, Goto
<1>4. state' = [Wakeup1(state, chans) EXCEPT ![p] = "ZOMBIE"]
  BY DEF Exit
<1>5. /\ \A q \in Children(p) : state[q] = "ZOMBIE" => initproc \in chans
      /\ parent[p] \in chans
  BY Zenon DEF Children
<1> HIDE DEF p, zombies, chans
<1>6. /\ state' \in [Slot -> State]
      /\ state'[p] = "ZOMBIE"
      /\ \A q \in Slot \ {p} :
           \/ state'[q] = state[q] /\ (state[q] = "SLEEPING" => chan[q] \notin chans)
           \/ state[q] = "SLEEPING" /\ state'[q] = "RUNNABLE"
  <2> DEFINE woken == Wakeup1(state, chans)
  <2>1. /\ woken \in [Slot -> State]
        /\ \A q \in Slot :
             \/ woken[q] = state[q] /\ (state[q] = "SLEEPING" => chan[q] \notin chans)
             \/ state[q] = "SLEEPING" /\ woken[q] = "RUNNABLE"
    BY DEF Wakeup1, Inv, TypeOK, TableType, State
  <2> HIDE DEF woken
  <2>2. state' = [woken EXCEPT ![p] = "ZOMBIE"]
    BY <1>4, Zenon DEF woken
  <2> QED
    BY <1>2, <2>1, <2>2, Zenon DEF State
<1>7. ASSUME NEW q \in Slot, q # p
      PROVE  /\ state'[q] \in Alive <=> state[q] \in Alive
             /\ state'[q] = "UNUSED" <=> state[q] = "UNUSED"
             /\ state'[q] = "EMBRYO" <=> state[q] = "EMBRYO"
             /\ state'[q] = "RUNNING" <=> state[q] = "RUNNING"
             /\ state'[q] = "ZOMBIE" <=> state[q] = "ZOMBIE"
             /\ state'[q] = "SLEEPING" => state[q] = "SLEEPING" /\ chan[q] \notin chans
             /\ pc'[q] = pc[q]
  BY <1>3, <1>6, <1>7, Zenon DEF Alive, Inv, TypeOK, ThreadType
<1>8. TypeOK'
  <2>1. TableType'
    BY <1>3, <1>6, Zenon DEF Inv, TypeOK, TableType
  <2>2. ThreadType'
    BY <1>2, <1>3, Zenon DEF Inv, TypeOK, ThreadType
  <2>3. SchedType'
    BY <1>3 DEF Inv, TypeOK, SchedType, CpuAt
  <2> QED
    BY <2>1, <2>2, <2>3, <1>3, Zenon DEF Inv, TypeOK
<1>9. ASSUME NEW d \in Cpu PROVE CpuOK(d)'
  <2>1. CASE d = c
    BY SMTT(30), <1>1, <1>2, <1>3, <1>6, <2>1 DEF p, Inv, TypeOK, SchedType,
       CpuInv, CpuOK
  <2>2. CASE d # c
    <3>1. at[d] \in {"loop", "proc"} /\ plock # d /\ plock' # d /\ at'[d] = at[d]
      BY <1>1, <1>3, <2>2, Zenon DEF Inv, TypeOK, SchedType, CpuAt,
         CpuInv, CpuOK
    <3>2. CASE at[d] = "loop"
      BY <1>3, <3>1, <3>2, Zenon DEF Inv, CpuInv, CpuOK
    <3>3. CASE at[d] = "proc"
      <4>1. cpuproc[d] \in Slot /\ cpuproc[d] # p /\ state[cpuproc[d]] = "RUNNING"
        BY <1>2, <2>2, <3>3, Current, Zenon
      <4>2. pc'[cpuproc[d]] = pc[cpuproc[d]] /\ state'[cpuproc[d]] = "RUNNING"
        BY Zenon, <1>7, <4>1
      <4> QED
        BY <1>3, <3>1, <3>3, <4>1, <4>2, Zenon DEF Inv, CpuInv, CpuOK
    <3> QED
      BY Zenon, <3>1, <3>2, <3>3
  <2> QED
    BY <2>1, <2>2, Zenon
<1>10. ASSUME NEW q \in Slot PROVE SlotOK(q)'
  <2>1. CASE q = p
    BY <1>1, <1>2, <1>3, <1>6, <2>1, Zenon
       DEF Inv, TypeOK, ThreadType, SlotInv, SlotOK, Alive
  <2>2. CASE q # p
    BY SMTT(30), <1>3, <1>6, <1>7, <2>2 DEF Inv, SlotInv, SlotOK, Alive,
       HandOff
  <2> QED
    BY <2>1, <2>2, Zenon
<1>11. ASSUME NEW q \in Slot PROVE ForkOK(q)'
  <2>1. CASE q = p
    BY Zenon, <1>1, <1>2, <1>3, <1>6, <2>1
       DEF Inv, TypeOK, ThreadType, ForkInv, ForkOK, Point, Forking, Alive
  <2>2. CASE q # p
    <3>1. np[q] # NULL => /\ np[q] \in Slot
                          /\ np[q] # p
                          /\ parent[np[q]] # p
                          /\ parent'[np[q]] = parent[np[q]]
      BY SMTT(30), <1>2, <1>3, <2>2 DEF Inv, TypeOK, ThreadType, ForkInv,
         ForkOK
    <3>2. state[q] = "UNUSED" => parent'[q] = NULL
      BY SMTT(30), <1>2, <1>3 DEF Inv, ForkInv, ForkOK
    <3>3. /\ np[q] # NULL => (state'[np[q]] = "EMBRYO" <=> state[np[q]] = "EMBRYO")
          /\ state'[q] \in Alive <=> state[q] \in Alive
          /\ state'[q] = "EMBRYO" <=> state[q] = "EMBRYO"
          /\ state'[q] = "UNUSED" <=> state[q] = "UNUSED"
      BY Zenon, <1>7, <2>2, <3>1
    <3>4. /\ pc'[q] = pc[q]
          /\ np[q] # NULL => pc'[np[q]] = pc[np[q]]
          /\ UNCHANGED <<np, resume, kstack>>
      BY <1>3, <1>7, <2>2, <3>1, Zenon
    <3> QED
      BY SMTT(30), <3>1, <3>2, <3>3, <3>4 DEF Inv, ForkInv, ForkOK, Point
  <2> QED
    BY <2>1, <2>2
<1>12. FamilyInv'
  <2>1. state'[initproc] \in Alive /\ parent'[initproc] = NULL
    BY <1>1, <1>2, <1>3, <1>7, Zenon DEF Inv, FamilyInv
  <2>2. ASSUME NEW q \in Slot PROVE parent'[q] # q
    BY <1>2, <1>3, Zenon DEF Inv, FamilyInv
  <2>3. ASSUME NEW q \in Slot \ {initproc}, state'[q] \in Alive \cup {"ZOMBIE"}
        PROVE  parent'[q] \in Slot /\ state'[parent'[q]] \in Alive
    <3>1. state[q] \in Alive \cup {"ZOMBIE"}
      BY <1>2, <1>7, <2>3, Zenon DEF Alive
    <3>2. parent[q] \in Slot /\ state[parent[q]] \in Alive
      BY <3>1, Zenon DEF Inv, FamilyInv, LiveParent
    <3>3. CASE parent[q] = p
      BY <1>3, <2>1, <3>3
    <3>4. CASE parent[q] # p
      BY Zenon, <1>3, <1>7, <3>2, <3>4
    <3> QED
      BY <3>3, <3>4, Zenon
  <2> QED
    BY <2>1, <2>2, <2>3, Zenon DEF FamilyInv, LiveParent, Alive
<1>13. PidInv'
  BY <1>3 DEF Inv, PidInv, UniquePid
<1>14. NoMissedExit'
  <2> SUFFICES ASSUME NEW q \in Slot, state'[q] = "SLEEPING", chan'[q] = q
               PROVE  Children(q)' # {} /\ ZombieKids(q)' = {}
    BY Zenon DEF NoMissedExit
  <2>1. q # p /\ state[q] = "SLEEPING" /\ chan[q] = q /\ q \notin chans
    BY <1>3, <1>6, <1>7, Zenon
  <2>2. Children(q) # {} /\ ZombieKids(q) = {}
    BY <2>1, Zenon DEF Inv, NoMissedExit
  <2>3. ASSUME NEW x \in Slot, parent[x] = q PROVE parent'[x] = q
    BY <1>3, <2>1, <2>3, Zenon
  <2>4. ASSUME NEW x \in Slot, parent'[x] = q, state'[x] = "ZOMBIE" PROVE FALSE
    <3>1. CASE x = p
      BY <1>3, <1>5, <2>1, <2>4, <3>1, Zenon DEF Inv, FamilyInv
    <3>2. CASE x # p /\ parent[x] = q
      BY Zenon, <1>7, <2>2, <2>4, <3>2 DEF Children, ZombieKids
    <3>3. CASE x # p /\ parent[x] # q
      <4>1. parent[x] = p /\ q = initproc /\ state[x] = "ZOMBIE"
        BY <1>3, <1>7, <2>4, <3>3, Zenon
      <4> QED
        BY <1>5, <2>1, <4>1, Zenon DEF Children
    <3> QED
      BY <3>1, <3>2, <3>3, Zenon
  <2> QED
    BY Zenon, <2>2, <2>3, <2>4 DEF Children, ZombieKids
<1> QED
  BY <1>8, <1>9, <1>10, <1>11, <1>12, <1>13, <1>14, Zenon DEF Inv, CpuInv,
     SlotInv, ForkInv

-----------------------------------------------------------------------------
(* The scheduler. *)

\* The scheduler takes ptable.lock.
LEMMA SchedAcquireInv ==
  ASSUME Inv, NEW c \in Cpu, SchedAcquire(c)
  PROVE  Inv'
<1> USE SlotFacts, CpuAssumption DEF SchedAcquire, table, thread
<1>1. TypeOK'
  BY Zenon DEF Inv, TypeOK, TableType, ThreadType, SchedType, CpuAt
<1>2. ASSUME NEW d \in Cpu PROVE CpuOK(d)'
  BY DEF Inv, TypeOK, SchedType, CpuInv, CpuOK
<1>3. \A p \in Slot : state[p] = "RUNNING" => \E d \in Cpu : cpuproc'[d] = p
  BY Zenon DEF Inv, SlotInv, SlotOK
<1> QED
  BY <1>1, <1>2, <1>3, StillInv, Zenon DEF CpuInv

\* The scheduler reaches the end of the table and releases ptable.lock.
LEMMA SchedReleaseInv ==
  ASSUME Inv, NEW c \in Cpu, SchedRelease(c)
  PROVE  Inv'
<1> USE SlotFacts, CpuAssumption DEF SchedRelease, table, thread
<1>1. TypeOK'
  BY Zenon DEF Inv, TypeOK, TableType, ThreadType, SchedType, CpuAt
<1>2. ASSUME NEW d \in Cpu PROVE CpuOK(d)'
  BY Zenon DEF Inv, TypeOK, SchedType, CpuInv, CpuOK
<1>3. \A p \in Slot : state[p] = "RUNNING" => \E d \in Cpu : cpuproc'[d] = p
  BY Zenon DEF Inv, SlotInv, SlotOK
<1> QED
  BY <1>1, <1>2, <1>3, StillInv, Zenon DEF CpuInv

\* swtch() back to the scheduler: the process it leaves is not RUNNING.
LEMMA SwtchInv ==
  ASSUME Inv, NEW c \in Cpu, Swtch(c)
  PROVE  Inv'
<1> USE SlotFacts, CpuAssumption DEF Swtch, table, thread
<1>1. TypeOK'
  BY Zenon DEF Inv, TypeOK, TableType, ThreadType, SchedType, CpuAt, CpuInv,
     CpuOK
<1>2. ASSUME NEW d \in Cpu PROVE CpuOK(d)'
  BY DEF Inv, TypeOK, SchedType, CpuInv, CpuOK
<1>3. ASSUME NEW p \in Slot, state[p] = "RUNNING"
      PROVE  \E d \in Cpu : cpuproc'[d] = p
  <2>1. PICK d \in Cpu : cpuproc[d] = p
    BY <1>3, Zenon DEF Inv, SlotInv, SlotOK
  <2>2. d # c
    BY <1>3, <2>1, Zenon DEF Inv, CpuInv, CpuOK
  <2> QED
    BY <2>1, <2>2, Zenon DEF Inv, TypeOK, SchedType
<1> QED
  BY <1>1, <1>2, <1>3, StillInv, Zenon DEF CpuInv

\* init's exit stops the machine and changes nothing else.
LEMMA ExitPanicInv ==
  ASSUME Inv, NEW c \in Cpu, ExitPanic(c)
  PROVE  Inv'
<1> USE DEF ExitPanic, table, thread, sched
<1>1. TypeOK'
  BY Zenon DEF Inv, TypeOK, TableType, ThreadType, SchedType
<1>2. ASSUME NEW d \in Cpu PROVE CpuOK(d)'
  BY Zenon DEF Inv, CpuInv, CpuOK
<1>3. \A p \in Slot : state[p] = "RUNNING" => \E d \in Cpu : cpuproc'[d] = p
  BY Zenon DEF Inv, SlotInv, SlotOK
<1> QED
  BY <1>1, <1>2, <1>3, StillInv, Zenon DEF CpuInv

\* A device interrupt wakes sleepers.
LEMMA IoWakeupInv ==
  ASSUME Inv, IoWakeup
  PROVE  Inv'
<1> USE SlotFacts, CpuAssumption
<1>1. /\ UNCHANGED <<pid, parent, chan, killed, kstack, pc, resume, np,
                     plock, at, scan, cpuproc, nextpid, panicked>>
      /\ plock = NoCpu
      /\ state' = Wakeup1(state, {IO})
  BY Zenon DEF IoWakeup, thread, sched
<1>2. \A q \in Slot : \/ state'[q] = state[q]
                      \/ /\ state[q] = "SLEEPING" /\ state'[q] = "RUNNABLE"
                         /\ chan[q] = IO
  BY <1>1, Zenon DEF Wakeup1
<1>3. TypeOK'
  BY <1>1, Zenon DEF Inv, TypeOK, TableType, ThreadType, SchedType,
     Wakeup1, State
<1>4. ASSUME NEW d \in Cpu PROVE CpuOK(d)'
  <2>1. cpuproc[d] # NULL => cpuproc[d] \in Slot /\ state[cpuproc[d]] = "RUNNING"
    BY <1>1, OnCpu
  <2>2. cpuproc[d] # NULL => state'[cpuproc[d]] = "RUNNING"
    BY Zenon, <1>2, <2>1
  <2>3. CpuOK(d) /\ (at[d] \in {"proc", "sched"} => cpuproc[d] # NULL)
    BY Zenon DEF Inv, CpuInv, CpuOK
  <2> QED
    BY <1>1, <2>1, <2>2, <2>3, Zenon DEF CpuOK
<1>5. ASSUME NEW q \in Slot PROVE SlotOK(q)'
  <2>1. SlotOK(q)
    BY DEF Inv, SlotInv
  <2> QED
    BY <1>1, <1>2, <2>1, Zenon DEF SlotOK, HandOff, Alive
<1>6. ASSUME NEW q \in Slot PROVE ForkOK(q)'
  <2>1. ForkOK(q)
    BY Zenon DEF Inv, ForkInv
  <2>2. np[q] \in Slot \cup {NULL}
    BY Zenon DEF Inv, TypeOK, ThreadType
  <2> QED
    BY Zenon, <1>1, <1>2, <2>1, <2>2 DEF ForkOK, Point, Alive
<1>7. FamilyInv' /\ PidInv'
  BY Zenon, <1>1, <1>2 DEF Inv, FamilyInv, LiveParent, PidInv, UniquePid, Alive
<1>8. NoMissedExit'
  <2> SUFFICES ASSUME NEW p \in Slot, state'[p] = "SLEEPING", chan'[p] = p
               PROVE  Children(p)' # {} /\ ZombieKids(p)' = {}
    BY DEF NoMissedExit
  <2>1. Children(p) # {} /\ ZombieKids(p) = {}
    BY Zenon, <1>1, <1>2 DEF Inv, NoMissedExit
  <2>2. Children(p)' = Children(p)
    BY <1>1, Zenon DEF Children
  <2>3. ASSUME NEW q \in Children(p) PROVE state'[q] # "ZOMBIE"
    BY <1>2, <2>1, Zenon DEF Children, ZombieKids
  <2> QED
    BY <2>1, <2>2, <2>3, Zenon DEF ZombieKids
<1> QED
  BY <1>3, <1>4, <1>5, <1>6, <1>7, <1>8, Zenon DEF Inv, CpuInv, SlotInv,
     ForkInv

\* The scheduler switches to a RUNNABLE process.
LEMMA DispatchInv ==
  ASSUME Inv, NEW c \in Cpu, Dispatch(c)
  PROVE  Inv'
<1> USE SlotFacts, CpuAssumption
<1> DEFINE r == Min(RunnableFrom(scan[c]))
<1>1. r \in Slot /\ state[r] = "RUNNABLE"
  BY Zenon, FirstMatch DEF Dispatch, RunnableFrom
<1>2. /\ cpuproc' = [cpuproc EXCEPT ![c] = r]
      /\ state' = [state EXCEPT ![r] = "RUNNING"]
      /\ scan' = [scan EXCEPT ![c] = r]
      /\ at' = [at EXCEPT ![c] = "proc"]
      /\ UNCHANGED <<pid, parent, chan, killed, kstack, pc, resume, np, plock,
                     nextpid, panicked>>
  BY Zenon DEF Dispatch, thread
<1> HIDE DEF r
<1>3. at[c] = "scan" /\ plock = c /\ cpuproc[c] = NULL
  BY Zenon DEF Dispatch, Inv, CpuInv, CpuOK
<1>4. ASSUME NEW d \in Cpu PROVE cpuproc[d] # r
  BY <1>1, <1>3, OnCpu, Zenon
<1>5. pc[r] \in HandOff /\ r \in kstack
  BY <1>1, Zenon DEF Inv, SlotInv, SlotOK, Alive
<1>6. TypeOK'
  <2>1. TableType'
    BY Zenon, <1>2 DEF Inv, TypeOK, TableType, State
  <2>2. ThreadType'
    BY <1>2, Zenon DEF Inv, TypeOK, ThreadType
  <2>3. SchedType'
    BY <1>1, <1>2, Zenon DEF Inv, TypeOK, SchedType, CpuAt
  <2> QED
    BY <2>1, <2>2, <2>3, <1>2, Zenon DEF Inv, TypeOK
<1>7. ASSUME NEW d \in Cpu PROVE CpuOK(d)'
  <2>1. CASE d = c
    BY <1>1, <1>2, <1>3, <1>4, <1>5, <2>1, Zenon
       DEF Inv, TypeOK, TableType, SchedType, CpuOK
  <2>2. CASE d # c
    <3>1. /\ UNCHANGED <<at[d], scan[d], cpuproc[d], plock, pc>>
          /\ cpuproc[d] # NULL => state'[cpuproc[d]] = state[cpuproc[d]]
      BY <1>2, <1>4, <2>2, OnCpu, Zenon DEF Inv, TypeOK, TableType,
         SchedType
    <3>2. \A e \in Cpu : cpuproc'[e] = cpuproc[d] => e # c
      BY <1>2, <1>4, Zenon DEF Inv, TypeOK, SchedType
    <3>3. \A e \in Cpu : e # c => cpuproc'[e] = cpuproc[e]
      BY <1>2, Zenon DEF Inv, TypeOK, SchedType
    <3> QED
      BY SMTT(30), <3>1, <3>2, <3>3 DEF Inv, TypeOK, SchedType, CpuAt,
         CpuInv, CpuOK
  <2> QED
    BY <2>1, <2>2, Zenon
<1>8. ASSUME NEW q \in Slot PROVE SlotOK(q)'
  <2>1. CASE q = r
    <3>1. cpuproc'[c] = r
      BY <1>2, Zenon DEF Inv, TypeOK, SchedType
    <3> QED
      BY <1>1, <1>2, <1>5, <2>1, <3>1, Zenon
         DEF Inv, TypeOK, TableType, SlotInv, SlotOK, HandOff
  <2>2. CASE q # r
    <3>1. state'[q] = state[q]
      BY <1>2, <2>2, Zenon DEF Inv, TypeOK, TableType
    <3>2. ASSUME NEW e \in Cpu, cpuproc[e] = q PROVE cpuproc'[e] = q
      BY <1>2, <1>3, <3>2, Zenon DEF Inv, TypeOK, SchedType
    <3> QED
      BY <1>2, <3>1, <3>2, Zenon DEF Inv, SlotInv, SlotOK
  <2> QED
    BY <2>1, <2>2, Zenon
<1>9. ASSUME NEW q \in Slot
      PROVE  /\ state'[q] \in Alive <=> state[q] \in Alive
             /\ state'[q] = "UNUSED" <=> state[q] = "UNUSED"
             /\ state'[q] = "EMBRYO" <=> state[q] = "EMBRYO"
             /\ state'[q] = "ZOMBIE" <=> state[q] = "ZOMBIE"
             /\ state'[q] = "SLEEPING" => state[q] = "SLEEPING"
  BY <1>1, <1>2, Zenon DEF Inv, TypeOK, TableType, Alive
<1>10. ASSUME NEW q \in Slot PROVE ForkOK(q)'
  <2>1. np[q] # NULL => np[q] \in Slot
    BY DEF Inv, TypeOK, ThreadType
  <2>2. /\ np[q] # NULL => (state'[np[q]] = "EMBRYO" <=> state[np[q]] = "EMBRYO")
        /\ state'[q] \in Alive <=> state[q] \in Alive
        /\ state'[q] = "EMBRYO" <=> state[q] = "EMBRYO"
        /\ state'[q] = "UNUSED" <=> state[q] = "UNUSED"
    BY Zenon, <1>9, <2>1
  <2> QED
    BY <1>2, <2>2, Zenon DEF Inv, ForkInv, ForkOK, Point
<1>11. FamilyInv'
  BY Zenon, <1>2, <1>9 DEF Inv, FamilyInv, LiveParent
<1>12. PidInv'
  BY <1>2, Zenon DEF Inv, PidInv, UniquePid
<1>13. NoMissedExit'
  BY <1>2, <1>9, Zenon DEF Inv, NoMissedExit, Children, ZombieKids
<1> QED
  BY <1>6, <1>7, <1>8, <1>10, <1>11, <1>12, <1>13, Zenon DEF Inv, CpuInv,
     SlotInv, ForkInv

\* Initially there is init, RUNNABLE, and every CPU is idle.
LEMMA InitInv == Init => Inv
<1> SUFFICES ASSUME Init PROVE Inv
  BY Zenon
<1> USE SlotFacts, Labels, CpuAssumption
<1>1. TableType
  BY Zenon DEF Init, TableType, State
<1>2. ThreadType
  BY Zenon DEF Init, ThreadType
<1>3. SchedType
  BY DEF Init, SchedType, CpuAt
<1>4. TypeOK
  BY Zenon, <1>1, <1>2, <1>3 DEF Init, TypeOK
<1>5. CpuInv
  BY Zenon DEF Init, CpuInv, CpuOK
<1>6. SlotInv
  BY Zenon DEF Init, SlotInv, SlotOK, HandOff, Alive
<1>7. ForkInv
  BY Zenon DEF Init, ForkInv, ForkOK, Point, Forking, Alive
<1>8. FamilyInv
  BY Zenon DEF Init, FamilyInv, LiveParent, Alive
<1>9. PidInv
  BY DEF Init, PidInv, UniquePid
<1>10. NoMissedExit
  BY Zenon DEF Init, NoMissedExit
<1> QED
  BY <1>4, <1>5, <1>6, <1>7, <1>8, <1>9, <1>10, Zenon DEF Inv

\* Every step preserves the invariant.
LEMMA NextInv == Inv /\ [Next]_vars => Inv'
<1> SUFFICES ASSUME Inv, [Next]_vars PROVE Inv'
  BY Zenon
<1>1. CASE UNCHANGED vars
  <2> USE <1>1 DEF vars, table, thread, sched
  <2>1. TypeOK'
    BY Zenon DEF Inv, TypeOK, TableType, ThreadType, SchedType
  <2>2. ASSUME NEW d \in Cpu PROVE CpuOK(d)'
    BY Zenon DEF Inv, CpuInv, CpuOK
  <2>3. \A p \in Slot : state[p] = "RUNNING" => \E d \in Cpu : cpuproc'[d] = p
    BY Zenon DEF Inv, SlotInv, SlotOK
  <2> QED
    BY <2>1, <2>2, <2>3, StillInv, Zenon DEF CpuInv
<1>2. CASE IoWakeup
  BY <1>2, IoWakeupInv, Zenon
<1>3. ASSUME NEW c \in Cpu, SchedulerStep(c) PROVE Inv'
  BY <1>3, SchedAcquireInv, DispatchInv, SchedReleaseInv, SwtchInv, Zenon
     DEF SchedulerStep
<1>4. ASSUME NEW c \in Cpu, KernelStep(c) PROVE Inv'
  BY Zenon, <1>4, ForkretInv, YieldReturnInv, SleepReturnInv,
     ReturnToUserInv,
     AllocProcInv, AllocFailInv, KstackOkInv, KstackFailInv, CopyOkInv,
     CopyFailInv, ReadyInv, ExitPanicInv, ExitInv, WaitReapInv, WaitFailInv,
     WaitSleepInv, SleepInv, OtherCallInv, KillInv
     DEF KernelStep, Wait
<1>5. ASSUME NEW c \in Cpu, UserStep(c) PROVE Inv'
  BY <1>5, SyscallInv, FaultInv, TimerExitInv, TimerInv, Zenon DEF UserStep
<1> QED
  BY <1>1, <1>2, <1>3, <1>4, <1>5, Zenon DEF Next

\* The inductive invariant of the process table and the schedulers holds in
\* every reachable state, for any number of slots and CPUs.
THEOREM ProcInvariance == Spec => []Inv
<1> QED
  BY InitInv, NextInv, PTL DEF Spec

\* swtch() is safe: no kernel stack is shared by two CPUs or freed in use.
THEOREM ProcOwnStack == Spec => []OwnStack
<1>1. Inv => OwnStack
  <2> SUFFICES ASSUME Inv, NEW c \in Cpu, cpuproc[c] # NULL
               PROVE  /\ cpuproc[c] \in kstack
                      /\ \A d \in Cpu \ {c} : cpuproc[d] # cpuproc[c]
    BY Zenon DEF OwnStack
  <2>1. /\ cpuproc[c] \in Slot
        /\ state[cpuproc[c]] \in {"RUNNING", "RUNNABLE", "SLEEPING", "ZOMBIE"}
    BY OnCpu, Zenon
  <2>2. cpuproc[c] \in kstack
    BY <2>1, Zenon DEF Inv, SlotInv, SlotOK, Alive
  <2>3. \A d \in Cpu \ {c} : cpuproc[d] # cpuproc[c]
    BY Zenon DEF Inv, CpuInv, CpuOK
  <2> QED
    BY <2>2, <2>3, Zenon
<1> QED
  BY <1>1, ProcInvariance, PTL

\* sched() never panics about the lock or a running process, and no dead
\* process is switched to: panic("zombie exit") is not reached.
THEOREM ProcSchedCalledRight == Spec => []SchedCalledRight
<1>1. Inv => SchedCalledRight
  <2> SUFFICES ASSUME Inv, NEW c \in Cpu
               PROVE  /\ at[c] = "sched" =>
                           plock = c /\ state[cpuproc[c]] # "RUNNING"
                      /\ at[c] = "proc" => pc[cpuproc[c]] # "dead"
    BY Zenon DEF SchedCalledRight
  <2>1. at[c] = "sched" => plock = c /\ state[cpuproc[c]] # "RUNNING"
    BY Zenon DEF Inv, CpuInv, CpuOK
  <2>2. at[c] = "proc" => pc[cpuproc[c]] # "dead"
    BY Current, Zenon DEF Inv, SlotInv, SlotOK
  <2> QED
    BY <2>1, <2>2, Zenon
<1> QED
  BY <1>1, ProcInvariance, PTL

\* wait() misses no exit, however its process came by its children.
THEOREM ProcNoMissedExit == Spec => []NoMissedExit
<1>1. Inv => NoMissedExit
  BY Zenon DEF Inv
<1> QED
  BY <1>1, ProcInvariance, PTL

\* exit() leaves no process behind without a live parent to reap it.
THEOREM ProcLiveParent == Spec => []LiveParent
<1>1. Inv => LiveParent
  BY Zenon DEF Inv, FamilyInv
<1> QED
  BY <1>1, ProcInvariance, PTL

\* kill() and wait() cannot confuse two processes: pids are unique.
THEOREM ProcUniquePid == Spec => []UniquePid
<1>1. Inv => UniquePid
  BY DEF Inv, PidInv
<1> QED
  BY <1>1, ProcInvariance, PTL
=============================================================================
