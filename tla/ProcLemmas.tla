----------------------------- MODULE ProcLemmas -----------------------------
(***************************************************************************)
(* Lemmas about the invariant of Proc, and two shapes that most steps of a *)
(* thread have: it moves on inside the kernel, or it blocks.  Then the steps*)
(* of fork(), and of wait() when it reaps, which preserve the invariant    *)
(* because they work on a slot that no other thread refers to.             *)
(***************************************************************************)
EXTENDS Proc, WellFoundedInduction, TLAPS

\* The first slot of a scan: Min picks a member of the set.
LEMMA FirstMatch ==
  ASSUME NEW S, S \subseteq Nat, S # {}
  PROVE  Min(S) \in S
<1> DEFINE LT == {ss \in Nat \X Nat : ss[1] < ss[2]}
<1>1. LT = OpToRel(<, Nat)
  BY Zenon DEF OpToRel
<1>2. IsWellFoundedOn(LT, Nat)
  BY <1>1, NatLessThanWellFounded, Zenon
<1> HIDE DEF LT
<1>3. PICK x \in S : \A y \in S : ~(<<y, x>> \in LT)
  BY Zenon, <1>2, WFMin
<1>4. ASSUME NEW y \in S PROVE x <= y
  <2>1. x \in Nat /\ y \in Nat
    OBVIOUS
  <2>2. ~(y < x)
    BY Zenon, <2>1, <1>3 DEF LT
  <2> QED
    BY <2>1, <2>2
<1> QED
  BY Zenon, <1>4 DEF Min

\* Slots are numbers, and neither a null pointer nor the channel of the disk is
\* one of them.
LEMMA SlotFacts ==
  /\ initproc \in Slot
  /\ NULL \notin Slot
  /\ IO \notin Slot
  /\ NULL # IO
  /\ Slot \subseteq Nat
  /\ 1 \in Cursor
  /\ \A p \in Slot : p \in Cursor /\ p + 1 \in Cursor
BY NprocAssumption DEF initproc, Slot, NULL, IO, Cursor

\* Labels of the code that the steps below set.
LEMMA Labels ==
  /\ Calls \subseteq Label
  /\ {"none", "forkret", "user", "ret", "kstack", "copy", "ready", "exit",
      "yielded", "waited", "slept", "dead"} \subseteq Label
BY DEF Label

\* A CPU that executes a process executes a RUNNING one, alone, and holds
\* ptable.lock exactly after a switch.
LEMMA Current ==
  ASSUME Inv, NEW c \in Cpu, at[c] = "proc"
  PROVE  /\ cpuproc[c] \in Slot
         /\ state[cpuproc[c]] = "RUNNING"
         /\ plock = c <=> pc[cpuproc[c]] \in HandOff
         /\ \A d \in Cpu : cpuproc[d] = cpuproc[c] => d = c
         /\ pc[cpuproc[c]] \in Forking => np[cpuproc[c]] \in Slot
<1>1. /\ cpuproc[c] \in Slot
      /\ state[cpuproc[c]] = "RUNNING"
      /\ plock = c <=> pc[cpuproc[c]] \in HandOff
      /\ \A d \in Cpu : cpuproc[d] = cpuproc[c] => d = c
  BY DEF Inv, TypeOK, SchedType, CpuInv, CpuOK
<1>2. pc[cpuproc[c]] \in Forking => np[cpuproc[c]] \in Slot
  BY <1>1 DEF Inv, TypeOK, ThreadType, ForkInv, ForkOK, Point, Alive, Forking
<1> QED
  BY <1>1, <1>2

\* The process a CPU is on is not free, and RUNNING unless that CPU is in
\* sched().
LEMMA OnCpu ==
  ASSUME Inv, NEW d \in Cpu, cpuproc[d] # NULL
  PROVE  /\ cpuproc[d] \in Slot
         /\ state[cpuproc[d]] \in {"RUNNING", "RUNNABLE", "SLEEPING", "ZOMBIE"}
         /\ plock # d => state[cpuproc[d]] = "RUNNING"
BY DEF Inv, TypeOK, SchedType, CpuAt, CpuInv, CpuOK

\* Whoever is somebody's parent is alive, also while fork() sets it.
LEMMA Parents ==
  ASSUME Inv, NEW q \in Slot, parent[q] # NULL
  PROVE  parent[q] \in Slot /\ state[parent[q]] \in Alive
<1>1. CASE state[q] = "EMBRYO"
  <2>1. PICK p \in Slot : np[p] = q
    BY <1>1 DEF Inv, ForkInv, ForkOK
  <2>2. np[p] # NULL
    BY <2>1, SlotFacts
  <2>3. state[p] \in Alive /\ parent[np[p]] \in {p, NULL}
    BY <2>2 DEF Inv, ForkInv, ForkOK
  <2> QED
    BY <2>1, <2>3
<1>2. CASE state[q] # "EMBRYO"
  BY SMTT(30), <1>2 DEF Inv, TypeOK, TableType, State, ForkInv, ForkOK,
     FamilyInv,
              LiveParent, Alive
<1> QED
  BY <1>1, <1>2

\* A slot that is free or being set up is on no CPU and has no children.
LEMMA Unborn ==
  ASSUME Inv, NEW k \in Slot, state[k] \in {"EMBRYO", "UNUSED"}
  PROVE  /\ k # initproc
         /\ \A d \in Cpu : cpuproc[d] # k
         /\ \A q \in Slot : parent[q] # k
<1>1. k # initproc
  BY DEF Inv, FamilyInv, Alive
<1>2. ASSUME NEW d \in Cpu PROVE cpuproc[d] # k
  BY OnCpu, SlotFacts
<1>3. ASSUME NEW q \in Slot PROVE parent[q] # k
  BY Parents, SlotFacts DEF Alive
<1> QED
  BY <1>1, <1>2, <1>3

\* What a thread inside fork() knows of the slot np it is setting up.
LEMMA Child ==
  ASSUME Inv, NEW p \in Slot, state[p] = "RUNNING", pc[p] \in Forking
  PROVE  /\ np[p] \in Slot
         /\ state[np[p]] = "EMBRYO"
         /\ np[p] # p
         /\ pc[p] = "kstack" => np[p] \notin kstack /\ pc[np[p]] = "none"
         /\ pc[p] # "kstack" => np[p] \in kstack /\ pc[np[p]] = "forkret"
         /\ pc[p] = "ready" => parent[np[p]] = p
         /\ pc[p] # "ready" => parent[np[p]] = NULL
         /\ \A q \in Slot : np[q] = np[p] => q = p
         /\ \A q \in Slot : np[q] # p
<1>1. /\ np[p] \in Slot
      /\ state[np[p]] = "EMBRYO"
      /\ np[p] \in kstack <=> pc[p] # "kstack"
      /\ np[p] \in kstack <=> pc[np[p]] = "forkret"
      /\ parent[np[p]] = IF pc[p] = "ready" THEN p ELSE NULL
      /\ \A q \in Slot : np[q] = np[p] => q = p
  BY DEF Inv, TypeOK, ThreadType, ForkInv, ForkOK, Point, Alive, Forking
<1>2. pc[np[p]] \in {"none", "forkret"}
  BY <1>1 DEF Inv, SlotInv, SlotOK
<1>3. ASSUME NEW q \in Slot PROVE np[q] # p
  BY SlotFacts DEF Inv, ForkInv, ForkOK
<1>4. np[p] # p
  BY <1>1, Zenon
<1>5. /\ pc[p] = "kstack" => np[p] \notin kstack /\ pc[np[p]] = "none"
      /\ pc[p] # "kstack" => np[p] \in kstack /\ pc[np[p]] = "forkret"
      /\ pc[p] = "ready" => parent[np[p]] = p
      /\ pc[p] # "ready" => parent[np[p]] = NULL
  BY <1>1, <1>2, Zenon
<1> QED
  BY <1>1, <1>3, <1>4, <1>5, Zenon

\* A step that leaves the process table and the threads alone: it is enough
\* that the schedulers' part of the invariant holds after it and that no
\* RUNNING process loses its CPU.
LEMMA StillInv ==
  ASSUME Inv, TypeOK', CpuInv', UNCHANGED <<table, thread, nextpid>>,
         \A p \in Slot : state[p] = "RUNNING" => \E c \in Cpu : cpuproc'[c] = p
  PROVE  Inv'
<1>1. UNCHANGED <<state, pid, parent, chan, kstack, pc, resume, np>>
  BY DEF table, thread
<1>2. ASSUME NEW p \in Slot PROVE SlotOK(p)'
  <2>1. SlotOK(p)
    BY DEF Inv, SlotInv
  <2> QED
    BY <1>1, <2>1 DEF SlotOK
<1>3. ASSUME NEW p \in Slot PROVE ForkOK(p)'
  <2>1. ForkOK(p)
    BY DEF Inv, ForkInv
  <2> QED
    BY <1>1, <2>1 DEF ForkOK, Point
<1>4. FamilyInv' /\ PidInv' /\ NoMissedExit'
  BY <1>1 DEF Inv, FamilyInv, LiveParent, PidInv, UniquePid, NoMissedExit,
     Children, ZombieKids
<1> QED
  BY <1>2, <1>3, <1>4 DEF Inv, SlotInv, ForkInv

\* A step in which thread p = cpuproc[c] moves on in the kernel: it may give
\* up ptable.lock and wake sleepers, but it stays RUNNING, and it enters or
\* leaves fork() by no such step.
Moves(c, p) ==
  /\ at[c] = "proc" /\ p = cpuproc[c]
  /\ plock' # c /\ \A d \in Cpu \ {c} : plock' = d <=> plock = d
  /\ UNCHANGED <<at, scan, cpuproc, pid, parent, kstack, np, nextpid>>
  /\ TypeOK'
  /\ pc'[p] \notin HandOff \cup {"none", "dead"}
  /\ pc'[p] \in Forking \/ Point(p) \in Forking => pc'[p] = Point(p)
  /\ \A q \in Slot \ {p} : UNCHANGED <<pc[q], resume[q], chan[q]>>
  /\ \A q \in Slot : \/ state'[q] = state[q]
                     \/ state[q] = "SLEEPING" /\ state'[q] = "RUNNABLE"

\* Such a step preserves the invariant.
LEMMA MovesInv ==
  ASSUME Inv, NEW c \in Cpu, NEW p, Moves(c, p)
  PROVE  Inv'
<1> USE SlotFacts
<1>1. /\ at[c] = "proc" /\ p = cpuproc[c]
      /\ UNCHANGED <<at, scan, cpuproc, pid, parent, kstack, np, nextpid>>
      /\ TypeOK'
  BY DEF Moves
<1>2. /\ p \in Slot
      /\ state[p] = "RUNNING"
      /\ \A d \in Cpu : cpuproc[d] = p => d = c
  BY <1>1, Current
<1>w. ASSUME NEW q \in Slot
      PROVE  \/ state'[q] = state[q]
             \/ state[q] = "SLEEPING" /\ state'[q] = "RUNNABLE"
  BY DEF Moves
<1>3. ASSUME NEW q \in Slot
      PROVE  /\ state'[q] \in Alive <=> state[q] \in Alive
             /\ state'[q] = "UNUSED" <=> state[q] = "UNUSED"
             /\ state'[q] = "EMBRYO" <=> state[q] = "EMBRYO"
             /\ state'[q] = "ZOMBIE" <=> state[q] = "ZOMBIE"
             /\ state'[q] = "SLEEPING" => state[q] = "SLEEPING"
  BY <1>w DEF Alive
<1>4. ASSUME NEW q \in Slot, q # p
      PROVE  UNCHANGED <<pc[q], resume[q], chan[q]>>
  BY <1>4 DEF Moves
<1>5. ASSUME NEW d \in Cpu PROVE CpuOK(d)'
  <2>1. CASE d = c
    <3>1. plock' # c /\ pc'[p] \notin HandOff
      BY DEF Moves
    <3>2. state'[p] = "RUNNING"
      BY <1>2, <1>w
    <3>3. /\ cpuproc[c] # NULL /\ scan[c] \in Slot
          /\ \A e \in Cpu : cpuproc[c] = cpuproc[e] => c = e
      BY <1>1, <1>2 DEF Inv, CpuInv, CpuOK
    <3> QED
      BY <1>1, <2>1, <3>1, <3>2, <3>3, Zenon DEF CpuOK
  <2>2. CASE d # c
    <3>1. plock' = d <=> plock = d
      BY <2>2 DEF Moves
    <3>2. CASE cpuproc[d] = NULL
      BY <1>1, <3>1, <3>2, Zenon DEF Inv, CpuInv, CpuOK
    <3>3. CASE cpuproc[d] # NULL
      <4>1. cpuproc[d] \in Slot /\ cpuproc[d] # p
        BY <1>2, <2>2, <3>3, OnCpu
      <4>2. pc'[cpuproc[d]] = pc[cpuproc[d]]
        BY Zenon, <1>4, <4>1
      <4>3. /\ state[cpuproc[d]] = "RUNNING" => state'[cpuproc[d]] = "RUNNING"
            /\ state[cpuproc[d]] \in {"RUNNABLE", "SLEEPING", "ZOMBIE"} =>
                 state'[cpuproc[d]] \in {"RUNNABLE", "SLEEPING", "ZOMBIE"}
        BY Zenon, <1>w, <4>1
      <4> QED
        BY <1>1, <3>1, <4>1, <4>2, <4>3, Zenon DEF Inv, CpuInv, CpuOK
    <3> QED
      BY <3>2, <3>3
  <2> QED
    BY <2>1, <2>2
<1>6. ASSUME NEW q \in Slot PROVE SlotOK(q)'
  <2>1. CASE q = p
    <3>1. pc'[p] \notin HandOff \cup {"none", "dead"}
      BY DEF Moves
    <3> QED
      BY <1>1, <1>2, <1>w, <2>1, <3>1, Zenon DEF Inv, SlotInv, SlotOK, Alive, HandOff
  <2>2. CASE q # p
    <3>1. UNCHANGED <<pc[q], resume[q], chan[q], kstack, cpuproc>>
      BY <1>1, <1>4, <2>2
    <3>2. \/ state'[q] = state[q]
          \/ state[q] = "SLEEPING" /\ state'[q] = "RUNNABLE"
      BY <1>w
    <3> QED
      BY <3>1, <3>2, Zenon DEF Inv, SlotInv, SlotOK, Alive, HandOff
  <2> QED
    BY <2>1, <2>2, Zenon
<1>7. ASSUME NEW q \in Slot PROVE ForkOK(q)'
  <2>1. np[q] # NULL => /\ np[q] \in Slot /\ np[q] # p
                        /\ pc'[np[q]] = pc[np[q]]
                        /\ state'[np[q]] = "EMBRYO" <=> state[np[q]] = "EMBRYO"
    <3>1. np[q] # NULL => np[q] \in Slot /\ np[q] # p
      BY <1>2, Zenon DEF Inv, TypeOK, ThreadType, ForkInv, ForkOK
    <3> QED
      BY Zenon, <1>3, <1>4, <3>1
  <2>2. CASE q = p
    <3>1. Point(p)' = pc'[p]
      BY DEF Moves, Point, HandOff
    <3>2. /\ Point(p)' \in Forking <=> Point(p) \in Forking
          /\ Point(p)' \in Forking => Point(p)' = Point(p)
      BY <3>1 DEF Moves
    <3>3. state'[p] \in Alive /\ state'[p] \notin {"EMBRYO", "UNUSED"}
      BY <1>2, <1>3, Zenon DEF Alive
    <3> QED
      BY <1>1, <1>2, <2>1, <2>2, <3>2, <3>3
         DEF Inv, ForkInv, ForkOK, Forking, Alive
  <2>3. CASE q # p
    <3>1. Point(q)' = Point(q)
      BY Zenon, <1>4, <2>3 DEF Point
    <3>2. /\ state'[q] \in Alive <=> state[q] \in Alive
          /\ state'[q] = "EMBRYO" <=> state[q] = "EMBRYO"
          /\ state'[q] = "UNUSED" <=> state[q] = "UNUSED"
      BY <1>3, Zenon
    <3> QED
      BY <1>1, <2>1, <3>1, <3>2 DEF Inv, ForkInv, ForkOK
  <2> QED
    BY <2>2, <2>3
<1>8. FamilyInv'
  BY <1>1, <1>3 DEF Inv, FamilyInv, LiveParent
<1>9. PidInv'
  BY Zenon, <1>1 DEF Inv, PidInv, UniquePid
<1>10. NoMissedExit'
  <2>1. ASSUME NEW q \in Slot, state'[q] = "SLEEPING"
        PROVE  state[q] = "SLEEPING" /\ chan'[q] = chan[q]
    BY <1>2, <1>3, <1>4, <2>1, Zenon
  <2> QED
    <3> SUFFICES ASSUME NEW q \in Slot, state'[q] = "SLEEPING", chan'[q] = q
                 PROVE  Children(q)' # {} /\ ZombieKids(q)' = {}
      BY DEF NoMissedExit
    <3>1. Children(q) # {} /\ ZombieKids(q) = {}
      BY <2>1, Zenon DEF Inv, NoMissedExit
    <3> QED
      BY Zenon, <1>1, <1>3, <3>1 DEF Children, ZombieKids
<1> QED
  BY Zenon, <1>1, <1>5, <1>6, <1>7, <1>8, <1>9, <1>10
     DEF Inv, CpuInv, SlotInv, ForkInv

\* A step in which thread p = cpuproc[c] gives up the CPU: yield() or sleep()
\* up to the swtch, with ptable.lock held from here on.
Blocks(c, p) ==
  /\ at[c] = "proc" /\ p = cpuproc[c]
  /\ plock \in {c, NoCpu} /\ plock' = c
  /\ at' = [at EXCEPT ![c] = "sched"]
  /\ UNCHANGED <<scan, cpuproc, pid, parent, kstack, np, nextpid>>
  /\ TypeOK'
  /\ state'[p] \in {"SLEEPING", "RUNNABLE"}
  /\ SlotOK(p)'
  /\ Point(p)' \in Forking \/ Point(p) \in Forking => Point(p)' = Point(p)
  /\ state'[p] = "SLEEPING" /\ chan'[p] = p =>
       Children(p) # {} /\ ZombieKids(p) = {}
  /\ \A q \in Slot \ {p} : UNCHANGED <<pc[q], resume[q], chan[q], state[q]>>

\* Such a step preserves the invariant.
LEMMA BlocksInv ==
  ASSUME Inv, NEW c \in Cpu, NEW p, Blocks(c, p)
  PROVE  Inv'
<1> USE SlotFacts
<1>1. /\ at[c] = "proc" /\ p = cpuproc[c]
      /\ UNCHANGED <<scan, cpuproc, pid, parent, kstack, np, nextpid>>
      /\ TypeOK'
      /\ state'[p] \in {"SLEEPING", "RUNNABLE"}
  BY DEF Blocks
<1>2. /\ p \in Slot
      /\ state[p] = "RUNNING"
      /\ \A d \in Cpu : cpuproc[d] = p => d = c
  BY <1>1, Current, Zenon
<1>3. ASSUME NEW q \in Slot, q # p
      PROVE  UNCHANGED <<pc[q], resume[q], chan[q], state[q]>>
  BY <1>3, Zenon DEF Blocks
<1>4. ASSUME NEW d \in Cpu PROVE CpuOK(d)'
  <2>1. CASE d = c
    <3>1. at'[c] = "sched" /\ plock' = c
      BY Zenon DEF Blocks, Inv, TypeOK, SchedType
    <3> QED
      BY <1>1, <1>2, <2>1, <3>1, Zenon DEF Inv, CpuInv, CpuOK
  <2>2. CASE d # c
    <3>1. plock' # d /\ plock # d /\ at'[d] = at[d]
      BY <2>2, CpuAssumption, Zenon DEF Blocks, Inv, TypeOK, SchedType
    <3>2. CASE cpuproc[d] = NULL
      BY <1>1, <3>1, <3>2, Zenon DEF Inv, CpuInv, CpuOK
    <3>3. CASE cpuproc[d] # NULL
      <4>1. cpuproc[d] \in Slot /\ cpuproc[d] # p
        BY <1>2, <2>2, <3>3, OnCpu
      <4>2. UNCHANGED <<pc[cpuproc[d]], state[cpuproc[d]]>>
        BY <1>1, <1>3, <4>1, Zenon
      <4>3. CpuOK(d) /\ cpuproc' = cpuproc /\ scan' = scan
        BY <1>1, Zenon DEF Inv, CpuInv
      <4> QED
        BY <3>1, <4>1, <4>2, <4>3, Zenon DEF CpuOK
    <3> QED
      BY <3>2, <3>3
  <2> QED
    BY <2>1, <2>2
<1>5. ASSUME NEW q \in Slot PROVE SlotOK(q)'
  <2>1. CASE q = p
    BY <2>1, Zenon DEF Blocks
  <2>2. CASE q # p
    <3>1. SlotOK(q)
      BY Zenon DEF Inv, SlotInv
    <3>2. UNCHANGED <<pc[q], resume[q], chan[q], state[q], cpuproc, kstack>>
      BY <1>1, <1>3, <2>2, Zenon
    <3> QED
      BY <3>1, <3>2, Zenon DEF SlotOK
  <2> QED
    BY <2>1, <2>2, Zenon
<1>6. ASSUME NEW q \in Slot PROVE ForkOK(q)'
  <2>1. np[q] # NULL => /\ np[q] \in Slot /\ np[q] # p
                        /\ UNCHANGED <<np, pc[np[q]], state[np[q]]>>
    <3> SUFFICES ASSUME np[q] # NULL
                 PROVE  /\ np[q] \in Slot /\ np[q] # p
                        /\ UNCHANGED <<np, pc[np[q]], state[np[q]]>>
      BY Zenon
    <3>1. np[q] \in Slot /\ state[np[q]] = "EMBRYO"
      <4>1. ForkOK(q) /\ np[q] \in Slot \cup {NULL}
        BY Zenon DEF Inv, TypeOK, ThreadType, ForkInv
      <4> QED
        BY <4>1, Zenon DEF ForkOK
    <3>2. np[q] # p
      BY <1>2, <3>1
    <3> QED
      BY <1>1, <1>3, <3>1, <3>2, Zenon
  <2>2. CASE q = p
    <3>1. /\ Point(p)' \in Forking <=> Point(p) \in Forking
          /\ Point(p)' \in Forking => Point(p)' = Point(p)
      BY Zenon DEF Blocks
    <3> QED
      BY SMTT(30), <1>1, <1>2, <2>1, <2>2, <3>1 DEF Inv, ForkInv, ForkOK,
         Forking, Alive
  <2>3. CASE q # p
    <3>1. Point(q)' = Point(q) /\ state'[q] = state[q]
      BY <1>3, <2>3, Zenon DEF Point
    <3>2. ForkOK(q)
      BY Zenon DEF Inv, ForkInv
    <3>3. UNCHANGED <<np, kstack, parent>>
      BY <1>1, Zenon
    <3> QED
      BY <2>1, <3>1, <3>2, <3>3, Zenon DEF ForkOK
  <2> QED
    BY <2>2, <2>3
<1>7. ASSUME NEW q \in Slot
      PROVE  /\ state'[q] \in Alive <=> state[q] \in Alive
             /\ state'[q] = "ZOMBIE" <=> state[q] = "ZOMBIE"
  BY <1>1, <1>2, <1>3 DEF Alive
<1>8. FamilyInv'
  BY Zenon, <1>1, <1>7 DEF Inv, FamilyInv, LiveParent
<1>9. PidInv'
  BY Zenon, <1>1 DEF Inv, PidInv, UniquePid
<1>10. NoMissedExit'
  <2> SUFFICES ASSUME NEW q \in Slot, state'[q] = "SLEEPING", chan'[q] = q
               PROVE  Children(q)' # {} /\ ZombieKids(q)' = {}
    BY DEF NoMissedExit
  <2>1. Children(q) # {} /\ ZombieKids(q) = {}
    BY <1>3, Zenon DEF Blocks, Inv, NoMissedExit
  <2> QED
    BY Zenon, <1>1, <1>7, <2>1 DEF Children, ZombieKids
<1> QED
  BY <1>1, <1>4, <1>5, <1>6, <1>8, <1>9, <1>10, Zenon
     DEF Inv, CpuInv, SlotInv, ForkInv

-----------------------------------------------------------------------------
(* fork(), and wait() when it reaps. *)

\* How far thread p has got with slot k: it is free again, an EMBRYO at one of
\* the stages of fork(), or has become a process.
Stage(p, k) ==
  \/ /\ state[k] = "UNUSED" /\ pc[k] = "none" /\ k \notin kstack
     /\ parent[k] = NULL /\ np[p] = NULL /\ pc[p] = "ret"
  \/ /\ state[k] = "EMBRYO" /\ pc[k] \in {"none", "forkret"}
     /\ pc[p] \in Forking /\ np[p] = k
     /\ k \in kstack <=> pc[p] # "kstack"
     /\ k \in kstack <=> pc[k] = "forkret"
     /\ parent[k] = IF pc[p] = "ready" THEN p ELSE NULL
  \/ /\ state[k] = "RUNNABLE" /\ pc[k] = "forkret" /\ k \in kstack
     /\ parent[k] = p /\ np[p] = NULL /\ pc[p] = "ret"

\* A step in which thread p = cpuproc[c] works on another slot k that nobody
\* else refers to: a child it is forking, or a zombie it reaps.
Handles(c, p, k) ==
  /\ at[c] = "proc" /\ p = cpuproc[c] /\ k \in Slot \ {p, initproc}
  /\ \A d \in Cpu : cpuproc[d] # k
  /\ \A q \in Slot : parent[q] # k
  /\ \A q \in Slot \ {p} : np[q] # k
  /\ plock' # c /\ \A d \in Cpu \ {c} : plock' = d <=> plock = d
  /\ UNCHANGED <<at, scan, cpuproc>>
  /\ TypeOK'
  /\ \A q \in Slot \ {p, k} :
       /\ UNCHANGED <<state[q], parent[q], chan[q], pc[q], resume[q], np[q]>>
       /\ q \in kstack' <=> q \in kstack
  /\ UNCHANGED <<state[p], parent[p], np[k]>>
  /\ p \in kstack'
  /\ state[k] \notin Alive /\ np[p] \in {NULL, k} /\ parent[k] \in {p, NULL}
  /\ Stage(p, k)'
  /\ PidInv'

\* Such a step preserves the invariant.
LEMMA HandlesInv ==
  ASSUME Inv, NEW c \in Cpu, NEW p, NEW k, Handles(c, p, k)
  PROVE  Inv'
<1> USE SlotFacts
<1>1. /\ at[c] = "proc" /\ p = cpuproc[c]
      /\ k \in Slot /\ k # p /\ k # initproc
      /\ UNCHANGED <<at, scan, cpuproc, state[p], parent[p]>>
      /\ TypeOK' /\ PidInv'
  BY Zenon DEF Handles
<1>2. /\ p \in Slot
      /\ state[p] = "RUNNING"
      /\ \A d \in Cpu : cpuproc[d] = p => d = c
  BY <1>1, Current, Zenon
<1>3. ASSUME NEW q \in Slot, q # p, q # k
      PROVE  /\ state'[q] = state[q] /\ parent'[q] = parent[q]
             /\ chan'[q] = chan[q] /\ pc'[q] = pc[q]
             /\ resume'[q] = resume[q] /\ np'[q] = np[q]
             /\ q \in kstack' <=> q \in kstack
             /\ np[q] # k /\ np[q] # p
  <2>1. np[q] # p
    BY <1>2, Zenon DEF Inv, ForkInv, ForkOK
  <2> QED
    BY <1>3, <2>1, Zenon DEF Handles
<1>4. /\ pc'[p] \in Forking \cup {"ret"} /\ np'[p] \in {NULL, k}
      /\ parent'[k] \in {p, NULL}
      /\ state'[k] \in {"UNUSED", "EMBRYO", "RUNNABLE"}
      /\ state'[k] = "RUNNABLE" => parent'[k] = p
  BY Zenon DEF Handles, Stage
<1>5. np[k] = NULL /\ np'[k] = NULL
  BY <1>1, Zenon DEF Handles, Inv, ForkInv, ForkOK
<1>6. ASSUME NEW q \in Slot PROVE np'[q] # p /\ (np'[q] = k => q = p)
  BY <1>1, <1>2, <1>3, <1>4, <1>5
<1>7. ASSUME NEW d \in Cpu PROVE CpuOK(d)'
  <2>1. CASE d = c
    BY <1>1, <1>2, <1>4, <2>1
       DEF Handles, Inv, CpuInv, CpuOK, HandOff, Forking
  <2>2. CASE d # c
    <3>1. plock' = d <=> plock = d
      BY <2>2, Zenon DEF Handles
    <3>2. CASE cpuproc[d] = NULL
      BY <1>1, <3>1, <3>2, Zenon DEF Inv, CpuInv, CpuOK
    <3>3. CASE cpuproc[d] # NULL
      <4>1. cpuproc[d] \in Slot /\ cpuproc[d] # p /\ cpuproc[d] # k
        BY <1>2, <2>2, <3>3, OnCpu, Zenon DEF Handles
      <4>2. UNCHANGED <<pc[cpuproc[d]], state[cpuproc[d]]>>
        BY <1>1, <1>3, <4>1
      <4> QED
        BY <1>1, <3>1, <4>1, <4>2, Zenon DEF Inv, CpuInv, CpuOK
    <3> QED
      BY <3>2, <3>3, Zenon
  <2> QED
    BY <2>1, <2>2, Zenon
<1>8. ASSUME NEW q \in Slot PROVE SlotOK(q)'
  <2>1. CASE q = p
    BY <1>1, <1>2, <1>4, <2>1, Zenon DEF Handles, SlotOK, Forking
  <2>2. CASE q = k
    BY <2>2, Zenon DEF Handles, Stage, SlotOK, HandOff, Alive
  <2>3. CASE q # p /\ q # k
    <3>1. SlotOK(q)
      BY Zenon DEF Inv, SlotInv
    <3>2. /\ state'[q] = state[q] /\ chan'[q] = chan[q] /\ pc'[q] = pc[q]
          /\ resume'[q] = resume[q] /\ cpuproc' = cpuproc
          /\ q \in kstack' <=> q \in kstack
      BY <1>1, <1>3, <2>3, Zenon
    <3> QED
      BY <3>1, <3>2, Zenon DEF SlotOK
  <2> QED
    BY <2>1, <2>2, <2>3, Zenon
<1>9. ASSUME NEW q \in Slot PROVE ForkOK(q)'
  <2>1. CASE q = p
    <3>1. Point(p)' = pc'[p]
      BY <1>4, Zenon DEF Point, Forking
    <3>2. state'[p] = "RUNNING"
      BY <1>1, <1>2, Zenon
    <3>3. /\ np'[p] # NULL <=> pc'[p] \in Forking
          /\ np'[p] # NULL => /\ np'[p] = k /\ state'[k] = "EMBRYO"
                              /\ k \in kstack' <=> pc'[p] # "kstack"
                              /\ k \in kstack' <=> pc'[k] = "forkret"
                              /\ parent'[k] = IF pc'[p] = "ready" THEN p ELSE NULL
      <4>1. Stage(p, k)' /\ k # NULL
        BY <1>1, Zenon DEF Handles
      <4> QED
        BY <4>1, Zenon DEF Stage, Forking
    <3>4. \A r \in Slot : np'[r] = k => r = p
      BY <1>6, Zenon DEF Handles
    <3>5. "RUNNING" \in Alive
      BY Zenon DEF Alive
    <3> QED
      BY <2>1, <3>1, <3>2, <3>3, <3>4, <3>5, Zenon DEF ForkOK
  <2>3. CASE q = k
    <3>1. state'[k] \in Alive => Point(k)' = "forkret"
      BY Zenon DEF Handles, Stage, Point, Alive
    <3>2. state'[k] = "EMBRYO" => np'[p] = k
      BY Zenon DEF Handles, Stage
    <3>3. state'[k] = "UNUSED" => parent'[k] = NULL
      BY Zenon DEF Handles, Stage
    <3> QED
      BY <1>2, <1>5, <2>3, <3>1, <3>2, <3>3, Zenon DEF ForkOK, Forking
  <2>2. CASE q # p /\ q # k
    <3>1. Point(q)' = Point(q)
      BY <1>3, <2>2 DEF Point
    <3>2. ASSUME np[q] # NULL
          PROVE  /\ state'[np[q]] = state[np[q]] /\ parent'[np[q]] = parent[np[q]]
                 /\ pc'[np[q]] = pc[np[q]]
                 /\ np[q] \in kstack' <=> np[q] \in kstack
      BY Zenon, <1>3, <2>2, <3>2 DEF Inv, TypeOK, ThreadType
    <3>3. ASSUME NEW x \in Slot, np'[x] = np[q], np[q] # NULL PROVE x = q
      <4>1. x # p /\ x # k
        BY <1>3, <1>4, <1>5, <2>2, <3>3, Zenon
      <4>2. np[x] = np[q]
        BY <1>3, <3>3, <4>1
      <4>3. ForkOK(q)
        BY Zenon DEF Inv, ForkInv
      <4> QED
        BY <3>3, <4>2, <4>3, Zenon DEF ForkOK
    <3>4. ASSUME NEW x \in Slot, np[x] = q PROVE \E y \in Slot : np'[y] = q
      <4>1. x # p /\ x # k
        BY <1>5, <2>2, <3>4 DEF Handles
      <4> QED
        BY <1>3, <3>4, <4>1, Zenon
    <3> QED
      <4>1. ForkOK(q)
        BY Zenon DEF Inv, ForkInv
      <4>2. np'[q] = np[q] /\ state'[q] = state[q] /\ parent'[q] = parent[q]
        BY <1>3, <2>2, Zenon
      <4>3. np'[q] # NULL <=> state'[q] \in Alive /\ Point(q)' \in Forking
        BY <3>1, <4>1, <4>2, Zenon DEF ForkOK, Alive, Forking
      <4>4. ASSUME np[q] # NULL
            PROVE  /\ state'[np[q]] = "EMBRYO"
                   /\ np[q] \in kstack' <=> Point(q)' # "kstack"
                   /\ np[q] \in kstack' <=> pc'[np[q]] = "forkret"
                   /\ parent'[np[q]] = IF Point(q)' = "ready" THEN q ELSE NULL
        <5>1. /\ state[np[q]] = "EMBRYO"
              /\ np[q] \in kstack <=> Point(q) # "kstack"
              /\ np[q] \in kstack <=> pc[np[q]] = "forkret"
              /\ parent[np[q]] = IF Point(q) = "ready" THEN q ELSE NULL
          BY <4>1, <4>4, Zenon DEF ForkOK
        <5> QED
          BY <3>1, <3>2, <4>4, <5>1, Zenon
      <4>5. /\ state'[q] = "EMBRYO" => \E y \in Slot : np'[y] = q
            /\ state'[q] = "UNUSED" => parent'[q] = NULL
        BY <3>4, <4>1, <4>2, Zenon DEF ForkOK
      <4> QED
        BY <3>3, <4>2, <4>3, <4>4, <4>5, Zenon DEF ForkOK
  <2> QED
    BY <2>1, <2>2, <2>3, Zenon
<1>10. FamilyInv'
  <2>1. state'[initproc] \in Alive /\ parent'[initproc] = NULL
    BY <1>1, <1>2, <1>3, Zenon DEF Inv, FamilyInv
  <2>2. ASSUME NEW q \in Slot PROVE parent'[q] # q
    BY <1>1, <1>2, <1>3, <1>4 DEF Inv, FamilyInv
  <2>3. ASSUME NEW q \in Slot \ {initproc}, state'[q] \in Alive \cup {"ZOMBIE"}
        PROVE  parent'[q] \in Slot /\ state'[parent'[q]] \in Alive
    <3>1. CASE q = k
      BY <1>1, <1>2, <1>4, <2>3, <3>1, Zenon DEF Alive
    <3>2. CASE q # k
      <4>1. state'[q] = state[q] /\ parent'[q] = parent[q]
        BY <1>1, <1>3, <3>2, Zenon
      <4>2. parent[q] \in Slot /\ state[parent[q]] \in Alive /\ parent[q] # k
        BY <2>3, <4>1, Zenon DEF Handles, Inv, FamilyInv, LiveParent
      <4>3. state'[parent[q]] \in Alive
        <5>1. CASE parent[q] = p
          BY <1>1, <4>2, <5>1
        <5>2. CASE parent[q] # p
          BY Zenon, <1>3, <4>2, <5>2
        <5> QED
          BY <5>1, <5>2, Zenon
      <4> QED
        BY <4>1, <4>2, <4>3, Zenon
    <3> QED
      BY <3>1, <3>2, Zenon
  <2> QED
    BY <2>1, <2>2, <2>3 DEF FamilyInv, LiveParent, Alive
<1>11. NoMissedExit'
  <2> SUFFICES ASSUME NEW q \in Slot, state'[q] = "SLEEPING", chan'[q] = q
               PROVE  Children(q)' # {} /\ ZombieKids(q)' = {}
    BY Zenon DEF NoMissedExit
  <2>1. q # p /\ q # k
    BY <1>1, <1>2, <1>4
  <2>2. Children(q) # {} /\ ZombieKids(q) = {}
    BY Zenon, <1>3, <2>1 DEF Inv, NoMissedExit
  <2>3. ASSUME NEW x \in Slot
        PROVE  /\ parent'[x] = q <=> parent[x] = q
               /\ state'[x] = "ZOMBIE" => state[x] = "ZOMBIE"
    <3>1. CASE x = k
      BY <1>1, <1>2, <1>4, <2>1, <3>1 DEF Handles
    <3>2. CASE x # k
      BY <1>1, <1>3, <2>1, <3>2, Zenon
    <3> QED
      BY <3>1, <3>2, Zenon
  <2> QED
    BY Zenon, <2>2, <2>3 DEF Children, ZombieKids
<1> QED
  BY <1>1, <1>7, <1>8, <1>9, <1>10, <1>11, Zenon
     DEF Inv, CpuInv, SlotInv, ForkInv

\* allocproc() claims a slot.
LEMMA AllocProcInv ==
  ASSUME Inv, NEW c \in Cpu, AllocProc(c)
  PROVE  Inv'
<1> USE SlotFacts, Labels, CpuAssumption
<1> DEFINE free == {q \in Slot : state[q] = "UNUSED"}
<1>0. PICK p, k : p = cpuproc[c] /\ k = Min(free)
  BY Zenon
<1>1. at[c] = "proc" /\ pc[p] = "fork"
  BY <1>0, Zenon DEF AllocProc, On
<1>2. /\ p \in Slot
      /\ state[p] = "RUNNING"
      /\ \A d \in Cpu : cpuproc[d] = p => d = c
  BY <1>0, <1>1, Current, Zenon
<1>3. plock # c
  BY <1>0, <1>1, Current, Zenon DEF HandOff
<1>4. /\ k \in Slot
      /\ state[k] = "UNUSED"
      /\ k # p
      /\ k \notin kstack
      /\ pc[k] = "none"
      /\ parent[k] = NULL
      /\ np[p] = NULL
      /\ \A q \in Slot : np[q] # k
      /\ \A q \in Slot : np[q] # p
  <2>1. free # {} /\ free \subseteq Nat
    BY Zenon DEF AllocProc
  <2>2. k \in free
    <3> HIDE DEF free
    <3> QED
      BY Zenon, <1>0, <2>1, FirstMatch
  <2>3. k \in Slot /\ state[k] = "UNUSED"
    BY <2>2
  <2>4. np[p] = NULL
    BY Zenon, <1>1, <1>2 DEF Inv, ForkInv, ForkOK, Point, Forking
  <2>5. ASSUME NEW x \in Slot, state[x] # "EMBRYO"
        PROVE  \A q \in Slot : np[q] # x
    BY <2>5 DEF Inv, ForkInv, ForkOK
  <2>6. k \notin kstack /\ pc[k] = "none" /\ parent[k] = NULL
    BY <2>3, Zenon DEF Inv, SlotInv, SlotOK, ForkInv, ForkOK
  <2> QED
    BY <1>2, <2>3, <2>4, <2>5, <2>6
<1>5. /\ k # initproc
      /\ \A d \in Cpu : cpuproc[d] # k
      /\ \A q \in Slot : parent[q] # k
  BY <1>4, Unborn, Zenon
<1>6. /\ state' = [state EXCEPT ![k] = "EMBRYO"]
      /\ pid' = [pid EXCEPT ![k] = nextpid]
      /\ pc' = [pc EXCEPT ![p] = "kstack"]
      /\ np' = [np EXCEPT ![p] = k]
      /\ nextpid' = nextpid + 1
      /\ UNCHANGED <<parent, chan, killed, kstack, resume, plock, at, scan,
                     cpuproc, panicked>>
  BY <1>0, Zenon DEF AllocProc, Goto, table, thread, sched
<1>7. TypeOK'
  <2>1. TableType'
    BY <1>2, <1>4, <1>6, Zenon DEF Inv, TypeOK, TableType, State
  <2>2. ThreadType'
    BY <1>2, <1>4, <1>6, Zenon DEF Inv, TypeOK, ThreadType
  <2>3. SchedType'
    BY <1>2, <1>6, Zenon DEF Inv, TypeOK, SchedType
  <2> QED
    BY <2>1, <2>2, <2>3, <1>6 DEF Inv, TypeOK
<1>8. PidInv'
  BY <1>4, <1>6 DEF Inv, TypeOK, TableType, PidInv, UniquePid
<1>9. Stage(p, k)'
  <2>1. /\ state'[k] = "EMBRYO" /\ pc'[k] = "none" /\ k \notin kstack'
        /\ parent'[k] = NULL /\ np'[p] = k /\ pc'[p] = "kstack"
    BY <1>2, <1>4, <1>6, Zenon DEF Inv, TypeOK, TableType, ThreadType
  <2> QED
    BY <2>1, Zenon DEF Stage, Forking
<1>10. Handles(c, p, k)
  <2>1. ASSUME NEW q \in Slot, q # p, q # k
        PROVE  /\ UNCHANGED <<state[q], parent[q], chan[q], pc[q], resume[q],
                              np[q]>>
               /\ q \in kstack' <=> q \in kstack
    BY <1>6, <2>1, Zenon DEF Inv, TypeOK, TableType, ThreadType
  <2>2. UNCHANGED <<state[p], parent[p], np[k], at, scan, cpuproc>>
    BY <1>2, <1>4, <1>6, Zenon DEF Inv, TypeOK, TableType, ThreadType
  <2>3. p \in kstack'
    BY <1>2, <1>4, <1>6, Zenon DEF Inv, SlotInv, SlotOK, Alive
  <2>4. plock' # c /\ \A d \in Cpu \ {c} : plock' = d <=> plock = d
    BY <1>3, <1>6, Zenon
  <2>5. /\ state[k] \notin Alive
        /\ np[p] \in {NULL, k} /\ parent[k] \in {p, NULL}
    BY <1>0, <1>1, <1>4, Zenon DEF Alive
  <2> QED
    BY Zenon, <1>0, <1>1, <1>4, <1>5, <1>7, <1>8, <1>9, <2>1, <2>2, <2>3,
       <2>4, <2>5
       DEF Handles
<1> QED
  BY <1>10, HandlesInv, Zenon

\* The child gets its kernel stack.
LEMMA KstackOkInv ==
  ASSUME Inv, NEW c \in Cpu, KstackOk(c)
  PROVE  Inv'
<1> USE SlotFacts, Labels, CpuAssumption
<1>0. PICK p, k : p = cpuproc[c] /\ k = np[p]
  BY Zenon
<1>1. at[c] = "proc" /\ pc[p] = "kstack"
  BY <1>0, Zenon DEF KstackOk, On
<1>2. /\ p \in Slot
      /\ state[p] = "RUNNING"
      /\ \A d \in Cpu : cpuproc[d] = p => d = c
  BY <1>0, <1>1, Current, Zenon
<1>3. plock # c
  BY <1>0, <1>1, Current, Zenon DEF HandOff
<1>4. /\ k \in Slot /\ np[p] = k
      /\ state[k] = "EMBRYO"
      /\ k # p
      /\ k \notin kstack
      /\ pc[k] = "none"
      /\ parent[k] = NULL
      /\ \A q \in Slot : np[q] = k => q = p
      /\ \A q \in Slot : np[q] # p
  <2>1. pc[p] \in Forking
    BY <1>1, Zenon DEF Forking
  <2> HIDE SlotFacts, Labels, CpuAssumption
  <2>2. /\ np[p] \in Slot /\ state[np[p]] = "EMBRYO" /\ np[p] # p
        /\ pc[p] = "kstack" => np[p] \notin kstack /\ pc[np[p]] = "none"
        /\ pc[p] # "kstack" => np[p] \in kstack /\ pc[np[p]] = "forkret"
        /\ pc[p] = "ready" => parent[np[p]] = p
        /\ pc[p] # "ready" => parent[np[p]] = NULL
        /\ \A q \in Slot : np[q] = np[p] => q = p
        /\ \A q \in Slot : np[q] # p
    BY <1>2, <2>1, Child, Zenon
  <2> QED
    BY <1>0, <1>1, <2>2, Zenon
<1>5. /\ k # initproc
      /\ \A d \in Cpu : cpuproc[d] # k
      /\ \A q \in Slot : parent[q] # k
  BY <1>4, Unborn, Zenon
<1>6. /\ kstack' = kstack \cup {k}
      /\ pc' = [pc EXCEPT ![p] = "copy", ![k] = "forkret"]
      /\ UNCHANGED <<state, pid, parent, chan, killed, resume, np, plock, at,
                     scan, cpuproc, nextpid, panicked>>
  BY <1>0, Zenon DEF KstackOk, Goto, table, thread, sched
<1>7. TypeOK'
  <2>1. TableType'
    BY <1>2, <1>4, <1>6, Zenon DEF Inv, TypeOK, TableType, State
  <2>2. ThreadType'
    BY <1>2, <1>4, <1>6, Zenon DEF Inv, TypeOK, ThreadType
  <2>3. SchedType'
    BY <1>2, <1>6, Zenon DEF Inv, TypeOK, SchedType
  <2> QED
    BY <2>1, <2>2, <2>3, <1>6, Zenon DEF Inv, TypeOK
<1>8. PidInv'
  BY <1>4, <1>6, Zenon DEF Inv, TypeOK, TableType, PidInv, UniquePid
<1>9. Stage(p, k)'
  <2>1. /\ state'[k] = "EMBRYO" /\ pc'[k] = "forkret" /\ k \in kstack'
        /\ parent'[k] = NULL /\ np'[p] = k /\ pc'[p] = "copy"
    BY <1>2, <1>4, <1>6, Zenon DEF Inv, TypeOK, TableType, ThreadType
  <2> QED
    BY <2>1, Zenon DEF Stage, Forking
<1>10. Handles(c, p, k)
  <2>1. ASSUME NEW q \in Slot, q # p, q # k
        PROVE  /\ UNCHANGED <<state[q], parent[q], chan[q], pc[q], resume[q],
                              np[q]>>
               /\ q \in kstack' <=> q \in kstack
    BY <1>6, <2>1, Zenon DEF Inv, TypeOK, TableType, ThreadType
  <2>2. UNCHANGED <<state[p], parent[p], np[k], at, scan, cpuproc>>
    BY <1>2, <1>4, <1>6, Zenon DEF Inv, TypeOK, TableType, ThreadType
  <2>3. p \in kstack'
    BY <1>2, <1>4, <1>6, Zenon DEF Inv, SlotInv, SlotOK, Alive
  <2>4. plock' # c /\ \A d \in Cpu \ {c} : plock' = d <=> plock = d
    BY <1>3, <1>6, Zenon
  <2>5. /\ state[k] \notin Alive
        /\ np[p] \in {NULL, k} /\ parent[k] \in {p, NULL}
    BY <1>0, <1>1, <1>4, Zenon DEF Alive
  <2> QED
    BY Zenon, <1>0, <1>1, <1>4, <1>5, <1>7, <1>8, <1>9, <2>1, <2>2, <2>3,
       <2>4, <2>5
       DEF Handles
<1> QED
  BY <1>10, HandlesInv, Zenon

\* There is no memory for the child's stack.
LEMMA KstackFailInv ==
  ASSUME Inv, NEW c \in Cpu, KstackFail(c)
  PROVE  Inv'
<1> USE SlotFacts, Labels, CpuAssumption
<1>0. PICK p, k : p = cpuproc[c] /\ k = np[p]
  OBVIOUS
<1>1. at[c] = "proc" /\ pc[p] = "kstack"
  BY <1>0, Zenon DEF KstackFail, On
<1>2. /\ p \in Slot
      /\ state[p] = "RUNNING"
      /\ \A d \in Cpu : cpuproc[d] = p => d = c
  BY <1>0, <1>1, Current
<1>3. plock # c
  BY <1>0, <1>1, Current DEF HandOff
<1>4. /\ k \in Slot /\ np[p] = k
      /\ state[k] = "EMBRYO"
      /\ k # p
      /\ k \notin kstack
      /\ pc[k] = "none"
      /\ parent[k] = NULL
      /\ \A q \in Slot : np[q] = k => q = p
      /\ \A q \in Slot : np[q] # p
  <2>1. pc[p] \in Forking
    BY <1>1, Zenon DEF Forking
  <2> HIDE SlotFacts, Labels, CpuAssumption
  <2>2. /\ np[p] \in Slot /\ state[np[p]] = "EMBRYO" /\ np[p] # p
        /\ pc[p] = "kstack" => np[p] \notin kstack /\ pc[np[p]] = "none"
        /\ pc[p] # "kstack" => np[p] \in kstack /\ pc[np[p]] = "forkret"
        /\ pc[p] = "ready" => parent[np[p]] = p
        /\ pc[p] # "ready" => parent[np[p]] = NULL
        /\ \A q \in Slot : np[q] = np[p] => q = p
        /\ \A q \in Slot : np[q] # p
    BY <1>2, <2>1, Child, Zenon
  <2> QED
    BY <1>0, <1>1, <2>2, Zenon
<1>5. /\ k # initproc
      /\ \A d \in Cpu : cpuproc[d] # k
      /\ \A q \in Slot : parent[q] # k
  BY <1>4, Unborn
<1>6. /\ state' = [state EXCEPT ![k] = "UNUSED"]
      /\ pc' = [pc EXCEPT ![p] = "ret"]
      /\ np' = [np EXCEPT ![p] = NULL]
      /\ UNCHANGED <<pid, parent, chan, killed, kstack, resume, plock, at,
                     scan, cpuproc, nextpid, panicked>>
  BY <1>0, Zenon DEF KstackFail, Goto, table, thread, sched
<1>7. TypeOK'
  <2>1. TableType'
    BY <1>2, <1>4, <1>6, Zenon DEF Inv, TypeOK, TableType, State
  <2>2. ThreadType'
    BY <1>2, <1>4, <1>6, Zenon DEF Inv, TypeOK, ThreadType
  <2>3. SchedType'
    BY <1>2, <1>6, Zenon DEF Inv, TypeOK, SchedType
  <2> QED
    BY <2>1, <2>2, <2>3, <1>6, Zenon DEF Inv, TypeOK
<1>8. PidInv'
  BY <1>4, <1>6, Zenon DEF Inv, TypeOK, TableType, PidInv, UniquePid
<1>9. Stage(p, k)'
  <2>1. /\ state'[k] = "UNUSED" /\ pc'[k] = "none" /\ k \notin kstack'
        /\ parent'[k] = NULL /\ np'[p] = NULL /\ pc'[p] = "ret"
    BY <1>2, <1>4, <1>6, Zenon DEF Inv, TypeOK, TableType, ThreadType
  <2> QED
    BY <2>1, Zenon DEF Stage, Forking
<1>10. Handles(c, p, k)
  <2>1. ASSUME NEW q \in Slot, q # p, q # k
        PROVE  /\ UNCHANGED <<state[q], parent[q], chan[q], pc[q], resume[q],
                              np[q]>>
               /\ q \in kstack' <=> q \in kstack
    BY <1>6, <2>1, Zenon DEF Inv, TypeOK, TableType, ThreadType
  <2>2. UNCHANGED <<state[p], parent[p], np[k], at, scan, cpuproc>>
    BY <1>2, <1>4, <1>6, Zenon DEF Inv, TypeOK, TableType, ThreadType
  <2>3. p \in kstack'
    BY <1>2, <1>4, <1>6, Zenon DEF Inv, SlotInv, SlotOK, Alive
  <2>4. plock' # c /\ \A d \in Cpu \ {c} : plock' = d <=> plock = d
    BY <1>3, <1>6, Zenon
  <2>5. /\ state[k] \notin Alive
        /\ np[p] \in {NULL, k} /\ parent[k] \in {p, NULL}
    BY <1>0, <1>1, <1>4, Zenon DEF Alive
  <2> QED
    BY <1>0, <1>1, <1>4, <1>5, <1>7, <1>8, <1>9, <2>1, <2>2, <2>3, <2>4, <2>5, Zenon
       DEF Handles
<1> QED
  BY <1>10, HandlesInv, Zenon

\* The child gets its memory and its parent.
LEMMA CopyOkInv ==
  ASSUME Inv, NEW c \in Cpu, CopyOk(c)
  PROVE  Inv'
<1> USE SlotFacts, Labels, CpuAssumption
<1>0. PICK p, k : p = cpuproc[c] /\ k = np[p]
  OBVIOUS
<1>1. at[c] = "proc" /\ pc[p] = "copy"
  BY <1>0, Zenon DEF CopyOk, On
<1>2. /\ p \in Slot
      /\ state[p] = "RUNNING"
      /\ \A d \in Cpu : cpuproc[d] = p => d = c
  BY <1>0, <1>1, Current, Zenon
<1>3. plock # c
  BY <1>0, <1>1, Current, Zenon DEF HandOff
<1>4. /\ k \in Slot /\ np[p] = k
      /\ state[k] = "EMBRYO"
      /\ k # p
      /\ k \in kstack
      /\ pc[k] = "forkret"
      /\ parent[k] = NULL
      /\ \A q \in Slot : np[q] = k => q = p
      /\ \A q \in Slot : np[q] # p
  <2>1. pc[p] \in Forking
    BY <1>1, Zenon DEF Forking
  <2> HIDE SlotFacts, Labels, CpuAssumption
  <2>2. /\ np[p] \in Slot /\ state[np[p]] = "EMBRYO" /\ np[p] # p
        /\ pc[p] = "kstack" => np[p] \notin kstack /\ pc[np[p]] = "none"
        /\ pc[p] # "kstack" => np[p] \in kstack /\ pc[np[p]] = "forkret"
        /\ pc[p] = "ready" => parent[np[p]] = p
        /\ pc[p] # "ready" => parent[np[p]] = NULL
        /\ \A q \in Slot : np[q] = np[p] => q = p
        /\ \A q \in Slot : np[q] # p
    BY <1>2, <2>1, Child, Zenon
  <2> QED
    BY <1>0, <1>1, <2>2, Zenon
<1>5. /\ k # initproc
      /\ \A d \in Cpu : cpuproc[d] # k
      /\ \A q \in Slot : parent[q] # k
  BY <1>4, Unborn, Zenon
<1>6. /\ parent' = [parent EXCEPT ![k] = p]
      /\ pc' = [pc EXCEPT ![p] = "ready"]
      /\ UNCHANGED <<state, pid, chan, killed, kstack, resume, np, plock, at,
                     scan, cpuproc, nextpid, panicked>>
  BY <1>0, Zenon DEF CopyOk, Goto, table, thread, sched
<1>7. TypeOK'
  <2>1. TableType'
    BY <1>2, <1>4, <1>6, Zenon DEF Inv, TypeOK, TableType, State
  <2>2. ThreadType'
    BY <1>2, <1>4, <1>6, Zenon DEF Inv, TypeOK, ThreadType
  <2>3. SchedType'
    BY <1>2, <1>6, Zenon DEF Inv, TypeOK, SchedType
  <2> QED
    BY <2>1, <2>2, <2>3, <1>6, Zenon DEF Inv, TypeOK
<1>8. PidInv'
  BY <1>4, <1>6, Zenon DEF Inv, TypeOK, TableType, PidInv, UniquePid
<1>9. Stage(p, k)'
  <2>1. /\ state'[k] = "EMBRYO" /\ pc'[k] = "forkret" /\ k \in kstack'
        /\ parent'[k] = p /\ np'[p] = k /\ pc'[p] = "ready"
    BY <1>2, <1>4, <1>6, Zenon DEF Inv, TypeOK, TableType, ThreadType
  <2> QED
    BY <2>1, Zenon DEF Stage, Forking
<1>10. Handles(c, p, k)
  <2>1. ASSUME NEW q \in Slot, q # p, q # k
        PROVE  /\ UNCHANGED <<state[q], parent[q], chan[q], pc[q], resume[q],
                              np[q]>>
               /\ q \in kstack' <=> q \in kstack
    BY <1>6, <2>1, Zenon DEF Inv, TypeOK, TableType, ThreadType
  <2>2. UNCHANGED <<state[p], parent[p], np[k], at, scan, cpuproc>>
    BY <1>2, <1>4, <1>6, Zenon DEF Inv, TypeOK, TableType, ThreadType
  <2>3. p \in kstack'
    BY <1>2, <1>4, <1>6, Zenon DEF Inv, SlotInv, SlotOK, Alive
  <2>4. plock' # c /\ \A d \in Cpu \ {c} : plock' = d <=> plock = d
    BY <1>3, <1>6, Zenon
  <2>5. /\ state[k] \notin Alive
        /\ np[p] \in {NULL, k} /\ parent[k] \in {p, NULL}
    BY <1>0, <1>1, <1>4, Zenon DEF Alive
  <2> QED
    BY Zenon, <1>0, <1>1, <1>4, <1>5, <1>7, <1>8, <1>9, <2>1, <2>2, <2>3,
       <2>4, <2>5
       DEF Handles
<1> QED
  BY <1>10, HandlesInv, Zenon

\* There is no memory for the child's pages.
LEMMA CopyFailInv ==
  ASSUME Inv, NEW c \in Cpu, CopyFail(c)
  PROVE  Inv'
<1> USE SlotFacts, Labels, CpuAssumption
<1>0. PICK p, k : p = cpuproc[c] /\ k = np[p]
  OBVIOUS
<1>1. at[c] = "proc" /\ pc[p] = "copy"
  BY <1>0, Zenon DEF CopyFail, On
<1>2. /\ p \in Slot
      /\ state[p] = "RUNNING"
      /\ \A d \in Cpu : cpuproc[d] = p => d = c
  BY <1>0, <1>1, Current, Zenon
<1>3. plock # c
  BY <1>0, <1>1, Current, Zenon DEF HandOff
<1>4. /\ k \in Slot /\ np[p] = k
      /\ state[k] = "EMBRYO"
      /\ k # p
      /\ k \in kstack
      /\ pc[k] = "forkret"
      /\ parent[k] = NULL
      /\ \A q \in Slot : np[q] = k => q = p
      /\ \A q \in Slot : np[q] # p
  <2>1. pc[p] \in Forking
    BY <1>1, Zenon DEF Forking
  <2> HIDE SlotFacts, Labels, CpuAssumption
  <2>2. /\ np[p] \in Slot /\ state[np[p]] = "EMBRYO" /\ np[p] # p
        /\ pc[p] = "kstack" => np[p] \notin kstack /\ pc[np[p]] = "none"
        /\ pc[p] # "kstack" => np[p] \in kstack /\ pc[np[p]] = "forkret"
        /\ pc[p] = "ready" => parent[np[p]] = p
        /\ pc[p] # "ready" => parent[np[p]] = NULL
        /\ \A q \in Slot : np[q] = np[p] => q = p
        /\ \A q \in Slot : np[q] # p
    BY <1>2, <2>1, Child, Zenon
  <2> QED
    BY <1>0, <1>1, <2>2, Zenon
<1>5. /\ k # initproc
      /\ \A d \in Cpu : cpuproc[d] # k
      /\ \A q \in Slot : parent[q] # k
  BY <1>4, Unborn, Zenon
<1>6. /\ state' = [state EXCEPT ![k] = "UNUSED"]
      /\ kstack' = kstack \ {k}
      /\ pc' = [pc EXCEPT ![p] = "ret", ![k] = "none"]
      /\ np' = [np EXCEPT ![p] = NULL]
      /\ UNCHANGED <<pid, parent, chan, killed, resume, plock, at, scan,
                     cpuproc, nextpid, panicked>>
  BY <1>0, Zenon DEF CopyFail, Goto, table, thread, sched
<1>7. TypeOK'
  <2>1. TableType'
    BY <1>2, <1>4, <1>6, Zenon DEF Inv, TypeOK, TableType, State
  <2>2. ThreadType'
    BY <1>2, <1>4, <1>6, Zenon DEF Inv, TypeOK, ThreadType
  <2>3. SchedType'
    BY <1>2, <1>6, Zenon DEF Inv, TypeOK, SchedType
  <2> QED
    BY <2>1, <2>2, <2>3, <1>6, Zenon DEF Inv, TypeOK
<1>8. PidInv'
  BY <1>4, <1>6, Zenon DEF Inv, TypeOK, TableType, PidInv, UniquePid
<1>9. Stage(p, k)'
  <2>1. /\ state'[k] = "UNUSED" /\ pc'[k] = "none" /\ k \notin kstack'
        /\ parent'[k] = NULL /\ np'[p] = NULL /\ pc'[p] = "ret"
    BY <1>2, <1>4, <1>6, Zenon DEF Inv, TypeOK, TableType, ThreadType
  <2> QED
    BY <2>1 DEF Stage, Forking
<1>10. Handles(c, p, k)
  <2>1. ASSUME NEW q \in Slot, q # p, q # k
        PROVE  /\ UNCHANGED <<state[q], parent[q], chan[q], pc[q], resume[q],
                              np[q]>>
               /\ q \in kstack' <=> q \in kstack
    BY <1>6, <2>1, Zenon DEF Inv, TypeOK, TableType, ThreadType
  <2>2. UNCHANGED <<state[p], parent[p], np[k], at, scan, cpuproc>>
    BY <1>2, <1>4, <1>6, Zenon DEF Inv, TypeOK, TableType, ThreadType
  <2>3. p \in kstack'
    BY <1>2, <1>4, <1>6, Zenon DEF Inv, SlotInv, SlotOK, Alive
  <2>4. plock' # c /\ \A d \in Cpu \ {c} : plock' = d <=> plock = d
    BY <1>3, <1>6, Zenon
  <2>5. /\ state[k] \notin Alive
        /\ np[p] \in {NULL, k} /\ parent[k] \in {p, NULL}
    BY <1>0, <1>1, <1>4, Zenon DEF Alive
  <2> QED
    BY <1>0, <1>1, <1>4, <1>5, <1>7, <1>8, <1>9, <2>1, <2>2, <2>3, <2>4, <2>5, Zenon
       DEF Handles
<1> QED
  BY <1>10, HandlesInv, Zenon

\* The child becomes RUNNABLE.
LEMMA ReadyInv ==
  ASSUME Inv, NEW c \in Cpu, Ready(c)
  PROVE  Inv'
<1> USE SlotFacts, Labels, CpuAssumption
<1>0. PICK p, k : p = cpuproc[c] /\ k = np[p]
  OBVIOUS
<1>1. at[c] = "proc" /\ pc[p] = "ready"
  BY <1>0, Zenon DEF Ready, On
<1>2. /\ p \in Slot
      /\ state[p] = "RUNNING"
      /\ \A d \in Cpu : cpuproc[d] = p => d = c
  BY <1>0, <1>1, Current, Zenon
<1>3. plock # c
  BY <1>0, <1>1, Current, Zenon DEF HandOff
<1>4. /\ k \in Slot /\ np[p] = k
      /\ state[k] = "EMBRYO"
      /\ k # p
      /\ k \in kstack
      /\ pc[k] = "forkret"
      /\ parent[k] = p
      /\ \A q \in Slot : np[q] = k => q = p
      /\ \A q \in Slot : np[q] # p
  <2>1. pc[p] \in Forking
    BY <1>1, Zenon DEF Forking
  <2> HIDE SlotFacts, Labels, CpuAssumption
  <2>2. /\ np[p] \in Slot /\ state[np[p]] = "EMBRYO" /\ np[p] # p
        /\ pc[p] = "kstack" => np[p] \notin kstack /\ pc[np[p]] = "none"
        /\ pc[p] # "kstack" => np[p] \in kstack /\ pc[np[p]] = "forkret"
        /\ pc[p] = "ready" => parent[np[p]] = p
        /\ pc[p] # "ready" => parent[np[p]] = NULL
        /\ \A q \in Slot : np[q] = np[p] => q = p
        /\ \A q \in Slot : np[q] # p
    BY <1>2, <2>1, Child, Zenon
  <2> QED
    BY <1>0, <1>1, <2>2, Zenon
<1>5. /\ k # initproc
      /\ \A d \in Cpu : cpuproc[d] # k
      /\ \A q \in Slot : parent[q] # k
  BY <1>4, Unborn, Zenon
<1>6. /\ state' = [state EXCEPT ![k] = "RUNNABLE"]
      /\ pc' = [pc EXCEPT ![p] = "ret"]
      /\ np' = [np EXCEPT ![p] = NULL]
      /\ UNCHANGED <<pid, parent, chan, killed, kstack, resume, plock, at,
                     scan, cpuproc, nextpid, panicked>>
  BY <1>0, Zenon DEF Ready, Goto, table, thread, sched
<1>7. TypeOK'
  <2>1. TableType'
    BY <1>2, <1>4, <1>6, Zenon DEF Inv, TypeOK, TableType, State
  <2>2. ThreadType'
    BY <1>2, <1>4, <1>6, Zenon DEF Inv, TypeOK, ThreadType
  <2>3. SchedType'
    BY <1>2, <1>6, Zenon DEF Inv, TypeOK, SchedType
  <2> QED
    BY <2>1, <2>2, <2>3, <1>6, Zenon DEF Inv, TypeOK
<1>8. PidInv'
  BY <1>4, <1>6, Zenon DEF Inv, TypeOK, TableType, PidInv, UniquePid
<1>9. Stage(p, k)'
  <2>1. /\ state'[k] = "RUNNABLE" /\ pc'[k] = "forkret" /\ k \in kstack'
        /\ parent'[k] = p /\ np'[p] = NULL /\ pc'[p] = "ret"
    BY <1>2, <1>4, <1>6, Zenon DEF Inv, TypeOK, TableType, ThreadType
  <2> QED
    BY <2>1, Zenon DEF Stage, Forking
<1>10. Handles(c, p, k)
  <2>1. ASSUME NEW q \in Slot, q # p, q # k
        PROVE  /\ UNCHANGED <<state[q], parent[q], chan[q], pc[q], resume[q],
                              np[q]>>
               /\ q \in kstack' <=> q \in kstack
    BY <1>6, <2>1, Zenon DEF Inv, TypeOK, TableType, ThreadType
  <2>2. UNCHANGED <<state[p], parent[p], np[k], at, scan, cpuproc>>
    BY <1>2, <1>4, <1>6, Zenon DEF Inv, TypeOK, TableType, ThreadType
  <2>3. p \in kstack'
    BY <1>2, <1>4, <1>6, Zenon DEF Inv, SlotInv, SlotOK, Alive
  <2>4. plock' # c /\ \A d \in Cpu \ {c} : plock' = d <=> plock = d
    BY <1>3, <1>6, Zenon
  <2>5. /\ state[k] \notin Alive
        /\ np[p] \in {NULL, k} /\ parent[k] \in {p, NULL}
    BY <1>0, <1>1, <1>4, Zenon DEF Alive
  <2> QED
    BY Zenon, <1>0, <1>1, <1>4, <1>5, <1>7, <1>8, <1>9, <2>1, <2>2, <2>3,
       <2>4, <2>5
       DEF Handles
<1> QED
  BY <1>10, HandlesInv, Zenon

\* wait() reaps a zombie.
LEMMA WaitReapInv ==
  ASSUME Inv, NEW c \in Cpu, WaitReap(c)
  PROVE  Inv'
<1> USE SlotFacts, Labels, CpuAssumption
<1>0. PICK p, k : p = cpuproc[c] /\ k = Min(ZombieKids(p))
  BY SMTT(30)
<1>1. at[c] = "proc" /\ pc[p] \in {"wait", "waited"}
  BY Zenon, <1>0 DEF WaitReap, InWait, On
<1>2. /\ p \in Slot
      /\ state[p] = "RUNNING"
      /\ \A d \in Cpu : cpuproc[d] = p => d = c
  BY SMTT(30), <1>0, <1>1, Current
<1>3. plock \in {c, NoCpu}
  BY Zenon, <1>0, <1>1, Current DEF WaitReap, InWait, On, HandOff
<1>4. /\ k \in Slot
      /\ state[k] = "ZOMBIE"
      /\ k # p
      /\ parent[k] = p
      /\ pc[k] = "dead"
      /\ np[p] = NULL
      /\ np[k] = NULL
      /\ \A q \in Slot : np[q] # k
      /\ \A q \in Slot : np[q] # p
  <2>1. k \in Slot /\ state[k] = "ZOMBIE" /\ parent[k] = p
    <3>1. ZombieKids(p) # {}
      BY <1>0 DEF WaitReap
    <3>2. ZombieKids(p) \subseteq Slot /\ ZombieKids(p) \subseteq Nat
      BY Zenon DEF ZombieKids, Children
    <3>3. k \in ZombieKids(p)
      BY <1>0, <3>1, <3>2, FirstMatch, Zenon
    <3> QED
      BY <3>3, Zenon DEF ZombieKids, Children
  <2>2. pc[k] = "dead"
    BY <2>1, Zenon DEF Inv, SlotInv, SlotOK
  <2>3. np[p] = NULL /\ np[k] = NULL
    BY Zenon, <1>1, <1>2, <2>1 DEF Inv, ForkInv, ForkOK, Point, Forking, Alive
  <2>4. ASSUME NEW x \in Slot, state[x] # "EMBRYO"
        PROVE  \A q \in Slot : np[q] # x
    BY <2>4 DEF Inv, ForkInv, ForkOK
  <2> QED
    BY <1>2, <2>1, <2>2, <2>3, <2>4, Zenon
<1>5. /\ k # initproc
      /\ \A d \in Cpu : cpuproc[d] # k
      /\ \A q \in Slot : parent[q] # k
  <2>1. k # initproc
    BY <1>4, Zenon DEF Inv, FamilyInv, Alive
  <2>2. ASSUME NEW d \in Cpu, cpuproc[d] = k PROVE FALSE
    <3>1. plock = d
      BY <1>4, <2>2, OnCpu, Zenon
    <3>2. d = c
      BY <1>3, <3>1, Zenon
    <3> QED
      BY <1>0, <1>4, <2>2, <3>2, Zenon
  <2>3. ASSUME NEW q \in Slot PROVE parent[q] # k
    BY <1>4, Parents, Zenon DEF Alive
  <2> QED
    BY <2>1, <2>2, <2>3, Zenon
<1>6. /\ state' = [state EXCEPT ![k] = "UNUSED"]
      /\ pid' = [pid EXCEPT ![k] = 0]
      /\ parent' = [parent EXCEPT ![k] = NULL]
      /\ chan' = [chan EXCEPT ![p] = NULL]
      /\ killed' = [killed EXCEPT ![k] = FALSE]
      /\ kstack' = kstack \ {k}
      /\ pc' = [pc EXCEPT ![p] = "ret", ![k] = "none"]
      /\ plock' = NoCpu
      /\ UNCHANGED <<resume, np, at, scan, cpuproc, nextpid, panicked>>
  BY <1>0, Zenon DEF WaitReap, Goto, table, thread, sched, InWait, ClearChan
<1>7. TypeOK'
  <2>1. TableType'
    BY <1>2, <1>4, <1>6, Zenon DEF Inv, TypeOK, TableType, State
  <2>2. ThreadType'
    BY <1>2, <1>4, <1>6, Zenon DEF Inv, TypeOK, ThreadType
  <2>3. SchedType'
    BY <1>2, <1>6, Zenon DEF Inv, TypeOK, SchedType
  <2> QED
    BY <2>1, <2>2, <2>3, <1>6, Zenon DEF Inv, TypeOK
<1>8. PidInv'
  <2>1. \A q \in Slot : pid'[q] = IF q = k THEN 0 ELSE pid[q]
    BY <1>4, <1>6, Zenon DEF Inv, TypeOK, TableType
  <2>2. nextpid \in Nat /\ nextpid' = nextpid /\ \A q \in Slot : pid[q] \in Nat
    BY <1>6, Zenon DEF Inv, TypeOK, TableType
  <2>3. UniquePid'
    BY <2>1, Zenon DEF Inv, PidInv, UniquePid
  <2>4. ASSUME NEW q \in Slot PROVE pid'[q] < nextpid'
    BY SMTT(30), <2>1, <2>2 DEF Inv, PidInv
  <2> QED
    BY <2>3, <2>4, Zenon DEF PidInv
<1>9. Stage(p, k)'
  <2>1. /\ state'[k] = "UNUSED" /\ pc'[k] = "none" /\ k \notin kstack'
        /\ parent'[k] = NULL /\ np'[p] = NULL /\ pc'[p] = "ret"
    BY <1>2, <1>4, <1>6, Zenon DEF Inv, TypeOK, TableType, ThreadType
  <2> QED
    BY <2>1 DEF Stage, Forking
<1>10. Handles(c, p, k)
  <2>1. ASSUME NEW q \in Slot, q # p, q # k
        PROVE  /\ UNCHANGED <<state[q], parent[q], chan[q], pc[q], resume[q],
                              np[q]>>
               /\ q \in kstack' <=> q \in kstack
    BY <1>6, <2>1, Zenon DEF Inv, TypeOK, TableType, ThreadType
  <2>2. UNCHANGED <<state[p], parent[p], np[k], at, scan, cpuproc>>
    BY <1>2, <1>4, <1>6, Zenon DEF Inv, TypeOK, TableType, ThreadType
  <2>3. p \in kstack'
    BY <1>2, <1>4, <1>6, Zenon DEF Inv, SlotInv, SlotOK, Alive
  <2>4. plock' # c /\ \A d \in Cpu \ {c} : plock' = d <=> plock = d
    BY SMTT(30), <1>3, <1>6
  <2>5. /\ state[k] \notin Alive
        /\ np[p] \in {NULL, k} /\ parent[k] \in {p, NULL}
    BY Zenon, <1>0, <1>1, <1>4 DEF Alive
  <2> QED
    BY Zenon, <1>0, <1>1, <1>4, <1>5, <1>7, <1>8, <1>9, <2>1, <2>2, <2>3,
       <2>4, <2>5
       DEF Handles
<1> QED
  BY <1>10, HandlesInv, Zenon
=============================================================================
