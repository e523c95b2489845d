------------------------------ MODULE Console ------------------------------
(***************************************************************************)
(* The console (devices/console.c) with what it stands on: spin locks and  *)
(* the interrupt flag of each CPU (sync/spinlock.c), the keyboard and the  *)
(* serial line (devices/kbd.c, devices/uart.c).  Processes read and write  *)
(* the console while interrupts deliver characters on the boot CPU.        *)
(*                                                                         *)
(* acquire(&cons.lock) is taken apart to its instructions, since what it   *)
(* guards against happens between them: an interrupt, a timer tick that    *)
(* moves the process to another CPU.  A critical section of ptable.lock is *)
(* one step, except that a scheduler holds that lock between steps (Proc   *)
(* has the details of switching).  A flag of a CPU or of a process is the  *)
(* set of those that have it.                                              *)
(***************************************************************************)
EXTENDS Integers, Sequences

CONSTANTS Cpu, BootCpu, Proc,
          INPUT_BUF,
          Modulus,     \* the indexes of the input buffer wrap at Modulus
          Rows, Cols,  \* of the screen, the hidden last row included
          Scripts,     \* sequences of what is typed: a character on the serial
                       \* line, or a stroke (down or up) of a key
          Calls,       \* the call of each process, <<"read" or "write", n>>
          Victims,     \* processes that may be killed
          MaxCalls,    \* bound: system calls of each process
          MaxTicks     \* bound: timer interrupts

None == "none"
Newline == "nl"
CtrlD == "^D"
CtrlU == "^U"
CtrlP == "^P"
Backspace == "bs"

\* What can be typed.
Typed == ({"uart"} \X {"a", "cr", CtrlD, CtrlU, CtrlP, Backspace})
         \cup ({"kbd"} \X {"d", "ctl", "rctl"})

ASSUME ConsoleAssumption ==
    /\ \A p \in Proc : Calls[p] \in {"read", "write"} \X (Nat \ {0})
    /\ BootCpu \in Cpu /\ None \notin Cpu \cup Proc
    /\ {INPUT_BUF, Modulus, Cols} \subseteq Nat \ {0}
    /\ Rows \in Nat /\ Rows > 1
    /\ Modulus % INPUT_BUF = 0 /\ Modulus > INPUT_BUF
    /\ Scripts \subseteq Seq(Typed)

VARIABLES flag, ncli, intena, run,          \* struct cpu, the interrupt flag
          cons, ptable,                     \* the CPU that holds each lock
          buf, r, w, e,                     \* input
          pos,                              \* cursor
          pc, state, op, n, got,            \* processes in the kernel
          eflags, saved, trap, killed,      \*   their flags
          irq, dev, dump,                   \* consoleintr() on the boot CPU
          uart,                             \* character in the UART's register
          kbd, shift,                       \* codes sent, state of kbdgetc()
          down,                             \* keys held down
          script,                           \* what is still to be typed
          panic,                            \* message of a panic
          ncalls, nticks,                   \* what has been used of the bounds
          line                              \* history: committed, not yet read

cpus == <<flag, ncli, intena, run>>
input == <<buf, r, w, e>>
call == <<op, n, got>>
threads == <<state, eflags, saved, trap, killed>>
handler == <<irq, dev, dump>>
device == <<uart, kbd, shift, down, script>>
bound == <<ncalls, nticks>>
vars == <<cpus, cons, ptable, input, pos, pc, call, threads, handler, device,
          panic, bound, line>>

Init ==
    /\ flag = Cpu /\ intena = Cpu
    /\ ncli = [c \in Cpu |-> 0]
    /\ run = [c \in Cpu |-> None]
    /\ cons = None /\ ptable = None
    /\ buf = [k \in 0..(INPUT_BUF - 1) |-> ""]
    /\ r = 0 /\ w = 0 /\ e = 0
    /\ pos = 0
    /\ pc = [p \in Proc |-> "user"]
    /\ state = [p \in Proc |-> "RUNNABLE"]
    /\ op = [p \in Proc |-> ""]
    /\ n = [p \in Proc |-> 0]
    /\ got = [p \in Proc |-> <<>>]
    /\ eflags = {} /\ saved = Proc /\ trap = {} /\ killed = {}
    /\ irq = "" /\ dev = "" /\ dump = FALSE
    /\ uart = None /\ kbd = <<>> /\ shift = {} /\ down = {}
    /\ script \in Scripts
    /\ panic = ""
    /\ ncalls = [p \in Proc |-> 0] /\ nticks = 0
    /\ line = <<>>

\* No interrupt handler has CPU c.
Free(c) == c = BootCpu => irq = ""

\* p runs on c at label.
At(p, c, label) == panic = "" /\ run[c] = p /\ Free(c) /\ pc[p] = label

InIrq(label) == panic = "" /\ irq = label

Goto(p, label) == pc' = [pc EXCEPT ![p] = label]

With(set, x, on) == IF on THEN set \cup {x} ELSE set \ {x}

-----------------------------------------------------------------------------
(* Spin locks. *)

\* The first push records whether interrupts were on.
pushcli(c, on) ==
    /\ flag' = flag \ {c}
    /\ intena' = IF ncli[c] = 0 THEN With(intena, c, on) ELSE intena
    /\ ncli' = [ncli EXCEPT ![c] = @ + 1]

\* The last pop turns them on again if they were; the scheduler and the return
\* from a trap ("always") turn them on in any case.
popcli(c, always) ==
    /\ flag' = With(flag, c, always \/ (ncli[c] = 1 /\ c \in intena'))
    /\ ncli' = [ncli EXCEPT ![c] = @ - 1]

\* The assertions of release() and popcli().
releasePanics(c) == cons # c \/ c \in flag \/ ncli[c] < 1

-----------------------------------------------------------------------------
(* The screen. *)

\* cgaputc(): the cursor after c, where it panics -1.
cgaputc(at, c) ==
    LET to == CASE c = Newline -> at + (Cols - (at % Cols))
                [] c = Backspace -> IF at > 0 THEN at - 1 ELSE at
                [] OTHER -> at + 1
    IN IF to > Rows * Cols THEN -1
       ELSE IF to \div Cols >= Rows - 1 THEN to - Cols
       ELSE to

consputc(c) ==
    /\ pos' = cgaputc(pos, c)
    /\ panic' = IF pos' = -1 THEN "pos under/overflow" ELSE ""

-----------------------------------------------------------------------------
(* Processes: read() and write() of the console. *)

\* The system call; readeflags() is the first instruction of acquire().  The
\* console's inode is unlocked before acquire() and locked again after release(),
\* so that no process waits for a line, or for cons.lock, with it held; inode
\* locks are in module Files.
SysCall(p, c) ==
    /\ At(p, c, "user") /\ ncalls[p] < MaxCalls /\ p \notin killed
    /\ ncalls' = [ncalls EXCEPT ![p] = @ + 1]
    /\ Goto(p, "pushcli")
    /\ op' = [op EXCEPT ![p] = Calls[p][1]]
    /\ n' = [n EXCEPT ![p] = Calls[p][2]]
    /\ got' = [got EXCEPT ![p] = <<>>]
    /\ eflags' = With(eflags, p, c \in flag)
    /\ UNCHANGED <<cpus, cons, ptable, input, pos, state, saved, trap, killed,
                   handler, device, panic, nticks, line>>

\* The rest of pushcli(), and the assertion of acquire().
Pushcli(p, c) ==
    /\ At(p, c, "pushcli")
    /\ pushcli(c, p \in eflags)
    /\ panic' = IF cons = c THEN "acquire" ELSE ""
    /\ Goto(p, "xchg")
    /\ UNCHANGED <<run, cons, ptable, input, pos, call, threads, handler,
                   device, bound, line>>

Acquire(p, c) ==
    /\ At(p, c, "xchg")
    /\ cons = None
    /\ cons' = c
    /\ Goto(p, op[p])
    /\ UNCHANGED <<cpus, ptable, input, pos, call, threads, handler, device,
                   panic, bound, line>>

IsEof(ch) == ch = CtrlD

\* consoleread(): one character.  ^D ends the read; when some characters come
\* before it, it is left for the next read.
ReadChar(p, c) ==
    /\ At(p, c, "read") /\ r # w
    /\ LET ch == buf[r % INPUT_BUF]
           keep == IsEof(ch) /\ got[p] # <<>> IN
       /\ r' = IF keep THEN r ELSE (r + 1) % Modulus
       /\ line' = IF keep THEN line ELSE Tail(line)
       /\ got' = IF IsEof(ch) THEN got ELSE [got EXCEPT ![p] = Append(@, ch)]
       /\ n' = IF IsEof(ch) THEN n ELSE [n EXCEPT ![p] = @ - 1]
       /\ Goto(p, IF IsEof(ch) \/ ch = Newline \/ n[p] = 1 THEN "release"
                  ELSE "read")
    /\ UNCHANGED <<cpus, cons, ptable, buf, w, e, pos, op, threads, handler,
                   device, panic, bound>>

\* consoleread() with nothing to read: it fails if the process is killed ...
ReadEmpty(p, c) ==
    /\ At(p, c, "read") /\ r = w
    /\ Goto(p, IF p \in killed THEN "release" ELSE "sleep")
    /\ UNCHANGED <<cpus, cons, ptable, input, pos, call, threads, handler,
                   device, panic, bound, line>>

\* ... or sleeps: sleep() takes ptable.lock and lets go of cons.lock, sched()
\* saves intena and the scheduler goes on, with ptable.lock.
Sleep(p, c) ==
    /\ At(p, c, "sleep") /\ ptable = None
    /\ ptable' = c
    /\ cons' = None
    /\ panic' = IF releasePanics(c) \/ ncli[c] # 1 THEN "sched locks" ELSE ""
    /\ state' = [state EXCEPT ![p] = "SLEEPING"]
    /\ Goto(p, "woken")
    /\ saved' = With(saved, p, c \in intena)
    /\ run' = [run EXCEPT ![c] = None]
    /\ UNCHANGED <<flag, ncli, intena, input, pos, call, eflags, trap, killed,
                   handler, device, bound, line>>

\* The end of sleep(): acquire(&cons.lock) starts again.
Woken(p, c) ==
    /\ At(p, c, "woken")
    /\ Goto(p, "pushcli")
    /\ eflags' = With(eflags, p, c \in flag)
    /\ UNCHANGED <<cpus, cons, ptable, input, pos, call, state, saved, trap,
                   killed, handler, device, panic, bound, line>>

\* consolewrite(): one character.
WriteChar(p, c) ==
    /\ At(p, c, "write") /\ n[p] > 0
    /\ consputc("x")
    /\ n' = [n EXCEPT ![p] = @ - 1]
    /\ Goto(p, IF n[p] = 1 THEN "release" ELSE "write")
    /\ UNCHANGED <<cpus, cons, ptable, input, op, got, threads, handler,
                   device, bound, line>>

Release(p, c) ==
    /\ At(p, c, "release")
    /\ panic' = IF releasePanics(c) THEN "release" ELSE ""
    /\ cons' = None
    /\ UNCHANGED intena
    /\ popcli(c, FALSE)
    /\ Goto(p, "user")
    /\ UNCHANGED <<run, ptable, input, pos, call, threads, handler, device,
                   bound, line>>

\* A killed process exits on its way back to user space.
Exit(p, c) ==
    /\ At(p, c, "user") /\ p \in killed /\ ptable = None
    /\ ptable' = c
    /\ state' = [state EXCEPT ![p] = "ZOMBIE"]
    /\ pushcli(c, c \in flag)
    /\ run' = [run EXCEPT ![c] = None]
    /\ UNCHANGED <<cons, input, pos, pc, call, eflags, saved, trap, killed,
                   handler, device, panic, bound, line>>

Kill(p) ==
    /\ panic = "" /\ ptable = None
    /\ p \in Victims \ killed /\ ncalls[p] > 0
    /\ killed' = killed \cup {p}
    /\ state' = [state EXCEPT ![p] = IF @ = "SLEEPING" THEN "RUNNABLE" ELSE @]
    /\ UNCHANGED <<cpus, cons, ptable, input, pos, pc, call, eflags, saved,
                   trap, handler, device, panic, bound, line>>

-----------------------------------------------------------------------------
(* Scheduling. *)

\* A timer interrupt and yield(): the handler runs with interrupts off, so
\* that is what acquire(&ptable.lock) records and sched() saves.
Tick(p, c) ==
    /\ panic = "" /\ run[c] = p /\ c \in flag /\ ptable = None /\ Free(c)
    /\ nticks < MaxTicks
    /\ nticks' = nticks + 1
    /\ ptable' = c
    /\ pushcli(c, FALSE)
    /\ run' = [run EXCEPT ![c] = None]
    /\ state' = [state EXCEPT ![p] = "RUNNABLE"]
    /\ trap' = trap \cup {p}
    /\ saved' = saved \ {p}
    /\ UNCHANGED <<cons, input, pos, pc, call, eflags, killed, handler, device,
                   panic, ncalls, line>>

\* sched() does not put intena back.
MutRestored(c, p) == intena

Restored(c, p) == With(intena, c, p \in saved)

\* The scheduler switches to p: sched() puts intena back, and p releases
\* ptable.lock.  A process that was interrupted returns from the trap.
Dispatch(p, c) ==
    /\ panic = "" /\ ptable = c /\ run[c] = None
    /\ state[p] = "RUNNABLE"
    /\ ptable' = None
    /\ state' = [state EXCEPT ![p] = "RUNNING"]
    /\ intena' = Restored(c, p)
    /\ popcli(c, p \in trap)
    /\ trap' = trap \ {p}
    /\ run' = [run EXCEPT ![c] = p]
    /\ UNCHANGED <<cons, input, pos, pc, call, eflags, saved, killed, handler,
                   device, panic, bound, line>>

\* Nothing to run: the scheduler releases ptable.lock and turns interrupts on.
Idle(c) ==
    /\ panic = "" /\ ptable = c /\ run[c] = None
    /\ ptable' = None
    /\ UNCHANGED intena
    /\ popcli(c, TRUE)
    /\ UNCHANGED <<run, cons, input, pos, pc, call, threads, handler, device,
                   panic, bound, line>>

\* It looks at the table again.  (Looking when nothing can run changes
\* nothing.)
Look(c) ==
    /\ panic = "" /\ ptable = None /\ run[c] = None /\ ncli[c] = 0 /\ Free(c)
    /\ \E p \in Proc : state[p] = "RUNNABLE"
    /\ ptable' = c
    /\ pushcli(c, c \in flag)
    /\ UNCHANGED <<run, cons, input, pos, pc, call, threads, handler, device,
                   panic, bound, line>>

-----------------------------------------------------------------------------
(* The devices. *)

\* A character arrives on the serial line, or a key goes down or up; the keys
\* on the right send E0 before their code.
Codes(k, stroke) == IF k = "rctl" THEN <<<<"E0", "">>, <<"ctl", stroke>>>>
                    ELSE <<<<k, stroke>>>>

Type ==
    /\ panic = "" /\ script # <<>> /\ uart = None /\ kbd = <<>>
    /\ script' = Tail(script)
    /\ LET k == Head(script)[2] IN
       IF Head(script)[1] = "uart"
       THEN uart' = k /\ UNCHANGED <<kbd, down>>
       ELSE /\ kbd' = Codes(k, IF k \in down THEN "up" ELSE "down")
            /\ down' = With(down, k, k \notin down)
            /\ UNCHANGED uart
    /\ UNCHANGED <<cpus, cons, ptable, input, pos, pc, call, threads, handler,
                   shift, panic, bound, line>>

\* kbdgetc() for a code: the character, "" for none, and the shift state.  A
\* code with E0ESC set is looked up in the upper half of the tables, where
\* only the right control key has an entry.
shiftcode(k) == IF k = "ctl" THEN {"CTL"} ELSE {}

\* A key on the right is not seen to go up.
MutUp(k) == IF "E0ESC" \in shift THEN {"E0ESC"} ELSE shiftcode(k)

\* What a key that goes up clears.
Up(k) == shiftcode(k) \cup {"E0ESC"}

kbdgetc(code) ==
    LET k == code[1]
        s == (shift \ {"E0ESC"}) \cup shiftcode(k) IN
    IF k = "E0" THEN [c |-> "", shift |-> shift \cup {"E0ESC"}]
    ELSE IF code[2] = "up" THEN [c |-> "", shift |-> shift \ Up(k)]
    ELSE [c |-> IF k # "d" \/ "E0ESC" \in shift THEN ""
                ELSE IF "CTL" \in s THEN CtrlD ELSE "d",
          shift |-> s]

-----------------------------------------------------------------------------
(* consoleintr(), on the boot CPU. *)

\* The interrupt gate turns interrupts off, and acquire() begins.
Interrupt(d) ==
    /\ panic = "" /\ BootCpu \in flag /\ irq = ""
    /\ IF d = "uart" THEN uart # None ELSE kbd # <<>>
    /\ irq' = "xchg" /\ dev' = d
    /\ pushcli(BootCpu, FALSE)
    /\ panic' = IF cons = BootCpu THEN "acquire" ELSE ""
    /\ UNCHANGED <<run, cons, ptable, input, pos, pc, call, threads, dump,
                   device, bound, line>>

IrqAcquire ==
    /\ InIrq("xchg")
    /\ cons = None
    /\ cons' = BootCpu
    /\ irq' = "getc"
    /\ UNCHANGED <<cpus, ptable, input, pos, pc, call, threads, dev, dump,
                   device, panic, bound, line>>

\* The device's getc(): the next character, or the end of the loop.
IrqGetc ==
    /\ InIrq("getc")
    /\ IF dev = "uart"
       THEN /\ irq' = IF uart = None THEN "release" ELSE uart
            /\ uart' = None
            /\ UNCHANGED <<kbd, shift>>
       ELSE IF kbd = <<>>
       THEN irq' = "release" /\ UNCHANGED <<uart, kbd, shift>>
       ELSE LET g == kbdgetc(Head(kbd)) IN
            /\ irq' = IF g.c = "" THEN "getc" ELSE g.c
            /\ shift' = g.shift
            /\ kbd' = Tail(kbd)
            /\ UNCHANGED uart
    /\ UNCHANGED <<cpus, cons, ptable, input, pos, pc, call, threads, dev,
                   dump, down, script, panic, bound, line>>

Dec(k) == (k + Modulus - 1) % Modulus

IrqDump ==
    /\ InIrq(CtrlP)
    /\ irq' = "getc" /\ dump' = TRUE
    /\ UNCHANGED <<cpus, cons, ptable, input, pos, pc, call, threads, dev,
                   device, panic, bound, line>>

\* There is a character of the line to erase.
Erases == e # w /\ (irq = CtrlU => buf[Dec(e) % INPUT_BUF] # Newline)

\* Backspace, and one turn of the loop of ^U.
IrqErase ==
    /\ panic = "" /\ irq \in {Backspace, CtrlU}
    /\ IF Erases
       THEN /\ e' = Dec(e)
            /\ consputc(Backspace)
            /\ irq' = IF irq = CtrlU THEN CtrlU ELSE "getc"
       ELSE irq' = "getc" /\ UNCHANGED <<e, pos, panic>>
    /\ UNCHANGED <<cpus, cons, ptable, buf, r, w, pc, call, threads, dev, dump,
                   device, bound, line>>

\* Any other character: it is echoed, and a line is committed.
Uncommitted ==
    [k \in 1..((e - w) % Modulus) |-> buf[((w + k - 1) % Modulus) % INPUT_BUF]]

\* The buffer is never taken for full, and readers are not woken.
MutRoom == TRUE
MutWakeup == state

Room == (e - r) % Modulus < INPUT_BUF

\* wakeup(&input.r).
Wakeup == [p \in Proc |-> IF state[p] = "SLEEPING" THEN "RUNNABLE" ELSE state[p]]

IrqChar ==
    /\ panic = "" /\ irq \in {"a", "d", "cr", CtrlD}
    /\ irq' = "getc"
    /\ IF Room
       THEN LET ch == IF irq = "cr" THEN Newline ELSE irq
                commit == ch \in {Newline, CtrlD}
                          \/ e' = (r + INPUT_BUF) % Modulus IN
            /\ buf' = [buf EXCEPT ![e % INPUT_BUF] = ch]
            /\ e' = (e + 1) % Modulus
            /\ commit => ptable = None
            /\ w' = IF commit THEN e' ELSE w
            /\ line' = IF commit THEN Append(line \o Uncommitted, ch) ELSE line
            /\ state' = IF commit THEN Wakeup ELSE state
            /\ consputc(ch)
       ELSE UNCHANGED <<buf, w, e, pos, panic, line, state>>
    /\ UNCHANGED <<cpus, cons, ptable, r, pc, call, eflags, saved, trap, killed,
                   dev, dump, device, bound>>

\* release(), and the return from the trap; with ^P first procdump(), which
\* takes cons.lock itself.
IrqRelease ==
    /\ InIrq("release")
    /\ panic' = IF releasePanics(BootCpu) THEN "release" ELSE ""
    /\ cons' = None
    /\ irq' = IF dump THEN "procdump" ELSE ""
    /\ UNCHANGED intena
    /\ popcli(BootCpu, ~ dump)
    /\ UNCHANGED <<run, ptable, input, pos, pc, call, threads, dev, dump,
                   device, bound, line>>

\* cprintf(): cons.lock is held while c, which stands for the text, is printed.
cprintf(c) == cons = None /\ consputc(c)

\* procdump(): a call of cprintf() for what it says of the processes and one for
\* the end of the line, between which others may print.
IrqProcdump ==
    /\ InIrq("procdump")
    /\ cprintf("x")
    /\ irq' = "newline"
    /\ UNCHANGED <<cpus, cons, ptable, input, pc, call, threads, dev, dump,
                   device, bound, line>>

IrqDumped ==
    /\ InIrq("newline")
    /\ cprintf(Newline)
    /\ irq' = "" /\ dump' = FALSE
    /\ flag' = flag \cup {BootCpu}
    /\ UNCHANGED <<ncli, intena, run, cons, ptable, input, pc, call, threads,
                   dev, device, bound, line>>

-----------------------------------------------------------------------------
Kernel(p, c) ==
    \/ Pushcli(p, c) \/ Acquire(p, c) \/ ReadChar(p, c)
    \/ ReadEmpty(p, c) \/ Sleep(p, c) \/ Woken(p, c) \/ WriteChar(p, c)
    \/ Release(p, c) \/ Exit(p, c)

Handler ==
    \/ IrqAcquire \/ IrqGetc \/ IrqDump \/ IrqErase \/ IrqChar \/ IrqRelease
    \/ IrqProcdump \/ IrqDumped

Next ==
    \/ \E p \in Proc, c \in Cpu : \/ Kernel(p, c) \/ SysCall(p, c)
                                  \/ Tick(p, c) \/ Dispatch(p, c)
    \/ \E c \in Cpu : Idle(c) \/ Look(c)
    \/ \E p \in Proc : Kill(p)
    \/ \E d \in {"uart", "kbd"} : Interrupt(d)
    \/ Handler \/ Type

\* A CPU that can go on does, and a scheduler that holds ptable.lock again and
\* again finds each process that can run.
CpuStep(c) == \/ \E p \in Proc : Kernel(p, c) \/ Dispatch(p, c)
              \/ Idle(c) \/ Look(c)
              \/ c = BootCpu /\ Handler

Fairness == /\ \A c \in Cpu : WF_vars(CpuStep(c))
            /\ \A p \in Proc : SF_vars(\E c \in Cpu : Dispatch(p, c))

Spec == Init /\ [][Next]_vars /\ Fairness

-----------------------------------------------------------------------------
(* Properties. *)

State == {"RUNNABLE", "RUNNING", "SLEEPING", "ZOMBIE"}

TypeOK ==
    /\ flag \subseteq Cpu /\ intena \subseteq Cpu
    /\ ncli \in [Cpu -> 0..2]
    /\ run \in [Cpu -> Proc \cup {None}]
    /\ cons \in Cpu \cup {None} /\ ptable \in Cpu \cup {None}
    /\ r \in 0..(Modulus - 1) /\ w \in 0..(Modulus - 1) /\ e \in 0..(Modulus - 1)
    /\ state \in [Proc -> State]

\* "It takes two popcli to undo two pushcli": interrupts are off on a CPU while
\* it holds or wants a lock, ncli counts the locks, and a process that is
\* back in user space has its interrupts on, on whatever CPU it now is.  So
\* none of the assertions of acquire(), release(), popcli(), sched() and
\* cgaputc() fails, whatever interrupts the code: in particular no CPU waits
\* for a lock that the code it interrupted holds.
InterruptsMatch ==
    /\ TypeOK /\ panic = ""
    /\ \A c \in Cpu :
        /\ ncli[c] > 0 => c \notin flag
        /\ cons = c \/ ptable = c => ncli[c] > 0
        /\ \A p \in Proc : At(p, c, "user") => c \in flag /\ ncli[c] = 0

\* The indexes stay in order, at most INPUT_BUF apart, across the wrap, and
\* between r and w is exactly what was committed and has not been read: no
\* later character, backspace or kill touches it.  read() returns one line of
\* it at most, without ^D.
BufferHoldsLine ==
    LET d(k) == (k - r) % Modulus IN
    /\ d(w) <= d(e) /\ d(e) <= INPUT_BUF
    /\ Len(line) = d(w)
    /\ \A k \in 1..Len(line) : line[k] = buf[((r + k - 1) % Modulus) % INPUT_BUF]
    /\ \A p \in Proc : \A k \in 1..Len(got[p]) :
          /\ got[p][k] # CtrlD
          /\ got[p][k] = Newline => k = Len(got[p])

\* No control key is taken for held when it is not.
NoStuckKey == kbd = <<>> /\ down \cap {"ctl", "rctl"} = {} => "CTL" \notin shift

\* A reader that is not killed returns once something is committed and no
\* other reader takes it.
ReaderReturns ==
    \A p \in Proc : (op[p] = "read" /\ r # w) ~> (pc[p] = "user" \/ r = w)

-----------------------------------------------------------------------------
(* The inductive invariant. *)

InHandler == {"getc", "release", "a", "d", "cr", CtrlD, CtrlU, CtrlP, Backspace}
Dumping == {"procdump", "newline"}
Locked == {"read", "write", "sleep", "release"}
Unlocked == {"user", "pushcli", "woken"}

\* The types of what TypeOK leaves open.
ThreadType ==
    /\ pc \in [Proc -> Unlocked \cup {"xchg"} \cup Locked]
    /\ op \in [Proc -> {"", "read", "write"}]
    /\ \A p \in Proc : pc[p] # "user" => op[p] # ""

HandlerType ==
    /\ irq \in {"", "xchg"} \cup InHandler \cup Dumping
    /\ dump \in BOOLEAN
    /\ uart \in {"a", "cr", CtrlD, CtrlU, CtrlP, Backspace, None}
    /\ script \in Seq(Typed)
    /\ pos \in 0..((Rows - 1) * Cols - 1)

\* c runs code that has called pushcli() once: a scheduler with ptable.lock,
\* or a process that waits for cons.lock or holds it.
Pushed(c) == \/ ptable = c
             \/ run[c] \in Proc /\ pc[run[c]] \notin Unlocked

\* Who holds cons.lock, and what the interrupt flag and ncli are for the code
\* that c runs; an interrupt is handled on top of code that holds nothing.
CpuInv(c) ==
    /\ ptable = c => run[c] = None
    /\ cons = c <=> \/ c = BootCpu /\ irq \in InHandler
                    \/ run[c] \in Proc /\ pc[run[c]] \in Locked
    /\ Free(c) => IF Pushed(c) THEN c \notin flag /\ ncli[c] = 1
                               ELSE c \in flag /\ ncli[c] = 0
    /\ ~ Free(c) => /\ ~ Pushed(c) /\ c \notin flag \cup intena
                    /\ ncli[c] = IF irq \in Dumping THEN 0 ELSE 1
    /\ run[c] \in Proc => /\ state[run[c]] = "RUNNING"
                          /\ pc[run[c]] \notin Unlocked => c \in intena

\* Wherever p goes on, sched() and the return from the trap give it back the
\* interrupts it had.
ProcInv(p) ==
    /\ state[p] # "RUNNING" => pc[p] \in Unlocked
    /\ state[p] \in {"RUNNABLE", "SLEEPING"} => p \in trap \cup saved
    /\ pc[p] = "pushcli" => p \in eflags

\* A process runs on one CPU.
OneCpu == \A c, d \in Cpu : run[c] # None /\ run[c] = run[d] => c = d

LockInv == /\ \A c \in Cpu : CpuInv(c)
           /\ \A p \in Proc : ProcInv(p)
           /\ OneCpu

Inv == TypeOK /\ panic = "" /\ ThreadType /\ HandlerType /\ LockInv

\* The codes of a control key have still to be read.
Pending(stroke) == kbd \in {Codes("ctl", stroke), Codes("rctl", stroke)}

\* A control key that is taken for held is, or will be seen to go up.
KeyInv ==
    /\ kbd = <<>> \/ \E k \in {"d", "ctl", "rctl"}, stroke \in {"up", "down"} :
                        kbd = Codes(k, stroke)
    /\ "CTL" \in shift \/ Pending("down") =>
          down \cap {"ctl", "rctl"} # {} \/ Pending("up")

\* The types of the buffer and of what was read; a read() that has seen the end
\* of its line takes no more.
Char == {"", "a", "d", Newline, CtrlD}

InputInv ==
    /\ buf \in [0..(INPUT_BUF - 1) -> Char] /\ line \in Seq(Char)
    /\ got \in [Proc -> Seq(Char)]
    /\ BufferHoldsLine
    /\ \A p \in Proc : pc[p] \notin {"release", "user"} =>
          \A k \in 1..Len(got[p]) : got[p][k] # Newline
=============================================================================
