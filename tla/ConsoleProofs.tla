---------------------------- MODULE ConsoleProofs ----------------------------
(***************************************************************************)
(* Proofs about the console (module Console), in four parts: the locks and *)
(* the interrupts (Inv, one lemma per action), the arithmetic of the       *)
(* buffer's indexes, the buffer (InputInv), and the keyboard (KeyInv).     *)
(***************************************************************************)
EXTENDS Console, TLAPS

-----------------------------------------------------------------------------
(* Interrupts and locks. *)

\* A CPU of which a step changes nothing keeps its invariant.
LEMMA CpuSame ==
  ASSUME NEW c \in Cpu, CpuInv(c),
         c \in flag' <=> c \in flag, c \in intena' <=> c \in intena,
         ncli'[c] = ncli[c], run'[c] = run[c],
         cons' = c <=> cons = c, ptable' = c <=> ptable = c,
         c = BootCpu => irq' = irq,
         run[c] \in Proc => /\ pc'[run[c]] = pc[run[c]]
                            /\ state'[run[c]] = state[run[c]]
  PROVE  CpuInv(c)'
BY Zenon DEF CpuInv, Pushed, Free

\* So does a process.
LEMMA ProcSame ==
  ASSUME NEW p \in Proc, ProcInv(p), state'[p] = state[p], pc'[p] = pc[p],
         p \in trap' <=> p \in trap, p \in saved' <=> p \in saved,
         p \in eflags' <=> p \in eflags
  PROVE  ProcInv(p)'
BY DEF ProcInv

\* What the invariant says of the CPU that a process of the kernel runs on.
LEMMA Running ==
  ASSUME NEW p \in Proc, NEW c \in Cpu, Inv, run[c] = p, Free(c)
  PROVE  /\ ptable # c /\ state[p] = "RUNNING" /\ ~ (c = BootCpu /\ irq # "")
         /\ pc[p] \in Unlocked => c \in flag /\ ncli[c] = 0 /\ cons # c
         /\ pc[p] = "xchg" => c \notin flag /\ ncli[c] = 1 /\ cons # c /\ c \in intena
         /\ pc[p] \in Locked => c \notin flag /\ ncli[c] = 1 /\ cons = c /\ c \in intena
<1>1. CpuInv(c) /\ c # None /\ p # None
  BY ConsoleAssumption, Zenon DEF Inv, LockInv
<1>2. Unlocked \cap Locked = {} /\ "xchg" \notin Unlocked \cup Locked /\ "" \notin InHandler
  BY DEF Unlocked, Locked, InHandler, CtrlD, CtrlU, CtrlP, Backspace
<1> QED
  BY <1>1, <1>2, Zenon DEF CpuInv, Pushed, Free

\* A process that goes on in the kernel, with cons.lock or without any lock.
LEMMA GoOn ==
  ASSUME NEW p \in Proc, NEW c \in Cpu, NEW l, Inv, run[c] = p, Free(c),
         pc' = [pc EXCEPT ![p] = l],
         \/ pc[p] \in Locked /\ l \in Locked
         \/ pc[p] \in Unlocked /\ l \in Unlocked,
         l = "pushcli" => p \in eflags',
         \A q \in Proc \ {p} : q \in eflags' <=> q \in eflags,
         UNCHANGED <<flag, ncli, intena, run, cons, ptable, irq, state, trap,
                     saved>>
  PROVE  LockInv'
<1>1. pc'[p] = l /\ \A q \in Proc \ {p} : pc'[q] = pc[q]
  BY Zenon DEF Inv, ThreadType
<1>2. Unlocked \cap Locked = {}
  BY DEF Unlocked, Locked
<1>3. ASSUME NEW d \in Cpu PROVE CpuInv(d)'
  <2>1. CpuInv(d)
    BY Zenon DEF Inv, LockInv
  <2>2. CASE d = c
    BY <1>1, <1>2, <2>1, <2>2, Zenon DEF CpuInv, Pushed, Free
  <2>3. CASE d # c
    <3>1. run[d] # p
      BY <2>3, ConsoleAssumption, Zenon DEF Inv, LockInv, OneCpu
    <3> QED
      BY <1>1, <2>1, <3>1, CpuSame
  <2> QED
    BY <2>2, <2>3
<1>4. ASSUME NEW q \in Proc PROVE ProcInv(q)'
  <2>1. ProcInv(q) /\ ProcInv(p)
    BY Zenon DEF Inv, LockInv
  <2>2. CASE q = p
    <3>1. state[p] = "RUNNING"
      BY Running, Zenon
    <3> QED
      BY <1>1, <2>1, <2>2, <3>1 DEF ProcInv
  <2>3. CASE q # p
    BY <1>1, <2>1, <2>3, ProcSame
  <2> QED
    BY <2>2, <2>3
<1>5. OneCpu'
  BY Zenon DEF Inv, LockInv, OneCpu
<1> QED
  BY <1>3, <1>4, <1>5 DEF LockInv

\* The interrupt handler that goes on, with cons.lock or without; it may wake
\* processes up.
LEMMA HandlerGoesOn ==
  ASSUME Inv,
         \/ irq \in InHandler /\ irq' \in InHandler
         \/ irq \in Dumping /\ irq' \in Dumping,
         \A p \in Proc : \/ state'[p] = state[p]
                         \/ state[p] = "SLEEPING" /\ state'[p] = "RUNNABLE",
         UNCHANGED <<flag, ncli, intena, run, cons, ptable, pc, trap, saved,
                     eflags>>
  PROVE  LockInv'
<1>1. InHandler \cap Dumping = {} /\ "" \notin InHandler \cup Dumping
  BY DEF InHandler, Dumping, CtrlD, CtrlU, CtrlP, Backspace
<1>2. ASSUME NEW c \in Cpu PROVE CpuInv(c)'
  <2>1. CpuInv(c) /\ (run[c] \in Proc => state'[run[c]] = state[run[c]])
    BY Zenon DEF Inv, LockInv, CpuInv
  <2>2. CASE c = BootCpu
    BY <1>1, <2>1, <2>2, Zenon DEF CpuInv, Pushed, Free
  <2>3. CASE c # BootCpu
    BY <2>1, <2>3, CpuSame
  <2> QED
    BY <2>2, <2>3
<1>3. ASSUME NEW p \in Proc PROVE ProcInv(p)'
  BY Zenon DEF Inv, LockInv, ProcInv
<1>4. OneCpu'
  BY Zenon DEF Inv, LockInv, OneCpu
<1> QED
  BY <1>2, <1>3, <1>4 DEF LockInv

\* One CPU goes on as a scheduler or as one process, the others go on as they
\* were.
LEMMA OneMoves ==
  ASSUME Inv, NEW c \in Cpu, CpuInv(c)',
         \A p \in Proc : ProcInv(p)',
         \A d \in Cpu \ {c} :
            /\ d \in flag' <=> d \in flag
            /\ d \in intena' <=> d \in intena
            /\ ncli'[d] = ncli[d] /\ run'[d] = run[d]
            /\ cons' = d <=> cons = d
            /\ ptable' = d <=> ptable = d
            /\ d = BootCpu => irq' = irq,
         \A d \in Cpu \ {c} : run[d] \in Proc =>
            /\ pc'[run[d]] = pc[run[d]] /\ state'[run[d]] = state[run[d]]
            /\ run[d] # run'[c]
  PROVE  LockInv'
<1>1. ASSUME NEW d \in Cpu \ {c} PROVE CpuInv(d)'
  <2>1. CpuInv(d)
    BY Zenon DEF Inv, LockInv
  <2> QED
    BY <2>1, CpuSame
<1>2. ASSUME NEW a \in Cpu, NEW b \in Cpu, run'[a] # None, run'[a] = run'[b]
      PROVE  a = b
  <2>1. \A d \in Cpu \ {c} : run[d] \in Proc \cup {None} /\ run'[d] = run[d]
    BY Zenon DEF Inv, TypeOK
  <2>2. CASE a = c \/ b = c
    BY <1>2, <2>1, <2>2
  <2>3. CASE a # c /\ b # c
    <3>1. OneCpu /\ run[a] # None /\ run[a] = run[b]
      BY <1>2, <2>1, <2>3, Zenon DEF Inv, LockInv
    <3> QED
      BY <3>1 DEF OneCpu
  <2> QED
    BY <2>2, <2>3
<1> QED
  BY <1>1, <1>2 DEF LockInv, OneCpu

\* The screen: wherever the cursor is, cgaputc() leaves it on the rows that are
\* shown, and does not panic.
LEMMA Cursor ==
  ASSUME NEW at \in 0..((Rows - 1) * Cols - 1), NEW ch
  PROVE  cgaputc(at, ch) \in 0..((Rows - 1) * Cols - 1) /\ cgaputc(at, ch) # -1
<1> DEFINE top == (Rows - 1) * Cols
           to == CASE ch = Newline -> at + (Cols - (at % Cols))
                   [] ch = Backspace -> IF at > 0 THEN at - 1 ELSE at
                   [] OTHER -> at + 1
<1>1. Cols \in Nat /\ Cols > 0 /\ Rows \in Nat /\ Rows > 1
  BY ConsoleAssumption
<1>2. top \in Nat /\ Rows * Cols = top + Cols /\ top >= Cols
  BY <1>1
<1>3. at \in Nat /\ at < top
  BY <1>2
<1>4. at % Cols \in 0..(Cols - 1)
  BY <1>1, <1>3
<1> HIDE DEF top
<1>5. to \in 0..(top - 1 + Cols)
  BY <1>1, <1>2, <1>3, <1>4 DEF Newline, Backspace
<1> HIDE DEF to
<1>6. to \div Cols >= Rows - 1 <=> to >= top
  <2>1. /\ to \in Nat /\ to \div Cols \in Nat
        /\ to = Cols * (to \div Cols) + (to % Cols) /\ to % Cols \in 0..(Cols - 1)
    BY <1>1, <1>2, <1>5
  <2> DEFINE q == to \div Cols
  <2>2. ASSUME q >= Rows - 1 PROVE to >= top
    <3>1. q \in Nat /\ Cols * q >= Cols * (Rows - 1)
      BY <1>1, <2>1, <2>2
    <3> QED
      BY <1>1, <1>2, <2>1, <3>1 DEF top
  <2>3. ASSUME q < Rows - 1 PROVE to < top
    <3>1. q \in Nat /\ q + 1 <= Rows - 1
      BY <1>1, <2>1, <2>3
    <3>2. Cols * (q + 1) <= Cols * (Rows - 1) /\ Cols * (q + 1) = Cols * q + Cols
      BY <1>1, <3>1
    <3> QED
      BY <1>1, <1>2, <2>1, <3>1, <3>2 DEF top
  <2> QED
    BY <1>1, <1>2, <1>5, <2>1, <2>2, <2>3
<1>7. cgaputc(at, ch) = IF to > Rows * Cols THEN -1
                        ELSE IF to \div Cols >= Rows - 1 THEN to - Cols ELSE to
  BY DEF cgaputc, to
<1>8. CASE to >= top
  BY <1>1, <1>2, <1>5, <1>6, <1>7, <1>8 DEF top
<1>9. CASE to < top
  BY <1>1, <1>2, <1>5, <1>6, <1>7, <1>9 DEF top
<1> QED
  BY <1>2, <1>5, <1>8, <1>9

\* The next index of the input buffer.
LEMMA Index ==
  ASSUME NEW k \in 0..(Modulus - 1)
  PROVE  (k + 1) % Modulus \in 0..(Modulus - 1) /\ Dec(k) \in 0..(Modulus - 1)
<1>1. Modulus \in Nat /\ Modulus > 0
  BY ConsoleAssumption
<1>2. \A x \in Int : x % Modulus \in 0..(Modulus - 1)
  BY <1>1
<1> QED
  BY <1>1, <1>2 DEF Dec

\* A process of the kernel goes to a label.
LEMMA Goes ==
  ASSUME Inv, NEW p \in Proc, NEW l \in Unlocked \cup {"xchg"} \cup Locked,
         pc' = [pc EXCEPT ![p] = l],
         op' \in [Proc -> {"", "read", "write"}],
         \A q \in Proc \ {p} : op'[q] = op[q],
         l # "user" => op'[p] # ""
  PROVE  ThreadType'
<1>1. pc' \in [Proc -> Unlocked \cup {"xchg"} \cup Locked]
  BY Zenon DEF Inv, ThreadType
<1>2. ASSUME NEW q \in Proc, pc'[q] # "user" PROVE op'[q] # ""
  BY <1>2, Zenon DEF Inv, ThreadType
<1> QED
  BY <1>1, <1>2, Zenon DEF ThreadType

\* read() or write() begins with interrupts on.
LEMMA SysCallInv ==
  ASSUME NEW p \in Proc, NEW c \in Cpu, SysCall(p, c), Inv
  PROVE  Inv'
<1>0. run[c] = p /\ Free(c) /\ pc[p] = "user"
  BY Zenon DEF SysCall, At
<1>1. /\ pc' = [pc EXCEPT ![p] = pc'[p]]
      /\ pc'[p] \in {"pushcli"}
      /\ op' = [op EXCEPT ![p] = Calls[p][1]]
      /\ UNCHANGED <<flag, ncli, intena, run, cons, ptable, irq, state, trap, saved>>
      /\ p \in eflags' /\ \A q \in Proc \ {p} : q \in eflags' <=> q \in eflags
      /\ UNCHANGED <<dump, uart, script>>
  BY <1>0, Running, Zenon DEF Inv, TypeOK, ThreadType, Unlocked,
      Locked, SysCall, At, Goto, With, cpus, input, call, threads, handler,
      device, bound
<1>2. LockInv'
  BY <1>0, <1>1, GoOn, Zenon DEF Locked, Unlocked, Inv, ProcInv, LockInv
<1>3. TypeOK'
  BY <1>1, Zenon DEF Inv, TypeOK, SysCall, At, Goto, With, cpus, input, call,
      threads, handler, device, bound
<1>4. ThreadType'
  <2>1. Calls[p][1] \in {"read", "write"}
    BY ConsoleAssumption
  <2>2. /\ op' \in [Proc -> {"", "read", "write"}] /\ op'[p] # ""
        /\ \A q \in Proc \ {p} : op'[q] = op[q]
    BY <1>1, <2>1, Zenon DEF Inv, ThreadType
  <2>3. pc' = [pc EXCEPT ![p] = "pushcli"] /\ "pushcli" \in Unlocked
    BY <1>1 DEF Unlocked
  <2> QED
    BY <2>2, <2>3, Goes, Zenon
<1>5. HandlerType' /\ panic' = ""
  BY <1>1, Zenon DEF Inv, HandlerType, SysCall, At, Goto, With, cpus, input,
      call,
      threads, handler, device, bound
<1> QED
  BY <1>2, <1>3, <1>4, <1>5, Zenon DEF Inv

\* A process that was woken starts acquire() again, with interrupts on.
LEMMA WokenInv ==
  ASSUME NEW p \in Proc, NEW c \in Cpu, Woken(p, c), Inv
  PROVE  Inv'
<1>0. run[c] = p /\ Free(c) /\ pc[p] = "woken"
  BY Zenon DEF Woken, At
<1>1. /\ pc' = [pc EXCEPT ![p] = pc'[p]]
      /\ pc'[p] \in {"pushcli"}
      /\ UNCHANGED op
      /\ UNCHANGED <<flag, ncli, intena, run, cons, ptable, irq, state, trap, saved>>
      /\ p \in eflags' /\ \A q \in Proc \ {p} : q \in eflags' <=> q \in eflags
      /\ UNCHANGED <<dump, uart, script>>
  BY <1>0, Running, Zenon DEF Inv, TypeOK, ThreadType, Unlocked,
      Locked, Woken, At, Goto, With, cpus, input, call, threads, handler,
      device, bound
<1>2. LockInv'
  BY <1>0, <1>1, GoOn, Zenon DEF Locked, Unlocked, Inv, ProcInv, LockInv
<1>3. TypeOK'
  BY <1>1, Zenon DEF Inv, TypeOK, Woken, At, Goto, With, cpus, input, call,
      threads,
      handler, device, bound
<1>4. ThreadType'
  BY <1>0, <1>1, Goes, Zenon DEF Inv, ThreadType, Locked, Unlocked
<1>5. HandlerType' /\ panic' = ""
  BY <1>1, Zenon DEF Inv, HandlerType, Woken, At, Goto, With, cpus, input, call,
      threads, handler, device, bound
<1> QED
  BY <1>2, <1>3, <1>4, <1>5, Zenon DEF Inv

\* consoleread() takes a character or ends.
LEMMA ReadCharInv ==
  ASSUME NEW p \in Proc, NEW c \in Cpu, ReadChar(p, c), Inv
  PROVE  Inv'
<1>0. run[c] = p /\ Free(c) /\ pc[p] = "read"
  BY Zenon DEF ReadChar, At
<1>1. /\ pc' = [pc EXCEPT ![p] = pc'[p]]
      /\ pc'[p] \in {"read", "release"}
      /\ UNCHANGED op
      /\ UNCHANGED <<flag, ncli, intena, run, cons, ptable, irq, state, trap, saved>>
      /\ UNCHANGED eflags
      /\ UNCHANGED <<dump, uart, script>>
  BY <1>0, Running, Zenon DEF Inv, TypeOK, ThreadType, Unlocked,
      Locked, ReadChar, At, Goto, With, cpus, input, call, threads, handler,
      device, bound
<1>2. LockInv'
  BY <1>0, <1>1, GoOn, Zenon DEF Locked, Unlocked, Inv, ProcInv, LockInv
<1>3. TypeOK'
  <2>1. (r' = r \/ r' = (r + 1) % Modulus) /\ UNCHANGED <<w, e>>
    BY DEF ReadChar
  <2>2. r' \in 0..(Modulus - 1)
    BY <2>1, Index, Zenon DEF Inv, TypeOK
  <2> QED
    BY <1>1, <2>1, <2>2, Zenon DEF Inv, TypeOK
<1>4. ThreadType'
  BY <1>0, <1>1, Goes, Zenon DEF Inv, ThreadType, Locked, Unlocked
<1>5. HandlerType' /\ panic' = ""
  BY <1>1, Zenon DEF Inv, HandlerType, ReadChar, At, Goto, With, cpus, input,
      call,
      threads, handler, device, bound
<1> QED
  BY <1>2, <1>3, <1>4, <1>5, Zenon DEF Inv

\* consoleread() with nothing to read.
LEMMA ReadEmptyInv ==
  ASSUME NEW p \in Proc, NEW c \in Cpu, ReadEmpty(p, c), Inv
  PROVE  Inv'
<1>0. run[c] = p /\ Free(c) /\ pc[p] = "read"
  BY Zenon DEF ReadEmpty, At
<1>1. /\ pc' = [pc EXCEPT ![p] = pc'[p]]
      /\ pc'[p] \in {"release", "sleep"}
      /\ UNCHANGED op
      /\ UNCHANGED <<flag, ncli, intena, run, cons, ptable, irq, state, trap, saved>>
      /\ UNCHANGED eflags
      /\ UNCHANGED <<dump, uart, script>>
  BY <1>0, Running, Zenon DEF Inv, TypeOK, ThreadType, Unlocked,
      Locked, ReadEmpty, At, Goto, With, cpus, input, call, threads, handler,
      device, bound
<1>2. LockInv'
  BY <1>0, <1>1, GoOn, Zenon DEF Locked, Unlocked, Inv, ProcInv, LockInv
<1>3. TypeOK'
  BY <1>1, Zenon DEF Inv, TypeOK, ReadEmpty, At, Goto, With, cpus, input, call,
      threads, handler, device, bound
<1>4. ThreadType'
  BY <1>0, <1>1, Goes, Zenon DEF Inv, ThreadType, Locked, Unlocked
<1>5. HandlerType' /\ panic' = ""
  BY <1>1, Zenon DEF Inv, HandlerType, ReadEmpty, At, Goto, With, cpus, input,
      call,
      threads, handler, device, bound
<1> QED
  BY <1>2, <1>3, <1>4, <1>5, Zenon DEF Inv

\* consolewrite() prints a character.
LEMMA WriteCharInv ==
  ASSUME NEW p \in Proc, NEW c \in Cpu, WriteChar(p, c), Inv
  PROVE  Inv'
<1>0. run[c] = p /\ Free(c) /\ pc[p] = "write"
  BY Zenon DEF WriteChar, At
<1>1. /\ pc' = [pc EXCEPT ![p] = pc'[p]]
      /\ pc'[p] \in {"release", "write"}
      /\ UNCHANGED op
      /\ UNCHANGED <<flag, ncli, intena, run, cons, ptable, irq, state, trap, saved>>
      /\ UNCHANGED eflags
      /\ UNCHANGED <<dump, uart, script>>
  BY <1>0, Running, Zenon DEF Inv, TypeOK, ThreadType, Unlocked,
      Locked, WriteChar, At, Goto, With, cpus, input, call, threads, handler,
      device, bound
<1>2. LockInv'
  BY <1>0, <1>1, GoOn, Zenon DEF Locked, Unlocked, Inv, ProcInv, LockInv
<1>3. TypeOK'
  BY <1>1, Zenon DEF Inv, TypeOK, WriteChar, At, Goto, With, cpus, input, call,
      threads, handler, device, bound
<1>4. ThreadType'
  BY <1>0, <1>1, Goes, Zenon DEF Inv, ThreadType, Locked, Unlocked
<1>5. HandlerType' /\ panic' = ""
  <2>1. /\ pos' = cgaputc(pos, "x")
        /\ panic' = IF pos' = -1 THEN "pos under/overflow" ELSE ""
    BY Zenon DEF WriteChar, consputc
  <2>2. pos' \in 0..((Rows - 1) * Cols - 1) /\ pos' # -1
    BY <2>1, Cursor, Zenon DEF Inv, HandlerType
  <2> QED
    BY <1>0, <1>1, <2>1, <2>2, Zenon DEF Inv, HandlerType, Free
<1> QED
  BY <1>2, <1>3, <1>4, <1>5, Zenon DEF Inv

\* ncli of one CPU is set.
LEMMA NcliType ==
  ASSUME Inv, NEW c \in Cpu, NEW k \in {0, 1}, ncli' = [ncli EXCEPT ![c] = k]
  PROVE  ncli' \in [Cpu -> 0..2] /\ ncli'[c] = k /\ \A d \in Cpu \ {c} : ncli'[d] = ncli[d]
<1>1. ncli \in [Cpu -> 0..2]
  BY Zenon DEF Inv, TypeOK
<1>2. k \in 0..2
  BY SMTT(30)
<1> QED
  BY <1>1, <1>2

\* pushcli() of acquire(): the flag that was read is that of the CPU.
LEMMA PushcliInv ==
  ASSUME NEW p \in Proc, NEW c \in Cpu, Pushcli(p, c), Inv
  PROVE  Inv'
<1>0. run[c] = p /\ Free(c) /\ pc[p] = "pushcli"
  BY Zenon DEF Pushcli, At
<1>1. /\ state[p] = "RUNNING" /\ ptable # c /\ ncli[c] = 0 /\ cons # c
      /\ p \in eflags
  BY <1>0, Running, Zenon DEF Unlocked, Inv, LockInv, ProcInv
<1>2. /\ flag' = flag \ {c} /\ intena' = intena \cup {c}
      /\ ncli' = [ncli EXCEPT ![c] = 1] /\ pc' = [pc EXCEPT ![p] = "xchg"]
      /\ panic' = ""
      /\ UNCHANGED <<run, cons, ptable, r, w, e, pos, op, state, eflags, saved,
                     trap, irq, dump, uart, script>>
  <2>1. /\ flag' = flag \ {c}
        /\ intena' = IF ncli[c] = 0 THEN With(intena, c, p \in eflags) ELSE intena
        /\ ncli' = [ncli EXCEPT ![c] = ncli[c] + 1]
    BY Zenon DEF Pushcli, pushcli
  <2>2. intena' = intena \cup {c} /\ ncli' = [ncli EXCEPT ![c] = 1]
    BY <1>1, <2>1 DEF With
  <2> QED
    BY <1>1, <2>1, <2>2, Zenon DEF Pushcli, Goto, input, call, threads,
        handler, device
<1>3. pc'[p] = "xchg" /\ \A q \in Proc \ {p} : pc'[q] = pc[q]
  BY <1>2, Zenon DEF Inv, ThreadType
<1>4. ncli'[c] = 1 /\ \A d \in Cpu \ {c} : ncli'[d] = ncli[d]
  BY <1>2, Zenon DEF Inv, TypeOK
<1>5. CpuInv(c)'
  <2>1. CpuInv(c)
    BY Zenon DEF Inv, LockInv
  <2> QED
    BY <1>0, <1>1, <1>2, <1>3, <1>4, <2>1, Zenon DEF CpuInv, Pushed, Free,
        Unlocked, Locked
<1>6. ASSUME NEW q \in Proc PROVE ProcInv(q)'
  BY <1>1, <1>2, <1>3, Zenon DEF Inv, LockInv, ProcInv
<1>7. LockInv'
  <2>1. \A d \in Cpu \ {c} : run[d] # p /\ d # None
    BY <1>0, ConsoleAssumption, Zenon DEF Inv, LockInv, OneCpu
  <2>2. \A d \in Cpu \ {c} : run[d] \in Proc =>
           /\ pc'[run[d]] = pc[run[d]] /\ state'[run[d]] = state[run[d]]
           /\ run[d] # run'[c]
    BY <1>0, <1>2, <1>3, <2>1, ConsoleAssumption, Zenon
  <2> QED
    BY <1>0, <1>2, <1>3, <1>4, <1>5, <1>6, <2>2, OneMoves, Zenon
<1>8. TypeOK'
  <2>1. ncli' \in [Cpu -> 0..2]
    BY <1>2, NcliType, Zenon
  <2> QED
    BY <1>2, <2>1, Zenon DEF Inv, TypeOK
<1>9. ThreadType'
  BY <1>0, <1>2, Goes, Zenon DEF Inv, ThreadType
<1> QED
  BY <1>2, <1>7, <1>8, <1>9, Zenon DEF Inv, HandlerType

\* acquire() gets cons.lock.
LEMMA AcquireInv ==
  ASSUME NEW p \in Proc, NEW c \in Cpu, Acquire(p, c), Inv
  PROVE  Inv'
<1>0. run[c] = p /\ Free(c) /\ pc[p] = "xchg" /\ cons = None
  BY Zenon DEF Acquire, At
<1>1. /\ state[p] = "RUNNING" /\ ptable # c /\ ncli[c] = 1 /\ c \notin flag
      /\ c \in intena /\ op[p] \in {"read", "write"}
  BY <1>0, Running, Zenon DEF Inv, ThreadType
<1>2. /\ pc' = [pc EXCEPT ![p] = op[p]] /\ cons' = c
      /\ UNCHANGED <<flag, ncli, intena, run, ptable, r, w, e, pos, op, state,
                     eflags, saved, trap, irq, dump, uart, script, panic>>
  BY SMTT(30) DEF Acquire, Goto, cpus, input, call, threads, handler, device
<1>3. pc'[p] = op[p] /\ \A q \in Proc \ {p} : pc'[q] = pc[q]
  BY <1>2, Zenon DEF Inv, ThreadType
<1>5. CpuInv(c)'
  <2>1. CpuInv(c)
    BY Zenon DEF Inv, LockInv
  <2> QED
    BY <1>0, <1>1, <1>2, <1>3, <2>1, Zenon DEF CpuInv, Pushed, Free, Unlocked,
        Locked
<1>6. ASSUME NEW q \in Proc PROVE ProcInv(q)'
  BY <1>1, <1>2, <1>3, Zenon DEF Inv, LockInv, ProcInv
<1>7. LockInv'
  <2>1. \A d \in Cpu \ {c} : run[d] # p /\ d # None
    BY <1>0, ConsoleAssumption, Zenon DEF Inv, LockInv, OneCpu
  <2>2. \A d \in Cpu \ {c} : run[d] \in Proc =>
           /\ pc'[run[d]] = pc[run[d]] /\ state'[run[d]] = state[run[d]]
           /\ run[d] # run'[c]
    BY <1>0, <1>2, <1>3, <2>1, ConsoleAssumption, Zenon
  <2>3. \A d \in Cpu \ {c} : (cons' = d <=> cons = d) /\ (ptable' = d <=> ptable = d)
    BY <1>0, <1>2, <2>1, Zenon
  <2> QED
    BY <1>0, <1>2, <1>3, <1>5, <1>6, <2>2, <2>3, OneMoves, Zenon
<1>8. TypeOK'
  BY <1>2, Zenon DEF Inv, TypeOK
<1>9. ThreadType'
  BY <1>0, <1>1, <1>2, Goes, Zenon DEF Inv, ThreadType, Locked
<1> QED
  BY <1>2, <1>7, <1>8, <1>9, Zenon DEF Inv, HandlerType

\* sleep() gives up cons.lock and the CPU; interrupts were on before.
LEMMA SleepInv ==
  ASSUME NEW p \in Proc, NEW c \in Cpu, Sleep(p, c), Inv
  PROVE  Inv'
<1>0. run[c] = p /\ Free(c) /\ pc[p] = "sleep" /\ ptable = None
  BY Zenon DEF Sleep, At
<1>1. /\ state[p] = "RUNNING" /\ ncli[c] = 1 /\ c \notin flag /\ cons = c
      /\ c \in intena
  BY <1>0, Running, Zenon DEF Locked
<1>2. /\ pc' = [pc EXCEPT ![p] = "woken"] /\ cons' = None /\ ptable' = c
      /\ run' = [run EXCEPT ![c] = None]
      /\ state' = [state EXCEPT ![p] = "SLEEPING"]
      /\ saved' = saved \cup {p} /\ panic' = ""
      /\ UNCHANGED <<flag, ncli, intena, r, w, e, pos, op, eflags, trap, irq,
                     dump, uart, script>>
  <2>1. saved' = saved \cup {p}
    BY <1>1, Zenon DEF Sleep, With
  <2>2. ~ releasePanics(c) /\ panic' = ""
    <3>1. ~ releasePanics(c)
      BY <1>1 DEF releasePanics
    <3> QED
      BY <1>1, <3>1, Zenon DEF Sleep
  <2> QED
    BY <2>1, <2>2, Zenon DEF Sleep, Goto, input, call, handler, device
<1>3. pc'[p] = "woken" /\ \A q \in Proc \ {p} : pc'[q] = pc[q]
  BY <1>2, Zenon DEF Inv, ThreadType
<1>4. /\ run'[c] = None /\ \A d \in Cpu \ {c} : run'[d] = run[d]
      /\ state'[p] = "SLEEPING" /\ \A q \in Proc \ {p} : state'[q] = state[q]
  BY <1>2, Zenon DEF Inv, TypeOK
<1>5. CpuInv(c)'
  <2>1. CpuInv(c) /\ None \notin Proc /\ c # None /\ "" \notin InHandler
    BY ConsoleAssumption, Zenon DEF Inv, LockInv, InHandler, CtrlD, CtrlU,
        CtrlP, Backspace
  <2> QED
    BY <1>0, <1>1, <1>2, <1>4, <2>1, Zenon DEF CpuInv, Pushed, Free
<1>6. ASSUME NEW q \in Proc PROVE ProcInv(q)'
  BY <1>1, <1>2, <1>3, <1>4, Zenon DEF Inv, LockInv, ProcInv, Unlocked
<1>7. LockInv'
  <2>1. \A d \in Cpu \ {c} : run[d] # p /\ d # None
    BY <1>0, ConsoleAssumption, Zenon DEF Inv, LockInv, OneCpu
  <2>2. \A d \in Cpu \ {c} : run[d] \in Proc =>
           /\ pc'[run[d]] = pc[run[d]] /\ state'[run[d]] = state[run[d]]
           /\ run[d] # run'[c]
    BY <1>0, <1>3, <1>4, <2>1, ConsoleAssumption, Zenon
  <2>3. \A d \in Cpu \ {c} : (cons' = d <=> cons = d) /\ (ptable' = d <=> ptable = d)
    BY <1>0, <1>1, <1>2, <2>1, Zenon
  <2> QED
    BY <1>2, <1>4, <1>5, <1>6, <2>2, <2>3, OneMoves, Zenon
<1>8. TypeOK'
  BY <1>2, Zenon DEF Inv, TypeOK, State
<1>9. ThreadType'
  <2>1. op[p] # ""
    BY <1>0, Zenon DEF Inv, ThreadType
  <2> QED
    BY <1>0, <1>2, <2>1, Goes, Zenon DEF Inv, ThreadType, Unlocked
<1> QED
  BY <1>2, <1>7, <1>8, <1>9, Zenon DEF Inv, HandlerType

\* release() of cons.lock turns the process's interrupts on again.
LEMMA ReleaseInv ==
  ASSUME NEW p \in Proc, NEW c \in Cpu, Release(p, c), Inv
  PROVE  Inv'
<1>0. run[c] = p /\ Free(c) /\ pc[p] = "release"
  BY Zenon DEF Release, At
<1>1. /\ state[p] = "RUNNING" /\ ptable # c /\ ncli[c] = 1 /\ c \notin flag
      /\ c \in intena /\ cons = c
  BY <1>0, Running, Zenon DEF Locked
<1>2. /\ flag' = flag \cup {c} /\ ncli' = [ncli EXCEPT ![c] = 0]
      /\ pc' = [pc EXCEPT ![p] = "user"] /\ cons' = None /\ panic' = ""
      /\ UNCHANGED <<intena, run, ptable, r, w, e, pos, op, state, eflags,
                     saved, trap, irq, dump, uart, script>>
  <2>1. ~ releasePanics(c)
    BY <1>1 DEF releasePanics
  <2>2. flag' = flag \cup {c}
    BY <1>1, Zenon DEF Release, popcli, With
  <2>3. ncli' = [ncli EXCEPT ![c] = 0]
    <3>1. ncli' = [ncli EXCEPT ![c] = ncli[c] - 1]
      BY Zenon DEF Release, popcli
    <3> QED
      BY <1>1, <3>1
  <2> QED
    BY <2>1, <2>2, <2>3, Zenon DEF Release, Goto, input, call, threads,
        handler, device
<1>3. pc'[p] = "user" /\ \A q \in Proc \ {p} : pc'[q] = pc[q]
  BY <1>2, Zenon DEF Inv, ThreadType
<1>4. /\ ncli'[c] = 0 /\ \A d \in Cpu \ {c} : ncli'[d] = ncli[d]
      /\ ncli' \in [Cpu -> 0..2]
  BY <1>2, NcliType, Zenon
<1>5. CpuInv(c)'
  <2>1. CpuInv(c) /\ c # None /\ "" \notin InHandler
    BY ConsoleAssumption, Zenon DEF Inv, LockInv, InHandler, CtrlD, CtrlU,
        CtrlP, Backspace
  <2> QED
    BY <1>0, <1>1, <1>2, <1>3, <1>4, <2>1, Zenon DEF CpuInv, Pushed, Free,
        Unlocked, Locked
<1>6. ASSUME NEW q \in Proc PROVE ProcInv(q)'
  BY <1>1, <1>2, <1>3, Zenon DEF Inv, LockInv, ProcInv
<1>7. LockInv'
  <2>1. \A d \in Cpu \ {c} : run[d] # p /\ d # None
    BY <1>0, ConsoleAssumption, Zenon DEF Inv, LockInv, OneCpu
  <2>2. \A d \in Cpu \ {c} : run[d] \in Proc =>
           /\ pc'[run[d]] = pc[run[d]] /\ state'[run[d]] = state[run[d]]
           /\ run[d] # run'[c]
    BY <1>0, <1>2, <1>3, <2>1, Zenon
  <2>3. \A d \in Cpu \ {c} : cons' = d <=> cons = d
    BY <1>1, <1>2, <2>1, Zenon
  <2> QED
    BY <1>0, <1>2, <1>4, <1>5, <1>6, <2>2, <2>3, OneMoves, Zenon
<1>8. TypeOK'
  BY <1>2, <1>4, Zenon DEF Inv, TypeOK
<1>9. ThreadType'
  BY <1>0, <1>2, Goes, Zenon DEF Inv, ThreadType, Unlocked
<1> QED
  BY <1>2, <1>7, <1>8, <1>9, Zenon DEF Inv, HandlerType

\* exit(): the scheduler goes on with ptable.lock.
LEMMA ExitInv ==
  ASSUME NEW p \in Proc, NEW c \in Cpu, Exit(p, c), Inv
  PROVE  Inv'
<1>0. run[c] = p /\ Free(c) /\ pc[p] = "user" /\ ptable = None
  BY Zenon DEF Exit, At
<1>1. state[p] = "RUNNING" /\ ncli[c] = 0 /\ c \in flag /\ cons # c
  BY <1>0, Running, Zenon DEF Unlocked
<1>2. /\ flag' = flag \ {c} /\ intena' = intena \cup {c}
      /\ ncli' = [ncli EXCEPT ![c] = 1] /\ ptable' = c
      /\ run' = [run EXCEPT ![c] = None]
      /\ state' = [state EXCEPT ![p] = "ZOMBIE"]
      /\ UNCHANGED <<cons, r, w, e, pos, pc, op, eflags, saved, trap, irq,
                     dump, uart, script, panic>>
  <2>1. intena' = intena \cup {c}
    BY <1>1 DEF Exit, pushcli, With
  <2>2. flag' = flag \ {c} /\ ncli' = [ncli EXCEPT ![c] = 1]
    <3>1. flag' = flag \ {c} /\ ncli' = [ncli EXCEPT ![c] = ncli[c] + 1]
      BY DEF Exit, pushcli
    <3> QED
      BY <1>1, <3>1
  <2> QED
    BY <2>1, <2>2 DEF Exit, input, call, handler, device
<1>3. /\ ncli'[c] = 1 /\ \A d \in Cpu \ {c} : ncli'[d] = ncli[d]
      /\ ncli' \in [Cpu -> 0..2]
  BY <1>2, NcliType, Zenon
<1>4. /\ run'[c] = None /\ \A d \in Cpu \ {c} : run'[d] = run[d]
      /\ state'[p] = "ZOMBIE" /\ \A q \in Proc \ {p} : state'[q] = state[q]
  BY <1>2, Zenon DEF Inv, TypeOK
<1>5. CpuInv(c)'
  <2>1. CpuInv(c) /\ None \notin Proc /\ "" \notin InHandler
    BY ConsoleAssumption, Zenon DEF Inv, LockInv, InHandler, CtrlD, CtrlU,
        CtrlP, Backspace
  <2> QED
    BY <1>0, <1>1, <1>2, <1>3, <1>4, <2>1, Zenon DEF CpuInv, Pushed, Free
<1>6. ASSUME NEW q \in Proc PROVE ProcInv(q)'
  BY <1>0, <1>2, <1>4, Zenon DEF Inv, LockInv, ProcInv, Unlocked
<1>7. LockInv'
  <2>1. \A d \in Cpu \ {c} : run[d] # p /\ d # None
    BY <1>0, ConsoleAssumption, Zenon DEF Inv, LockInv, OneCpu
  <2>2. \A d \in Cpu \ {c} : run[d] \in Proc =>
           /\ pc'[run[d]] = pc[run[d]] /\ state'[run[d]] = state[run[d]]
           /\ run[d] # run'[c]
    BY <1>2, <1>4, <2>1, ConsoleAssumption
  <2>3. \A d \in Cpu \ {c} : ptable' = d <=> ptable = d
    BY <1>0, <1>2, <2>1, SMTT(30)
  <2>4. \A d \in Cpu \ {c} : d = BootCpu => irq' = irq
    BY <1>2
  <2> QED
    BY <1>2, <1>3, <1>4, <1>5, <1>6, <2>2, <2>3, <2>4, OneMoves, Zenon
<1>8. TypeOK'
  BY <1>2, <1>3, Zenon DEF Inv, TypeOK, State
<1> QED
  BY <1>2, <1>7, <1>8, Zenon DEF Inv, HandlerType, ThreadType

\* A timer interrupt: yield() records that interrupts are off in the handler,
\* and the return from the trap will turn them on.
LEMMA TickInv ==
  ASSUME NEW p \in Proc, NEW c \in Cpu, Tick(p, c), Inv
  PROVE  Inv'
<1>0. run[c] = p /\ Free(c) /\ c \in flag /\ ptable = None
  BY Zenon DEF Tick
<1>1. /\ state[p] = "RUNNING" /\ ncli[c] = 0 /\ cons # c /\ pc[p] \in Unlocked
  BY <1>0, Running, Zenon DEF Inv, ThreadType
<1>2. /\ flag' = flag \ {c} /\ \A d \in Cpu \ {c} : d \in intena' <=> d \in intena
      /\ intena' \subseteq Cpu
      /\ ncli' = [ncli EXCEPT ![c] = 1] /\ ptable' = c
      /\ run' = [run EXCEPT ![c] = None]
      /\ state' = [state EXCEPT ![p] = "RUNNABLE"]
      /\ trap' = trap \cup {p} /\ saved' = saved \ {p}
      /\ UNCHANGED <<cons, r, w, e, pos, pc, op, eflags, irq, dump, uart,
                     script, panic>>
  <2>1. (\A d \in Cpu \ {c} : d \in intena' <=> d \in intena) /\ intena' \subseteq Cpu
    BY <1>1, Zenon DEF Tick, pushcli, With, Inv, TypeOK
  <2>2. flag' = flag \ {c} /\ ncli' = [ncli EXCEPT ![c] = 1]
    <3>1. flag' = flag \ {c} /\ ncli' = [ncli EXCEPT ![c] = ncli[c] + 1]
      BY Zenon DEF Tick, pushcli
    <3> QED
      BY <1>1, <3>1
  <2> QED
    BY <2>1, <2>2, Zenon DEF Tick, input, call, handler, device
<1>3. /\ ncli'[c] = 1 /\ \A d \in Cpu \ {c} : ncli'[d] = ncli[d]
      /\ ncli' \in [Cpu -> 0..2]
  BY <1>2, NcliType, Zenon
<1>4. /\ run'[c] = None /\ \A d \in Cpu \ {c} : run'[d] = run[d]
      /\ state'[p] = "RUNNABLE" /\ \A q \in Proc \ {p} : state'[q] = state[q]
  BY <1>2, Zenon DEF Inv, TypeOK
<1>5. CpuInv(c)'
  <2>1. CpuInv(c) /\ None \notin Proc /\ "" \notin InHandler
    BY ConsoleAssumption, Zenon DEF Inv, LockInv, InHandler, CtrlD, CtrlU,
        CtrlP, Backspace
  <2> QED
    BY <1>0, <1>1, <1>2, <1>3, <1>4, <2>1, Zenon DEF CpuInv, Pushed, Free
<1>6. ASSUME NEW q \in Proc PROVE ProcInv(q)'
  BY <1>1, <1>2, <1>4, Zenon DEF Inv, LockInv, ProcInv
<1>7. LockInv'
  <2>1. \A d \in Cpu \ {c} : run[d] # p /\ d # None
    BY <1>0, ConsoleAssumption, Zenon DEF Inv, LockInv, OneCpu
  <2>2. \A d \in Cpu \ {c} : run[d] \in Proc =>
           /\ pc'[run[d]] = pc[run[d]] /\ state'[run[d]] = state[run[d]]
           /\ run[d] # run'[c]
    BY <1>2, <1>4, <2>1, ConsoleAssumption, Zenon
  <2>3. \A d \in Cpu \ {c} : ptable' = d <=> ptable = d
    BY <1>0, <1>2, <2>1
  <2>4. \A d \in Cpu \ {c} : d = BootCpu => irq' = irq
    BY <1>2
  <2> QED
    BY <1>2, <1>3, <1>4, <1>5, <1>6, <2>2, <2>3, <2>4, OneMoves
<1>8. TypeOK'
  BY <1>2, <1>3, Zenon DEF Inv, TypeOK, State
<1> QED
  BY <1>2, <1>7, <1>8, Zenon DEF Inv, HandlerType, ThreadType

\* The scheduler switches to p, whose interrupts come back: from intena, or by
\* the return from the trap.
LEMMA DispatchInv ==
  ASSUME NEW p \in Proc, NEW c \in Cpu, Dispatch(p, c), Inv
  PROVE  Inv'
<1>0. run[c] = None /\ ptable = c /\ state[p] = "RUNNABLE"
  BY Zenon DEF Dispatch
<1>1. /\ CpuInv(c) /\ ProcInv(p) /\ None \notin Proc /\ c # None
      /\ \A d \in Cpu : run[d] # p
  <2>1. \A d \in Cpu : CpuInv(d)
    BY Zenon DEF Inv, LockInv
  <2>2. \A d \in Cpu : run[d] # p
    BY <1>0, <2>1, Zenon DEF CpuInv
  <2> QED
    BY <2>1, <2>2, ConsoleAssumption, Zenon DEF Inv, LockInv
<1>2. ncli[c] = 1 /\ cons # c /\ Free(c) /\ pc[p] \in Unlocked /\ p \in trap \cup saved
  <2>1. "" \notin InHandler
    BY DEF InHandler, CtrlD, CtrlU, CtrlP, Backspace
  <2> QED
    BY <1>0, <1>1, <2>1, Zenon DEF CpuInv, ProcInv, Pushed, Free
<1>3. /\ flag' = flag \cup {c} /\ intena' \subseteq Cpu
      /\ \A d \in Cpu \ {c} : d \in intena' <=> d \in intena
  <2>1. intena' = With(intena, c, p \in saved)
    BY Zenon DEF Dispatch, Restored
  <2>2. flag' = With(flag, c, p \in trap \/ (ncli[c] = 1 /\ c \in intena'))
    BY Zenon DEF Dispatch, popcli
  <2>3. p \in trap \/ c \in intena'
    BY <1>2, <2>1 DEF With
  <2> QED
    BY <1>2, <2>1, <2>2, <2>3, Zenon DEF With, Inv, TypeOK
<1>4. /\ ncli' = [ncli EXCEPT ![c] = 0] /\ ptable' = None
      /\ run' = [run EXCEPT ![c] = p]
      /\ state' = [state EXCEPT ![p] = "RUNNING"] /\ trap' = trap \ {p}
      /\ UNCHANGED <<cons, r, w, e, pos, pc, op, eflags, saved, irq, dump,
                     uart, script, panic>>
  <2>1. ncli' = [ncli EXCEPT ![c] = ncli[c] - 1]
    BY Zenon DEF Dispatch, popcli
  <2>2. ncli' = [ncli EXCEPT ![c] = 0]
    BY <1>2, <2>1
  <2> QED
    BY <2>2, Zenon DEF Dispatch, input, call, handler, device
<1>5. /\ ncli'[c] = 0 /\ \A d \in Cpu \ {c} : ncli'[d] = ncli[d]
      /\ ncli' \in [Cpu -> 0..2]
  BY <1>4, NcliType, Zenon
<1>6. /\ run'[c] = p /\ \A d \in Cpu \ {c} : run'[d] = run[d]
      /\ state'[p] = "RUNNING" /\ \A q \in Proc \ {p} : state'[q] = state[q]
  BY <1>4, Zenon DEF Inv, TypeOK
<1>7. CpuInv(c)'
  <2>1. "" \notin InHandler /\ Unlocked \cap Locked = {}
    BY DEF InHandler, CtrlD, CtrlU, CtrlP, Backspace, Unlocked, Locked
  <2> QED
    BY <1>1, <1>2, <1>3, <1>4, <1>5, <1>6, <2>1, Zenon DEF CpuInv, Pushed, Free
<1>8. ASSUME NEW q \in Proc PROVE ProcInv(q)'
  BY <1>4, <1>6, Zenon DEF Inv, LockInv, ProcInv
<1>9. LockInv'
  <2>2. \A d \in Cpu \ {c} : run[d] \in Proc =>
           /\ pc'[run[d]] = pc[run[d]] /\ state'[run[d]] = state[run[d]]
           /\ run[d] # run'[c]
    BY <1>1, <1>4, <1>6
  <2>3. \A d \in Cpu \ {c} : (ptable' = d <=> ptable = d) /\ (cons' = d <=> cons = d)
    BY <1>0, <1>4, ConsoleAssumption
  <2>4. \A d \in Cpu \ {c} : d = BootCpu => irq' = irq
    BY <1>4
  <2> QED
    BY <1>3, <1>5, <1>6, <1>7, <1>8, <2>2, <2>3, <2>4, OneMoves
<1>10. TypeOK'
  BY <1>3, <1>4, <1>5, Zenon DEF Inv, TypeOK, State
<1> QED
  BY <1>4, <1>9, <1>10, Zenon DEF Inv, HandlerType, ThreadType

\* The scheduler finds nothing to run and turns interrupts on.
LEMMA IdleInv ==
  ASSUME NEW c \in Cpu, Idle(c), Inv
  PROVE  Inv'
<1>0. run[c] = None /\ ptable = c
  BY Zenon DEF Idle
<1>1. CpuInv(c) /\ None \notin Proc /\ c # None /\ "" \notin InHandler
  BY ConsoleAssumption, Zenon DEF Inv, LockInv, InHandler, CtrlD, CtrlU,
      CtrlP, Backspace
<1>2. ncli[c] = 1 /\ cons # c /\ Free(c)
  BY <1>0, <1>1, Zenon DEF CpuInv, Pushed, Free
<1>4. /\ flag' = flag \cup {c} /\ ncli' = [ncli EXCEPT ![c] = 0] /\ ptable' = None
      /\ UNCHANGED <<intena, run, cons, r, w, e, pos, pc, op, state, trap,
                     eflags, saved, irq, dump, uart, script, panic>>
  <2>1. ncli' = [ncli EXCEPT ![c] = ncli[c] - 1]
    BY Zenon DEF Idle, popcli
  <2>2. ncli' = [ncli EXCEPT ![c] = 0]
    BY <1>2, <2>1
  <2>3. flag' = flag \cup {c}
    BY Zenon DEF Idle, popcli, With
  <2> QED
    BY <2>2, <2>3, Zenon DEF Idle, input, call, threads, handler, device
<1>5. /\ ncli'[c] = 0 /\ \A d \in Cpu \ {c} : ncli'[d] = ncli[d]
      /\ ncli' \in [Cpu -> 0..2]
  BY <1>4, NcliType, Zenon
<1>7. CpuInv(c)'
  BY <1>0, <1>1, <1>2, <1>4, <1>5, Zenon DEF CpuInv, Pushed, Free
<1>8. ASSUME NEW q \in Proc PROVE ProcInv(q)'
  BY <1>4, Zenon DEF Inv, LockInv, ProcInv
<1>9. LockInv'
  <2>1. \A d \in Cpu \ {c} : ptable' = d <=> ptable = d
    BY <1>0, <1>4, ConsoleAssumption
  <2>2. \A d \in Cpu \ {c} : run[d] \in Proc => run[d] # run'[c]
    BY <1>0, <1>1, <1>4, Zenon
  <2> QED
    BY <1>4, <1>5, <1>7, <1>8, <2>1, <2>2, OneMoves, Zenon
<1>10. TypeOK'
  BY <1>4, <1>5, Zenon DEF Inv, TypeOK
<1> QED
  BY <1>4, <1>9, <1>10, Zenon DEF Inv, HandlerType, ThreadType

\* The scheduler takes ptable.lock.
LEMMA LookInv ==
  ASSUME NEW c \in Cpu, Look(c), Inv
  PROVE  Inv'
<1>0. run[c] = None /\ ptable = None /\ ncli[c] = 0 /\ Free(c)
  BY Zenon DEF Look
<1>1. CpuInv(c) /\ None \notin Proc /\ c # None /\ "" \notin InHandler
  BY ConsoleAssumption, Zenon DEF Inv, LockInv, InHandler, CtrlD, CtrlU,
      CtrlP, Backspace
<1>2. c \in flag /\ cons # c
  BY <1>0, <1>1, Zenon DEF CpuInv, Pushed, Free
<1>4. /\ flag' = flag \ {c} /\ intena' = intena \cup {c}
      /\ ncli' = [ncli EXCEPT ![c] = 1] /\ ptable' = c
      /\ UNCHANGED <<run, cons, r, w, e, pos, pc, op, state, trap, eflags,
                     saved, irq, dump, uart, script, panic>>
  <2>1. flag' = flag \ {c} /\ ncli' = [ncli EXCEPT ![c] = ncli[c] + 1]
    BY Zenon DEF Look, pushcli
  <2>2. ncli' = [ncli EXCEPT ![c] = 1]
    BY <1>0, <2>1
  <2>3. intena' = intena \cup {c}
    BY <1>0, <1>2, Zenon DEF Look, pushcli, With
  <2> QED
    BY <2>1, <2>2, <2>3, Zenon DEF Look, input, call, threads, handler, device
<1>5. /\ ncli'[c] = 1 /\ \A d \in Cpu \ {c} : ncli'[d] = ncli[d]
      /\ ncli' \in [Cpu -> 0..2]
  BY <1>4, NcliType, Zenon
<1>7. CpuInv(c)'
  BY <1>0, <1>1, <1>2, <1>4, <1>5, Zenon DEF CpuInv, Pushed, Free
<1>8. ASSUME NEW q \in Proc PROVE ProcInv(q)'
  BY <1>4, Zenon DEF Inv, LockInv, ProcInv
<1>9. LockInv'
  <2>1. \A d \in Cpu \ {c} : ptable' = d <=> ptable = d
    BY <1>0, <1>4, ConsoleAssumption, Zenon
  <2>2. \A d \in Cpu \ {c} : run[d] \in Proc => run[d] # run'[c]
    BY <1>0, <1>1, <1>4, Zenon
  <2> QED
    BY <1>4, <1>5, <1>7, <1>8, <2>1, <2>2, OneMoves, Zenon
<1>10. TypeOK'
  BY <1>4, <1>5, Zenon DEF Inv, TypeOK
<1> QED
  BY <1>4, <1>9, <1>10, Zenon DEF Inv, HandlerType, ThreadType

\* kill() wakes its victim up.
LEMMA KillInv ==
  ASSUME NEW p \in Proc, Kill(p), Inv
  PROVE  Inv'
<1>1. /\ state' = [state EXCEPT ![p] = IF state[p] = "SLEEPING" THEN "RUNNABLE"
                                       ELSE state[p]]
      /\ UNCHANGED <<flag, ncli, intena, run, cons, ptable, r, w, e, pos, pc,
                     op, trap, eflags, saved, irq, dump, uart, script, panic>>
  BY Zenon DEF Kill, cpus, input, call, handler, device
<1>2. \A q \in Proc : \/ state'[q] = state[q]
                      \/ state[q] = "SLEEPING" /\ state'[q] = "RUNNABLE"
  BY <1>1, Zenon DEF Inv, TypeOK
<1>3. ASSUME NEW c \in Cpu PROVE CpuInv(c)'
  <2>1. CpuInv(c) /\ (run[c] \in Proc => state'[run[c]] = state[run[c]])
    BY <1>2, Zenon DEF Inv, LockInv, CpuInv
  <2> QED
    BY <1>1, <2>1, CpuSame, Zenon
<1>4. ASSUME NEW q \in Proc PROVE ProcInv(q)'
  BY <1>1, <1>2, Zenon DEF Inv, LockInv, ProcInv
<1>5. LockInv'
  BY <1>1, <1>3, <1>4, Zenon DEF Inv, LockInv, OneCpu
<1>6. TypeOK'
  BY <1>1, Zenon DEF Inv, TypeOK, State
<1> QED
  BY <1>1, <1>5, <1>6, Zenon DEF Inv, HandlerType, ThreadType

\* The labels of the interrupt handler.
LEMMA Labels ==
  /\ InHandler \cap Dumping = {} /\ "" \notin InHandler \cup Dumping
  /\ "xchg" \notin InHandler \cup Dumping
BY SMTT(30) DEF InHandler, Dumping, CtrlD, CtrlU, CtrlP, Backspace

\* An interrupt is taken where interrupts are on, so that the boot CPU holds
\* and wants no lock.
LEMMA InterruptInv ==
  ASSUME NEW d \in {"uart", "kbd"}, Interrupt(d), Inv
  PROVE  Inv'
<1>0. BootCpu \in Cpu /\ BootCpu \in flag /\ irq = "" /\ CpuInv(BootCpu)
  BY ConsoleAssumption, Zenon DEF Interrupt, Inv, LockInv
<1>1. ncli[BootCpu] = 0 /\ ~ Pushed(BootCpu) /\ cons # BootCpu
  BY <1>0, Labels, Zenon DEF CpuInv, Free, Pushed, Locked, Unlocked
<1>2. /\ flag' = flag \ {BootCpu} /\ intena' \subseteq Cpu \ {BootCpu}
      /\ \A c \in Cpu \ {BootCpu} : c \in intena' <=> c \in intena
      /\ ncli' = [ncli EXCEPT ![BootCpu] = 1] /\ irq' = "xchg" /\ panic' = ""
      /\ UNCHANGED <<run, cons, ptable, r, w, e, pos, pc, op, state, eflags,
                     saved, trap, dump, uart, script>>
  <2>1. flag' = flag \ {BootCpu} /\ ncli' = [ncli EXCEPT ![BootCpu] = ncli[BootCpu] + 1]
    BY Zenon DEF Interrupt, pushcli
  <2>2. ncli' = [ncli EXCEPT ![BootCpu] = 1]
    BY <1>1, <2>1
  <2>3. /\ \A c \in Cpu \ {BootCpu} : c \in intena' <=> c \in intena
        /\ intena' \subseteq Cpu \ {BootCpu}
    BY <1>1, Zenon DEF Interrupt, pushcli, With, Inv, TypeOK
  <2> QED
    BY <1>1, <2>1, <2>2, <2>3, Zenon DEF Interrupt, input, call, threads, device
<1>3. /\ ncli'[BootCpu] = 1 /\ \A c \in Cpu \ {BootCpu} : ncli'[c] = ncli[c]
      /\ ncli' \in [Cpu -> 0..2]
  BY <1>0, <1>2, NcliType, Zenon
<1>4. CpuInv(BootCpu)'
  BY <1>0, <1>1, <1>2, <1>3, Labels, Zenon DEF CpuInv, Free, Pushed
<1>5. ASSUME NEW q \in Proc PROVE ProcInv(q)'
  BY <1>2, Zenon DEF Inv, LockInv, ProcInv
<1>6. ASSUME NEW c \in Cpu \ {BootCpu} PROVE CpuInv(c)'
  <2>1. CpuInv(c)
    BY Zenon DEF Inv, LockInv
  <2> QED
    BY <1>2, <1>3, <2>1, CpuSame, Zenon
<1>7. LockInv'
  BY <1>2, <1>4, <1>5, <1>6, Zenon DEF Inv, LockInv, OneCpu
<1>8. TypeOK'
  BY <1>2, <1>3, Zenon DEF Inv, TypeOK
<1> QED
  BY <1>2, <1>7, <1>8, Zenon DEF Inv, HandlerType, ThreadType

\* The handler gets cons.lock.
LEMMA IrqAcquireInv ==
  ASSUME IrqAcquire, Inv
  PROVE  Inv'
<1>0. BootCpu \in Cpu /\ BootCpu # None /\ irq = "xchg" /\ cons = None /\ CpuInv(BootCpu)
  BY ConsoleAssumption, Zenon DEF IrqAcquire, InIrq, Inv, LockInv
<1>2. /\ irq' = "getc" /\ cons' = BootCpu
      /\ UNCHANGED <<flag, ncli, intena, run, ptable, r, w, e, pos, pc, op,
                     state, eflags, saved, trap, dump, uart, script, panic>>
  BY DEF IrqAcquire, cpus, input, call, threads, device
<1>3. irq' \in InHandler
  BY <1>2, SMTT(30) DEF InHandler
<1>4. CpuInv(BootCpu)'
  BY <1>0, <1>2, <1>3, Labels, Zenon DEF CpuInv, Free, Pushed
<1>5. ASSUME NEW q \in Proc PROVE ProcInv(q)'
  BY <1>2, Zenon DEF Inv, LockInv, ProcInv
<1>6. ASSUME NEW c \in Cpu \ {BootCpu} PROVE CpuInv(c)'
  <2>1. CpuInv(c) /\ (cons' = c <=> cons = c)
    BY <1>0, <1>2, ConsoleAssumption, Zenon DEF Inv, LockInv
  <2> QED
    BY <1>2, <2>1, CpuSame
<1>7. LockInv'
  BY <1>2, <1>4, <1>5, <1>6, Zenon DEF Inv, LockInv, OneCpu
<1>8. TypeOK'
  BY <1>0, <1>2, Zenon DEF Inv, TypeOK
<1> QED
  BY <1>2, <1>3, <1>7, <1>8, Zenon DEF Inv, HandlerType, ThreadType

\* The handler releases cons.lock and returns from the trap, or goes on to
\* procdump() with interrupts off and ncli 0.
LEMMA IrqReleaseInv ==
  ASSUME IrqRelease, Inv
  PROVE  Inv'
<1>0. BootCpu \in Cpu /\ BootCpu # None /\ irq = "release" /\ CpuInv(BootCpu)
  BY ConsoleAssumption, Zenon DEF IrqRelease, InIrq, Inv, LockInv
<1>1. /\ irq \in InHandler /\ cons = BootCpu /\ ncli[BootCpu] = 1
      /\ BootCpu \notin flag \cup intena /\ ~ Pushed(BootCpu)
  <2>1. irq \in InHandler
    BY <1>0 DEF InHandler
  <2> QED
    BY <1>0, <2>1, Labels, Zenon DEF CpuInv, Free
<1>2. /\ irq' = (IF dump THEN "procdump" ELSE "") /\ cons' = None /\ panic' = ""
      /\ ncli' = [ncli EXCEPT ![BootCpu] = 0]
      /\ UNCHANGED <<intena, run, ptable, r, w, e, pos, pc, op, state, eflags,
                     saved, trap, dump, uart, script>>
  <2>1. ~ releasePanics(BootCpu)
    BY <1>1 DEF releasePanics
  <2>2. ncli' = [ncli EXCEPT ![BootCpu] = ncli[BootCpu] - 1]
    BY Zenon DEF IrqRelease, popcli
  <2>3. ncli' = [ncli EXCEPT ![BootCpu] = 0]
    BY <1>1, <2>2
  <2> QED
    BY <2>1, <2>3, Zenon DEF IrqRelease, input, call, threads, device
<1>3. flag' = IF dump THEN flag ELSE flag \cup {BootCpu}
  BY <1>1, <1>2, Zenon DEF IrqRelease, popcli, With
<1>4. /\ ncli'[BootCpu] = 0 /\ \A c \in Cpu \ {BootCpu} : ncli'[c] = ncli[c]
      /\ ncli' \in [Cpu -> 0..2]
  BY <1>0, <1>2, NcliType, Zenon
<1>5. CpuInv(BootCpu)'
  <2>1. "procdump" \in Dumping /\ Locked \cap Unlocked = {}
    BY SMTT(30) DEF Dumping, Locked, Unlocked
  <2>2. CASE dump
    <3>1. irq' = "procdump" /\ flag' = flag
      BY <1>2, <1>3, <2>2, Zenon
    <3> QED
      BY <1>0, <1>1, <1>2, <1>4, <2>1, <3>1, Labels, Zenon DEF CpuInv, Free,
          Pushed
  <2>3. CASE ~ dump
    <3>1. irq' = "" /\ flag' = flag \cup {BootCpu}
      BY <1>2, <1>3, <2>3, Zenon
    <3> QED
      BY <1>0, <1>1, <1>2, <1>4, <2>1, <3>1, Labels, Zenon DEF CpuInv, Free,
          Pushed
  <2> QED
    BY <2>2, <2>3
<1>6. ASSUME NEW q \in Proc PROVE ProcInv(q)'
  BY <1>2, Zenon DEF Inv, LockInv, ProcInv
<1>7. ASSUME NEW c \in Cpu \ {BootCpu} PROVE CpuInv(c)'
  <2>1. CpuInv(c) /\ (cons' = c <=> cons = c) /\ (c \in flag' <=> c \in flag)
    BY <1>1, <1>2, <1>3, ConsoleAssumption, Zenon DEF Inv, LockInv
  <2> QED
    BY <1>2, <1>4, <2>1, CpuSame, Zenon
<1>8. LockInv'
  BY <1>2, <1>5, <1>6, <1>7, Zenon DEF Inv, LockInv, OneCpu
<1>9. TypeOK'
  <2>1. flag' \subseteq Cpu
    BY <1>0, <1>3, Zenon DEF Inv, TypeOK
  <2> QED
    BY <1>2, <1>4, <2>1, Zenon DEF Inv, TypeOK
<1>10. HandlerType'
  BY <1>2, Zenon DEF Inv, HandlerType, Dumping
<1> QED
  BY <1>2, <1>8, <1>9, <1>10, Zenon DEF Inv, ThreadType

\* The end of procdump() and the return from the trap.
LEMMA IrqDumpedInv ==
  ASSUME IrqDumped, Inv
  PROVE  Inv'
<1>0. BootCpu \in Cpu /\ BootCpu # None /\ irq = "newline" /\ CpuInv(BootCpu)
  BY ConsoleAssumption, Zenon DEF IrqDumped, InIrq, Inv, LockInv
<1>1. ncli[BootCpu] = 0 /\ ~ Pushed(BootCpu) /\ irq \notin InHandler
  <2>1. irq \in Dumping
    BY <1>0 DEF Dumping
  <2> QED
    BY <1>0, <2>1, Labels, Zenon DEF CpuInv, Free
<1>2. /\ irq' = "" /\ dump' = FALSE /\ flag' = flag \cup {BootCpu}
      /\ UNCHANGED <<ncli, intena, run, cons, ptable, r, w, e, pc, op, state,
                     eflags, saved, trap, uart, script>>
  BY Zenon DEF IrqDumped, input, call, threads, device
<1>3. pos' \in 0..((Rows - 1) * Cols - 1) /\ panic' = ""
  BY Cursor, Zenon DEF IrqDumped, cprintf, consputc, Inv, HandlerType
<1>4. CpuInv(BootCpu)'
  BY <1>0, <1>1, <1>2, Labels, Zenon DEF CpuInv, Free, Pushed
<1>5. ASSUME NEW q \in Proc PROVE ProcInv(q)'
  BY <1>2, Zenon DEF Inv, LockInv, ProcInv
<1>6. ASSUME NEW c \in Cpu \ {BootCpu} PROVE CpuInv(c)'
  <2>1. CpuInv(c)
    BY Zenon DEF Inv, LockInv
  <2> QED
    BY <1>2, <2>1, CpuSame, Zenon
<1>7. LockInv'
  BY <1>2, <1>4, <1>5, <1>6, Zenon DEF Inv, LockInv, OneCpu
<1>8. TypeOK'
  BY <1>0, <1>2, Zenon DEF Inv, TypeOK
<1>9. HandlerType'
  BY <1>2, <1>3, Zenon DEF Inv, HandlerType
<1> QED
  BY <1>2, <1>3, <1>7, <1>8, <1>9, Zenon DEF Inv, ThreadType

\* procdump() prints.
LEMMA IrqProcdumpInv ==
  ASSUME IrqProcdump, Inv
  PROVE  Inv'
<1>1. /\ irq \in Dumping /\ irq' \in Dumping
      /\ UNCHANGED <<flag, ncli, intena, run, cons, ptable, r, w, e, pc, op,
                     state, eflags, saved, trap, uart, script, dump>>
  BY Zenon DEF IrqProcdump, InIrq, Dumping, cpus, input, call, threads, device
<1>2. pos' \in 0..((Rows - 1) * Cols - 1) /\ panic' = ""
  BY Cursor, Zenon DEF IrqProcdump, cprintf, consputc, Inv, HandlerType
<1>3. LockInv'
  BY <1>1, HandlerGoesOn, SMTT(30)
<1>4. TypeOK'
  BY <1>1, Zenon DEF Inv, TypeOK
<1> QED
  BY <1>1, <1>2, <1>3, <1>4, Zenon DEF Inv, HandlerType, ThreadType

\* ^P is noted.
LEMMA IrqDumpInv ==
  ASSUME IrqDump, Inv
  PROVE  Inv'
<1>1. /\ irq \in InHandler /\ irq' \in InHandler /\ dump' = TRUE
      /\ UNCHANGED <<flag, ncli, intena, run, cons, ptable, r, w, e, pos, pc,
                     op, state, eflags, saved, trap, uart, script, panic>>
  BY Zenon DEF IrqDump, InIrq, InHandler, cpus, input, call, threads, device
<1>3. LockInv'
  BY <1>1, HandlerGoesOn, SMTT(30)
<1>4. TypeOK'
  BY <1>1, Zenon DEF Inv, TypeOK
<1> QED
  BY <1>1, <1>3, <1>4, Zenon DEF Inv, HandlerType, ThreadType

\* The handler gets a character, or a code that is none.
LEMMA IrqGetcInv ==
  ASSUME IrqGetc, Inv
  PROVE  Inv'
<1>1. /\ irq = "getc"
      /\ UNCHANGED <<flag, ncli, intena, run, cons, ptable, r, w, e, pos, pc,
                     op, state, eflags, saved, trap, dump, script, panic>>
  BY Zenon DEF IrqGetc, InIrq, cpus, input, call, threads
<1>2. /\ irq' \in InHandler
      /\ uart' \in {"a", "cr", CtrlD, CtrlU, CtrlP, Backspace, None}
  <2>1. uart \in {"a", "cr", CtrlD, CtrlU, CtrlP, Backspace, None}
    BY Zenon DEF Inv, HandlerType
  <2>2. \A x : kbdgetc(x).c \in {"", "d", CtrlD}
    BY DEF kbdgetc
  <2>3. CASE dev = "uart"
    BY <2>1, <2>3 DEF IrqGetc, InHandler
  <2>4. CASE dev # "uart"
    BY <2>1, <2>2, <2>4, Zenon DEF IrqGetc, InHandler
  <2> QED
    BY <2>3, <2>4
<1>3. LockInv'
  BY <1>1, <1>2, HandlerGoesOn DEF InHandler
<1>4. TypeOK'
  BY <1>1, Zenon DEF Inv, TypeOK
<1> QED
  BY <1>1, <1>2, <1>3, <1>4, Zenon DEF Inv, HandlerType, ThreadType

\* Backspace and ^U.
LEMMA IrqEraseInv ==
  ASSUME IrqErase, Inv
  PROVE  Inv'
<1>1. /\ irq \in InHandler /\ irq' \in InHandler
      /\ UNCHANGED <<flag, ncli, intena, run, cons, ptable, r, w, pc, op,
                     state, eflags, saved, trap, dump, uart, script>>
  BY Zenon DEF IrqErase, InHandler, cpus, call, threads, device
<1>2. pos' \in 0..((Rows - 1) * Cols - 1) /\ panic' = ""
  BY Cursor, Zenon DEF IrqErase, consputc, Inv, HandlerType
<1>3. e' \in 0..(Modulus - 1)
  BY Index, Zenon DEF IrqErase, Inv, TypeOK
<1>4. LockInv'
  BY <1>1, HandlerGoesOn
<1>5. TypeOK'
  BY <1>1, <1>3, Zenon DEF Inv, TypeOK
<1> QED
  BY <1>1, <1>2, <1>4, <1>5, Zenon DEF Inv, HandlerType, ThreadType

\* Any other character; the readers may be woken.
LEMMA IrqCharInv ==
  ASSUME IrqChar, Inv
  PROVE  Inv'
<1>1. /\ irq \in InHandler /\ irq' \in InHandler
      /\ UNCHANGED <<flag, ncli, intena, run, cons, ptable, r, pc, op, eflags,
                     saved, trap, dump, uart, script>>
  BY Zenon DEF IrqChar, InHandler, cpus, call, device
<1>2. pos' \in 0..((Rows - 1) * Cols - 1) /\ panic' = ""
  BY Cursor, Zenon DEF IrqChar, consputc, Inv, HandlerType
<1>3. e' \in 0..(Modulus - 1) /\ w' \in 0..(Modulus - 1)
  <2>1. e' \in {e, (e + 1) % Modulus} /\ w' \in {w, e'}
    BY Zenon DEF IrqChar
  <2> QED
    BY <2>1, Index, Zenon DEF Inv, TypeOK
<1>4. /\ state' \in [Proc -> State]
      /\ \A p \in Proc : \/ state'[p] = state[p]
                         \/ state[p] = "SLEEPING" /\ state'[p] = "RUNNABLE"
  <2>1. state' \in {state, Wakeup}
    BY Zenon DEF IrqChar
  <2> QED
    BY <2>1, Zenon DEF Wakeup, Inv, TypeOK, State
<1>5. LockInv'
  BY <1>1, <1>4, HandlerGoesOn
<1>6. TypeOK'
  BY <1>1, <1>3, <1>4, Zenon DEF Inv, TypeOK
<1> QED
  BY <1>1, <1>2, <1>5, <1>6, Zenon DEF Inv, HandlerType, ThreadType

\* A character or a key is typed.
LEMMA TypeInv ==
  ASSUME Type, Inv
  PROVE  Inv'
<1>1. UNCHANGED <<flag, ncli, intena, run, cons, ptable, r, w, e, pos, pc, op,
                  state, eflags, saved, trap, irq, dump, panic>>
  BY Zenon DEF Type, cpus, input, call, threads, handler
<1>2. script' \in Seq(Typed) /\ uart' \in {"a", "cr", CtrlD, CtrlU, CtrlP, Backspace, None}
  <2>1. /\ script \in Seq(Typed) /\ script # <<>>
        /\ uart \in {"a", "cr", CtrlD, CtrlU, CtrlP, Backspace, None}
    BY Zenon DEF Type, Inv, HandlerType
  <2>2. Head(script) \in Typed /\ Tail(script) \in Seq(Typed)
    BY <2>1
  <2>3. Head(script)[1] = "uart" =>
          Head(script)[2] \in {"a", "cr", CtrlD, CtrlU, CtrlP, Backspace}
    BY <2>2, SMTT(30) DEF Typed
  <2> QED
    BY <2>1, <2>2, <2>3, Zenon DEF Type
<1>3. LockInv'
  <2>1. \A c \in Cpu : CpuInv(c)'
    BY <1>1, Zenon DEF Inv, LockInv, CpuInv, Free, Pushed
  <2>2. \A p \in Proc : ProcInv(p)'
    BY <1>1, Zenon DEF Inv, LockInv, ProcInv
  <2> QED
    BY <1>1, <2>1, <2>2, Zenon DEF Inv, LockInv, OneCpu
<1>4. TypeOK'
  BY <1>1, Zenon DEF Inv, TypeOK
<1> QED
  BY <1>1, <1>2, <1>3, <1>4, Zenon DEF Inv, HandlerType, ThreadType

\* The invariant holds when the system starts.
LEMMA InitInv ==
  ASSUME Init
  PROVE  Inv
<1>1. TypeOK
  <2>1. 0 \in 0..(Modulus - 1) /\ 0 \in 0..2
    BY ConsoleAssumption, SMTT(30)
  <2> QED
    BY <2>1, Zenon DEF Init, TypeOK, State
<1>2. ThreadType
  BY Zenon DEF Init, ThreadType, Unlocked
<1>3. HandlerType
  <2>1. Cols \in Nat /\ Cols > 0 /\ Rows \in Nat /\ Rows > 1
    BY ConsoleAssumption
  <2>2. (Rows - 1) * Cols \in Nat /\ (Rows - 1) * Cols >= Cols
    BY <2>1
  <2> DEFINE top == (Rows - 1) * Cols
  <2> HIDE DEF top
  <2>5. top \in Nat /\ top > 0
    BY <2>1, <2>2 DEF top
  <2>6. 0 \in 0..(top - 1)
    BY <2>5, SMTT(30)
  <2>4. pos \in 0..((Rows - 1) * Cols - 1)
    BY <2>6, Zenon DEF Init, top
  <2>3. script \in Seq(Typed)
    BY ConsoleAssumption, Zenon DEF Init
  <2> QED
    BY <2>3, <2>4, Zenon DEF Init, HandlerType
<1>4. \A c \in Cpu : CpuInv(c)
  BY ConsoleAssumption, Labels, Zenon DEF Init, CpuInv, Free, Pushed
<1>5. \A p \in Proc : ProcInv(p)
  BY Zenon DEF Init, ProcInv, Unlocked
<1>6. OneCpu
  BY Zenon DEF Init, OneCpu
<1>7. panic = ""
  BY Zenon DEF Init
<1> QED
  BY <1>1, <1>2, <1>3, <1>4, <1>5, <1>6, <1>7, Zenon DEF Inv, LockInv

\* Every step keeps the invariant.
LEMMA NextInv ==
  ASSUME Inv, [Next]_vars
  PROVE  Inv'
<1>1. ASSUME NEW p \in Proc, NEW c \in Cpu, Kernel(p, c) PROVE Inv'
  BY <1>1, PushcliInv, AcquireInv, ReadCharInv, ReadEmptyInv, SleepInv,
     WokenInv, WriteCharInv, ReleaseInv, ExitInv DEF Kernel
<1>2. ASSUME NEW p \in Proc, NEW c \in Cpu,
             SysCall(p, c) \/ Tick(p, c) \/ Dispatch(p, c)
      PROVE  Inv'
  BY <1>2, SysCallInv, TickInv, DispatchInv
<1>3. CASE Handler
  BY SMTT(30), <1>3, IrqAcquireInv, IrqGetcInv, IrqDumpInv, IrqEraseInv,
      IrqCharInv,
     IrqReleaseInv, IrqProcdumpInv, IrqDumpedInv DEF Handler
<1>4. CASE UNCHANGED vars
  <2>1. UNCHANGED <<flag, ncli, intena, run, cons, ptable, r, w, e, pos, pc,
                    op, state, eflags, saved, trap, irq, dump, uart, script,
                    panic>>
    BY <1>4, SMTT(30) DEF vars, cpus, input, call, threads, handler, device
  <2>2. \A c \in Cpu : CpuInv(c)'
    BY <2>1, Zenon DEF Inv, LockInv, CpuInv, Free, Pushed
  <2>3. \A p \in Proc : ProcInv(p)'
    BY <2>1, Zenon DEF Inv, LockInv, ProcInv
  <2>4. LockInv'
    BY <2>1, <2>2, <2>3, Zenon DEF Inv, LockInv, OneCpu
  <2>5. TypeOK'
    BY <2>1, Zenon DEF Inv, TypeOK
  <2> QED
    BY <2>1, <2>4, <2>5, Zenon DEF Inv, HandlerType, ThreadType
<1> QED
  BY <1>1, <1>2, <1>3, <1>4, IdleInv, LookInv, KillInv, InterruptInv, TypeInv,
      Zenon
     DEF Next

\* The invariant implies that interrupts and locks match.
LEMMA InvMatch ==
  ASSUME Inv
  PROVE  InterruptsMatch
<1>1. ASSUME NEW c \in Cpu
      PROVE  /\ ncli[c] > 0 => c \notin flag
             /\ cons = c \/ ptable = c => ncli[c] > 0
  <2>1. CpuInv(c) /\ Locked \cap Unlocked = {}
    BY Zenon DEF Inv, LockInv, Locked, Unlocked
  <2>2. cons = c => Pushed(c) \/ (~ Free(c) /\ irq \notin Dumping)
    BY <2>1, Labels, Zenon DEF CpuInv, Pushed, Free
  <2>3. ptable = c => Pushed(c)
    BY SMTT(30) DEF Pushed
  <2>4. Pushed(c) => Free(c)
    BY <2>1, Zenon DEF CpuInv
  <2>5. /\ Pushed(c) => c \notin flag /\ ncli[c] = 1
        /\ ~ Free(c) => c \notin flag
        /\ ~ Free(c) /\ irq \notin Dumping => ncli[c] = 1
        /\ Free(c) /\ ~ Pushed(c) => ncli[c] = 0
    BY <2>1, <2>4, Zenon DEF CpuInv
  <2>6. 1 > 0 /\ ~ (0 > 0)
    OBVIOUS
  <2> HIDE DEF Pushed, Free
  <2> QED
    BY <2>2, <2>3, <2>4, <2>5, <2>6, Zenon
<1>2. ASSUME NEW c \in Cpu, NEW p \in Proc, At(p, c, "user")
      PROVE  c \in flag /\ ncli[c] = 0
  BY <1>2, Running, Zenon DEF At, Unlocked
<1> QED
  BY <1>1, <1>2, Zenon DEF InterruptsMatch, Inv

-----------------------------------------------------------------------------
(* Arithmetic of the indexes. *)

\* Division with remainder, as the provers know it.
LEMMA ModDef ==
  ASSUME NEW m \in Nat, m > 0, NEW x \in Int
  PROVE  /\ x = m * (x \div m) + (x % m)
         /\ x % m \in 0..(m - 1)
         /\ x \div m \in Int
OBVIOUS

\* The remainder is determined by its range.
LEMMA ModUnique ==
  ASSUME NEW m \in Nat, m > 0, NEW a \in Int, NEW b \in Int, 0 <= b, b < m
  PROVE  (m * a + b) % m = b
OBVIOUS

\* One turn in either direction is taken off or put on.
LEMMA ModSmall ==
  ASSUME NEW m \in Nat, m > 0, NEW x \in Int
  PROVE  /\ 0 <= x /\ x < m => x % m = x
         /\ m <= x /\ x < 2 * m => x % m = x - m
         /\ -m <= x /\ x < 0 => x % m = x + m
OBVIOUS

\* Fewer than m consecutive numbers have different remainders.
LEMMA ModDistinct ==
  ASSUME NEW m \in Nat, m > 0, NEW x \in Int, NEW y \in Int, x < y, y < x + m
  PROVE  x % m # y % m
<1> SUFFICES ASSUME x % m = y % m PROVE FALSE
  OBVIOUS
<1>1. PICK a \in Int, b \in Int : x = m * a + (x % m) /\ y = m * b + (y % m)
  BY ModDef, Zenon
<1>2. /\ b - a >= 1 => m * (b - a) >= m
      /\ b - a <= 0 => m * (b - a) <= 0
  OBVIOUS
<1>3. m * (b - a) = y - x
  BY <1>1
<1> QED
  BY <1>2, <1>3

\* The sizes of the buffer and of its indexes.
LEMMA BufferSizes ==
  /\ INPUT_BUF \in Nat /\ INPUT_BUF > 0
  /\ Modulus \in Nat /\ Modulus > 0 /\ Modulus > INPUT_BUF
  /\ Modulus % INPUT_BUF = 0
BY ConsoleAssumption

\* An index that wraps names the same place of the buffer, whose size divides
\* the modulus of the indexes.
LEMMA Place ==
  ASSUME NEW x \in Int
  PROVE  (x % Modulus) % INPUT_BUF = x % INPUT_BUF
<1>1. PICK a \in Int : Modulus = INPUT_BUF * a
  <2>1. Modulus = INPUT_BUF * (Modulus \div INPUT_BUF) + (Modulus % INPUT_BUF)
    BY BufferSizes, ModDef
  <2> QED
    BY <2>1, BufferSizes, ModDef
<1>2. PICK b \in Int : x = Modulus * b + (x % Modulus)
  BY BufferSizes, ModDef, Zenon
<1> DEFINE y == x % Modulus
<1>3. y \in Int
  BY BufferSizes, ModDef
<1>4. PICK d \in Int : y = INPUT_BUF * d + (y % INPUT_BUF)
  BY <1>3, BufferSizes, ModDef, Zenon
<1>5. y % INPUT_BUF \in Int /\ 0 <= y % INPUT_BUF /\ y % INPUT_BUF < INPUT_BUF
  BY <1>3, BufferSizes, ModDef
<1> DEFINE z == y % INPUT_BUF
<1> HIDE DEF y, z
<1>6. x = INPUT_BUF * (a * b + d) + z
  <2>1. x = (INPUT_BUF * a) * b + (INPUT_BUF * d + z)
    BY <1>1, <1>2, <1>4 DEF y, z
  <2>2. z \in Int
    BY <1>5 DEF z
  <2> QED
    BY <2>1, <2>2, BufferSizes
<1>7. (INPUT_BUF * (a * b + d) + z) % INPUT_BUF = z
  <2>1. a * b + d \in Int
    OBVIOUS
  <2> QED
    BY <1>5, <2>1, BufferSizes, ModUnique DEF z
<1> QED
  BY <1>6, <1>7 DEF y, z

\* A whole turn does not matter.
LEMMA ModTurn ==
  ASSUME NEW m \in Nat, m > 0, NEW x \in Int
  PROVE  (x + m) % m = x % m /\ (x - m) % m = x % m
<1>1. PICK a \in Int : x = m * a + (x % m)
  BY ModDef
<1>2. x % m \in Int /\ 0 <= x % m /\ x % m < m
  BY ModDef
<1>3. x + m = m * (a + 1) + (x % m) /\ x - m = m * (a - 1) + (x % m)
  BY <1>1, <1>2
<1>4. (m * (a + 1) + (x % m)) % m = x % m /\ (m * (a - 1) + (x % m)) % m = x % m
  BY <1>2, ModUnique, a + 1 \in Int, a - 1 \in Int
<1> QED
  BY <1>3, <1>4, Zenon

\* How far index a is ahead of index b.
LEMMA Away ==
  ASSUME NEW a \in 0..(Modulus - 1), NEW b \in 0..(Modulus - 1)
  PROVE  /\ (a - b) % Modulus \in 0..(Modulus - 1)
         /\ b <= a => (a - b) % Modulus = a - b
         /\ a < b => (a - b) % Modulus = a - b + Modulus
<1>1. a \in Int /\ b \in Int /\ a - b \in Int /\ -Modulus <= a - b /\ a - b < Modulus
  BY BufferSizes
<1> QED
  BY <1>1, ModSmall, BufferSizes

\* The index after a.
LEMMA After ==
  ASSUME NEW a \in 0..(Modulus - 1)
  PROVE  /\ (a + 1) % Modulus \in 0..(Modulus - 1)
         /\ a + 1 < Modulus => (a + 1) % Modulus = a + 1
         /\ a + 1 = Modulus => (a + 1) % Modulus = 0
         /\ Dec(a) \in 0..(Modulus - 1)
         /\ a > 0 => Dec(a) = a - 1
         /\ a = 0 => Dec(a) = Modulus - 1
<1>1. /\ a + 1 \in Int /\ 0 <= a + 1 /\ a + 1 <= Modulus
      /\ a + Modulus - 1 \in Int /\ 0 <= a + Modulus - 1 /\ a + Modulus - 1 < 2 * Modulus
  BY BufferSizes
<1> QED
  BY <1>1, ModSmall, BufferSizes DEF Dec

\* Where index a is, counted from b: the way back from how far it is ahead.
LEMMA Back ==
  ASSUME NEW a \in 0..(Modulus - 1), NEW b \in 0..(Modulus - 1), NEW j \in Int
  PROVE  (b + ((a - b) % Modulus) + j) % Modulus = (a + j) % Modulus
<1>0. a \in Int /\ b \in Int
  BY BufferSizes
<1>1. (a - b) % Modulus = a - b \/ (a - b) % Modulus = a - b + Modulus
  BY <1>0, Away
<1>2. CASE (a - b) % Modulus = a - b
  <2>1. b + (a - b) + j = a + j
    BY <1>0, BufferSizes
  <2> QED
    BY <1>2, <2>1
<1>3. CASE (a - b) % Modulus = a - b + Modulus
  <2>1. b + (a - b + Modulus) + j = (a + j) + Modulus /\ a + j \in Int
    BY <1>0, BufferSizes
  <2> QED
    BY <1>3, <2>1, ModTurn, BufferSizes, Zenon
<1> QED
  BY <1>1, <1>2, <1>3

\* How far ahead an index is when it, or the one it is counted from, moves.
LEMMA Ahead ==
  ASSUME NEW a \in 0..(Modulus - 1), NEW b \in 0..(Modulus - 1)
  PROVE  /\ (a - b) % Modulus \in Nat
         /\ a # b <=> (a - b) % Modulus >= 1
         /\ a # b => (a - ((b + 1) % Modulus)) % Modulus = ((a - b) % Modulus) - 1
         /\ a # b => (Dec(a) - b) % Modulus = ((a - b) % Modulus) - 1
         /\ (a - b) % Modulus < Modulus - 1 =>
              (((a + 1) % Modulus) - b) % Modulus = ((a - b) % Modulus) + 1
<1> DEFINE d == (a - b) % Modulus
           b1 == (b + 1) % Modulus
           a1 == (a + 1) % Modulus
           ad == Dec(a)
<1>0. a \in Int /\ b \in Int /\ Modulus \in Int /\ Modulus > 0
      /\ 0 <= a /\ a < Modulus /\ 0 <= b /\ b < Modulus
  BY BufferSizes
<1>1. /\ d \in 0..(Modulus - 1)
      /\ b <= a => d = a - b
      /\ a < b => d = a - b + Modulus
  BY Away
<1>2. /\ b1 \in 0..(Modulus - 1) /\ a1 \in 0..(Modulus - 1) /\ ad \in 0..(Modulus - 1)
      /\ b + 1 < Modulus => b1 = b + 1
      /\ b + 1 = Modulus => b1 = 0
      /\ a + 1 < Modulus => a1 = a + 1
      /\ a + 1 = Modulus => a1 = 0
      /\ a > 0 => ad = a - 1
      /\ a = 0 => ad = Modulus - 1
  BY After
<1>3. /\ b1 <= a => (a - b1) % Modulus = a - b1
      /\ a < b1 => (a - b1) % Modulus = a - b1 + Modulus
  BY <1>2, Away, Zenon
<1>4. /\ b <= ad => (ad - b) % Modulus = ad - b
      /\ ad < b => (ad - b) % Modulus = ad - b + Modulus
  BY <1>2, Away, Zenon
<1>5. /\ b <= a1 => (a1 - b) % Modulus = a1 - b
      /\ a1 < b => (a1 - b) % Modulus = a1 - b + Modulus
  BY <1>2, Away, Zenon
<1> HIDE DEF d, b1, a1, ad
<1>6. d \in Nat /\ (a # b <=> d >= 1)
  BY <1>0, <1>1
<1>7. a # b => (a - b1) % Modulus = d - 1
  BY <1>0, <1>1, <1>2, <1>3
<1>8. a # b => (ad - b) % Modulus = d - 1
  BY <1>0, <1>1, <1>2, <1>4
<1>9. d < Modulus - 1 => (a1 - b) % Modulus = d + 1
  BY <1>0, <1>1, <1>2, <1>5
<1> QED
  BY <1>6, <1>7, <1>8, <1>9 DEF d, b1, a1, ad

\* The index after b, and one less.
LEMMA Again ==
  ASSUME NEW b \in 0..(Modulus - 1), NEW j \in Int
  PROVE  (((b + 1) % Modulus) + j - 1) % Modulus = (b + j) % Modulus
<1>0. b \in Int /\ Modulus \in Nat /\ Modulus > 0
  BY BufferSizes
<1>1. CASE b + 1 < Modulus
  <2>1. (b + 1) % Modulus = b + 1
    BY <1>1, After
  <2>2. (b + 1) + j - 1 = b + j
    BY <1>0
  <2> QED
    BY <2>1, <2>2
<1>2. CASE b + 1 = Modulus
  <2>1. (b + 1) % Modulus = 0
    BY <1>2, After
  <2>2. 0 + j - 1 = (b + j) - Modulus /\ b + j \in Int
    BY <1>0, <1>2
  <2>3. ((b + j) - Modulus) % Modulus = (b + j) % Modulus
    BY <1>0, <2>2, ModTurn
  <2> QED
    BY <2>1, <2>2, <2>3
<1> QED
  BY <1>0, <1>1, <1>2

-----------------------------------------------------------------------------
(* The input buffer. *)

\* A step that leaves the buffer alone, and takes no process that has read a
\* whole line back to reading.
LEMMA InputSame ==
  ASSUME InputInv, UNCHANGED <<buf, r, w, e, line, got>>,
         \A p \in Proc : \/ pc'[p] = pc[p] \/ pc'[p] \in {"release", "user"}
                         \/ pc[p] \notin {"release", "user"}
  PROVE  InputInv'
BY Zenon DEF InputInv, BufferHoldsLine

\* A new read() or write() has nothing yet.
LEMMA SysCallInput ==
  ASSUME NEW p \in Proc, NEW c \in Cpu, SysCall(p, c), Inv, InputInv
  PROVE  InputInv'
<1>1. /\ got' = [got EXCEPT ![p] = <<>>] /\ pc' = [pc EXCEPT ![p] = "pushcli"]
      /\ UNCHANGED <<buf, r, w, e, line>>
  BY DEF SysCall, Goto, input
<1>2. /\ got' \in [Proc -> Seq(Char)] /\ got'[p] = <<>> /\ Len(got'[p]) = 0
      /\ \A q \in Proc \ {p} : got'[q] = got[q] /\ pc'[q] = pc[q]
  <2>1. got \in [Proc -> Seq(Char)] /\ <<>> \in Seq(Char)
    BY DEF InputInv
  <2>2. \A q \in Proc \ {p} : pc'[q] = pc[q]
    BY <1>1, Zenon DEF Inv, ThreadType
  <2> QED
    BY <1>1, <2>1, <2>2
<1>3. BufferHoldsLine'
  BY <1>1, <1>2 DEF InputInv, BufferHoldsLine
<1>4. ASSUME NEW q \in Proc, pc'[q] \notin {"release", "user"}
      PROVE  \A k \in 1..Len(got'[q]) : got'[q][k] # Newline
  <2>1. CASE q = p
    BY <1>2, <2>1
  <2>2. CASE q # p
    BY <1>2, <1>4, <2>2, Zenon DEF InputInv
  <2> QED
    BY <2>1, <2>2, Zenon
<1> QED
  BY <1>1, <1>2, <1>3, <1>4, Zenon DEF InputInv

\* consoleread() takes the first character of the committed line.
LEMMA ReadCharInput ==
  ASSUME NEW p \in Proc, NEW c \in Cpu, ReadChar(p, c), Inv, InputInv
  PROVE  InputInv'
<1> DEFINE ch == buf[r % INPUT_BUF]
           keep == IsEof(ch) /\ got[p] # <<>>
           D(k) == (k - r) % Modulus
<1>0. /\ r \in 0..(Modulus - 1) /\ w \in 0..(Modulus - 1) /\ e \in 0..(Modulus - 1)
      /\ buf \in [0..(INPUT_BUF - 1) -> Char] /\ line \in Seq(Char)
      /\ got \in [Proc -> Seq(Char)] /\ pc[p] = "read" /\ r # w
  BY Zenon DEF Inv, TypeOK, InputInv, ReadChar, At
<1>1. /\ D(w) <= D(e) /\ D(e) <= INPUT_BUF /\ Len(line) = D(w)
      /\ \A k \in 1..Len(line) : line[k] = buf[((r + k - 1) % Modulus) % INPUT_BUF]
  BY Zenon DEF InputInv, BufferHoldsLine
<1>2. /\ r' = IF keep THEN r ELSE (r + 1) % Modulus
      /\ line' = IF keep THEN line ELSE Tail(line)
      /\ got' = IF IsEof(ch) THEN got ELSE [got EXCEPT ![p] = Append(got[p], ch)]
      /\ pc' = [pc EXCEPT ![p] = IF IsEof(ch) \/ ch = Newline \/ n[p] = 1
                                 THEN "release" ELSE "read"]
      /\ UNCHANGED <<buf, w, e>>
  BY DEF ReadChar, Goto
<1>3. ch \in Char
  <2>1. r \in Int /\ r % INPUT_BUF \in 0..(INPUT_BUF - 1)
    BY <1>0, BufferSizes, ModDef
  <2> QED
    BY <1>0, <2>1
<1> HIDE DEF ch
<1>4. /\ \A k \in 1..Len(got[p]) : got[p][k] # CtrlD /\ got[p][k] # Newline
      /\ \A q \in Proc \ {p} : got'[q] = got[q] /\ pc'[q] = pc[q]
      /\ got' \in [Proc -> Seq(Char)]
      /\ got'[p] = IF IsEof(ch) THEN got[p] ELSE Append(got[p], ch)
      /\ pc'[p] = IF IsEof(ch) \/ ch = Newline \/ n[p] = 1 THEN "release" ELSE "read"
  <2>1. \A k \in 1..Len(got[p]) : got[p][k] # CtrlD /\ got[p][k] # Newline
    <3>1. \A k \in 1..Len(got[p]) : got[p][k] # CtrlD
      BY Zenon DEF InputInv, BufferHoldsLine
    <3>2. pc[p] \notin {"release", "user"}
      BY <1>0
    <3>3. \A k \in 1..Len(got[p]) : got[p][k] # Newline
      BY <3>2, Zenon DEF InputInv
    <3> QED
      BY <3>1, <3>3, Zenon
  <2>2. got[p] \in Seq(Char) /\ Append(got[p], ch) \in Seq(Char)
    BY <1>0, <1>3
  <2>3. /\ got' \in [Proc -> Seq(Char)] /\ \A q \in Proc \ {p} : got'[q] = got[q]
        /\ got'[p] = IF IsEof(ch) THEN got[p] ELSE Append(got[p], ch)
    BY <1>0, <1>2, <2>2
  <2>4. /\ \A q \in Proc \ {p} : pc'[q] = pc[q]
        /\ pc'[p] = IF IsEof(ch) \/ ch = Newline \/ n[p] = 1 THEN "release" ELSE "read"
    BY <1>2, Zenon DEF Inv, ThreadType
  <2> QED
    BY <2>1, <2>3, <2>4
<1>5. ASSUME NEW q \in Proc, NEW k \in 1..Len(got'[q])
      PROVE  /\ got'[q][k] # CtrlD
             /\ got'[q][k] = Newline => k = Len(got'[q])
             /\ pc'[q] \notin {"release", "user"} => got'[q][k] # Newline
  <2>1. CASE q # p
    <3>1. got'[q] = got[q] /\ pc'[q] = pc[q] /\ k \in 1..Len(got[q])
      BY <1>4, <1>5, <2>1, Zenon
    <3>2. /\ got[q][k] # CtrlD
          /\ got[q][k] = Newline => k = Len(got[q])
          /\ pc[q] \notin {"release", "user"} => got[q][k] # Newline
      BY <3>1, Zenon DEF InputInv, BufferHoldsLine
    <3> QED
      BY <3>1, <3>2, Zenon
  <2>2. CASE q = p /\ IsEof(ch)
    BY <1>4, <1>5, <2>2, Zenon
  <2>3. CASE q = p /\ ~ IsEof(ch)
    <3>1. got[p] \in Seq(Char) /\ got'[p] = Append(got[p], ch)
      BY <1>0, <1>4, <2>3
    <3>2. Len(got'[p]) = Len(got[p]) + 1 /\ Len(got[p]) \in Nat
      BY <1>3, <3>1
    <3>3. CASE k = Len(got[p]) + 1
      <4>1. got'[p][k] = ch
        BY <1>3, <3>1, <3>2, <3>3
      <4> QED
        BY <1>4, <2>3, <3>2, <3>3, <4>1, Zenon DEF IsEof
    <3>4. CASE k # Len(got[p]) + 1
      <4>1. k \in 1..Len(got[p])
        BY <1>5, <2>3, <3>2, <3>4
      <4>2. got'[p][k] = got[p][k]
        BY <1>3, <3>1, <4>1
      <4> QED
        BY <1>4, <2>3, <4>1, <4>2
    <3> QED
      BY <3>3, <3>4, Zenon
  <2> QED
    BY <2>1, <2>2, <2>3, Zenon
<1>6. /\ (w' - r') % Modulus <= (e' - r') % Modulus
      /\ (e' - r') % Modulus <= INPUT_BUF
      /\ line' \in Seq(Char) /\ Len(line') = (w' - r') % Modulus
      /\ \A k \in 1..Len(line') : line'[k] = buf'[((r' + k - 1) % Modulus) % INPUT_BUF]
  <2>1. CASE keep
    BY <1>0, <1>1, <1>2, <2>1
  <2>2. CASE ~ keep
    <3>1. r' = (r + 1) % Modulus /\ line' = Tail(line) /\ UNCHANGED <<buf, w, e>>
      BY <1>2, <2>2, Zenon
    <3>2. D(w) >= 1 /\ D(w) \in Nat /\ D(e) \in Nat
      BY <1>0, Ahead, Zenon
    <3>4. (w - r') % Modulus = D(w) - 1 /\ (e - r') % Modulus = D(e) - 1
      <4>1. e # r
        <5>1. D(r) = 0
          BY <1>0, ModSmall, BufferSizes
        <5> HIDE DEF D
        <5> QED
          BY <1>1, <3>2, <5>1
      <4> QED
        BY <1>0, <3>1, <4>1, Ahead
    <3>5. Len(line') = D(w) - 1 /\ line' \in Seq(Char)
          /\ \A k \in 1..(D(w) - 1) : line'[k] = line[k + 1]
      BY <1>0, <1>1, <3>1, <3>2, SMTT(30)
    <3>6. ASSUME NEW k \in 1..(D(w) - 1)
          PROVE  line'[k] = buf[((r' + k - 1) % Modulus) % INPUT_BUF]
      <4>1. k + 1 \in 1..Len(line) /\ k \in Int
        BY <1>1, <3>2
      <4>2. line'[k] = buf[((r + (k + 1) - 1) % Modulus) % INPUT_BUF]
        BY <1>1, <3>5, <4>1
      <4>3. (r' + k - 1) % Modulus = (r + (k + 1) - 1) % Modulus
        <5>1. (r' + k - 1) % Modulus = (r + k) % Modulus
          BY <1>0, <3>1, <4>1, Again, SMTT(30)
        <5>2. r + (k + 1) - 1 = r + k
          BY <1>0, <4>1, BufferSizes
        <5> QED
          BY <5>1, <5>2
      <4> QED
        BY <4>2, <4>3, Zenon
    <3> QED
      <4>1. D(w) - 1 <= D(e) - 1 /\ D(e) - 1 <= INPUT_BUF
        BY <1>1, <3>2, BufferSizes
      <4> QED
        BY <3>1, <3>4, <3>5, <3>6, <4>1, Zenon
  <2> QED
    BY <2>1, <2>2, Zenon
<1>7. BufferHoldsLine'
  BY <1>5, <1>6 DEF BufferHoldsLine
<1>8. buf' \in [0..(INPUT_BUF - 1) -> Char] /\ line' \in Seq(Char)
  BY <1>0, <1>2, <1>6, Zenon
<1>9. ASSUME NEW q \in Proc, pc'[q] \notin {"release", "user"},
             NEW k \in 1..Len(got'[q])
      PROVE  got'[q][k] # Newline
  BY <1>5, <1>9, Zenon
<1> QED
  BY <1>4, <1>7, <1>8, <1>9, Zenon DEF InputInv

\* Backspace and ^U take back characters that are not committed.
LEMMA IrqEraseInput ==
  ASSUME IrqErase, Inv, InputInv
  PROVE  InputInv'
<1>0. /\ r \in 0..(Modulus - 1) /\ w \in 0..(Modulus - 1) /\ e \in 0..(Modulus - 1)
      /\ (w - r) % Modulus <= (e - r) % Modulus /\ (e - r) % Modulus <= INPUT_BUF
  BY Zenon DEF Inv, TypeOK, InputInv, BufferHoldsLine
<1>1. UNCHANGED <<buf, r, w, pc, got, line>> /\ (e' = e \/ (e # w /\ e' = Dec(e)))
  BY Zenon DEF IrqErase, Erases, call
<1>2. (w - r) % Modulus <= (e' - r) % Modulus /\ (e' - r) % Modulus <= INPUT_BUF
  <2>1. CASE e' = e
    BY <1>0, <2>1
  <2>2. CASE e # w /\ e' = Dec(e)
    <3>1. (w - r) % Modulus \in Nat /\ (e - r) % Modulus \in Nat
      BY <1>0, Ahead
    <3>2. (w - r) % Modulus # (e - r) % Modulus
      <4>1. (r + ((w - r) % Modulus) + 0) % Modulus = (w + 0) % Modulus
        BY <1>0, Back
      <4>2. (r + ((e - r) % Modulus) + 0) % Modulus = (e + 0) % Modulus
        BY <1>0, Back
      <4>3. (w + 0) % Modulus = w /\ (e + 0) % Modulus = e
        BY <1>0, ModSmall, BufferSizes
      <4> QED
        BY <2>2, <4>1, <4>2, <4>3
    <3>3. e # r
      BY <1>0, <3>1, <3>2, Ahead, SMTT(30)
    <3>4. (e' - r) % Modulus = ((e - r) % Modulus) - 1
      BY <1>0, <2>2, <3>3, Ahead, Zenon
    <3> QED
      BY <1>0, <3>1, <3>2, <3>4, BufferSizes
  <2> QED
    BY <1>1, <2>1, <2>2
<1>3. BufferHoldsLine'
  BY <1>1, <1>2 DEF InputInv, BufferHoldsLine
<1> QED
  BY <1>1, <1>3 DEF InputInv

\* The parts of BufferHoldsLine that a keystroke can change.
LEMMA HoldsLine ==
  ASSUME BufferHoldsLine, UNCHANGED got,
         (w' - r') % Modulus <= (e' - r') % Modulus,
         (e' - r') % Modulus <= INPUT_BUF,
         Len(line') = (w' - r') % Modulus,
         \A k \in 1..Len(line') :
           line'[k] = buf'[((r' + k - 1) % Modulus) % INPUT_BUF]
  PROVE  BufferHoldsLine'
BY Zenon DEF BufferHoldsLine

\* A character goes where no committed character is; a line that is committed
\* is what was typed.
LEMMA IrqCharInput ==
  ASSUME IrqChar, Inv, InputInv
  PROVE  InputInv'
<1>0. /\ r \in 0..(Modulus - 1) /\ w \in 0..(Modulus - 1) /\ e \in 0..(Modulus - 1)
      /\ buf \in [0..(INPUT_BUF - 1) -> Char] /\ line \in Seq(Char)
  BY Zenon DEF Inv, TypeOK, InputInv
<1>1. CASE ~ Room
  <2>1. UNCHANGED <<buf, r, w, e, pc, got, line>>
    BY <1>1, Zenon DEF IrqChar, call
  <2> QED
    BY <2>1, InputSame
<1>2. CASE Room
  <2> DEFINE ch == IF irq = "cr" THEN Newline ELSE irq
             Dw == (w - r) % Modulus
             De == (e - r) % Modulus
             Spot(k) == ((r + k - 1) % Modulus) % INPUT_BUF
  <2>1. /\ De < INPUT_BUF /\ Dw <= De /\ Len(line) = Dw
        /\ \A k \in 1..Len(line) : line[k] = buf[Spot(k)]
        /\ Dw \in Nat /\ De \in Nat
    <3>1. Dw \in Nat /\ De \in Nat
      BY <1>0, Ahead
    <3> QED
      BY <1>2, <3>1, Zenon DEF Room, InputInv, BufferHoldsLine
  <2>2. /\ buf' = [buf EXCEPT ![e % INPUT_BUF] = ch] /\ e' = (e + 1) % Modulus
        /\ \/ w' = w /\ line' = line
           \/ w' = e' /\ line' = Append(line \o Uncommitted, ch)
        /\ ch \in Char /\ UNCHANGED <<r, pc, got>>
    BY <1>2, Zenon DEF IrqChar, Char, call
  <2> HIDE DEF ch
  <2>3. e % INPUT_BUF \in 0..(INPUT_BUF - 1) /\ e % INPUT_BUF = Spot(De + 1)
    <3>1. e \in Int /\ e % INPUT_BUF \in 0..(INPUT_BUF - 1)
      BY <1>0, BufferSizes, ModDef
    <3>2. (r + De + 0) % Modulus = (e + 0) % Modulus
      BY <1>0, Back
    <3>3. r + (De + 1) - 1 = r + De + 0
      BY <1>0, <2>1, BufferSizes, SMTT(30)
    <3>4. (e + 0) % Modulus = e
      BY <1>0, ModSmall, BufferSizes, SMTT(30)
    <3> QED
      BY <3>1, <3>2, <3>3, <3>4
  <2>4. /\ buf' \in [0..(INPUT_BUF - 1) -> Char] /\ buf'[Spot(De + 1)] = ch
        /\ \A k \in 1..De : buf'[Spot(k)] = buf[Spot(k)]
    <3>1. buf'[Spot(De + 1)] = ch /\ buf' \in [0..(INPUT_BUF - 1) -> Char]
      BY <1>0, <2>2, <2>3, Zenon
    <3>2. ASSUME NEW k \in 1..De
          PROVE  Spot(k) # Spot(De + 1) /\ Spot(k) \in 0..(INPUT_BUF - 1)
      <4>1. r + k - 1 \in Int /\ r + (De + 1) - 1 \in Int /\ r + k - 1 < r + (De + 1) - 1
            /\ r + (De + 1) - 1 < r + k - 1 + INPUT_BUF
        BY <1>0, <2>1, BufferSizes
      <4>2. (r + k - 1) % INPUT_BUF # (r + (De + 1) - 1) % INPUT_BUF
        BY <4>1, ModDistinct, BufferSizes
      <4>3. /\ Spot(k) = (r + k - 1) % INPUT_BUF
            /\ Spot(De + 1) = (r + (De + 1) - 1) % INPUT_BUF
        BY <4>1, Place
      <4>4. (r + k - 1) % INPUT_BUF \in 0..(INPUT_BUF - 1)
        BY <4>1, ModDef, BufferSizes, Zenon
      <4> QED
        BY <4>2, <4>3, <4>4, Zenon
    <3> QED
      BY <1>0, <2>2, <2>3, <3>1, <3>2, Zenon
  <2>5. (e' - r) % Modulus = De + 1 /\ e' \in 0..(Modulus - 1)
    <3>1. De < Modulus - 1
      BY <2>1, BufferSizes, SMTT(30)
    <3> QED
      BY <1>0, <2>2, <3>1, Ahead, After, Zenon
  <2>6. CASE w' = w /\ line' = line
    <3>1. BufferHoldsLine'
      <4>1. /\ (w' - r') % Modulus = Dw /\ (e' - r') % Modulus = De + 1
            /\ Len(line') = Dw /\ got' = got /\ BufferHoldsLine
        BY <2>1, <2>2, <2>5, <2>6, Zenon DEF InputInv
      <4>2. ASSUME NEW k \in 1..Len(line')
            PROVE  line'[k] = buf'[((r' + k - 1) % Modulus) % INPUT_BUF]
        <5>1. k \in 1..De /\ k \in 1..Len(line)
          <6> HIDE DEF Dw, De
          <6> QED
            BY <2>1, <4>1
        <5> QED
          BY <2>1, <2>2, <2>4, <2>6, <5>1, Zenon
      <4>3. Dw <= De + 1 /\ De + 1 <= INPUT_BUF
        <5> HIDE DEF Dw, De
        <5> QED
          BY <2>1, BufferSizes
      <4> QED
        BY <4>1, <4>2, <4>3, HoldsLine, Zenon
    <3> QED
      BY <2>2, <2>4, <2>6, <3>1, Zenon DEF InputInv
  <2>7. CASE w' = e' /\ line' = Append(line \o Uncommitted, ch)
    <3>1. (e - w) % Modulus = De - Dw
      <4>1. /\ e \in Int /\ w \in Int /\ r \in Int /\ Modulus \in Int
        BY <1>0, BufferSizes
      <4>2. /\ r <= w => Dw = w - r
            /\ w < r => Dw = w - r + Modulus
            /\ r <= e => De = e - r
            /\ e < r => De = e - r + Modulus
            /\ w <= e => (e - w) % Modulus = e - w
            /\ e < w => (e - w) % Modulus = e - w + Modulus
        BY <1>0, Away
      <4> HIDE DEF Dw, De
      <4> QED
        BY <1>0, <2>1, <4>1, <4>2, SMTT(30)
    <3>2. \A k \in 1..(De - Dw) :
            Uncommitted[k] = buf[Spot(Dw + k)] /\ Spot(Dw + k) \in 0..(INPUT_BUF - 1)
      <4> TAKE k \in 1..(De - Dw)
      <4>1. Uncommitted[k] = buf[((w + k - 1) % Modulus) % INPUT_BUF]
        BY <3>1 DEF Uncommitted
      <4>2. /\ k - 1 \in Int /\ k \in Int /\ w + (k - 1) = w + k - 1
            /\ r + Dw + (k - 1) = r + (Dw + k) - 1
        BY <1>0, <2>1, BufferSizes
      <4>3. (r + Dw + (k - 1)) % Modulus = (w + (k - 1)) % Modulus
        BY <1>0, <4>2, Back
      <4>4. Spot(Dw + k) = ((w + k - 1) % Modulus) % INPUT_BUF
        BY <4>2, <4>3
      <4>5. Spot(Dw + k) \in 0..(INPUT_BUF - 1)
        <5>1. r + (Dw + k) - 1 \in Int
          BY <1>0, <2>1, <4>2, BufferSizes
        <5>2. (r + (Dw + k) - 1) % Modulus \in Int
          BY <5>1, ModDef, BufferSizes
        <5> QED
          BY <5>2, ModDef, BufferSizes, Zenon
      <4> QED
        BY <4>1, <4>4, <4>5, Zenon
    <3>3. Uncommitted \in Seq(Char) /\ Len(Uncommitted) = De - Dw
      <4>1. De - Dw \in Nat
        BY <2>1
      <4>2. \A k \in 1..(De - Dw) : Uncommitted[k] \in Char
        BY <1>0, <3>2
      <4>3. Uncommitted = [k \in 1..(De - Dw) |-> Uncommitted[k]]
        BY <3>1 DEF Uncommitted
      <4> QED
        BY <4>1, <4>2, <4>3
    <3>4. line \o Uncommitted \in Seq(Char) /\ Len(line \o Uncommitted) = De
      <4> HIDE DEF Dw, De
      <4>1. line \o Uncommitted \in Seq(Char)
            /\ Len(line \o Uncommitted) = Len(line) + Len(Uncommitted)
        BY <1>0, <3>3
      <4> QED
        BY <2>1, <3>3, <4>1
    <3>5. line' \in Seq(Char) /\ Len(line') = De + 1 /\ line'[De + 1] = ch
      BY <2>2, <2>7, <3>4
    <3>6. ASSUME NEW k \in 1..(De + 1) PROVE line'[k] = buf'[Spot(k)]
      <4>1. CASE k = De + 1
        BY <2>4, <3>5, <4>1, Zenon
      <4>2. CASE k # De + 1
        <5>1. k \in 1..De
          <6> HIDE DEF Dw, De
          <6> QED
            BY <2>1, <4>2
        <5>2. line'[k] = (line \o Uncommitted)[k]
          <6> DEFINE s == line \o Uncommitted
          <6>1. line' = Append(s, ch) /\ s \in Seq(Char) /\ Len(s) = De /\ ch \in Char
            BY <2>2, <2>7, <3>4, Zenon
          <6> HIDE DEF s, De
          <6>2. line'[k] = s[k]
            BY <5>1, <6>1
          <6> QED
            BY <6>2, Zenon DEF s
        <5>3. CASE k <= Dw
          <6> HIDE DEF Dw, De
          <6>1. k \in 1..Len(line)
            BY <2>1, <5>1, <5>3
          <6>2. (line \o Uncommitted)[k] = line[k]
            BY <1>0, <3>3, <6>1
          <6> QED
            BY <2>1, <2>4, <5>1, <5>2, <6>1, <6>2, Zenon
        <5>4. CASE k > Dw
          <6>1. k - Dw \in 1..(De - Dw) /\ Dw + (k - Dw) = k
            BY <2>1, <5>1, <5>4
          <6>2. (line \o Uncommitted)[k] = Uncommitted[k - Dw]
            <7> HIDE DEF Dw, De
            <7>1. k \in 1..Len(line \o Uncommitted) /\ k > Len(line)
              BY <2>1, <3>4, <5>1, <5>4, SMTT(30)
            <7>2. (line \o Uncommitted)[k] = Uncommitted[k - Len(line)]
              BY <1>0, <3>3, <7>1
            <7> QED
              BY <2>1, <7>2
          <6>3. Uncommitted[k - Dw] = buf[Spot(k)]
            BY <3>2, <6>1, Zenon
          <6> QED
            BY <2>4, <5>1, <5>2, <6>2, <6>3, Zenon
        <5>5. k <= Dw \/ k > Dw
          <6> HIDE DEF Dw, De
          <6> QED
            BY <2>1, <5>1
        <5> QED
          BY <5>3, <5>4, <5>5, Zenon
      <4> QED
        BY <4>1, <4>2, Zenon
    <3>7. BufferHoldsLine'
      <4>1. De + 1 <= INPUT_BUF /\ De + 1 <= De + 1
        <5> HIDE DEF De
        <5> QED
          BY <2>1, BufferSizes
      <4>2. /\ (w' - r') % Modulus = De + 1 /\ (e' - r') % Modulus = De + 1
            /\ got' = got /\ BufferHoldsLine
        BY <2>2, <2>5, <2>7, Zenon DEF InputInv
      <4>3. \A k \in 1..Len(line') :
              line'[k] = buf'[((r' + k - 1) % Modulus) % INPUT_BUF]
        BY <2>2, <3>5, <3>6, Zenon
      <4> QED
        BY <3>5, <4>1, <4>2, <4>3, HoldsLine, Zenon
    <3> QED
      BY <2>2, <2>4, <3>5, <3>7 DEF InputInv
  <2> QED
    BY <2>2, <2>6, <2>7, Zenon
<1> QED
  BY <1>1, <1>2

-----------------------------------------------------------------------------
(* The keyboard. *)

\* A step that leaves the keyboard alone.
LEMMA KeySame ==
  ASSUME KeyInv, UNCHANGED <<kbd, shift, down>>
  PROVE  KeyInv'
BY DEF KeyInv, Pending

\* The codes of a key, as a sequence.
LEMMA CodeSeq ==
  ASSUME NEW s
  PROVE  /\ \A k \in {"d", "ctl"} : /\ Codes(k, s) = <<<<k, s>>>>
                                    /\ Head(Codes(k, s)) = <<k, s>>
                                    /\ Tail(Codes(k, s)) = <<>>
         /\ Head(Codes("rctl", s)) = <<"E0", "">>
         /\ Tail(Codes("rctl", s)) = <<<<"ctl", s>>>>
<1>1. \A k \in {"d", "ctl"} : Codes(k, s) = <<<<k, s>>>>
  BY Zenon DEF Codes
<1>2. \A k \in {"d", "ctl"} : Head(<<<<k, s>>>>) = <<k, s>>
  OBVIOUS
<1>3. \A k \in {"d", "ctl"} : Tail(<<<<k, s>>>>) = <<>>
  OBVIOUS
<1>4. Codes("rctl", s) = <<<<"E0", "">>, <<"ctl", s>>>>
  BY DEF Codes
<1>5. Head(<<<<"E0", "">>, <<"ctl", s>>>>) = <<"E0", "">>
  <2>1. \A a, b : Head(<<a, b>>) = a
    OBVIOUS
  <2> QED
    BY <2>1, Zenon
<1>6. Tail(<<<<"E0", "">>, <<"ctl", s>>>>) = <<<<"ctl", s>>>>
  OBVIOUS
<1> QED
  BY <1>1, <1>2, <1>3, <1>4, <1>5, <1>6, Zenon
\* The codes of different keys and strokes differ.
LEMMA CodesDiffer ==
  ASSUME NEW s, NEW t
  PROVE  /\ \A k \in {"d", "ctl", "rctl"} : Codes(k, s) # <<>>
         /\ Codes("d", s) # Codes("ctl", t) /\ Codes("d", s) # Codes("rctl", t)
         /\ s # t => Codes("ctl", s) # Codes("ctl", t)
         /\ s # t => Codes("rctl", s) # Codes("rctl", t)
         /\ Codes("ctl", s) # Codes("rctl", t)
<1>1. \A k \in {"d", "ctl"} : <<<<k, s>>>> # <<>>
  OBVIOUS
<1>2. <<<<"E0", "">>, <<"ctl", s>>>> # <<>>
  OBVIOUS
<1>3. <<<<"d", s>>>> # <<<<"ctl", t>>>>
  OBVIOUS
<1>4. <<<<"d", s>>>> # <<<<"E0", "">>, <<"ctl", t>>>>
  OBVIOUS
<1>5. s # t => <<<<"ctl", s>>>> # <<<<"ctl", t>>>>
  OBVIOUS
<1>6. s # t => <<<<"E0", "">>, <<"ctl", s>>>> # <<<<"E0", "">>, <<"ctl", t>>>>
  OBVIOUS
<1>7. <<<<"ctl", s>>>> # <<<<"E0", "">>, <<"ctl", t>>>>
  OBVIOUS
<1> QED
  BY <1>1, <1>2, <1>3, <1>4, <1>5, <1>6, <1>7 DEF Codes

\* A key goes down or up when all codes have been read.
LEMMA TypeKey ==
  ASSUME Type, Inv, KeyInv
  PROVE  KeyInv'
<1> DEFINE k == Head(script)[2]
           s == IF k \in down THEN "up" ELSE "down"
<1>1. kbd = <<>> /\ shift' = shift /\ script # <<>>
  BY Zenon DEF Type
<1>2. CASE Head(script)[1] = "uart"
  BY <1>1, <1>2, KeySame, Zenon DEF Type
<1>3. CASE Head(script)[1] # "uart"
  <2>1. k \in {"d", "ctl", "rctl"}
    <3>0. script \in Seq(Typed)
      BY Zenon DEF Inv, HandlerType
    <3>1. Head(script) \in Typed
      BY <1>1, <3>0
    <3> QED
      BY <1>3, <3>1 DEF Typed
  <2>2. /\ kbd' = Codes(k, s)
        /\ down' = (IF k \notin down THEN down \cup {k} ELSE down \ {k})
    BY <1>3, Zenon DEF Type, With
  <2>3. "CTL" \in shift => down \cap {"ctl", "rctl"} # {}
    BY <1>1, CodesDiffer DEF KeyInv, Pending
  <2> HIDE DEF k
  <2>4. s \in {"up", "down"}
    BY Zenon
  <2>5. CASE k = "d"
    <3>1. down' \cap {"ctl", "rctl"} = down \cap {"ctl", "rctl"}
      BY <2>2, <2>5, Zenon
    <3>2. ~ Pending("down")'
      BY <2>2, <2>5, CodesDiffer, Zenon DEF Pending
    <3> QED
      BY <1>1, <2>1, <2>2, <2>3, <2>4, <3>1, <3>2, Zenon DEF KeyInv
  <2>6. CASE k # "d"
    <3>1. s = "down" => down' \cap {"ctl", "rctl"} # {}
      BY <2>1, <2>2, <2>6
    <3>2. s = "up" => Pending("up")'
      BY <2>1, <2>2, <2>6 DEF Pending
    <3> HIDE DEF s
    <3> QED
      BY <2>1, <2>2, <2>4, <3>1, <3>2, Zenon DEF KeyInv
  <2> QED
    BY <2>5, <2>6
<1> QED
  BY <1>2, <1>3

\* kbdgetc() reads a code.
LEMMA IrqGetcKey ==
  ASSUME IrqGetc, KeyInv
  PROVE  KeyInv'
<1>0. down' = down
  BY Zenon DEF IrqGetc
<1>1. CASE dev = "uart" \/ kbd = <<>>
  BY <1>0, <1>1, KeySame, Zenon DEF IrqGetc
<1>2. CASE dev # "uart" /\ kbd # <<>>
  <2>0. shift' = kbdgetc(Head(kbd)).shift /\ kbd' = Tail(kbd)
    BY <1>2, Zenon DEF IrqGetc
  <2>1. PICK k \in {"d", "ctl", "rctl"}, s \in {"up", "down"} : kbd = Codes(k, s)
    BY <1>2 DEF KeyInv
  <2>2. CASE k = "rctl"
    <3>1. Head(kbd) = <<"E0", "">> /\ kbd' = Codes("ctl", s)
      BY <2>0, <2>1, <2>2, CodeSeq, Zenon
    <3>2. shift' = shift \cup {"E0ESC"}
      <4>1. kbdgetc(<<"E0", "">>).shift = shift \cup {"E0ESC"}
        BY DEF kbdgetc
      <4> QED
        BY <2>0, <3>1, <4>1, Zenon
    <3>3. \A t \in {"up", "down"} : Pending(t)' <=> Pending(t)
      BY <2>1, <2>2, <3>1, CodesDiffer, Zenon DEF Pending
    <3> QED
      BY <1>0, <3>1, <3>2, <3>3, Zenon DEF KeyInv
  <2>3. CASE k # "rctl"
    <3>1. Head(kbd) = <<k, s>> /\ kbd' = <<>>
      BY <2>0, <2>1, <2>3, CodeSeq, Zenon
    <3>2. shift' = IF s = "up" THEN shift \ Up(k)
                   ELSE (shift \ {"E0ESC"}) \cup shiftcode(k)
      <4>1. k # "E0" /\ <<k, s>>[1] = k /\ <<k, s>>[2] = s
        BY <2>1, Zenon
      <4>2. kbdgetc(<<k, s>>).shift = IF s = "up" THEN shift \ Up(k)
                                      ELSE (shift \ {"E0ESC"}) \cup shiftcode(k)
        BY <4>1, Zenon DEF kbdgetc
      <4> QED
        BY <2>0, <3>1, <4>2
    <3>3. /\ Pending("down") <=> (k = "ctl" /\ s = "down")
          /\ Pending("up") <=> (k = "ctl" /\ s = "up")
      BY <2>1, <2>3, CodesDiffer DEF Pending
    <3>4. "CTL" \in shift' => down \cap {"ctl", "rctl"} # {}
      BY <2>1, <3>2, <3>3, Zenon DEF KeyInv, Up, shiftcode
    <3>5. \A t : ~ Pending(t)'
      BY <3>1, CodesDiffer, Zenon DEF Pending
    <3> QED
      BY <1>0, <3>1, <3>4, <3>5, SMTT(30) DEF KeyInv
  <2> QED
    BY <2>2, <2>3
<1> QED
  BY <1>1, <1>2

-----------------------------------------------------------------------------
(* Every step. *)

\* The steps that touch neither the buffer nor the keyboard.
Quiet ==
  /\ UNCHANGED <<buf, r, w, e, line, got, kbd, shift, down>>
  /\ \A p \in Proc : \/ pc'[p] = pc[p] \/ pc'[p] \in {"release", "user"}
                     \/ pc[p] \notin {"release", "user"}

\* The steps of a process in the kernel, but for reading.
LEMMA KernelQuiet ==
  ASSUME Inv, NEW p \in Proc, NEW c \in Cpu, Kernel(p, c), ~ ReadChar(p, c)
  PROVE  Quiet
<1>0. \A l : pc' = [pc EXCEPT ![p] = l] =>
         pc'[p] = l /\ \A q \in Proc \ {p} : pc'[q] = pc[q]
  BY Zenon DEF Inv, ThreadType
<1>1. CASE Pushcli(p, c)
  BY <1>0, <1>1, Zenon DEF Pushcli, At, Goto, Quiet, input, call, handler,
      device
<1>2. CASE Acquire(p, c)
  BY <1>0, <1>2, Zenon DEF Acquire, At, Goto, Quiet, input, call, handler,
      device
<1>3. CASE ReadEmpty(p, c)
  BY <1>0, <1>3, Zenon DEF ReadEmpty, At, Goto, Quiet, input, call, handler,
      device
<1>4. CASE Sleep(p, c)
  BY <1>0, <1>4, Zenon DEF Sleep, At, Goto, Quiet, input, call, handler, device
<1>5. CASE Woken(p, c)
  BY <1>0, <1>5, Zenon DEF Woken, At, Goto, Quiet, input, call, handler, device
<1>6. CASE WriteChar(p, c)
  BY <1>0, <1>6, Zenon DEF WriteChar, At, Goto, Quiet, input, call, handler,
      device
<1>7. CASE Release(p, c)
  BY <1>0, <1>7, Zenon DEF Release, At, Goto, Quiet, input, call, handler,
      device
<1>8. CASE Exit(p, c)
  BY <1>8 DEF Exit, Quiet, input, call, handler, device
<1> QED
  BY <1>1, <1>2, <1>3, <1>4, <1>5, <1>6, <1>7, <1>8, SMTT(30) DEF Kernel

\* The scheduler, kill() and the start of an interrupt.
LEMMA SchedQuiet ==
  ASSUME Inv,
         \/ \E p \in Proc, c \in Cpu : Tick(p, c) \/ Dispatch(p, c)
         \/ \E c \in Cpu : Idle(c) \/ Look(c)
         \/ \E p \in Proc : Kill(p)
         \/ \E d \in {"uart", "kbd"} : Interrupt(d)
  PROVE  Quiet
<1>1. ASSUME NEW p \in Proc, NEW c \in Cpu, Tick(p, c) PROVE Quiet
  BY <1>1, Zenon DEF Tick, Quiet, input, call, handler, device
<1>2. ASSUME NEW p \in Proc, NEW c \in Cpu, Dispatch(p, c) PROVE Quiet
  BY <1>2, Zenon DEF Dispatch, Quiet, input, call, handler, device
<1>3. ASSUME NEW c \in Cpu, Idle(c) PROVE Quiet
  BY <1>3, Zenon DEF Idle, Quiet, input, call, handler, device
<1>4. ASSUME NEW c \in Cpu, Look(c) PROVE Quiet
  BY <1>4, Zenon DEF Look, Quiet, input, call, handler, device
<1>5. ASSUME NEW p \in Proc, Kill(p) PROVE Quiet
  BY <1>5, Zenon DEF Kill, Quiet, input, call, handler, device
<1>6. ASSUME NEW d \in {"uart", "kbd"}, Interrupt(d) PROVE Quiet
  BY <1>6, Zenon DEF Interrupt, Quiet, input, call, handler, device
<1> QED
  BY <1>1, <1>2, <1>3, <1>4, <1>5, <1>6, SMTT(30)

\* The steps of the handler that read no device and edit no line.
LEMMA HandlerQuiet ==
  ASSUME Handler, ~ IrqGetc, ~ IrqErase, ~ IrqChar
  PROVE  Quiet
<1>1. CASE IrqAcquire
  BY <1>1, Zenon DEF IrqAcquire, Quiet, input, call, handler, device
<1>2. CASE IrqDump
  BY <1>2 DEF IrqDump, Quiet, input, call, handler, device
<1>3. CASE IrqRelease
  BY <1>3, Zenon DEF IrqRelease, Quiet, input, call, handler, device
<1>4. CASE IrqProcdump
  BY <1>4 DEF IrqProcdump, Quiet, input, call, handler, device
<1>5. CASE IrqDumped
  BY <1>5, Zenon DEF IrqDumped, Quiet, input, call, handler, device
<1> QED
  BY <1>1, <1>2, <1>3, <1>4, <1>5, Zenon DEF Handler

\* Every step keeps the buffer in order.
LEMMA NextInput ==
  ASSUME Inv, InputInv, [Next]_vars
  PROVE  InputInv'
<1>1. ASSUME Quiet PROVE InputInv'
  BY <1>1, InputSame DEF Quiet
<1>2. ASSUME NEW p \in Proc, NEW c \in Cpu, Kernel(p, c) PROVE InputInv'
  BY <1>1, <1>2, KernelQuiet, ReadCharInput
<1>3. CASE Handler
  <2>1. CASE IrqGetc
    BY <2>1, InputSame, Zenon DEF IrqGetc, input, call
  <2> QED
    BY <1>1, <1>3, <2>1, HandlerQuiet, IrqEraseInput, IrqCharInput, SMTT(30)
<1>4. CASE Type
  BY <1>4, InputSame, Zenon DEF Type, input, call
<1>5. CASE UNCHANGED vars
  BY <1>5, InputSame, Zenon DEF vars, input, call
<1> QED
  BY <1>1, <1>2, <1>3, <1>4, <1>5, SysCallInput, SchedQuiet, Zenon DEF Next

\* Every step keeps track of the control keys.
LEMMA NextKey ==
  ASSUME Inv, KeyInv, [Next]_vars
  PROVE  KeyInv'
<1>1. ASSUME Quiet PROVE KeyInv'
  BY <1>1, KeySame, Zenon DEF Quiet
<1>2. ASSUME NEW p \in Proc, NEW c \in Cpu, Kernel(p, c) \/ SysCall(p, c)
      PROVE  KeyInv'
  <2>1. CASE ReadChar(p, c)
    BY <2>1, KeySame DEF ReadChar, device
  <2>2. CASE SysCall(p, c)
    BY <2>2, KeySame, Zenon DEF SysCall, device
  <2> QED
    BY <1>1, <1>2, <2>1, <2>2, KernelQuiet, Zenon
<1>3. CASE Handler
  <2>1. CASE IrqErase
    BY <2>1, KeySame, Zenon DEF IrqErase, device
  <2>2. CASE IrqChar
    BY <2>2, KeySame, Zenon DEF IrqChar, device
  <2> QED
    BY <1>1, <1>3, <2>1, <2>2, HandlerQuiet, IrqGetcKey
<1>4. CASE UNCHANGED vars
  BY <1>4, KeySame DEF vars, device
<1> QED
  BY <1>1, <1>2, <1>3, <1>4, TypeKey, SchedQuiet, Zenon DEF Next

\* The buffer is empty and no key is down when the system starts.
LEMMA InitInput ==
  ASSUME Init
  PROVE  InputInv /\ KeyInv
<1>1. /\ r = 0 /\ w = 0 /\ e = 0 /\ line = <<>> /\ Len(line) = 0
      /\ \A p \in Proc : got[p] = <<>> /\ Len(got[p]) = 0
  BY Zenon DEF Init
<1>2. (0 - 0) % Modulus = 0 /\ 0 <= INPUT_BUF
  BY ModSmall, BufferSizes
<1>3. BufferHoldsLine
  BY <1>1, <1>2 DEF BufferHoldsLine
<1>4. /\ buf \in [0..(INPUT_BUF - 1) -> Char] /\ line \in Seq(Char)
      /\ got \in [Proc -> Seq(Char)]
  <2>1. <<>> \in Seq(Char)
    OBVIOUS
  <2>2. "" \in Char
    BY SMTT(30) DEF Char
  <2>3. /\ buf = [k \in 0..(INPUT_BUF - 1) |-> ""] /\ line = <<>>
        /\ got = [p \in Proc |-> <<>>]
    BY Zenon DEF Init
  <2> QED
    BY <2>1, <2>2, <2>3, Zenon
<1>5. InputInv
  BY <1>1, <1>3, <1>4, SMTT(30) DEF InputInv
<1>6. KeyInv
  BY CodesDiffer, Zenon DEF Init, KeyInv, Pending
<1> QED
  BY <1>5, <1>6, SMTT(30)

-----------------------------------------------------------------------------
(* The theorems. *)

\* The inductive invariant of the console: locks and interrupts, the input
\* buffer, and the keyboard.
THEOREM ConsoleInvariance == Spec => [](Inv /\ InputInv /\ KeyInv)
<1>1. Init => Inv /\ InputInv /\ KeyInv
  BY InitInv, InitInput
<1>2. Inv /\ InputInv /\ KeyInv /\ [Next]_vars => (Inv /\ InputInv /\ KeyInv)'
  BY NextInv, NextInput, NextKey
<1> QED
  BY <1>1, <1>2, PTL DEF Spec

\* acquire(), release(), pushcli(), popcli() and sched(), for any number of CPUs
\* and processes and wherever an interrupt or a timer tick comes: interrupts are
\* off on a CPU while it holds or wants a lock, a process is back in user space
\* with its interrupts on, and no assertion of these functions fails.
THEOREM ConsoleInterruptsMatch == Spec => []InterruptsMatch
<1>1. Inv => InterruptsMatch
  BY InvMatch
<1> QED
  BY <1>1, ConsoleInvariance, PTL

\* The circular buffer of consoleintr() and consoleread(), for any size that
\* divides the modulus of its indexes: what is committed is what is read, in
\* order, a line at a time.
THEOREM ConsoleBufferHoldsLine == Spec => []BufferHoldsLine
<1>1. InputInv => BufferHoldsLine
  BY DEF InputInv
<1> QED
  BY <1>1, ConsoleInvariance, PTL

\* kbdgetc(), for any sequence of strokes: when all codes have been read and no
\* control key is down, none is taken for held.
THEOREM ConsoleNoStuckKey == Spec => []NoStuckKey
<1>1. KeyInv => NoStuckKey
  BY CodesDiffer DEF KeyInv, Pending, NoStuckKey
<1> QED
  BY <1>1, ConsoleInvariance, PTL
=============================================================================
