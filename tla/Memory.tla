------------------------------- MODULE Memory -------------------------------
(***************************************************************************)
(* Physical memory and address spaces: the page allocator                  *)
(* (memory/kalloc.c), page tables (memory/vm.c), exec (core/exec.c), what  *)
(* fork, sbrk and wait do with memory (core/proc.c), and the tests a       *)
(* system call applies to user addresses (core/syscall.c).                 *)
(*                                                                         *)
(* An operation on memory maps a record [free, mem, vm, left, ok, f, bad]  *)
(* to another: the free frames, what frames contain, the address space     *)
(* worked on, how many frames the call will get before kalloc() fails,     *)
(* whether it has failed, the frame kalloc() returned, and whether an      *)
(* assertion failed.  "left" stands for the other CPUs, which may hold any *)
(* number of frames in the middle of calls of their own.                   *)
(***************************************************************************)
EXTENDS Integers, FiniteSets, SequencesExt

CONSTANTS Slot, Init0, \* process table slots; the first process
          NFrames,     \* physical pages
          PGSIZE,
          NPTE,        \* entries of a page table
          UserTables,  \* page tables below KERNBASE
          KernTables,  \* page tables above it
          INTSZ,       \* size of an int, and the alignment of the stack
          MAXARG,
          Images,      \* programs on disk, by name
          Args,        \* argument lists: lengths of the strings
          Deltas,      \* arguments of sbrk()
          MaxCalls     \* bound: calls in a behaviour

Frame == 1..NFrames
KERNPAGES == NPTE * UserTables
Page == 0..(KERNPAGES - 1)
KERNBASE == KERNPAGES * PGSIZE
Modulus == KERNBASE + KernTables * NPTE * PGSIZE

ASSUME MemoryAssumption ==
    /\ {NFrames, PGSIZE, NPTE, UserTables, KernTables, INTSZ, MaxCalls}
          \subseteq Nat \ {0}
    /\ KernTables >= UserTables
    /\ Init0 \in Slot

VARIABLES free,   \* kmem.freelist
          mem,    \* what each frame contains
          proc,   \* state, parent, kstack, vm, sz of each process
          th,     \* the exec() each process is in
          panic,  \* an assertion of the kernel failed
          ncalls, \* calls made
          expect  \* history: what each process's memory should contain

vars == <<free, mem, proc, th, panic, ncalls, expect>>

NoVm == [dir |-> 0, tab |-> [i \in 0..(UserTables + KernTables - 1) |-> 0],
         pte |-> [a \in Page |-> 0], user |-> {}]
Unused == [state |-> "UNUSED", parent |-> Init0, kstack |-> 0, vm |-> NoVm,
           sz |-> 0, sp |-> 0]
Idle == [pc |-> "", vm |-> NoVm, sz |-> 0, image |-> "", i |-> 0,
         args |-> <<>>]
NoPages == [a \in Page |-> ""]

PGROUNDUP(n) == ((n + PGSIZE - 1) \div PGSIZE) * PGSIZE

\* The page numbers from a up to b - 1.
Pages(a, b) == [k \in 1..(b - a) |-> a + k - 1]

-----------------------------------------------------------------------------
(* kalloc.c *)

kalloc(s) ==
    IF s.left = 0 \/ s.free = {} THEN [s EXCEPT !.f = 0]
    ELSE LET f == Min(s.free) IN
         [s EXCEPT !.free = @ \ {f}, !.left = @ - 1, !.f = f]

kfree(s, f) ==
    [s EXCEPT !.free = @ \cup {f},
              !.mem = [@ EXCEPT ![f] = "junk"],
              !.bad = @ \/ f \notin Frame \/ f \in s.free]

-----------------------------------------------------------------------------
(* vm.c *)

\* walkpgdir(..., 1): the page table of page a is there, or it is allocated.
walkpgdir(s, a) ==
    IF s.vm.tab[a \div NPTE] # 0 THEN s
    ELSE LET t == kalloc(s) IN
         IF t.f = 0 THEN [t EXCEPT !.ok = FALSE]
         ELSE [t EXCEPT !.vm.tab[a \div NPTE] = t.f, !.mem[t.f] = "table"]

\* mappages() of one user page.
mappages(s, a, f, user) ==
    LET t == walkpgdir(s, a) IN
    IF ~ t.ok THEN t
    ELSE [t EXCEPT !.vm.pte[a] = f,
                   !.vm.user = IF user THEN @ \cup {a} ELSE @,
                   !.bad = @ \/ t.vm.pte[a] # 0]

\* The first page that deallocuvm() frees.
FirstFreed(newsz) == PGROUNDUP(newsz) \div PGSIZE

deallocuvm(s, oldsz, newsz) ==
    LET clear(x, a) ==
          IF x.vm.pte[a] = 0 THEN x
          ELSE [kfree(x, x.vm.pte[a]) EXCEPT !.vm.pte[a] = 0,
                                             !.vm.user = @ \ {a}]
    IN IF newsz >= oldsz THEN s
       ELSE FoldLeft(clear, s,
                     Pages(FirstFreed(newsz), PGROUNDUP(oldsz) \div PGSIZE))

\* The page tables that are present.
Tables(vm) == SelectSeq([i \in 1..(UserTables + KernTables) |-> vm.tab[i - 1]],
                        LAMBDA f : f # 0)

freevm(s) ==
    LET t == FoldLeft(kfree, deallocuvm(s, KERNBASE, 0), Tables(s.vm))
    IN [kfree(t, s.vm.dir) EXCEPT !.vm = NoVm]

\* setupkvm(): a directory and the page tables of the kernel.
setupkvm(s) ==
    LET d == kalloc(s)
        step(x, a) == IF x.ok THEN walkpgdir(x, a) ELSE x
        t == FoldLeft(step, [d EXCEPT !.vm = [NoVm EXCEPT !.dir = d.f],
                                      !.mem[d.f] = "table"],
                [k \in 1..KernTables |-> KERNPAGES + (k - 1) * NPTE])
    IN IF d.f = 0 THEN [d EXCEPT !.ok = FALSE, !.vm = NoVm]
       ELSE IF t.ok THEN t ELSE freevm(t)

\* A new page is not cleared.
MutZeroed(s) == s

\* The first page that allocuvm() adds, and memset().
FirstNew(oldsz) == PGROUNDUP(oldsz) \div PGSIZE
Zeroed(s) == [s EXCEPT !.mem[s.f] = "zero"]

\* allocuvm(): "ok" unless it returns 0.
allocuvm(s, oldsz, newsz) ==
    LET step(x, a) ==
          IF ~ x.ok THEN x
          ELSE LET m == kalloc(x)
                   t == mappages(Zeroed(m), a, m.f, TRUE)
               IN IF m.f = 0
                  THEN [deallocuvm(m, newsz, oldsz) EXCEPT !.ok = FALSE]
                  ELSE IF t.ok THEN t
                  ELSE kfree(deallocuvm(t, newsz, oldsz), m.f)
    IN IF newsz >= KERNBASE \/ (newsz = 0 /\ oldsz = 0) THEN [s EXCEPT !.ok = FALSE]
       ELSE IF newsz < oldsz THEN s
       ELSE FoldLeft(step, s,
                     Pages(FirstNew(oldsz), PGROUNDUP(newsz) \div PGSIZE))

clearpteu(vm, a) == [vm EXCEPT !.user = @ \ {a}]

\* copyuvm(): s works on the new address space, src is the old one.
copyuvm(s, src, sz) ==
    LET step(x, a) ==
          IF ~ x.ok THEN x
          ELSE LET m == kalloc(x)
                   c == [m EXCEPT !.mem[m.f] = x.mem[src.pte[a]],
                                  !.bad = @ \/ src.pte[a] = 0]
                   t == mappages(c, a, m.f, a \in src.user)
               IN IF m.f = 0 THEN [m EXCEPT !.ok = FALSE]
                  ELSE IF t.ok THEN t ELSE kfree(t, m.f)
        d == setupkvm(s)
        t == FoldLeft(step, d, Pages(0, PGROUNDUP(sz) \div PGSIZE))
    IN IF ~ d.ok THEN d ELSE IF t.ok THEN t ELSE freevm(t)

\* loaduvm(): the pages of a segment are filled from the file, which may be
\* too short.
loaduvm(s, seg, image) ==
    LET step(x, a) == [x EXCEPT !.mem[x.vm.pte[a]] = image,
                                !.bad = @ \/ x.vm.pte[a] = 0]
        first == seg.vaddr \div PGSIZE
    IN [FoldLeft(step, s, Pages(first, first + PGROUNDUP(seg.filesz) \div PGSIZE))
          EXCEPT !.ok = ~ seg.short]

\* copyout(): page by page, as long as uva2ka() finds a page of the user.
copyout(s, va, len) ==
    LET first == va \div PGSIZE
        step(x, a) ==
          IF ~ x.ok THEN x
          ELSE IF a >= KERNPAGES THEN [x EXCEPT !.ok = FALSE]
          ELSE IF a \notin x.vm.user
          THEN [x EXCEPT !.ok = FALSE, !.bad = @ \/ x.vm.tab[a \div NPTE] = 0]
          ELSE [x EXCEPT !.mem[x.vm.pte[a]] = "args"]
    IN IF len = 0 THEN s
       ELSE FoldLeft(step, s, Pages(first, (va + len - 1) \div PGSIZE + 1))

-----------------------------------------------------------------------------
(* Calls.  left is what kalloc() will give to this call. *)

Start(vm, left) == [free |-> free, mem |-> mem, vm |-> vm, left |-> left,
                    ok |-> TRUE, f |-> 0, bad |-> FALSE]

Take(s) == /\ free' = s.free
           /\ mem' = s.mem
           /\ panic' = (panic \/ s.bad)

\* A process whose pages are all gone can only fault.
Runs(p) == /\ ~ panic /\ proc[p].state = "RUNNING" /\ th[p].pc = ""
           /\ \E a \in Page : proc[p].vm.pte[a] # 0

Call(p) == /\ Runs(p) /\ ncalls < MaxCalls
           /\ ncalls' = ncalls + 1

\* allocproc() and fork(): the child's stack, then a copy of the memory.
Fork(p) ==
    /\ Call(p)
    /\ \E q \in Slot, left \in 0..Cardinality(free) :
          /\ proc[q].state = "UNUSED"
          /\ LET k == kalloc(Start(NoVm, left))
                 c == copyuvm(k, proc[p].vm, proc[p].sz)
                 child == [proc[p] EXCEPT !.parent = p, !.kstack = k.f,
                                          !.vm = c.vm] IN
             \/ /\ k.f = 0
                /\ Take(k)
                /\ UNCHANGED <<proc, expect>>
             \/ /\ k.f # 0 /\ ~ c.ok
                /\ Take(kfree(c, k.f))
                /\ UNCHANGED <<proc, expect>>
             \/ /\ k.f # 0 /\ c.ok
                /\ Take([c EXCEPT !.mem[k.f] = "stack"])
                /\ proc' = [proc EXCEPT ![q] = child]
                /\ expect' = [expect EXCEPT ![q] = expect[p]]
    /\ UNCHANGED th

\* growproc(): the size is unsigned, and 0 stands for failure.
growproc(s, old, n) ==
    LET new == (old + n) % Modulus
        t == IF n > 0 THEN allocuvm(s, old, new) ELSE deallocuvm(s, old, new) IN
    [s |-> t, sz |-> IF n < 0 THEN Min({old, new})
                     ELSE IF t.ok THEN Max({old, new}) ELSE 0]

\* sys_sbrk()
Sbrk(p) ==
    /\ Call(p) /\ p # Init0
    /\ \E n \in Deltas, left \in 0..Cardinality(free) :
          LET old == proc[p].sz
              g == growproc(Start(proc[p].vm, left), old, n)
              grown(a) == PGROUNDUP(old) <= a * PGSIZE /\ a * PGSIZE < g.sz
          IN /\ Take(g.s)
             /\ proc' = [proc EXCEPT ![p].vm = g.s.vm,
                                     ![p].sz = IF g.sz = 0 THEN @ ELSE g.sz]
             /\ expect' = [expect EXCEPT ![p] = [a \in Page |->
                   IF grown(a) THEN "zero"
                   ELSE IF n > 0 \/ a * PGSIZE < g.sz THEN @[a] ELSE ""]]
    /\ UNCHANGED th

\* User code writes to a page of its own.
Store(p) ==
    /\ Call(p)
    /\ \E a \in proc[p].vm.user :
          /\ mem' = [mem EXCEPT ![proc[p].vm.pte[a]] = p]
          /\ expect' = [expect EXCEPT ![p][a] = p]
    /\ UNCHANGED <<free, proc, th, panic>>

\* exit(): children go to init.  A process with no memory faults and exits.
Exit(p) ==
    /\ ~ panic /\ proc[p].state = "RUNNING" /\ th[p].pc = "" /\ p # Init0
    /\ proc' = [q \in Slot |->
          [proc[q] EXCEPT !.state = IF q = p THEN "ZOMBIE" ELSE @,
                          !.parent = IF @ = p THEN Init0 ELSE @]]
    /\ UNCHANGED <<free, mem, th, panic, ncalls, expect>>

\* wait(): the memory of a child that has exited is freed.
Wait(p) ==
    /\ Runs(p)
    /\ \E q \in Slot :
          /\ proc[q].state = "ZOMBIE" /\ proc[q].parent = p
          /\ Take(freevm(kfree(Start(proc[q].vm, 0), proc[q].kstack)))
          /\ proc' = [proc EXCEPT ![q] = Unused]
          /\ expect' = [expect EXCEPT ![q] = NoPages]
    /\ UNCHANGED <<th, ncalls>>

-----------------------------------------------------------------------------
(* exec() *)

\* What has been built is forgotten.
MutBad(p, s) == Take(s) /\ th' = [th EXCEPT ![p] = Idle]

\* bad: what has been built is freed, the inode and the transaction go.
Bad(p, s) == /\ Take(IF s.vm.dir # 0 THEN freevm(s) ELSE s)
             /\ th' = [th EXCEPT ![p] = Idle]

Good(p, s, t) == /\ Take(s)
                 /\ th' = [th EXCEPT ![p] = [t EXCEPT !.vm = s.vm]]

\* sys_exec(): there is room for the arguments and the null after them.
sys_exec(args) == Len(args) < MAXARG

\* The header is read, and setupkvm().
ExecOpen(p) ==
    /\ Call(p)
    /\ \E name \in DOMAIN Images, args \in Args,
          left \in 0..Cardinality(free) :
          /\ sys_exec(args)
          /\ LET s == setupkvm(Start(NoVm, left)) IN
             IF ~ Images[name].magic \/ ~ s.ok
             THEN Bad(p, IF Images[name].magic THEN s ELSE Start(NoVm, 0))
             ELSE Good(p, s, [Idle EXCEPT !.pc = "load", !.image = name,
                                          !.args = args])
    /\ UNCHANGED <<proc, expect>>

\* One program header.
ExecLoad(p) ==
    /\ ~ panic /\ th[p].pc = "load" /\ th[p].i < Len(Images[th[p].image].segs)
    /\ \E left \in 0..Cardinality(free) :
          LET t == th[p]
              seg == Images[t.image].segs[t.i + 1]
              end == (seg.vaddr + seg.memsz) % Modulus
              s == allocuvm(Start(t.vm, left), t.sz, end)
              l == loaduvm(s, seg, t.image)
          IN IF seg.memsz < seg.filesz \/ end < seg.vaddr
             THEN Bad(p, Start(t.vm, 0))
             ELSE IF ~ s.ok \/ seg.vaddr % PGSIZE # 0 THEN Bad(p, s)
             ELSE IF ~ l.ok THEN Bad(p, l)
             ELSE Good(p, l, [t EXCEPT !.i = @ + 1, !.sz = Max({t.sz, end})])
    /\ UNCHANGED <<proc, ncalls, expect>>

\* The inode is let go; two more pages, the lower one not for the user.
ExecStack(p) ==
    /\ ~ panic /\ th[p].pc = "load" /\ th[p].i = Len(Images[th[p].image].segs)
    /\ \E left \in 0..Cardinality(free) :
          LET t == th[p]
              sz == PGROUNDUP(t.sz) + 2 * PGSIZE
              s == allocuvm(Start(t.vm, left), PGROUNDUP(t.sz), sz)
              guard == sz \div PGSIZE - 2
          IN IF ~ s.ok THEN Bad(p, s)
             ELSE Good(p, [s EXCEPT !.vm = clearpteu(@, guard)],
                       [t EXCEPT !.pc = "args", !.sz = sz])
    /\ UNCHANGED <<proc, ncalls, expect>>

\* The argument strings and then the table of pointers are pushed.
PushArgs(s, sz, args) ==
    LET push(x, n) ==
          LET to == (x.sp - n) % Modulus
              sp == to - (to % INTSZ)
          IN IF ~ x.s.ok THEN x ELSE [s |-> copyout(x.s, sp, n), sp |-> sp]
        strings == FoldLeft(push, [s |-> s, sp |-> sz],
                            [k \in 1..Len(args) |-> args[k] + 1])
    IN push(strings, (3 + Len(args) + 1) * INTSZ)

\* The memory a program starts with, from its segments and its arguments.
Loaded(image, sz) ==
    [a \in Page |->
        IF \E k \in 1..Len(Images[image].segs) :
              LET seg == Images[image].segs[k] IN
              a \in (seg.vaddr \div PGSIZE)..((seg.vaddr + seg.filesz - 1) \div PGSIZE)
        THEN image
        ELSE IF a = sz \div PGSIZE - 1 THEN "args"
        ELSE IF a * PGSIZE < sz THEN "zero" ELSE ""]

\* The new image replaces the old one, which is freed.
ExecCommit(p) ==
    /\ ~ panic /\ th[p].pc = "args"
    /\ LET t == th[p]
           u == PushArgs(Start(t.vm, 0), t.sz, t.args)
           old == freevm([u.s EXCEPT !.vm = proc[p].vm])
       IN IF ~ u.s.ok
          THEN Bad(p, u.s) /\ UNCHANGED <<proc, expect>>
          ELSE /\ Take(old)
               /\ proc' = [proc EXCEPT ![p].vm = u.s.vm, ![p].sz = t.sz,
                                       ![p].sp = u.sp]
               /\ expect' = [expect EXCEPT ![p] = Loaded(t.image, t.sz)]
               /\ th' = [th EXCEPT ![p] = Idle]
    /\ UNCHANGED ncalls

-----------------------------------------------------------------------------
(* Addresses that system calls accept. *)

fetchint(addr, sz) == addr < sz /\ (addr + INTSZ) % Modulus <= sz

\* The address of the n-th argument on the user's stack, and argint().
ArgAddr(esp, n) == (esp + INTSZ + INTSZ * n) % Modulus
argint(esp, n, sz) == fetchint(ArgAddr(esp, n), sz)

\* fetchstr(): the last byte the search for the end of the string may look at,
\* -1 when the address is refused.
fetchstr(addr, sz) == IF addr < sz THEN sz - 1 ELSE -1

\* Only the first byte is tested.
MutArgptr(i, size, sz) == size >= 0 /\ i < sz

argptr(i, size, sz) == size >= 0 /\ i < sz /\ (i + size) % Modulus <= sz

-----------------------------------------------------------------------------
\* inituvm(): one page with initcode.
inituvm(s) == LET m == kalloc(s) IN
              mappages([m EXCEPT !.mem[m.f] = "initcode"], 0, m.f, TRUE)

\* kinit1() and kinit2() free every page there is.
freerange(s) == FoldLeft(kfree, s, [f \in Frame |-> f])

\* userinit()
Init ==
    LET k == kalloc(freerange([free |-> {}, mem |-> [f \in Frame |-> ""],
                               vm |-> NoVm, left |-> NFrames, ok |-> TRUE,
                               f |-> 0, bad |-> FALSE]))
        u == inituvm(setupkvm([k EXCEPT !.mem[k.f] = "stack"])) IN
    /\ free = u.free
    /\ mem = u.mem
    /\ proc = [p \in Slot |-> IF p # Init0 THEN Unused
                  ELSE [Unused EXCEPT !.state = "RUNNING", !.kstack = k.f,
                                      !.vm = u.vm, !.sz = PGSIZE, !.sp = PGSIZE]]
    /\ th = [p \in Slot |-> Idle]
    /\ panic = FALSE
    /\ ncalls = 0
    /\ expect = [p \in Slot |-> IF p = Init0
                                THEN [NoPages EXCEPT ![0] = "initcode"]
                                ELSE NoPages]

Next == \E p \in Slot :
    \/ Fork(p) \/ Sbrk(p) \/ Store(p) \/ Exit(p) \/ Wait(p)
    \/ ExecOpen(p) \/ ExecLoad(p) \/ ExecStack(p) \/ ExecCommit(p)

Spec == Init /\ [][Next]_vars

-----------------------------------------------------------------------------
(* Properties. *)

TypeOK ==
    /\ free \subseteq Frame
    /\ panic \in BOOLEAN
    /\ \A p \in Slot : /\ proc[p].state \in {"UNUSED", "RUNNING", "ZOMBIE"}
                       /\ proc[p].sz \in 0..(KERNBASE - 1)
                       /\ proc[p].vm.pte \in [Page -> 0..NFrames]

\* The frame named by each place in the kernel that owns one.
VmPlaces(vm) ==
    {<<"dir", 0, vm.dir>>} \cup
    {<<"tab", i, vm.tab[i]>> : i \in DOMAIN vm.tab} \cup
    {<<"pte", a, vm.pte[a]>> : a \in Page}

Places ==
    {x \in {<<p, "kstack", 0, proc[p].kstack>> : p \in Slot} \cup
           UNION {{<<p, v[1], v[2], v[3]>> : v \in VmPlaces(proc[p].vm)} :
                     p \in Slot} \cup
           UNION {{<<p, "new", v[1], v[2], v[3]>> : v \in VmPlaces(th[p].vm)} :
                     p \in Slot} :
        x[Len(x)] # 0}

\* Every frame that is not free belongs to one place, and no frame to two: a
\* call that fails half way neither loses memory nor frees it twice.  No
\* assertion of the kernel fails: no remap, no free of a free page, no page
\* missing where exec(), fork() or copyout() rely on one.
FramesConserved ==
    LET owned == {x[Len(x)] : x \in Places} IN
    /\ TypeOK /\ ~ panic
    /\ owned = Frame \ free
    /\ Cardinality(owned) = Cardinality(Places)

\* A process has exactly the pages below its size; the exception is a process
\* that has given back all of them with sbrk(), which cannot run any more.
MappedBelowSize(p) ==
    LET vm == proc[p].vm IN
    \/ \A a \in Page : vm.pte[a] # 0 <=> a * PGSIZE < proc[p].sz
    \/ \A a \in Page : vm.pte[a] = 0

\* The stack that exec() prepares lies in the stack page: the guard page and
\* the program are untouched.
StackFits(t) ==
    LET u == PushArgs(Start(t.vm, 0), t.sz, t.args) IN
    /\ (t.sz \div PGSIZE) - 2 \notin t.vm.user
    /\ u.s.ok => u.sp \in (t.sz - PGSIZE)..t.sz

\* A process has the pages below its size, and each contains what the process
\* put there, or the kernel on its behalf: fresh pages are zero, a child has a
\* copy, a failed exec() leaves the old program alone, and a new stack does not
\* run into the page below it.
MemoryIsOwn ==
    \A p \in Slot :
        /\ MappedBelowSize(p)
        /\ th[p].pc = "args" => StackFits(th[p])
        /\ \A a \in Page :
             expect[p][a] = IF proc[p].vm.pte[a] = 0 THEN ""
                            ELSE mem[proc[p].vm.pte[a]]

\* What argint(), argptr() and fetchstr() accept is memory of the process, up to
\* the last byte they or their callers touch and with sums that may wrap around,
\* so that the kernel does not fault on it.
AcceptedIsMapped ==
    \A p \in Slot : Runs(p) =>
        LET sz == proc[p].sz
            mapped(i, j) == \A x \in {i, j} :
                x < KERNBASE /\ proc[p].vm.pte[x \div PGSIZE] # 0 IN
        \A i \in 0..(Modulus - 1) :
            /\ \A size \in {1, INTSZ, PGSIZE, KERNBASE - 1} :
                  argptr(i, size, sz) => mapped(i, i + size - 1)
            /\ \A n \in 0..2 : argint(i, n, sz) =>
                  mapped(ArgAddr(i, n), ArgAddr(i, n) + INTSZ - 1)
            /\ fetchstr(i, sz) # -1 => mapped(i, fetchstr(i, sz))
=============================================================================
