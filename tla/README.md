# TLA+ models of the Dave kernel

Dave is a small Unix-like operating system for multiprocessor x86 PCs.  This
directory models its parts in TLA+, checks the models with TLC and proves
properties of them with TLAPS.  `PROJECT.json` lists the components, runs,
mutants, hazards and theorems, and maps each definition to source lines.

## The system and its parts

| part | source | state | module |
|---|---|---|---|
| sleep locks | `sync/sleeplock.c` | `locked`, the spin lock `lk` | `SleepLock` |
| processes, scheduler, traps | `core/proc.c`, `platform/x86/trap.c` | `ptable`, `nextpid`, per-CPU `proc` | `Proc` |
| redo log | `storage/log.c` | `log`, the log on disk | `Log` |
| buffer cache and IDE driver | `storage/bio.c`, `storage/ide.c` | `bcache`, `idequeue`, the disk | `BufCache` |
| pipes | `core/pipe.c` | `struct pipe` | `Pipe` |
| inode cache, names, file table, file calls | `storage/fs.c`, `core/file.c`, `core/sysfile.c` | `icache`, `ftable`, `ofile`, `cwd`, dinodes, directories | `Files` |
| contents of files | `storage/fs.c`, `core/file.c` | bitmap, blocks, `addrs`, `size`, `f->off` | `Blocks` |
| memory, exec, user addresses | `memory/kalloc.c`, `memory/vm.c`, `core/exec.c`, `core/syscall.c` | free list, page tables, `sz` | `Memory` |
| console, keyboard, serial line, spin locks | `devices/console.c`, `devices/kbd.c`, `devices/uart.c`, `sync/spinlock.c` | `input`, cursor, `shift`, interrupt flag, `ncli`, `intena` | `Console` |
| Hello, the shell | `user/bin/hello.c` | command tree, processes, descriptors | `Shell` |
| ted, the editor | `user/bin/ted.c` | ordered line buffer, files | `Ted` |
| Hello running ted | both | both | `Session` |

Concurrency comes from CPUs, from clock ticks that preempt a process wherever
it holds no spin lock, and from interrupts.  Everything that waits does so with
`sleep()`, and `kill()` can end any such wait early.  Data survives a crash
only through the log.

## Modules

`Mutex`, `AtomicDisk`, `ByteQueue` and `BlockStore` are abstract
specifications: what a sleep lock, the log, a pipe and the buffer cache
promise.  The detailed modules are shown to implement them.

**SleepLock** has one step for each stretch of `sleeplock.c` and `sleep()`,
`wakeup()` between two lock operations; the spin locks `lk` and `ptable.lock`
are variables that hold their owner.  `Kill` is `kill()` hitting a sleeper.

**Proc** numbers the slots of `ptable.proc`.  `state`, `pid`, `parent`, `chan`
and `killed` are the fields of `struct proc`, `kstack` the slots that own a
kernel stack, `pc` the place of each kernel thread, `plock` the CPU that holds
`ptable.lock`, and `at`, `scan`, `cpuproc` the state of each CPU's scheduler.
Code under `ptable.lock` is one step, but a switch of stacks is a step of its
own, so that a process is seen to run on its stack after it has become
RUNNABLE, SLEEPING or a ZOMBIE.  fork is four steps, each of which can fail
where the code can.  A system call that does nothing to the table may sleep,
and so may `exit()` while it closes files.

**Log** keeps the home blocks, the log blocks and the header on disk, the
buffered copy of each block, and `struct log`.  Each disk write is a step, and
`Crash` may come between any two, during recovery too.  The capacity test of
`log_write()` is a step of its own because it is made outside `log.lock`.
`Writes` says which blocks and values the calls of a process may write.

**BufCache** models `bget()` with its list in order of use, the sleep locks of
the buffers as mutexes (see SleepLock), and `iderw()` and `ideintr()` with the
request queue.  A user is one bread ... brelse span; a process that holds two
buffers is two users.

**Pipe** has the ring, its two counters with a scaled-down width, `p->lock`,
and one step for each byte.  The file layer's count of references to an end
decides who calls `pipeclose()`.

**Files** is about references and locks.  A handler runs up to its next call
of ilock, iunlock, iput, fileclose, begin_op or end_op.  The calls it makes
next stand in `todo` and are steps of their own; iput, which tests and drops
under different locks, is three.  A path is a sequence of names, a directory a
function from names to inode numbers.  `Calls` says which system calls a
process makes, `Starts` what is on the disk and open before the first of them.  The history variable `raced` holds the inodes that two
overlapping iput()s left behind (see Observations).

**Blocks** continues below Files: one turn of the loop in readi() or writei()
is a step, with its bmap() and balloc().  A cell of a data block is a byte and
a cell of an indirect block is a block number.  Byte counts, offsets and the
chunks of write() are those of the code with small sizes; offsets wrap.  The
history variable `content` is what the writes have put in each file.

**Memory** has frames, page tables with their own frames, and sizes in bytes.
The functions of `vm.c` map a record of memory to another, and an action is a
whole system call, except that exec() goes header by header.  `left` is chosen
by each call: the number of pages it gets before kalloc() fails.

**Console** takes acquire() apart into the instructions of pushcli() and the
exchange, with the interrupt flag, `ncli` and `intena` of each CPU, because a
tick may move the process between them.  A flag of a CPU or of a process
(`flag`, `intena`, `eflags`, `saved`, `trap`, `killed`) is the set of those that
have it.  consoleintr() runs on the boot CPU
whenever its interrupts are on; keys are strokes that the keyboard turns into
scan codes.  The history variable `line` holds the committed characters that
have not been read.

**Shell** has the parser as operators on tokens and runcmd() as steps of
processes with descriptors, pipes and wait().  `Meaning` says, by recursion on
the command tree, what is to arrive where; it knows nothing of processes.
A program reads its input to the end, then writes something of its own.
`files` holds the files that open() finds; a redirection of output makes one,
and open() may fail in both directions.  The shell starts with the three
descriptors that init leaves it.  `Segments` stands for the way the text after
`path set` is cut and divided.

**Ted** has the buffer and each command.  Files are sequences of characters,
since what is read back depends on how numbers, blanks and long lines are
written.  Line numbers are integers of `IntBits` bits that wrap.  `program` is what the typed and loaded lines mean: a function from
numbers to texts.

**Session** composes Shell and Ted: ted is started by runcmd(), takes lines
while the shell waits, and its exit is the exit of that process.

The other modules are linked by what they assume of each other.  BufCache and Pipe
take sleep locks and `sleep()` as SleepLock proves them, and Log takes from the
buffer cache what BufCache shows it keeps.  Files and Blocks take transactions
from Log, which leaves them begin_op() and end_op() with a limit; Blocks shows
in return that write() stays within what begin_op() reserves.  Console takes
the switch between processes from Proc.

## Runs

| run | question | instance |
|---|---|---|
| `sleeplock` | refinement of `Mutex`, no lost wakeup, sleepers are woken | 4 processes |
| `proc` | kernel stacks, missed exits | 3 slots, 2 CPUs |
| `proc_live` | no starvation; init reaps | 3 slots, 1 CPU |
| `log` | crash atomicity: refinement of `AtomicDisk`; room in the header; begin_op() wakes | 3 processes, 3 blocks, one block a call, room for 2 |
| `pipe` | refinement of `ByteQueue`, what calls return, freeing, sleepers are woken | 2 writers, 1 reader, pipe of 2 bytes, counters modulo 4 |
| `bufcache` | refinement of `BlockStore`; buffers, users and requests fit together; requests are finished | 2 users, 2 buffers, 3 blocks |
| `files` | reference and link counts, what is in use is not freed, transactions, lock order, assertions | 2 processes, 4 inodes, 3 cache entries, 3 files, 2 descriptors, 3 calls |
| `files_wait` | expected violation, see below | 2 processes, 2 calls |
| `blocks` | block ownership, contents, whole reads, log budget | 2 processes, 3 open files on 2 inodes, 5 blocks, 1 direct and 2 indirect blocks a file, 4 calls |
| `memory` | conservation of pages, contents, sizes, stack, user addresses | 3 slots, 24 frames, 3 page tables of 2 pages, 4 calls |
| `console` | locks and interrupts, line buffer, stuck keys; readers return | 2 CPUs, 2 processes, buffer of 2, indices modulo 4, screen of 2 by 2, 1 tick |
| `shell` | what a line means is what happens; descriptors; the parser; everything ends; the editor's buffer, flag and files | all lines of up to 3 tokens and 12 longer scripts, 5 processes, 6 lines typed into ted |

Why the bounds suffice.

* A sleep lock needs a holder, a releaser, a sleeper and a newcomer.
* Two CPUs race for one process, and three slots give a grandchild that init inherits.
* In the log two calls form a group while the third waits for room; a group of
  two blocks can be installed half.  There is a third block, with a process of
  its own that writes it, so that without begin_op()'s reservation the header
  would be asked for more than it holds.
* A pipe of two bytes with two writers makes them sleep in the middle of a
  write, and the counters wrap after four bytes.
* With fewer buffers than blocks every read recycles.
* In `files` one process changes names while the other uses them, from four
  starting points: with a file, with a directory in a directory, with the
  second process yet to be forked, and with a file that both have open through
  one file structure, which each may close.  Each table is full in some state,
  and calls wait for each other in each way `LockOrder` allows.
* In `blocks` a file of three blocks has direct and indirect ones, one inode is
  open twice and one open file is shared, and two files exceed the disk.
* In `memory` frames run out in every call because `left` may be anything;
  images are wrong in each way exec() tests for, and arguments fill the stack
  page or exceed it.
* In `console` a script of four strokes fills the buffer, erases, commits or
  ends the input, and the cursor passes the end of the screen; another script
  presses both control keys and releases the first one first.  The indexes do
  not pass their modulus in four strokes; that they may is proved.
* In `shell` a pipe of two programs and one that is left in the background need
  all five processes; three lines fill ted's buffer, lines lose their ends at
  six columns, files have at most 14 characters, and 40 is a number that does
  not fit the 6 bits of an int.

Bounds that are not in the code: `MaxPid` (no fork beyond it), `MaxN` (largest
read or write), `Victim` and `Victims` (processes that get killed), `MaxDirty`
(blocks the log pins, at most LOGSIZE in the code), `MaxCalls`, `MaxTicks`,
`MaxTyped`.  They end behaviours, the machine may stop in a panic, and
processes may stop making calls, so deadlock is checked only for SleepLock and
Log.  `AssertionsHold`, `FramesConserved`, `BlocksOwnedOnce` and
`InterruptsMatch` say, among other things, which panics do not happen;
`CallsReturn`, `RequestsDone`, `ReaderReturns` and `AllEnd` say what ends.
Types (`TypeOK`) are checked as a part of these invariants, or proved.

### What the violation shows

`files_wait`: `create()` calls `iunlockput(dp)` with the new inode still locked,
and `iput()` locks `dp` once more.  Between the two an `unlink()` of the new
name can lock the directory and wait for the inode.  Both system calls wait for
ever, and every call that follows into that directory waits with them.  A
comment in `fs.c` says that the separation of iget() and ilock() "helps avoid
deadlock".

`LockOrder`, in the run `files`, says what such circles have in common.  ilock()
is called with another inode locked only from a directory to an inode named in
it, and such waits never close a circle; one process of the circle is always in
an `iput()` that goes the other way with a lock held.  The run reaches three of
them: the one above; `link(f, "/a/..")`, where dirlink() puts the root with `/a`
locked, against `unlink("/a")`; and `link(f, "/a/.")`, where dirlink() puts the
directory that its own process has locked, and waits for itself.

### Observations

The following was met while modelling.  It follows from the code, and the
properties of the passing runs are stated so as to allow for it.

* Processes: `kill()` does not look at the state of the slot it finds, and
  `allocproc()` does not clear `killed`.  A kill of pid 0, or of a pid left in
  its slot by a failed fork, kills the next process that gets the slot.
* Log: `log_write()` tests for room before it looks for the block in
  the header; a full header panics even if the block would be absorbed.
  `LogFits` says that this is the only panic there, provided that the log on
  disk has more than LOGSIZE blocks.  Its size is read from the superblock, and
  begin_op() does not look at it: with LOGSIZE blocks, of which the first is the
  header's, log_write() panics one block before the reservation is used up.
* Pipe: a killed writer leaves a full pipe without waking readers.
* IDE: a failed read is reported as a valid buffer.  The run assumes that reads
  do not fail (`Outcome`).
* Inodes: when two iput()s of an unlinked inode overlap, each sees the other's
  reference, and neither frees the inode; it stays allocated for ever
  (`FreedUnlessRaced`).
* Directories: the `..` of a directory that was removed while in use can name
  an inode that is gone; a lookup through it panics in ilock().
* sbrk: giving back exactly all of the memory frees every page, yet sbrk() fails
  and leaves `sz` as it was, since deallocuvm() returning 0 is taken for an
  error.  A failed sbrk() may also keep a page-table page.
* Shell: `>>` does the same as `>`.  Of several redirections of one
  descriptor the one written first wins.  If fork fails in main() the shell ends.
* ted: saving over a longer file leaves the rest of it in place.  Results of
  write() are ignored.  A long line loses characters when it is read
  back, because there the number counts against the line's length, and blanks
  at the beginning of a text are lost.  HELP offers `Q!`, but only `q!` is
  accepted.  OPEN drops unsaved edits without asking.  A text that is too long
  for the file is cut off, and the buffer counts as clean all the same: `q`
  then leaves without a warning, though HELP says that only `Q!` "ignores
  unsaved edits".  A number that does not fit an int wraps; a negative one is
  saved without digits, and its line comes back with another number.
  `CleanIsSaved` is about texts that are not too long, and its second half about
  lines with numbers that are not negative.

## Fairness

Processes and CPUs that can take a step do so (weak fairness of the kernel's
steps).  Beyond that: clock ticks keep coming; an interrupt handler that spins
for `ptable.lock` gets it in the end (strong fairness of `IoWakeup`); init
keeps calling `wait()` (`init.c`); a file system call that has begun ends; a
process that holds a pipe end uses or closes it; the disk answers; a runnable
process is chosen (strong fairness of `Dispatch` in Console, which
`RunnableRuns` of Proc supports); whoever types leaves the editor some time.  In
Session the step that starts ted is fair too; this is written as "ted does not
stay before its first prompt", since the step is enabled exactly there.  For
sleep locks, kills do not go on for ever: the spin locks are not fair, and each
kill lets a sleeper race the releaser for `lk` once more.

## Proofs

The theorems hold for any number of processes, slots, CPUs, blocks and values.
Each rests on an inductive invariant `Inv`, since what one wants to know is
never inductive by itself; the proof that a step preserves it has one lemma or
one case for each action.

`SleepLockProofs`: mutual exclusion, no lost wakeup, and the refinement of
`Mutex`.  `Inv` ties the owner of each spin lock to the place in the code where
it is held, and says that while anybody sleeps, the lock is taken or its
releaser has yet to wake the sleepers.  Assumption: `NoProc` is not a process.

`ProcProofs`, with the facts about fork and the frame lemmas in `ProcLemmas`: no
two CPUs are on one kernel stack and none is on a freed one (`OwnStack`),
`sched()` is called as it demands (`SchedCalledRight`), no parent sleeps
through the exit of a child (`NoMissedExit`), every process has a live parent
(`LiveParent`), pids are unique (`UniquePid`).  `Inv` has five parts: what each
CPU is doing and whether it holds `ptable.lock` (`CpuInv`), what the state of a
slot says about its thread (`SlotInv`), the half-made child of each fork
(`ForkInv`), parents (`FamilyInv`) and pids (`PidInv`).  `ForkInv` is needed
because a child has no parent until `fork()` sets one, `CpuInv` because a
process is RUNNABLE before it has left its stack.
Assumptions: there is at least one slot, `NoCpu` is not a CPU, and the bound on
pids is a natural number.

`LogProofs`: the header never overflows, log_write() panics over no block that
is not in it yet (`LogFits`), and with no call open
everything is on disk (`QuiescentDurable`).  `Inv` says who may be where while
a commit or a recovery runs (`ControlInv`); that the slots in use and the slots
which open calls may still ask for fit together (`ReserveInv`: this is what
makes `LogFits` inductive, since `begin_op()` only looks at a product); what the
header on disk names in each phase (`HeadInv`); which buffers differ from the
disk (`BufferInv`); and how far the copies of commit have come (`CopyInv`).
`LogRefinement` then proves that the log implements `AtomicDisk`: the write of
the header is the commit, everything else before and after it, and recovery,
leaves the abstract disk alone.  Assumptions: finitely many processes,
`0 < MAXOPBLOCKS <= LOGSIZE`, `None` is neither a block nor a value, and `Writes`
has blocks and values.  The lemma `RoomForNewBlock` is where the reservation
counts: a call that logs a block of its own still has a slot to itself.

`BufCacheProofs`: buffers, users and requests fit together (`HeldIsValid`), with
kills and also on a disk that makes errors.  `Inv` adds who has which buffer and
who its lock (`OwnerInv`: nobody has a buffer that is recycled, and the owner of a
queued one is in `iderw()`), and that a queued buffer has no data or is dirty
(`DataInv`: so a woken process that finds the buffer synced knows that the disk is
done with it).  For `Outcome = {TRUE}`, a disk without errors, it also proves that
the cache implements `BlockStore`; there `CleanInv` is needed, that a clean buffer
holds what the disk has, so that recycling it loses nothing.  Assumptions: finitely
many users and buffers, and the three null values are none of the others.

`PipeProofs`: what read() and write() return is true (`ResultsTrue`), the page is
not freed under anyone (`NoUseAfterFree`), and the pipe implements `ByteQueue`.
`Inv` adds that the lock is held exactly inside the copy loops (`LockInv`), that
one process of each end, the last, reaches pipeclose() (`EndsInv`: without it
`NoUseAfterFree` is not inductive, since a process that waits for the lock
could find the page gone), and that a reader in its copy loop that has nothing
yet knows of a byte or of the writers' end (`LoopInv`: this is why an end of
file is never reported early).  The refinement maps the ring to the sequence
between its counters; its lemmas say that a put appends to that sequence and a
get takes its head also when a counter wraps.  Assumptions: the counters wrap at
a multiple of the ring's size that is larger than it, and no process holds both
ends.

`ConsoleProofs`: locks and interrupts (`InterruptsMatch`), the input buffer
(`BufferHoldsLine`) and the keyboard (`NoStuckKey`).  `InterruptsMatch` rests on
`LockInv`: what the interrupt flag and `ncli` of a CPU are follows from what the
CPU runs (`CpuInv`), an interrupt is handled only on top of code that holds
nothing, and a process that is not running will get back, from `sched()` or
from the return of the trap, the interrupts it had (`ProcInv`; without it
nothing is known about a process that is dispatched on another CPU).  The type
of the cursor (`HandlerType`) is what keeps cgaputc() from its panic.  `InputInv` adds to `BufferHoldsLine` that a
read() that goes on has not seen the end of a line; the case that carries it is
the character that fills the buffer and commits.  `KeyInv` says that a control
key taken for held is down or its code is still to be read.  Assumptions: the
indexes wrap at a multiple of INPUT_BUF that is larger than it, the screen has
two rows or more, and what is typed comes from `Typed`.

Only model-checked: all liveness properties (`SleepersWake`, `RunnableRuns`,
`OrphansReaped`, `BeginWakes`, `RequestsDone`, `ReaderReturns`, `AllEnd`,
`CallsReturn`), since fairness and ENABLED are out of the prover's reach;
everything about Shell and Ted, which use recursive operators (numbers, command
trees), and about Memory, whose system calls fold over page tables, because both
need induction over data; and Files and Blocks.  Their counts of references and
of blocks compare cardinalities over tables with the position of every call
that is under way, and an inductive invariant would have to say this for each
of their program points.

## Not modelled

* Boot code, interrupt controllers, multiprocessor tables: straight-line
  hardware set-up and register-level I/O.
* The memory disk, which replaces the IDE driver in one build by a copy.
* `umalloc.c`, the user library and the small programs: sequential code inside
  one process.
* `sys_sleep()`, `sys_uptime()` and the tick counter; the time of day.
* The translation buffer and `switchuvm()`: in Memory a change of a page table
  is seen at once.
* The blocks of directories: a directory is a function in Files.  Devices other
  than the console, and the superblock.
* What programs print, except where it goes.
* ted in the background or with its input redirected: at the end of its input
  its loop would go on for ever, as `gets()` then returns an empty line.
