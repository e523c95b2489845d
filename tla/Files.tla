------------------------------- MODULE Files -------------------------------
(***************************************************************************)
(* The inode cache and the name space (storage/fs.c), the file table       *)
(* (core/file.c) and the system calls that move references between them    *)
(* (core/sysfile.c), for several processes at once.                        *)
(*                                                                         *)
(* A handler runs to its next call of ilock, iunlock, iput, fileclose,     *)
(* begin_op or end_op and leaves in `todo' the calls it makes next, in     *)
(* order, and in `pc' the place where it goes on.  Each call is a step of  *)
(* its own; iput, which tests and drops under different locks, is three.   *)
(* A local variable that no longer owns its reference is 0.                *)
(*                                                                         *)
(* A directory's content is a function from names to inode numbers, 0 for  *)
(* no entry; blocks and offsets are in module Blocks.  System calls whose  *)
(* arguments cannot be fetched change nothing and are not taken.           *)
(***************************************************************************)
EXTENDS Integers, Sequences, FiniteSets, FiniteSetsExt, Functions

CONSTANTS Proc,      \* process slots
          InitProc,  \* the process that never exits
          Names,     \* file names
          NInodes,   \* inodes on disk, the first is the root
          NINODE,    \* entries of the inode cache
          NFILE,     \* entries of the file table
          NOFILE,    \* descriptors of a process
          MaxTxn,    \* system calls the log admits at once
          Starts,    \* disks, current directories and open files to start from
          Calls,     \* the system calls of each process, with arguments
          MaxCalls   \* bound: calls made in a behaviour

ASSUME FilesAssumption ==
    /\ InitProc \in Proc
    /\ {NInodes, NINODE, NFILE, NOFILE, MaxTxn} \subseteq Nat \ {0}
    /\ MaxCalls \in Nat

VARIABLES disk,    \* dinodes and directory contents
          icache,  \* icache.inode
          ftable,  \* ftable.file
          ofile,   \* p->ofile
          cwd,     \* p->cwd, an entry of icache
          th,      \* kernel thread of each process
          alive,   \* processes that exist
          txn,     \* processes inside begin_op ... end_op
          raced,   \* history: inodes whose iput() counted a pointer that
                   \* another iput() was about to drop
          panic,   \* message of the panic that stopped the kernel
          ncalls   \* calls made

vars == <<disk, icache, ftable, ofile, cwd, th, alive, txn, raced,
          panic, ncalls>>

Inum == 1..NInodes
Slot == 1..NINODE
File == 1..NFILE
Fd == 1..NOFILE
ROOTINO == 1
NoProc == "no process"

Entry == Names \cup {".", ".."}
NoEntries == [n \in Entry |-> 0]
Types == {"dir", "file", "dev"}
FreeDinode == [type |-> "free", nlink |-> 0, ents |-> NoEntries]
FreeInode == [inum |-> 0, ref |-> 0, valid |-> FALSE, type |-> "free",
              nlink |-> 0, lock |-> NoProc]
FreeFile == [ref |-> 0, type |-> "none", ip |-> 0]
Idle == [pc |-> "idle", todo |-> <<>>, ip |-> 0, dp |-> 0, nx |-> 0, f |-> 0,
         g |-> 0, path |-> <<>>, par |-> FALSE, name |-> "", ret |-> "",
         call |-> [op |-> "none"]]

\* The calls a handler still has to make.
Lock(s) == <<"ilock", s>>
Unlock(s) == <<"iunlock", s>>
Put(s) == <<"iput", s>>
Close(f) == <<"fileclose", f>>
Begin == <<"begin_op", 0>>
End == <<"end_op", 0>>
UnlockPut(s) == <<Unlock(s), Put(s)>>

\* Between two system calls of all processes: the cache holds the current
\* directories and the file, if any, that all processes have open.
Init ==
    /\ \E start \in Starts :
          LET refs(s) == Cardinality({p \in Proc : start.cwd[p] = s})
                         + (IF start.file = s THEN 1 ELSE 0)
              live == {p \in Proc : start.cwd[p] # 0} IN
          /\ disk = start.disk
          /\ cwd = start.cwd
          /\ alive = live
          /\ icache = [s \in Slot |->
                 IF refs(s) = 0 THEN FreeInode
                 ELSE [FreeInode EXCEPT !.inum = s, !.ref = refs(s), !.valid = TRUE,
                          !.type = start.disk[s].type, !.nlink = start.disk[s].nlink]]
          /\ ftable = [f \in File |->
                 IF f = 1 /\ start.file # 0
                 THEN [ref |-> Cardinality(live), type |-> "inode", ip |-> start.file]
                 ELSE FreeFile]
          /\ ofile = [p \in Proc |-> [d \in Fd |->
                 IF d = 1 /\ start.file # 0 /\ p \in live THEN 1 ELSE 0]]
    /\ th = [p \in Proc |-> Idle]
    /\ txn = {}
    /\ raced = {}
    /\ panic = ""
    /\ ncalls = 0

-----------------------------------------------------------------------------
(* Steps of a thread. *)

At(p, label) == /\ panic = ""
                /\ p \in alive
                /\ th[p].pc = label
                /\ th[p].todo = <<>>

\* p goes on at label once it has made the calls todo, with ip and dp.
Go(p, label, todo, ip, dp) ==
    th' = [th EXCEPT ![p] =
             IF label = "idle" /\ todo = <<>> THEN Idle
             ELSE [@ EXCEPT !.pc = label, !.todo = todo, !.ip = ip, !.dp = dp,
                            !.nx = 0]]

\* The system call returns after the calls todo and end_op.
Return(p, todo) == Go(p, "idle", todo \o <<End>>, 0, 0)

\* The thread after the first of its calls: the rest, and a last return.
After(t, todo) ==
    IF t.pc = "idle" /\ todo = <<>> THEN Idle ELSE [t EXCEPT !.todo = todo]

Popped(p) == th' = [th EXCEPT ![p] = After(@, Tail(@.todo))]

Next1(p, op) == /\ panic = ""
                /\ th[p].todo # <<>>
                /\ Head(th[p].todo)[1] = op

Panic(msg) == panic' = msg

\* A step that changes nothing but its own thread.
ThreadOnly ==
    UNCHANGED <<disk, icache, ftable, ofile, cwd, alive, txn, raced, panic, ncalls>>

-----------------------------------------------------------------------------
(* The inode cache. *)

\* iget(): the entry that holds inum, or the first that is not in use.
SlotFor(inum) ==
    LET cached == {s \in Slot : icache[s].ref > 0 /\ icache[s].inum = inum}
        unused == {s \in Slot : icache[s].ref = 0}
    IN IF cached # {} THEN Min(cached)
       ELSE IF unused # {} THEN Min(unused) ELSE 0

iget(inum) ==
    LET s == SlotFor(inum) IN
    IF icache[s].ref > 0
    THEN [icache EXCEPT ![s].ref = @ + 1]
    ELSE [icache EXCEPT ![s].inum = inum, ![s].ref = 1, ![s].valid = FALSE]

\* A handler's call of iget(), which panics when every entry is in use.
Iget(inum) ==
    IF SlotFor(inum) = 0
    THEN Panic("iget: no inodes") /\ UNCHANGED icache
    ELSE icache' = iget(inum) /\ UNCHANGED panic

\* A pointer that is not counted.
MutIdup(s) == icache

idup(s) == [icache EXCEPT ![s].ref = @ + 1]

\* The dinode as iupdate() leaves it; iget() and ilock() use it as read.
iupdate(d, i, type, nlink) == [d EXCEPT ![i].type = type, ![i].nlink = nlink]

\* ilock(): acquiresleep(), then the dinode is read if it has not been.
Ilock(p) ==
    /\ Next1(p, "ilock")
    /\ LET s == Head(th[p].todo)[2]
           d == disk[icache[s].inum] IN
       /\ icache[s].lock = NoProc
       /\ icache' = IF icache[s].valid
                    THEN [icache EXCEPT ![s].lock = p]
                    ELSE [icache EXCEPT ![s].lock = p, ![s].valid = TRUE,
                             ![s].type = d.type, ![s].nlink = d.nlink]
       /\ panic' = IF icache[s].ref < 1 THEN "ilock"
                   ELSE IF ~icache[s].valid /\ d.type = "free"
                        THEN "ilock: no type" ELSE ""
    /\ Popped(p)
    /\ UNCHANGED <<disk, ftable, ofile, cwd, alive, raced, txn, ncalls>>

Iunlock(p) ==
    /\ Next1(p, "iunlock")
    /\ LET s == Head(th[p].todo)[2] IN
       /\ panic' = IF icache[s].lock # p \/ icache[s].ref < 1
                   THEN "iunlock" ELSE ""
       /\ icache' = [icache EXCEPT ![s].lock = NoProc]
    /\ Popped(p)
    /\ UNCHANGED <<disk, ftable, ofile, cwd, alive, raced, txn, ncalls>>

\* iput()'s test without the reference count, and off by one.
MutShared(s) == icache[s].valid /\ icache[s].nlink = 0
MutNever(s) == icache[s].valid /\ icache[s].nlink = 0 /\ icache[s].ref < 1

\* iput()'s test: no links and no other references.
LastReference(s) ==
    icache[s].valid /\ icache[s].nlink = 0 /\ icache[s].ref = 1

\* Another iput() of entry s has made its test but not dropped its reference.
Dropping(p, s) == \E q \in Proc \ {p} : <<"ref--", s>> \in Range(th[q].todo)

\* iput() up to its test: the lock is taken, ref is read under icache.lock.
Iput(p) ==
    /\ Next1(p, "iput")
    /\ LET s == Head(th[p].todo)[2] IN
       /\ icache[s].lock = NoProc
       /\ icache' = [icache EXCEPT ![s].lock = p]
       /\ th' = [th EXCEPT ![p].todo =
                   (IF LastReference(s) THEN <<<<"itrunc", s>>>> ELSE <<>>)
                   \o <<<<"releasesleep", s>>, <<"ref--", s>>>> \o Tail(@)]
       /\ raced' = IF icache[s].nlink = 0 /\ Dropping(p, s)
                   THEN raced \cup {icache[s].inum} ELSE raced
    /\ UNCHANGED <<disk, ftable, ofile, cwd, alive, txn, panic, ncalls>>

\* iput() of the last reference to a file without links: itrunc(), then the
\* inode is marked free on the disk.
IputFree(p) ==
    /\ Next1(p, "itrunc")
    /\ LET s == Head(th[p].todo)[2] IN
       /\ disk' = [disk EXCEPT ![icache[s].inum] = FreeDinode]
       /\ icache' = [icache EXCEPT ![s].type = "free", ![s].valid = FALSE]
    /\ Popped(p)
    /\ UNCHANGED <<ftable, ofile, cwd, alive, raced, txn, panic, ncalls>>

\* The end of iput(): the lock is released, then the reference dropped.
IputUnlock(p) ==
    /\ Next1(p, "releasesleep")
    /\ icache' = [icache EXCEPT ![Head(th[p].todo)[2]].lock = NoProc]
    /\ Popped(p)
    /\ UNCHANGED <<disk, ftable, ofile, cwd, alive, raced, txn, panic, ncalls>>

IputDrop(p) ==
    /\ Next1(p, "ref--")
    /\ icache' = [icache EXCEPT ![Head(th[p].todo)[2]].ref = @ - 1]
    /\ Popped(p)
    /\ UNCHANGED <<disk, ftable, ofile, cwd, alive, raced, txn, panic, ncalls>>

-----------------------------------------------------------------------------
(* Inodes and entries on the disk. *)

\* ialloc(): a free dinode gets its type and nothing else.
ialloc(i, type) == [disk EXCEPT ![i] = [FreeDinode EXCEPT !.type = type]]

dirlookup(i, name) == disk[i].ents[name]

\* What dirlink() writes, once it has not found the name.
dirlink(d, j, name, i) == [d EXCEPT ![j].ents[name] = i]

-----------------------------------------------------------------------------
(* Transactions: begin_op() waits while the log may run out of space. *)

BeginOp(p) ==
    /\ Next1(p, "begin_op")
    /\ Cardinality(txn) < MaxTxn
    /\ txn' = txn \cup {p}
    /\ Popped(p)
    /\ UNCHANGED <<disk, icache, ftable, ofile, cwd, alive, raced, panic, ncalls>>

EndOp(p) ==
    /\ Next1(p, "end_op")
    /\ txn' = txn \ {p}
    /\ Popped(p)
    /\ UNCHANGED <<disk, icache, ftable, ofile, cwd, alive, raced, panic, ncalls>>

-----------------------------------------------------------------------------
(* The file table. *)

\* filealloc(): the first entry that is not in use, 0 if there is none.
filealloc ==
    LET unused == {f \in File : ftable[f].ref = 0}
    IN IF unused = {} THEN 0 ELSE Min(unused)

\* fdalloc(): the first free descriptor.
fdalloc(fds) ==
    LET unused == {d \in Fd : fds[d] = 0}
    IN IF unused = {} THEN 0 ELSE Min(unused)

\* What fileclose() does for the last reference to an inode's file.
Closing(ff) == IF ff.type = "inode" THEN <<Begin, Put(ff.ip), End>> ELSE <<>>

\* fileclose(): the last reference to an inode's file puts the inode, in a
\* transaction of its own.
Fileclose(p) ==
    /\ Next1(p, "fileclose")
    /\ LET f == Head(th[p].todo)[2]
           rest == Tail(th[p].todo)
           ff == ftable[f] IN
       /\ panic' = IF ff.ref < 1 THEN "fileclose" ELSE ""
       /\ IF ff.ref > 1
          THEN /\ ftable' = [ftable EXCEPT ![f].ref = @ - 1]
               /\ Popped(p)
          ELSE /\ ftable' = [ftable EXCEPT ![f] = FreeFile]
               /\ th' = [th EXCEPT ![p] = After(@, Closing(ff) \o rest)]
    /\ UNCHANGED <<disk, icache, ofile, cwd, alive, raced, txn, ncalls>>

-----------------------------------------------------------------------------
(* Path names: namex(), which returns to t.ret with the inode in t.nx.  A   *)
(* path is the sequence of its elements, after "/" if it is absolute.       *)

\* The test of the loop, made after the calls todo: skipelem() finds another
\* element of the path and inode s is locked, or the last has been followed.
Follow(t, todo, s, path) ==
    IF path # <<>>
    THEN [t EXCEPT !.pc = "lookup", !.todo = todo \o <<Lock(s)>>, !.nx = s,
                   !.path = path]
    ELSE IF t.par
    THEN [t EXCEPT !.pc = t.ret, !.todo = todo \o <<Put(s)>>, !.nx = 0,
                   !.path = <<>>]
    ELSE [t EXCEPT !.pc = t.ret, !.todo = todo, !.nx = s, !.path = <<>>]

\* The next inode is locked before the directory is unlocked.
MutLeave(dir, s) == <<Lock(s)>> \o UnlockPut(dir) \o <<Unlock(s)>>

\* From a directory to the inode s found in it.
Leave(dir, s) == UnlockPut(dir)

NamexStart(p) ==
    /\ At(p, "namex")
    /\ LET t == th[p]
           abs == t.path # <<>> /\ Head(t.path) = "/"
           s == IF abs THEN SlotFor(ROOTINO) ELSE cwd[p] IN
       /\ IF abs THEN Iget(ROOTINO) ELSE icache' = idup(s) /\ UNCHANGED panic
       /\ th' = [th EXCEPT ![p] =
                   Follow(t, <<>>, s, IF abs THEN Tail(t.path) ELSE t.path)]
    /\ UNCHANGED <<disk, ftable, ofile, cwd, alive, raced, txn, ncalls>>

\* The body of the loop, with the inode locked.
NamexLookup(p) ==
    /\ At(p, "lookup")
    /\ LET t == th[p]
           ip == icache[t.nx]
           name == Head(t.path)
           next == IF ip.type = "dir" THEN dirlookup(ip.inum, name) ELSE 0
           last == t.par /\ Len(t.path) = 1 IN
       \/ /\ ip.type # "dir" \/ (~last /\ next = 0)
          /\ th' = [th EXCEPT ![p].pc = t.ret, ![p].todo = UnlockPut(t.nx),
                              ![p].nx = 0, ![p].path = <<>>]
          /\ UNCHANGED <<icache, panic>>
       \/ /\ ip.type = "dir" /\ last
          /\ th' = [th EXCEPT ![p].pc = t.ret, ![p].todo = <<Unlock(t.nx)>>,
                              ![p].name = name, ![p].path = <<>>]
          /\ UNCHANGED <<icache, panic>>
       \/ /\ ip.type = "dir" /\ ~last /\ next # 0
          /\ Iget(next)
          /\ th' = [th EXCEPT ![p] = Follow(t, Leave(t.nx, SlotFor(next)),
                                       SlotFor(next), Tail(t.path))]
    /\ UNCHANGED <<disk, ftable, ofile, cwd, alive, raced, txn, ncalls>>

\* A handler that looked up a path for its inode: where it goes on.
Namei(p, label, ok, todo) ==
    /\ At(p, label)
    /\ IF th[p].nx = 0 THEN Return(p, <<>>)
                       ELSE Go(p, ok, todo, th[p].nx, 0)
    /\ ThreadOnly

-----------------------------------------------------------------------------
(* System calls.  MakeCall begins one: its first path, if any, is looked up *)
(* in a transaction. *)

MakeCall(p) ==
    /\ At(p, "idle")
    /\ ncalls < MaxCalls
    /\ ncalls' = ncalls + 1
    /\ \E c \in Calls[p] :
          /\ c.op \in {"open", "create", "unlink", "link", "chdir"}
          /\ th' = [th EXCEPT ![p] = [Idle EXCEPT
                !.pc = "namex", !.todo = <<Begin>>, !.call = c,
                !.path = c.path, !.ret = c.op,
                !.par = c.op \in {"create", "unlink"}]]
    /\ UNCHANGED <<disk, icache, ftable, ofile, cwd, alive, raced, txn, panic>>

\* Handlers with an inode that is locked and perhaps changed.
Ip(p) == icache[th[p].ip]
Dp(p) == icache[th[p].dp]

\* sys_open() without O_CREATE.
Open(p) == Namei(p, "open", "open: locked", <<Lock(th[p].nx)>>)

OpenLocked(p) ==
    /\ At(p, "open: locked")
    /\ IF Ip(p).type = "dir" /\ th[p].call.mode # "O_RDONLY"
       THEN Return(p, UnlockPut(th[p].ip))
       ELSE Go(p, "open: file", <<>>, th[p].ip, 0)
    /\ ThreadOnly

\* sys_open(): a file structure and a descriptor for the locked inode.
OpenFile(p) ==
    /\ At(p, "open: file")
    /\ LET f == filealloc
           d == fdalloc(ofile[p])
           ip == th[p].ip IN
       /\ ftable' = IF f = 0 THEN ftable ELSE [ftable EXCEPT ![f].ref = 1]
       /\ IF f = 0 \/ d = 0
          THEN /\ Return(p, (IF f = 0 THEN <<>> ELSE <<Close(f)>>)
                            \o UnlockPut(ip))
               /\ UNCHANGED ofile
          ELSE /\ ofile' = [ofile EXCEPT ![p][d] = f]
               /\ th' = [th EXCEPT ![p].pc = "open: set",
                                   ![p].todo = <<Unlock(ip), End>>,
                                   ![p].f = f]
    /\ UNCHANGED <<disk, icache, cwd, alive, raced, txn, panic, ncalls>>

\* sys_open(): the file structure is filled in after end_op().
OpenSet(p) ==
    /\ At(p, "open: set")
    /\ ftable' = [ftable EXCEPT ![th[p].f].type = "inode",
                                ![th[p].f].ip = th[p].ip]
    /\ Go(p, "idle", <<>>, 0, 0)
    /\ UNCHANGED <<disk, icache, ofile, cwd, alive, raced, txn, panic, ncalls>>

\* create(), for sys_open, sys_mkdir and sys_mknod (call.type tells which).
Create(p) ==
    /\ At(p, "create")
    /\ IF th[p].nx = 0 THEN Return(p, <<>>)
                       ELSE Go(p, "create: dp", <<Lock(th[p].nx)>>, 0, th[p].nx)
    /\ ThreadOnly

\* The parent is locked: the name exists, or an inode is allocated.  ialloc()
\* looks at one inode after the other, so that it may miss one freed behind it.
CreateLookup(p) ==
    /\ At(p, "create: dp")
    /\ LET t == th[p]
           found == dirlookup(Dp(p).inum, t.name)
           unused == {i \in Inum : disk[i].type = "free"} IN
       \/ /\ found # 0
          /\ Iget(found)
          /\ Go(p, "create: exists", UnlockPut(t.dp) \o <<Lock(SlotFor(found))>>,
                SlotFor(found), 0)
          /\ UNCHANGED disk
       \/ /\ found = 0
          /\ \E i \in unused :
                /\ disk' = ialloc(i, t.call.type)
                /\ Iget(i)
                /\ Go(p, "create: new", <<Lock(SlotFor(i))>>, SlotFor(i), t.dp)
       \/ /\ found = 0 /\ unused = {}
          /\ Panic("ialloc: no inodes")
          /\ UNCHANGED <<disk, icache, th>>
    /\ UNCHANGED <<ftable, ofile, cwd, alive, raced, txn, ncalls>>

CreateExists(p) ==
    /\ At(p, "create: exists")
    /\ IF th[p].call.type = "file" /\ Ip(p).type = "file"
       THEN Go(p, "open: file", <<>>, th[p].ip, 0)
       ELSE Return(p, UnlockPut(th[p].ip))
    /\ ThreadOnly

\* sys_mkdir() and sys_mknod(), after the rest of create(): they have no use for
\* the inode.
Made(p, todo) == Return(p, todo \o UnlockPut(th[p].ip))

\* Both inodes are locked: the counts, "." and ".." and the new entry.
CreateNew(p) ==
    /\ At(p, "create: new")
    /\ LET t == th[p]
           i == Ip(p).inum
           j == Dp(p).inum
           dir == t.call.type = "dir"
           up == IF dir THEN 1 ELSE 0
           counted == [disk EXCEPT ![i].nlink = 1, ![j].nlink = Dp(p).nlink + up]
           dots == IF dir THEN dirlink(dirlink(counted, i, ".", i), i, "..", j)
                          ELSE counted IN
       /\ icache' = [icache EXCEPT ![t.ip].nlink = 1, ![t.dp].nlink = @ + up]
       /\ disk' = dirlink(dots, j, t.name, i)
       /\ IF t.call.type = "file"
          THEN Go(p, "open: file", UnlockPut(t.dp), t.ip, 0)
          ELSE Made(p, UnlockPut(t.dp))
    /\ UNCHANGED <<ftable, ofile, cwd, alive, raced, txn, panic, ncalls>>

\* sys_unlink().
Unlink(p) ==
    /\ At(p, "unlink")
    /\ IF th[p].nx = 0 THEN Return(p, <<>>)
                       ELSE Go(p, "unlink: dp", <<Lock(th[p].nx)>>, 0, th[p].nx)
    /\ ThreadOnly

UnlinkLookup(p) ==
    /\ At(p, "unlink: dp")
    /\ LET t == th[p]
           found == IF t.name \in {".", ".."} THEN 0
                    ELSE dirlookup(Dp(p).inum, t.name)
           s == SlotFor(found) IN
       \/ /\ found = 0
          /\ Return(p, UnlockPut(t.dp))
          /\ UNCHANGED <<icache, panic>>
       \/ /\ found # 0
          /\ Iget(found)
          /\ Go(p, "unlink: ip", <<Lock(s)>>, s, t.dp)
    /\ UNCHANGED <<disk, ftable, ofile, cwd, alive, raced, txn, ncalls>>

isdirempty(i) == \A n \in Names : disk[i].ents[n] = 0

\* Any entry counts as a link of its directory.
MutDirLinks(s) == 1

\* A directory's ".." counts as a link of its parent.
DirLinks(s) == IF icache[s].type = "dir" THEN 1 ELSE 0

UnlinkEntry(p) ==
    /\ At(p, "unlink: ip")
    /\ LET t == th[p]
           dir == Ip(p).type = "dir"
           j == Dp(p).inum
           down == DirLinks(t.ip) IN
       /\ panic' = IF Ip(p).nlink < 1 THEN "unlink: nlink < 1" ELSE ""
       /\ IF dir /\ ~ isdirempty(Ip(p).inum)
          THEN /\ Return(p, UnlockPut(t.ip) \o UnlockPut(t.dp))
               /\ UNCHANGED <<disk, icache>>
          ELSE
          /\ disk' = [disk EXCEPT ![j].ents[t.name] = 0,
                                  ![j].nlink = Dp(p).nlink - down]
          /\ icache' = [icache EXCEPT ![t.dp].nlink = @ - down]
          /\ Go(p, "unlink: nlink", UnlockPut(t.dp), t.ip, 0)
    /\ UNCHANGED <<ftable, ofile, cwd, alive, raced, txn, ncalls>>

\* The last lines of sys_unlink() and of sys_link()'s error path.
DropLink(p) ==
    /\ icache' = [icache EXCEPT ![th[p].ip].nlink = @ - 1]
    /\ disk' = iupdate(disk, Ip(p).inum, Ip(p).type, Ip(p).nlink - 1)
    /\ Return(p, UnlockPut(th[p].ip))
    /\ UNCHANGED <<ftable, ofile, cwd, alive, raced, txn, panic, ncalls>>

UnlinkNlink(p) == At(p, "unlink: nlink") /\ DropLink(p)

\* sys_link(): the count goes up before the entry is made.
Link(p) == Namei(p, "link", "link: ip", <<Lock(th[p].nx)>>)

LinkNlink(p) ==
    /\ At(p, "link: ip")
    /\ IF Ip(p).type = "dir"
       THEN /\ Return(p, UnlockPut(th[p].ip))
            /\ ThreadOnly
       ELSE /\ icache' = [icache EXCEPT ![th[p].ip].nlink = @ + 1]
            /\ disk' = iupdate(disk, Ip(p).inum, Ip(p).type, Ip(p).nlink + 1)
            /\ th' = [th EXCEPT ![p].pc = "namex", ![p].path = th[p].call.new,
                          ![p].todo = <<Unlock(th[p].ip)>>,
                          ![p].par = TRUE, ![p].ret = "link: parent"]
            /\ UNCHANGED <<ftable, ofile, cwd, alive, raced, txn, panic, ncalls>>

LinkParent(p) ==
    /\ At(p, "link: parent")
    /\ LET t == th[p] IN
       IF t.nx = 0 THEN Go(p, "link: bad", <<Lock(t.ip)>>, t.ip, 0)
                   ELSE Go(p, "link: dp", <<Lock(t.nx)>>, t.ip, t.nx)
    /\ ThreadOnly

\* dirlink() puts the inode it finds under the name, or adds the entry.
LinkEntry(p) ==
    /\ At(p, "link: dp")
    /\ LET t == th[p]
           j == Dp(p).inum
           found == dirlookup(j, t.name)
           s == SlotFor(found) IN
       \/ /\ found # 0
          /\ Iget(found)
          /\ Go(p, "link: bad",
                <<Put(s)>> \o UnlockPut(t.dp) \o <<Lock(t.ip)>>, t.ip, 0)
          /\ UNCHANGED disk
       \/ /\ found = 0
          /\ disk' = dirlink(disk, j, t.name, Ip(p).inum)
          /\ Return(p, UnlockPut(t.dp) \o <<Put(t.ip)>>)
          /\ UNCHANGED <<icache, panic>>
    /\ UNCHANGED <<ftable, ofile, cwd, alive, raced, txn, ncalls>>

LinkBad(p) == At(p, "link: bad") /\ DropLink(p)

\* sys_chdir(): the old directory is put before cwd is assigned.
Chdir(p) == Namei(p, "chdir", "chdir: locked", <<Lock(th[p].nx)>>)

ChdirLocked(p) ==
    /\ At(p, "chdir: locked")
    /\ LET ip == th[p].ip IN
       IF Ip(p).type # "dir"
       THEN Return(p, UnlockPut(ip))
       ELSE Go(p, "chdir: set", <<Unlock(ip), Put(cwd[p]), End>>, ip, 0)
    /\ ThreadOnly

ChdirSet(p) ==
    /\ At(p, "chdir: set")
    /\ cwd' = [cwd EXCEPT ![p] = th[p].ip]
    /\ Go(p, "idle", <<>>, 0, 0)
    /\ UNCHANGED <<disk, icache, ftable, ofile, alive, raced, txn, panic, ncalls>>

-----------------------------------------------------------------------------
(* Descriptors, and the calls that copy or drop all of them. *)

Counted(p) == /\ At(p, "idle")
              /\ ncalls < MaxCalls
              /\ ncalls' = ncalls + 1

Makes(p, op) == \E c \in Calls[p] : c.op = op

\* The descriptors argfd() accepts.
argfd(p) == {d \in Fd : ofile[p][d] # 0}

filedup(f) == [ftable EXCEPT ![f].ref = @ + 1]

\* The descriptor is left in the table.
MutSysClose(p) ==
    /\ Counted(p) /\ Makes(p, "close")
    /\ \E d \in argfd(p) :
          Go(p, "idle", <<Close(ofile[p][d])>>, 0, 0)
    /\ UNCHANGED <<disk, icache, ftable, ofile, cwd, alive, raced, txn, panic>>

\* sys_close().
SysClose(p) ==
    /\ Counted(p) /\ Makes(p, "close")
    /\ \E d \in argfd(p) :
          /\ ofile' = [ofile EXCEPT ![p][d] = 0]
          /\ Go(p, "idle", <<Close(ofile[p][d])>>, 0, 0)
    /\ UNCHANGED <<disk, icache, ftable, cwd, alive, raced, txn, panic>>

\* filedup() is forgotten.
MutSysDup(p) ==
    /\ Counted(p) /\ Makes(p, "dup")
    /\ \E d \in argfd(p) :
          /\ fdalloc(ofile[p]) # 0
          /\ ofile' = [ofile EXCEPT ![p][fdalloc(ofile[p])] = ofile[p][d]]
    /\ UNCHANGED <<disk, icache, ftable, cwd, th, alive, raced, txn, panic>>

\* sys_dup(): the descriptor is taken before the count goes up.
SysDup(p) ==
    /\ Counted(p) /\ Makes(p, "dup")
    /\ \E d \in argfd(p) :
          LET f == ofile[p][d]
              new == fdalloc(ofile[p]) IN
          IF new = 0
          THEN UNCHANGED <<ofile, ftable, panic>>
          ELSE /\ ofile' = [ofile EXCEPT ![p][new] = f]
               /\ ftable' = filedup(f)
               /\ panic' = IF ftable[f].ref < 1 THEN "filedup" ELSE ""
    /\ UNCHANGED <<disk, icache, cwd, th, alive, raced, txn>>

\* filestat(): the inode of the file is locked while it is copied.
filestat(ff) == IF ff.type = "inode" THEN <<Lock(ff.ip), Unlock(ff.ip)>> ELSE <<>>

\* sys_fstat()
SysFstat(p) ==
    /\ Counted(p) /\ Makes(p, "fstat")
    /\ \E d \in argfd(p) : Go(p, "idle", filestat(ftable[ofile[p][d]]), 0, 0)
    /\ UNCHANGED <<disk, icache, ftable, ofile, cwd, alive, raced, txn, panic>>

\* sys_pipe() and pipealloc(): two file structures and a page, then two
\* descriptors; what was obtained is closed when the next is not.
SysPipe(p) ==
    /\ Counted(p) /\ Makes(p, "pipe")
    /\ ftable' = IF filealloc = 0 THEN ftable
                 ELSE [ftable EXCEPT ![filealloc].ref = 1]
    /\ th' = [th EXCEPT ![p] = IF filealloc = 0 THEN Idle
                ELSE [Idle EXCEPT !.pc = "pipe: f1", !.f = filealloc]]
    /\ UNCHANGED <<disk, icache, ofile, cwd, alive, raced, txn, panic>>

PipeSecond(p) ==
    /\ At(p, "pipe: f1")
    /\ LET f == th[p].f
           g == filealloc
           pipe == [type |-> "pipe", ip |-> 0, ref |-> 1] IN
       \/ /\ g = 0
          /\ Go(p, "idle", <<Close(f)>>, 0, 0)
          /\ UNCHANGED ftable
       \/ /\ g # 0   \* kalloc() fails
          /\ ftable' = [ftable EXCEPT ![g].ref = 1]
          /\ Go(p, "idle", <<Close(f), Close(g)>>, 0, 0)
       \/ /\ g # 0
          /\ ftable' = [ftable EXCEPT ![f] = pipe, ![g] = pipe]
          /\ th' = [th EXCEPT ![p].pc = "pipe: fds", ![p].g = g]
    /\ UNCHANGED <<disk, icache, ofile, cwd, alive, raced, txn, panic, ncalls>>

PipeFds(p) ==
    /\ At(p, "pipe: fds")
    /\ LET f == th[p].f
           g == th[p].g
           d0 == fdalloc(ofile[p])
           with0 == [ofile[p] EXCEPT ![d0] = f]
           d1 == fdalloc(with0) IN
       IF d0 = 0 \/ (d0 # 0 /\ d1 = 0)
       THEN /\ Go(p, "idle", <<Close(f), Close(g)>>, 0, 0)
            /\ UNCHANGED ofile
       ELSE /\ ofile' = [ofile EXCEPT ![p] = [with0 EXCEPT ![d1] = g]]
            /\ Go(p, "idle", <<>>, 0, 0)
    /\ UNCHANGED <<disk, icache, ftable, cwd, alive, raced, txn, panic, ncalls>>

Uses(fds, f) == Cardinality({d \in Fd : fds[d] = f})

\* fork(): the child shares the open files and the current directory.
Fork(p) ==
    /\ Counted(p) /\ Makes(p, "fork")
    /\ \E q \in Proc \ alive :
          /\ alive' = alive \cup {q}
          /\ ofile' = [ofile EXCEPT ![q] = ofile[p]]
          /\ cwd' = [cwd EXCEPT ![q] = cwd[p]]
    /\ ftable' = [f \in File |->
                    [ftable[f] EXCEPT !.ref = @ + Uses(ofile[p], f)]]
    /\ icache' = idup(cwd[p])
    /\ UNCHANGED <<disk, th, txn, raced, panic>>

\* exit(): every descriptor is closed, then the current directory is put.
Exit(p) ==
    /\ Counted(p) /\ Makes(p, "exit")
    /\ p # InitProc
    /\ LET open == SelectSeq([d \in Fd |-> ofile[p][d]], LAMBDA f : f # 0) IN
       Go(p, "exit", [i \in DOMAIN open |-> Close(open[i])]
                     \o <<Begin, Put(cwd[p]), End>>, 0, 0)
    /\ ofile' = [ofile EXCEPT ![p] = [d \in Fd |-> 0]]
    /\ UNCHANGED <<disk, icache, ftable, cwd, alive, raced, txn, panic>>

ExitDone(p) ==
    /\ At(p, "exit")
    /\ cwd' = [cwd EXCEPT ![p] = 0]
    /\ alive' = alive \ {p}
    /\ th' = [th EXCEPT ![p] = Idle]
    /\ UNCHANGED <<disk, icache, ftable, ofile, txn, raced, panic, ncalls>>

-----------------------------------------------------------------------------
Kernel(p) ==
    \/ Ilock(p) \/ Iunlock(p) \/ Iput(p) \/ IputFree(p) \/ IputUnlock(p)
    \/ IputDrop(p) \/ BeginOp(p) \/ EndOp(p) \/ Fileclose(p)
    \/ NamexStart(p) \/ NamexLookup(p)
    \/ Open(p) \/ OpenLocked(p) \/ OpenFile(p) \/ OpenSet(p)
    \/ Create(p) \/ CreateLookup(p) \/ CreateExists(p) \/ CreateNew(p)
    \/ Unlink(p) \/ UnlinkLookup(p) \/ UnlinkEntry(p) \/ UnlinkNlink(p)
    \/ Link(p) \/ LinkNlink(p) \/ LinkParent(p)
    \/ LinkEntry(p) \/ LinkBad(p)
    \/ Chdir(p) \/ ChdirLocked(p) \/ ChdirSet(p)
    \/ PipeSecond(p) \/ PipeFds(p) \/ ExitDone(p)

Invoke(p) == MakeCall(p) \/ SysClose(p) \/ SysDup(p) \/ SysFstat(p)
             \/ SysPipe(p) \/ Fork(p) \/ Exit(p)

Next == \E p \in Proc : Kernel(p) \/ Invoke(p)

\* A process inside the kernel goes on unless it waits for a lock or the log.
Spec == Init /\ [][Next]_vars /\ \A p \in Proc : WF_vars(Kernel(p))

-----------------------------------------------------------------------------
(* Properties. *)

Running == panic = ""

TypeOK ==
    /\ disk \in [Inum -> [type : Types \cup {"free"}, nlink : Nat,
                          ents : [Entry -> 0..NInodes]]]
    /\ \A s \in Slot : /\ icache[s].ref \in Nat
                       /\ icache[s].nlink \in Nat
                       /\ icache[s].inum \in 0..NInodes
                       /\ icache[s].lock \in Proc \cup {NoProc}
    /\ \A f \in File : /\ ftable[f].ref \in Nat
                       /\ ftable[f].type \in {"none", "inode", "pipe"}
                       /\ ftable[f].ip \in 0..NINODE
    /\ ofile \in [Proc -> [Fd -> 0..NFILE]]
    /\ cwd \in [Proc -> 0..NINODE]
    /\ alive \subseteq Proc /\ txn \subseteq Proc

\* How often p's thread owns a reference to entry s: in a local variable, or
\* in an iput() it has yet to finish.
Owns(p, s) ==
    LET t == th[p]
        Here(x) == IF x = s THEN 1 ELSE 0 IN
    Here(t.ip) + Here(t.dp) + Here(t.nx)
    + Cardinality({i \in DOMAIN t.todo :
                     t.todo[i] \in {Put(s), <<"ref--", s>>}})

\* Current directories; a directory being put by chdir or exit is not one.
Cwds(s) == {p \in alive : cwd[p] = s /\ th[p].pc \notin {"chdir: set", "exit"}}

InodeFiles(s) == {f \in File : ftable[f].type = "inode" /\ ftable[f].ip = s}

\* icache.inode[s].ref counts the pointers to the entry: current directories,
\* open files and the variables of running system calls.  So no entry is
\* recycled under a pointer, and none stays in use without one; and iget()
\* never gives one inode two entries (two locks).
RefsMatch ==
    Running => \A s \in Slot :
        /\ icache[s].ref = Cardinality(Cwds(s)) + Cardinality(InodeFiles(s))
                           + MapThenSumSet(LAMBDA p : Owns(p, s), Proc)
        /\ \A r \in Slot \ {s} : icache[s].ref > 0 /\ icache[r].ref > 0
             => icache[s].inum # icache[r].inum

\* How often p's thread owns a reference to file f.
OwnsFile(p, f) ==
    LET t == th[p] IN
      (IF t.pc \in {"pipe: f1", "pipe: fds"} /\ f \in {t.f, t.g} THEN 1 ELSE 0)
    + Cardinality({i \in DOMAIN t.todo : t.todo[i] = Close(f)})

\* f->ref counts the descriptors and the system calls that hold the file: a
\* file structure is free exactly when nobody can reach it.
FileRefsMatch ==
    Running => \A f \in File :
        /\ ftable[f].ref = MapThenSumSet(
               LAMBDA p : Uses(ofile[p], f) + OwnsFile(p, f), Proc)
        /\ ftable[f].ref = 0 => ftable[f].type = "none"

\* Places where inode i is named: entries other than "." and "..".
NamedAt(i) == {<<j, n>> \in Inum \X Names :
                  disk[j].type = "dir" /\ disk[j].ents[n] = i}

\* The link count of an inode is never below the number of its names, plus
\* for a directory the named directories whose ".." it is: removing names can
\* not free an inode that still has one.  "i-node cache is write-through":
\* what a valid entry says of its inode is what the disk says.
LinksCoverNames ==
    /\ Running => \A i \in Inum \ {ROOTINO} :
        disk[i].nlink >= Cardinality(NamedAt(i))
          + Cardinality({j \in Inum \ {i} :
               disk[j].type = "dir" /\ disk[j].ents[".."] = i
               /\ NamedAt(j) # {}})
    /\ \A s \in Slot : icache[s].ref > 0 /\ icache[s].valid =>
        LET d == disk[icache[s].inum] IN
        icache[s].type = d.type /\ icache[s].nlink = d.nlink

\* An open file or current directory keeps its inode, whoever unlinks it; and
\* a name leads to an inode in use: create() and link() enter, and unlink()
\* and iput() take away, name and inode in an order that never leaves a
\* dangling entry.  The ".." of a removed directory is the exception.
UsedIsLive ==
    /\ Running => \A s \in Slot :
        Cwds(s) # {} \/ InodeFiles(s) # {} => disk[icache[s].inum].type # "free"
    /\ \A i \in Inum : NamedAt(i) # {} => disk[i].type # "free"

\* An inode without links goes with the last reference: between calls an
\* inode in use has a link, or an entry of the cache that some process uses.
\* The exception is an iput() that overlaps another one of the same inode: each
\* counts the other's reference, and neither frees the inode.
FreedUnlessRaced ==
    Running /\ (\A p \in Proc : th[p] = Idle) =>
        \A i \in Inum \ raced : disk[i].type # "free" /\ disk[i].nlink = 0 =>
            \E s \in Slot : icache[s].ref > 0 /\ icache[s].inum = i

\* "All calls to iput() must be inside a transaction": and begin_op(), which
\* may wait for other calls to end, is called outside any transaction and
\* without a lock on an inode.
TxnDiscipline ==
    \A p \in Proc : th[p].todo # <<>> =>
        LET op == Head(th[p].todo)[1] IN
        /\ op \in {"iput", "itrunc"} => p \in txn
        /\ op = "begin_op" => /\ p \notin txn
                              /\ \A s \in Slot : icache[s].lock # p

\* The kernel's assertions hold.  Two tables may overflow, and ".." of a
\* removed directory may lead to an inode that was freed with its parent.
AssertionsHold ==
    /\ TypeOK /\ TxnDiscipline
    /\ panic \in {"", "iget: no inodes", "ialloc: no inodes", "ilock: no type"}
    /\ panic = "ilock: no type" =>
         \E s \in Slot, j \in Inum :
            /\ icache[s].lock # NoProc /\ icache[s].type = "free"
            /\ disk[j].ents[".."] = icache[s].inum
            /\ disk[j].nlink = 0

\* p waits for the lock of an entry that q holds.
WaitsFor(p, q) ==
    /\ panic = "" /\ th[p].todo # <<>>
    /\ Head(th[p].todo)[1] \in {"ilock", "iput"}
    /\ icache[Head(th[p].todo)[2]].lock = q

\* p's wait leads from a directory it holds to an inode that has a name there.
Down(p) ==
    \A s \in Slot : icache[s].lock = p =>
        \E n \in Names : disk[icache[s].inum].ents[n]
                            = icache[Head(th[p].todo)[2]].inum

\* Locks are taken from a directory to an inode that is named in it, and such
\* waits alone never close a circle.  Where processes wait for one another, or
\* one for itself, one of them is in an iput() that goes the other way with a
\* lock held: create() and sys_unlink() put the parent, and so lock it again,
\* with the entry's inode locked, and dirlink() for sys_link() puts what it
\* finds as "." or ".." with the directory locked.
LockOrder ==
    \A ps \in SUBSET Proc :
        ps # {} /\ (\A p \in ps : \E q \in ps : WaitsFor(p, q)) =>
            \E r \in ps : Head(th[r].todo)[1] = "iput" /\ ~ Down(r)

\* "The separation also helps avoid deadlock and races during pathname
\* lookup": every system call returns.
CallsReturn ==
    \A p \in Proc : th[p] # Idle ~> (th[p] = Idle \/ panic # "")
=============================================================================
