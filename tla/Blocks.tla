------------------------------- MODULE Blocks -------------------------------
(***************************************************************************)
(* What an inode contains (storage/fs.c: balloc, bfree, bmap, itrunc,      *)
(* readi, writei) and how read() and write() reach it (core/file.c), for   *)
(* processes that share inodes and open files.                             *)
(*                                                                         *)
(* A block is an array of BSIZE cells.  A cell of a data block is a byte,  *)
(* a cell of an indirect block is a block number, so NINDIRECT = BSIZE.    *)
(* One turn of the loop in writei() or readi() is one step: its bmap(),    *)
(* with the allocations, and the copy.  Buffers are locked one at a time,  *)
(* and two such steps on different inodes meet only in the bitmap.         *)
(***************************************************************************)
EXTENDS Integers, FiniteSets, FiniteSetsExt, Sequences

CONSTANTS Proc,        \* processes, numbered from 1
          Inode,       \* inodes of plain files
          File,        \* open files
          IpOf,        \* the inode of each open file
          Users,       \* the processes that share each open file
          NBlocks,     \* data blocks of the disk
          BPB,         \* bitmap bits in a block
          BSIZE, NDIRECT,
          MAXOPBLOCKS, \* blocks a system call may log
          Modulus,     \* offsets are unsigned and wrap at Modulus
          Sizes,       \* byte counts processes ask for
          MaxCalls     \* bound: calls made in a behaviour

Block == 1..NBlocks
Cell == 0..(BSIZE - 1)
NINDIRECT == BSIZE
MAXFILE == NDIRECT + NINDIRECT

ASSUME BlocksAssumption ==
    /\ {NBlocks, BPB, BSIZE, NDIRECT, MaxCalls} \subseteq Nat \ {0}
    /\ MAXFILE * BSIZE < Modulus /\ Modulus % BSIZE = 0
    /\ MAXOPBLOCKS \in Nat /\ MAXOPBLOCKS >= 6

VARIABLES used,    \* blocks marked in the bitmap
          data,    \* the blocks
          ino,     \* in-memory inodes: addrs, size
          dino,    \* the same on disk
          off,     \* f->off
          lock,    \* ip->lock
          th,      \* the system call of each process
          logged,  \* blocks each process has logged since begin_op
          panic,   \* message of a panic
          ncalls,  \* calls made
          content  \* history: what completed writes have put in each inode

vars == <<used, data, ino, dino, off, lock, th, logged, panic, ncalls, content>>

NoProc == 0
ZeroBlock == [c \in Cell |-> 0]
EmptyInode == [addrs |-> [k \in 0..NDIRECT |-> 0], size |-> 0]
Idle == [pc |-> "idle", f |-> "", n |-> 0, i |-> 0, n1 |-> 0, tot |-> 0,
         got |-> <<>>]

\* Blocks hold old data when the system starts.
Init ==
    /\ used = {}
    /\ data = [b \in Block |-> [c \in Cell |-> 1]]
    /\ ino = [i \in Inode |-> EmptyInode]
    /\ dino = ino
    /\ off = [f \in File |-> 0]
    /\ lock = [i \in Inode |-> NoProc]
    /\ th = [p \in Proc |-> Idle]
    /\ logged = [p \in Proc |-> {}]
    /\ panic = ""
    /\ ncalls = 0
    /\ content = [i \in Inode |-> <<>>]

At(p, label) == panic = "" /\ th[p].pc = label

-----------------------------------------------------------------------------
(* Block allocation, on records of the disk's blocks and what was logged. *)

bzero(d, b) == [d EXCEPT !.data[b] = ZeroBlock, !.log = @ \cup {<<"block", b>>}]

BBLOCK(b) == <<"bitmap", b \div BPB>>
IBLOCK == <<"inodes", 0>>

\* balloc(): the first free block, marked and zeroed; 0 where it panics.
balloc(d) ==
    LET unused == Block \ d.used
        b == Min(unused) IN
    IF unused = {} THEN [d EXCEPT !.addr = 0]
    ELSE bzero([d EXCEPT !.used = @ \cup {b}, !.log = @ \cup {BBLOCK(b)},
                         !.addr = b], b)

\* The address of a new block is not kept.
MutBmapDirect(d, k) ==
    IF d.ip.addrs[k] # 0 THEN [d EXCEPT !.addr = d.ip.addrs[k]] ELSE balloc(d)

\* bmap(): the address of block bn of the inode d.ip, allocated if need be.
bmapDirect(d, k) ==
    IF d.ip.addrs[k] # 0 THEN [d EXCEPT !.addr = d.ip.addrs[k]]
    ELSE LET e == balloc(d) IN [e EXCEPT !.ip.addrs[k] = e.addr]

bmap(d, bn) ==
    IF bn < NDIRECT THEN bmapDirect(d, bn)
    ELSE LET e == bmapDirect(d, NDIRECT)
             ind == e.addr
             c == bn - NDIRECT IN
         IF ind = 0 THEN e
         ELSE IF e.data[ind][c] # 0 THEN [e EXCEPT !.addr = e.data[ind][c]]
         ELSE LET g == balloc(e) IN
              [g EXCEPT !.data[ind][c] = g.addr,
                        !.log = @ \cup {<<"block", ind>>}]

Disk(p, i) == [used |-> used, data |-> data, log |-> logged[p], ip |-> ino[i],
               addr |-> 0]

-----------------------------------------------------------------------------
(* write() *)

\* As if a byte could cost only one block.
MutMaxChunk == (MAXOPBLOCKS - 1 - 1) * BSIZE

\* filewrite(): the bytes one transaction may write.
MaxChunk == ((MAXOPBLOCKS - 1 - 1 - 2) \div 2) * BSIZE

SysWrite(p) ==
    /\ At(p, "idle") /\ ncalls < MaxCalls
    /\ ncalls' = ncalls + 1
    /\ \E f \in File, n \in Sizes :
          /\ p \in Users[f]
          /\ th' = [th EXCEPT ![p] = [Idle EXCEPT !.pc = "chunk", !.f = f,
                                                  !.n = n]]
    /\ UNCHANGED <<used, data, ino, dino, off, lock, logged, panic, content>>

\* The tests of writei(): -1 leaves the file alone, and filewrite() gives up.
WriteFits(i, o, n) == /\ o <= ino[i].size
                      /\ (o + n) % Modulus >= o
                      /\ (o + n) % Modulus <= MAXFILE * BSIZE

\* begin_op(), ilock() and the tests of writei().
WriteStart(p) ==
    /\ At(p, "chunk")
    /\ LET t == th[p]
           i == IpOf[t.f]
           n1 == Min({t.n - t.i, MaxChunk}) IN
       /\ lock[i] = NoProc
       /\ IF WriteFits(i, off[t.f], n1)
          THEN /\ lock' = [lock EXCEPT ![i] = p]
               /\ th' = [th EXCEPT ![p].pc = "writei", ![p].n1 = n1,
                                   ![p].tot = 0]
          ELSE /\ th' = [th EXCEPT ![p] = Idle]
               /\ UNCHANGED lock
    /\ UNCHANGED <<used, data, ino, dino, off, logged, panic, ncalls, content>>

\* One turn of the loop: a byte written by p is p's mark.
WriteBlock(p) ==
    /\ At(p, "writei") /\ th[p].tot < th[p].n1
    /\ LET t == th[p]
           i == IpOf[t.f]
           o == off[t.f] + t.tot
           d == bmap(Disk(p, i), o \div BSIZE)
           m == Min({t.n1 - t.tot, BSIZE - (o % BSIZE)}) IN
       /\ used' = d.used
       /\ ino' = [ino EXCEPT ![i] = d.ip]
       /\ logged' = [logged EXCEPT ![p] = d.log \cup {<<"block", d.addr>>}]
       /\ IF d.addr = 0
          THEN /\ panic' = "balloc: out of blocks"
               /\ data' = d.data
               /\ UNCHANGED th
          ELSE /\ data' = [d.data EXCEPT ![d.addr] = [c \in Cell |->
                     IF c \in (o % BSIZE)..((o % BSIZE) + m - 1)
                     THEN p ELSE @[c]]]
               /\ th' = [th EXCEPT ![p].tot = @ + m]
               /\ UNCHANGED panic
    /\ UNCHANGED <<dino, off, lock, ncalls, content>>

\* The effect of a write on the bytes of a file.
Overwrite(s, o, n, x) ==
    [k \in 1..Max({Len(s), o + n}) |-> IF k \in (o + 1)..(o + n) THEN x ELSE s[k]]

\* iupdate() is forgotten.
MutWriteSize(p) ==
    /\ At(p, "writei") /\ th[p].tot = th[p].n1
    /\ LET i == IpOf[th[p].f] IN
       ino' = [ino EXCEPT ![i].size = Max({@, off[th[p].f] + th[p].n1})]
    /\ th' = [th EXCEPT ![p].pc = "wrote"]
    /\ UNCHANGED <<used, data, dino, off, lock, logged, panic, ncalls, content>>

\* The end of writei(): a file that has grown is updated on disk.
WriteSize(p) ==
    /\ At(p, "writei") /\ th[p].tot = th[p].n1
    /\ LET t == th[p]
           i == IpOf[t.f]
           end == off[t.f] + t.n1 IN
       IF t.n1 > 0 /\ end > ino[i].size
       THEN /\ ino' = [ino EXCEPT ![i].size = end]
            /\ dino' = [dino EXCEPT ![i] = ino'[i]]
            /\ logged' = [logged EXCEPT ![p] = @ \cup {IBLOCK}]
       ELSE UNCHANGED <<ino, dino, logged>>
    /\ th' = [th EXCEPT ![p].pc = "wrote"]
    /\ UNCHANGED <<used, data, off, lock, panic, ncalls, content>>

\* f->off after n bytes were read or written.
Advance(o, n) == o + n

\* filewrite() after writei(): f->off, iunlock(), end_op(), the next chunk.
WriteEnd(p) ==
    /\ At(p, "wrote")
    /\ LET t == th[p]
           i == IpOf[t.f] IN
       /\ off' = [off EXCEPT ![t.f] = Advance(@, t.n1)]
       /\ lock' = [lock EXCEPT ![i] = NoProc]
       /\ logged' = [logged EXCEPT ![p] = {}]
       /\ content' = [content EXCEPT ![i] = Overwrite(@, off[t.f], t.n1, p)]
       /\ th' = [th EXCEPT ![p] = IF t.i + t.n1 = t.n THEN Idle
                                  ELSE [@ EXCEPT !.pc = "chunk",
                                                 !.i = t.i + t.n1]]
    /\ UNCHANGED <<used, data, ino, dino, panic, ncalls>>

-----------------------------------------------------------------------------
(* read() *)

SysRead(p) ==
    /\ At(p, "idle") /\ ncalls < MaxCalls
    /\ ncalls' = ncalls + 1
    /\ \E f \in File, n \in Sizes :
          /\ p \in Users[f]
          /\ th' = [th EXCEPT ![p] = [Idle EXCEPT !.pc = "read", !.f = f,
                                                  !.n = n]]
    /\ UNCHANGED <<used, data, ino, dino, off, lock, logged, panic, content>>

ReadLock(i) == lock[i] = NoProc

\* fileread(): ilock() and the tests of readi(), which cuts n at the end.
ReadStart(p) ==
    /\ At(p, "read")
    /\ LET t == th[p]
           i == IpOf[t.f]
           o == off[t.f] IN
       /\ ReadLock(i)
       /\ IF o > ino[i].size \/ (o + t.n) % Modulus < o
          THEN th' = [th EXCEPT ![p] = Idle] /\ UNCHANGED lock
          ELSE /\ lock' = [lock EXCEPT ![i] = p]
               /\ th' = [th EXCEPT ![p].pc = "readi",
                           ![p].n1 = Min({t.n, ino[i].size - o})]
    /\ UNCHANGED <<used, data, ino, dino, off, logged, panic, ncalls, content>>

ReadBlock(p) ==
    /\ At(p, "readi") /\ th[p].tot < th[p].n1
    /\ LET t == th[p]
           i == IpOf[t.f]
           o == off[t.f] + t.tot
           d == bmap(Disk(p, i), o \div BSIZE)
           m == Min({t.n1 - t.tot, BSIZE - (o % BSIZE)}) IN
       /\ used' = d.used
       /\ data' = d.data
       /\ ino' = [ino EXCEPT ![i] = d.ip]
       /\ logged' = [logged EXCEPT ![p] = d.log]
       /\ panic' = IF d.addr = 0 THEN "balloc: out of blocks" ELSE ""
       /\ th' = [th EXCEPT ![p].tot = @ + m, ![p].got = @ \o
                   IF d.addr = 0 THEN <<>>
                   ELSE [k \in 1..m |-> d.data[d.addr][(o % BSIZE) + k - 1]]]
    /\ UNCHANGED <<dino, off, lock, ncalls, content>>

ReadEnd(p) ==
    /\ At(p, "readi") /\ th[p].tot = th[p].n1
    /\ LET t == th[p] IN
       /\ off' = [off EXCEPT ![t.f] = Advance(@, t.n1)]
       /\ lock' = [lock EXCEPT ![IpOf[t.f]] = NoProc]
    /\ th' = [th EXCEPT ![p] = Idle]
    /\ UNCHANGED <<used, data, ino, dino, logged, panic, ncalls, content>>

-----------------------------------------------------------------------------
(* The last iput() of a file without links. *)

\* The blocks an inode points to, the indirect block and its entries too.
Direct(ip) == {ip.addrs[k] : k \in 0..NDIRECT} \ {0}
Indirect(ip, d) ==
    IF ip.addrs[NDIRECT] = 0 THEN {}
    ELSE {d[ip.addrs[NDIRECT]][c] : c \in Cell} \ {0}

\* bfree(), for each block of a set.
bfree(bs) == /\ panic' = IF bs \subseteq used THEN "" ELSE "freeing free block"
             /\ used' = used \ bs

\* itrunc(): every block is freed once, then the empty inode is written.  A
\* new file takes the inode and the open files' places.
Truncate(p) ==
    /\ At(p, "idle") /\ ncalls < MaxCalls
    /\ ncalls' = ncalls + 1
    /\ \E i \in Inode :
          /\ lock[i] = NoProc
          /\ ~ \E q \in Proc : th[q].pc # "idle" /\ IpOf[th[q].f] = i
          /\ bfree(Direct(ino[i]) \cup Indirect(ino[i], data))
          /\ ino' = [ino EXCEPT ![i] = EmptyInode]
          /\ dino' = [dino EXCEPT ![i] = EmptyInode]
          /\ off' = [f \in File |-> IF IpOf[f] = i THEN 0 ELSE off[f]]
          /\ content' = [content EXCEPT ![i] = <<>>]
    /\ UNCHANGED <<data, lock, th, logged>>

-----------------------------------------------------------------------------
Step(p) == \/ WriteStart(p) \/ WriteBlock(p) \/ WriteSize(p) \/ WriteEnd(p)
           \/ ReadStart(p) \/ ReadBlock(p) \/ ReadEnd(p)

Next == \E p \in Proc : Step(p) \/ SysWrite(p) \/ SysRead(p) \/ Truncate(p)

Spec == Init /\ [][Next]_vars

-----------------------------------------------------------------------------
(* Properties. *)

TypeOK ==
    /\ used \subseteq Block
    /\ \A b \in Block, c \in Cell : data[b][c] \in Nat
    /\ \A i \in Inode : /\ ino[i].size \in 0..(MAXFILE * BSIZE)
                        /\ ino[i].addrs \in [0..NDIRECT -> 0..NBlocks]
    /\ off \in [File -> 0..(MAXFILE * BSIZE)]
    /\ lock \in [Inode -> Proc \cup {NoProc}]

\* All the places that name a block.
Pointers(i) ==
    {<<i, "addrs", k>> : k \in {k \in 0..NDIRECT : ino[i].addrs[k] # 0}} \cup
    IF ino[i].addrs[NDIRECT] = 0 THEN {}
    ELSE {<<i, "indirect", c>> :
            c \in {c \in Cell : data[ino[i].addrs[NDIRECT]][c] # 0}}

\* No block belongs to two files or to one file twice, and the bitmap marks
\* exactly the blocks that belong to a file: none is lost, none given twice.
\* Only a full disk stops the kernel.
BlocksOwnedOnce ==
    /\ TypeOK
    /\ panic # "" => panic = "balloc: out of blocks" /\ used = Block
    /\ panic = "" =>
      LET owned == UNION {Direct(ino[i]) \cup Indirect(ino[i], data) :
                            i \in Inode} IN
      /\ used = owned
      /\ Cardinality(owned) = Cardinality(UNION {Pointers(i) : i \in Inode})

\* Byte k of an inode, found the way readi() finds it.
ByteAt(i, k) ==
    LET bn == k \div BSIZE
        b == IF bn < NDIRECT THEN ino[i].addrs[bn]
             ELSE data[ino[i].addrs[NDIRECT]][bn - NDIRECT]
    IN data[b][k % BSIZE]

\* A file that nobody has locked holds what the completed writes put there,
\* byte for byte, and its inode is the same on disk; and read() returns the
\* bytes at f->off of the file as some write left it.
ContentIsWhatWasWritten ==
    /\ \A i \in Inode : lock[i] = NoProc =>
        /\ ino[i].size = Len(content[i])
        /\ \A k \in 0..(ino[i].size - 1) : ByteAt(i, k) = content[i][k + 1]
        /\ dino[i] = ino[i]
    /\ \A p \in Proc : th[p].pc = "readi" =>
        LET t == th[p]
            whole == content[IpOf[t.f]] IN
        /\ off[t.f] + t.tot <= Len(whole)
        /\ t.got = SubSeq(whole, off[t.f] + 1, off[t.f] + t.tot)

\* "write a few blocks at a time to avoid exceeding the maximum log
\* transaction size": no transaction of write() logs too many blocks, and
\* read(), which runs outside any transaction, logs none.
LogBudget ==
    \A p \in Proc :
        /\ Cardinality(logged[p]) <= MAXOPBLOCKS
        /\ th[p].pc \in {"read", "readi"} => logged[p] = {}
=============================================================================
