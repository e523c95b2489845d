----------------------------- MODULE PipeProofs -----------------------------
(***************************************************************************)
(* Proofs about the pipe (module Pipe), for every size of the ring, width  *)
(* of the counters and number of readers and writers.                      *)
(***************************************************************************)
EXTENDS Pipe, SequenceTheorems, TLAPS

(***************************************************************************)
(* Counters modulo WRAP and slots modulo PIPESIZE.                         *)
(***************************************************************************)
\* Division with remainder.
LEMMA ModDef ==
  ASSUME NEW m \in Nat, m > 0, NEW x \in Int
  PROVE  /\ x = m * (x \div m) + (x % m)
         /\ x % m \in 0..(m - 1)
         /\ x \div m \in Int
OBVIOUS

\* The remainder is determined by its range.
LEMMA ModUnique ==
  ASSUME NEW m \in Nat, m > 0, NEW c \in Int, NEW r \in Int, 0 <= r, r < m
  PROVE  (m * c + r) % m = r
OBVIOUS

\* One turn in either direction is taken off or put on.
LEMMA ModSmall ==
  ASSUME NEW m \in Nat, m > 0, NEW x \in Int
  PROVE  /\ 0 <= x /\ x < m => x % m = x
         /\ m <= x /\ x < 2 * m => x % m = x - m
         /\ -m <= x /\ x < 0 => x % m = x + m
OBVIOUS

\* Fewer than m consecutive numbers have different remainders.
LEMMA ModDistinct ==
  ASSUME NEW m \in Nat, m > 0, NEW x \in Int, NEW y \in Int, x < y, y < x + m
  PROVE  x % m # y % m
<1> SUFFICES ASSUME x % m = y % m PROVE FALSE
  OBVIOUS
<1>1. PICK a \in Int, b \in Int : x = m * a + (x % m) /\ y = m * b + (y % m)
  BY ModDef, Zenon
<1>2. /\ b - a >= 1 => m * (b - a) >= m
      /\ b - a <= 0 => m * (b - a) <= 0
  OBVIOUS
<1>3. m * (b - a) = y - x
  BY <1>1
<1> QED
  BY <1>2, <1>3

\* A multiple of m can be added without changing the remainder.
LEMMA ModWrap ==
  ASSUME NEW m \in Nat, m > 0, NEW w \in Int, w % m = 0, NEW x \in Int
  PROVE  (x + w) % m = x % m
<1>1. PICK c \in Int : w = m * c + (w % m)
  BY ModDef
<1>2. PICK d \in Int : x = m * d + (x % m)
  BY ModDef
<1>3. x + w = m * (d + c) + (x % m)
  BY <1>1, <1>2
<1>4. x % m \in 0..(m - 1) /\ d + c \in Int
  BY ModDef
<1>5. (m * (d + c) + (x % m)) % m = x % m
  BY <1>4, ModUnique
<1> QED
  BY <1>3, <1>5

\* What the counters count, whatever turn of the 32 bits they are on: the
\* bytes in the ring, one more after p->nwrite++, one less after p->nread++.
LEMMA Count ==
  ASSUME NEW a \in 0..(WRAP - 1), NEW b \in 0..(WRAP - 1)
  PROVE  /\ (b - a) % WRAP = IF a <= b THEN b - a ELSE b - a + WRAP
         /\ (a + 1) % WRAP = IF a = WRAP - 1 THEN 0 ELSE a + 1
         /\ (a + PIPESIZE) % WRAP = IF a + PIPESIZE < WRAP THEN a + PIPESIZE
                                    ELSE a + PIPESIZE - WRAP
         /\ (b - a) % WRAP \in 0..(WRAP - 1)
         /\ (a + 1) % WRAP \in 0..(WRAP - 1)
<1>1. WRAP \in Nat /\ PIPESIZE \in Nat /\ PIPESIZE > 0 /\ WRAP > PIPESIZE
  BY SizeAssumption
<1>2. (b - a) % WRAP = IF a <= b THEN b - a ELSE b - a + WRAP
  BY <1>1, ModSmall
<1>3. (a + 1) % WRAP = IF a = WRAP - 1 THEN 0 ELSE a + 1
  BY <1>1, ModSmall
<1>4. (a + PIPESIZE) % WRAP = IF a + PIPESIZE < WRAP THEN a + PIPESIZE
                              ELSE a + PIPESIZE - WRAP
  BY <1>1, ModSmall
<1> QED
  BY <1>1, <1>2, <1>3, <1>4

\* pipewrite() adds a byte when the ring is not full.
LEMMA CountPut ==
  ASSUME NEW a \in 0..(WRAP - 1), NEW b \in 0..(WRAP - 1),
         (b - a) % WRAP <= PIPESIZE, b # (a + PIPESIZE) % WRAP
  PROVE  /\ (((b + 1) % WRAP) - a) % WRAP = ((b - a) % WRAP) + 1
         /\ (b - a) % WRAP < PIPESIZE
<1>1. WRAP \in Nat /\ PIPESIZE \in Nat /\ PIPESIZE > 0 /\ WRAP > PIPESIZE
  BY SizeAssumption
<1> DEFINE c == (b + 1) % WRAP
<1>2. c \in 0..(WRAP - 1) /\ c = IF b = WRAP - 1 THEN 0 ELSE b + 1
  BY Count
<1>3. (c - a) % WRAP = IF a <= c THEN c - a ELSE c - a + WRAP
  BY <1>2, Count, Zenon
<1>4. /\ (b - a) % WRAP = IF a <= b THEN b - a ELSE b - a + WRAP
      /\ (a + PIPESIZE) % WRAP = IF a + PIPESIZE < WRAP THEN a + PIPESIZE
                                 ELSE a + PIPESIZE - WRAP
  BY Count
<1> HIDE DEF c
<1>5. (c - a) % WRAP = ((b - a) % WRAP) + 1 /\ (b - a) % WRAP < PIPESIZE
  BY <1>1, <1>2, <1>3, <1>4
<1> QED
  BY <1>5 DEF c

\* piperead() takes one when it is not empty.
LEMMA CountGet ==
  ASSUME NEW a \in 0..(WRAP - 1), NEW b \in 0..(WRAP - 1), a # b
  PROVE  /\ (b - ((a + 1) % WRAP)) % WRAP = ((b - a) % WRAP) - 1
         /\ (b - a) % WRAP > 0
<1>1. WRAP \in Nat /\ PIPESIZE \in Nat /\ PIPESIZE > 0 /\ WRAP > PIPESIZE
  BY SizeAssumption
<1> DEFINE c == (a + 1) % WRAP
<1>2. c \in 0..(WRAP - 1) /\ c = IF a = WRAP - 1 THEN 0 ELSE a + 1
  BY Count
<1>3. (b - c) % WRAP = IF c <= b THEN b - c ELSE b - c + WRAP
  BY <1>2, Count, Zenon
<1>4. (b - a) % WRAP = IF a <= b THEN b - a ELSE b - a + WRAP
  BY Count
<1> HIDE DEF c
<1>5. (b - c) % WRAP = ((b - a) % WRAP) - 1 /\ (b - a) % WRAP > 0
  BY <1>1, <1>2, <1>3, <1>4
<1> QED
  BY <1>5 DEF c

(***************************************************************************)
(* The invariant.                                                          *)
(***************************************************************************)
\* pipealloc() establishes the invariant.
LEMMA InitInv == Init => Inv
<1> SUFFICES ASSUME Init PROVE Inv
  OBVIOUS
<1>1. WRAP \in Nat /\ WRAP > 0 /\ 0 % WRAP = 0 /\ PIPESIZE \in Nat
  BY SizeAssumption, ModSmall
<1>2. TypeOK
  <2>1. 0 \in 0..(WRAP - 1) /\ 0 \in 0..MaxN
    BY <1>1, SizeAssumption
  <2> QED
    BY <2>1, Zenon DEF Init, TypeOK, Label
<1>3. LockInv /\ EndsInv
  BY EndsAssumption DEF Init, LockInv, EndsInv, Proc
<1>4. ResultsTrue
  BY <1>2 DEF Init, ResultsTrue
<1>5. LoopInv
  BY <1>1 DEF Init, LoopInv, Proc
<1> QED
  BY <1>3, <1>4, <1>5 DEF Inv

\* read() or write() is called with a positive count.
LEMMA CallInv ==
  ASSUME NEW p \in Proc, NEW k \in 1..MaxN, Call(p, k), Inv
  PROVE  Inv'
<1>0. TypeOK /\ ResultsTrue /\ LockInv /\ EndsInv /\ LoopInv
  BY DEF Inv, ResultsTrue
<1>1. TypeOK'
  BY <1>0 DEF TypeOK, Label, Call, Goto, ring, ends
<1>2. ResultsTrue'
  BY <1>0, <1>1 DEF TypeOK, ResultsTrue, LockInv, LoopInv, EndsInv, Empty,
      Call, Goto, ring, ends
<1>3. LockInv'
  BY <1>0, EndsAssumption DEF TypeOK, LockInv, Proc, Call, Goto
<1>4. EndsInv'
  BY <1>0 DEF TypeOK, EndsInv, LockInv, Peers, Proc, Call, Goto, ends
<1>5. LoopInv'
  BY <1>0, EndsAssumption DEF TypeOK, LoopInv, LockInv, Empty, Proc, Call,
      Goto, ring, ends
<1> QED
  BY <1>2, <1>3, <1>4, <1>5 DEF Inv

\* acquire(&p->lock) keeps the lock to one process.
LEMMA EnterInv ==
  ASSUME NEW p \in Proc, Enter(p), Inv
  PROVE  Inv'
<1>0. TypeOK /\ ResultsTrue /\ LockInv /\ EndsInv /\ LoopInv
  BY DEF Inv, ResultsTrue
<1>1. TypeOK'
  BY <1>0 DEF TypeOK, Label, Enter, Goto, ring, ends
<1>2. ResultsTrue'
  BY <1>0, <1>1 DEF TypeOK, ResultsTrue, LockInv, LoopInv, EndsInv, Empty,
      Enter, Goto, ring, ends
<1>3. LockInv'
  BY <1>0, EndsAssumption DEF TypeOK, LockInv, Proc, Enter, Goto
<1>4. EndsInv'
  BY <1>0 DEF TypeOK, EndsInv, LockInv, Peers, Proc, Enter, Goto, ends
<1>5. LoopInv'
  BY <1>0, EndsAssumption DEF TypeOK, LoopInv, LockInv, Empty, Proc, Enter,
      Goto, ring, ends
<1> QED
  BY <1>2, <1>3, <1>4, <1>5 DEF Inv

\* A write fails on a full pipe that nobody reads.
LEMMA WriteFailInv ==
  ASSUME NEW p \in Proc, WriteFail(p), Inv
  PROVE  Inv'
<1>0. TypeOK /\ ResultsTrue /\ LockInv /\ EndsInv /\ LoopInv
  BY DEF Inv, ResultsTrue
<1>1. TypeOK'
  BY <1>0, SizeAssumption DEF TypeOK, Label, WriteFail, Return, Goto, ring, ends
<1>2. ResultsTrue'
  BY <1>0, <1>1 DEF TypeOK, ResultsTrue, LockInv, LoopInv, EndsInv, Empty,
      Proc, WriteFail, Return, Goto, ring, ends
<1>3. LockInv'
  BY <1>0, EndsAssumption DEF TypeOK, LockInv, Proc, WriteFail, Return, Goto
<1>4. EndsInv'
  BY <1>0 DEF TypeOK, EndsInv, LockInv, Peers, Proc, WriteFail, Return, Goto,
      ends
<1>5. LoopInv'
  BY <1>0, EndsAssumption DEF TypeOK, LoopInv, LockInv, Empty, Proc,
      WriteFail, Return, Goto, ring, ends
<1> QED
  BY <1>2, <1>3, <1>4, <1>5 DEF Inv

\* A writer sleeps on a full pipe.
LEMMA WriteSleepInv ==
  ASSUME NEW p \in Proc, WriteSleep(p), Inv
  PROVE  Inv'
<1>0. TypeOK /\ ResultsTrue /\ LockInv /\ EndsInv /\ LoopInv
  BY DEF Inv, ResultsTrue
<1>1. TypeOK'
  BY <1>0 DEF TypeOK, Label, WriteSleep, WakeAnd, ring, ends
<1>2. ResultsTrue'
  BY <1>0, <1>1 DEF TypeOK, ResultsTrue, LockInv, LoopInv, EndsInv, Empty,
      WriteSleep, WakeAnd, ring, ends
<1>3. LockInv'
  BY <1>0, EndsAssumption DEF TypeOK, LockInv, Proc, WriteSleep, WakeAnd
<1>4. EndsInv'
  BY <1>0 DEF TypeOK, EndsInv, LockInv, Peers, Proc, WriteSleep, WakeAnd, ends
<1>5. LoopInv'
  BY <1>0, EndsAssumption DEF TypeOK, LoopInv, LockInv, Empty, Proc,
      WriteSleep, WakeAnd, ring, ends
<1> QED
  BY <1>2, <1>3, <1>4, <1>5 DEF Inv

\* A write that copied everything wakes the readers.
LEMMA WriteDoneInv ==
  ASSUME NEW p \in Proc, WriteDone(p), Inv
  PROVE  Inv'
<1>0. TypeOK /\ ResultsTrue /\ LockInv /\ EndsInv /\ LoopInv
  BY DEF Inv, ResultsTrue
<1>1. TypeOK'
  BY <1>0, SizeAssumption DEF TypeOK, Label, WriteDone, WakeAnd, Return, ring,
      ends
<1>2. ResultsTrue'
  BY <1>0, <1>1 DEF TypeOK, ResultsTrue, LockInv, LoopInv, EndsInv, Empty,
      WriteDone, WakeAnd, Return, ring, ends
<1>3. LockInv'
  BY <1>0, EndsAssumption DEF TypeOK, LockInv, Proc, WriteDone, WakeAnd, Return
<1>4. EndsInv'
  BY <1>0 DEF TypeOK, EndsInv, LockInv, Peers, Proc, WriteDone, WakeAnd,
      Return, ends
<1>5. LoopInv'
  BY <1>0, EndsAssumption DEF TypeOK, LoopInv, LockInv, Empty, Proc,
      WriteDone, WakeAnd, Return, ring, ends
<1> QED
  BY <1>2, <1>3, <1>4, <1>5 DEF Inv

\* A killed reader of an empty pipe fails.
LEMMA ReadFailInv ==
  ASSUME NEW p \in Proc, ReadFail(p), Inv
  PROVE  Inv'
<1>0. TypeOK /\ ResultsTrue /\ LockInv /\ EndsInv /\ LoopInv
  BY DEF Inv, ResultsTrue
<1>1. TypeOK'
  BY <1>0, SizeAssumption DEF TypeOK, Label, ReadFail, Return, Goto, ring, ends
<1>2. ResultsTrue'
  BY <1>0, <1>1 DEF TypeOK, ResultsTrue, LockInv, LoopInv, EndsInv, Empty,
      ReadFail, Return, Goto, ring, ends
<1>3. LockInv'
  BY <1>0, EndsAssumption DEF TypeOK, LockInv, Proc, ReadFail, Return, Goto
<1>4. EndsInv'
  BY <1>0 DEF TypeOK, EndsInv, LockInv, Peers, Proc, ReadFail, Return, Goto,
      ends
<1>5. LoopInv'
  BY <1>0, EndsAssumption DEF TypeOK, LoopInv, LockInv, Empty, Proc, ReadFail,
      Return, Goto, ring, ends
<1> QED
  BY <1>2, <1>3, <1>4, <1>5 DEF Inv

\* A reader sleeps on an empty pipe.
LEMMA ReadSleepInv ==
  ASSUME NEW p \in Proc, ReadSleep(p), Inv
  PROVE  Inv'
<1>0. TypeOK /\ ResultsTrue /\ LockInv /\ EndsInv /\ LoopInv
  BY DEF Inv, ResultsTrue
<1>1. TypeOK'
  BY <1>0 DEF TypeOK, Label, ReadSleep, Goto, ring, ends
<1>2. ResultsTrue'
  BY <1>0, <1>1 DEF TypeOK, ResultsTrue, LockInv, LoopInv, EndsInv, Empty,
      ReadSleep, Goto, ring, ends
<1>3. LockInv'
  BY <1>0, EndsAssumption DEF TypeOK, LockInv, Proc, ReadSleep, Goto
<1>4. EndsInv'
  BY <1>0 DEF TypeOK, EndsInv, LockInv, Peers, Proc, ReadSleep, Goto, ends
<1>5. LoopInv'
  BY <1>0, EndsAssumption DEF TypeOK, LoopInv, LockInv, Empty, Proc,
      ReadSleep, Goto, ring, ends
<1> QED
  BY <1>2, <1>3, <1>4, <1>5 DEF Inv

\* The first loop of piperead() is left.
LEMMA ReadReadyInv ==
  ASSUME NEW p \in Proc, ReadReady(p), Inv
  PROVE  Inv'
<1>0. TypeOK /\ ResultsTrue /\ LockInv /\ EndsInv /\ LoopInv
  BY DEF Inv, ResultsTrue
<1>1. TypeOK'
  BY <1>0 DEF TypeOK, Label, ReadReady, Goto, ring, ends
<1>2. ResultsTrue'
  BY <1>0, <1>1 DEF TypeOK, ResultsTrue, LockInv, LoopInv, EndsInv, Empty,
      ReadReady, Goto, ring, ends
<1>3. LockInv'
  BY <1>0, EndsAssumption DEF TypeOK, LockInv, Proc, ReadReady, Goto
<1>4. EndsInv'
  BY <1>0 DEF TypeOK, EndsInv, LockInv, Peers, Proc, ReadReady, Goto, ends
<1>5. LoopInv'
  BY <1>0, EndsAssumption DEF TypeOK, LoopInv, LockInv, Empty, Proc,
      ReadReady, Goto, ring, ends
<1> QED
  BY <1>2, <1>3, <1>4, <1>5 DEF Inv

\* A read returns what it copied, or 0 for the end of the file.
LEMMA ReadDoneInv ==
  ASSUME NEW p \in Proc, ReadDone(p), Inv
  PROVE  Inv'
<1>0. TypeOK /\ ResultsTrue /\ LockInv /\ EndsInv /\ LoopInv
  BY DEF Inv, ResultsTrue
<1>1. TypeOK'
  BY <1>0, SizeAssumption DEF TypeOK, Label, ReadDone, WakeAnd, Return, ring,
      ends
<1>2. ResultsTrue'
  BY <1>0, <1>1 DEF TypeOK, ResultsTrue, LockInv, LoopInv, EndsInv, Empty,
      Proc, ReadDone, WakeAnd, Return, ring, ends
<1>3. LockInv'
  BY <1>0, EndsAssumption DEF TypeOK, LockInv, Proc, ReadDone, WakeAnd, Return
<1>4. EndsInv'
  BY <1>0 DEF TypeOK, EndsInv, LockInv, Peers, Proc, ReadDone, WakeAnd,
      Return, ends
<1>5. LoopInv'
  BY <1>0, EndsAssumption DEF TypeOK, LoopInv, LockInv, Empty, Proc, ReadDone,
      WakeAnd, Return, ring, ends
<1> QED
  BY <1>2, <1>3, <1>4, <1>5 DEF Inv

\* fileclose() gives up an end, the last holder goes on.
LEMMA CloseInv ==
  ASSUME NEW p \in Proc, Close(p), Inv
  PROVE  Inv'
<1>0. TypeOK /\ ResultsTrue /\ LockInv /\ EndsInv /\ LoopInv
  BY DEF Inv, ResultsTrue
<1>1. TypeOK'
  BY <1>0 DEF TypeOK, Label, Close, Goto, Peers, ring, ends
<1>2. ResultsTrue'
  BY <1>0, <1>1, Zenon DEF TypeOK, ResultsTrue, LockInv, LoopInv, EndsInv, Empty,
      Close, Goto, Peers, ring, ends
<1>3. LockInv'
  BY <1>0, EndsAssumption DEF TypeOK, LockInv, Proc, Close, Goto, Peers
<1>4. EndsInv'
  <2>1. /\ pc[p] = "idle" /\ p \in refs /\ refs' = refs \ {p}
        /\ \A q \in Proc : q # p => pc'[q] = pc[q]
        /\ pc'[p] = IF refs \cap Peers(p) = {p} THEN "close" ELSE "gone"
        /\ UNCHANGED <<readopen, writeopen, freed>>
    BY <1>0 DEF TypeOK, Close, Goto
  <2>2. \A q \in Proc : q \in refs' <=> pc'[q] \notin {"close", "gone"}
    BY <1>0, <2>1 DEF EndsInv
  <2>3. ASSUME NEW q \in Proc, pc'[q] = "close", NEW r \in Peers(q)
        PROVE  r = q \/ pc'[r] = "gone"
    <3>1. r \in Proc /\ Peers(r) = Peers(q) /\ q \in Peers(r)
      BY EndsAssumption DEF Peers, Proc
    <3>2. CASE q = p
      <4>1. r # p => r \notin refs
        BY <2>1, <2>3, <3>1, <3>2
      <4>2. r # p => pc[r] # "close"
        BY <1>0, <2>1, <3>1, <3>2 DEF EndsInv
      <4> QED
        BY <1>0, <2>1, <3>1, <3>2, <4>1, <4>2 DEF EndsInv
    <3>3. CASE q # p
      BY <1>0, <2>1, <2>3, <3>1, <3>3 DEF EndsInv
    <3> QED
      BY <3>2, <3>3
  <2>4. /\ (~writeopen => \A q \in Writer : pc[q] = "gone")'
        /\ (~readopen => \A q \in Reader : pc[q] = "gone")'
    BY <1>0, <2>1 DEF EndsInv, Proc
  <2>5. (freed => ~readopen /\ ~writeopen)'
    BY <1>0, <2>1 DEF EndsInv
  <2> QED
    BY <2>2, <2>3, <2>4, <2>5 DEF EndsInv, Peers
<1>5. LoopInv'
  BY <1>0, EndsAssumption DEF TypeOK, LoopInv, LockInv, Empty, Proc, Close,
      Goto, Peers, ring, ends
<1> QED
  BY <1>2, <1>3, <1>4, <1>5 DEF Inv

\* pipeclose() closes an end and frees the pipe with the second.
LEMMA PipeCloseInv ==
  ASSUME NEW p \in Proc, PipeClose(p), Inv
  PROVE  Inv'
<1>0. TypeOK /\ ResultsTrue /\ LockInv /\ EndsInv /\ LoopInv
  BY DEF Inv, ResultsTrue
<1>1. TypeOK'
  BY <1>0, Zenon DEF TypeOK, Label, PipeClose, WakeAnd, Peers, ring, ends
<1>2. ResultsTrue'
  BY <1>0, <1>1 DEF TypeOK, ResultsTrue, LockInv, LoopInv, EndsInv, Empty,
      PipeClose, WakeAnd, Peers, ring, ends
<1>3. /\ pc[p] = "close" /\ pc'[p] = "gone"
      /\ \A q \in Proc \ {p} :
           pc'[q] # pc[q] => pc[q] \in {"noread", "nowrite"} /\ pc'[q] = "enter"
      /\ UNCHANGED <<refs, lock, nread, nwrite, n, i>>
  <2>1. PICK l \in {"noread", "nowrite"} : WakeAnd(l, p, "gone")
    BY DEF PipeClose
  <2>2. pc' = [q \in Proc |-> IF q = p THEN "gone" ELSE IF pc[q] = l THEN "enter" ELSE pc[q]]
    BY <2>1 DEF WakeAnd
  <2> QED
    BY <2>2 DEF PipeClose, ring
<1>4. /\ p \in Writer => ~writeopen' /\ readopen' = readopen /\ freed' = ~readopen
      /\ p \in Reader => ~readopen' /\ writeopen' = writeopen /\ freed' = ~writeopen
  BY EndsAssumption DEF PipeClose
<1>5. LockInv'
  BY <1>0, <1>3, EndsAssumption DEF LockInv, Proc
<1>6. EndsInv'
  <2>1. \A q \in Proc : q \in refs' <=> pc'[q] \notin {"close", "gone"}
    BY <1>0, <1>3 DEF EndsInv
  <2>2. \A q \in Proc : pc'[q] = "close" => pc[q] = "close" /\ q # p
    BY <1>3
  <2>3. \A q \in Proc : pc[q] = "gone" => pc'[q] = "gone"
    BY <1>3
  <2>4. \A q \in Proc : pc'[q] = "close" => \A r \in Peers(q) : r = q \/ pc'[r] = "gone"
    BY <1>0, <2>2, <2>3, Zenon DEF EndsInv, Peers, Proc
  <2>5. \A q \in Peers(p) : pc'[q] = "gone"
    BY <1>0, <1>3, <2>3 DEF EndsInv, Peers, Proc
  <2>6. (~writeopen => \A q \in Writer : pc[q] = "gone")'
    BY <1>0, <1>4, <2>3, <2>5 DEF EndsInv, Peers, Proc
  <2>7. (~readopen => \A q \in Reader : pc[q] = "gone")'
    BY <1>0, <1>4, <2>3, <2>5, EndsAssumption DEF EndsInv, Peers, Proc
  <2>8. (freed => ~readopen /\ ~writeopen)'
    BY <1>4, Zenon DEF Proc
  <2> QED
    BY <2>1, <2>4, <2>6, <2>7, <2>8 DEF EndsInv, Peers
<1>7. LoopInv'
  <2>1. \A q \in Reader : pc[q] # "copy"
    BY <1>0, <1>3, EndsAssumption DEF LockInv, PipeClose, Proc
  <2>2. \A q \in Proc :
          pc'[q] \notin {"idle", "close", "gone"} => pc[q] \notin {"idle", "close", "gone"}
    BY <1>3
  <2>3. \A q \in Reader : pc'[q] # "copy"
    BY <1>3, <2>1 DEF Proc
  <2> QED
    BY <1>0, <1>3, <2>1, <2>2, <2>3 DEF LoopInv
<1> QED
  BY <1>2, <1>5, <1>6, <1>7 DEF Inv

\* kill() wakes its victim.
LEMMA KillInv ==
  ASSUME NEW p \in Proc, Kill(p), Inv
  PROVE  Inv'
<1>0. TypeOK /\ ResultsTrue /\ LockInv /\ EndsInv /\ LoopInv
  BY DEF Inv, ResultsTrue
<1>1. TypeOK'
  BY <1>0, Zenon DEF TypeOK, Label, Kill, Goto, ring, ends
<1>2. ResultsTrue'
  BY <1>0, <1>1 DEF TypeOK, ResultsTrue, LockInv, LoopInv, EndsInv, Empty,
      Kill, Goto, ring, ends
<1>3. LockInv'
  BY <1>0, EndsAssumption DEF TypeOK, LockInv, Proc, Kill, Goto
<1>4. EndsInv'
  <2>1. /\ \A q \in Proc :
           pc'[q] # pc[q] => pc[q] \in {"noread", "nowrite"} /\ pc'[q] = "enter"
        /\ UNCHANGED <<refs, readopen, writeopen, freed>>
    <3>1. pc' = pc \/ (pc[p] \in {"noread", "nowrite"} /\ pc' = [pc EXCEPT ![p] = "enter"])
      BY DEF Kill, Goto
    <3>2. UNCHANGED <<refs, readopen, writeopen, freed>>
      BY Zenon DEF Kill, ends
    <3> QED
      BY <1>0, <3>1, <3>2 DEF TypeOK
  <2>2. \A q \in Proc : q \in refs' <=> pc'[q] \notin {"close", "gone"}
    BY <1>0, <2>1 DEF EndsInv
  <2>3. \A q \in Proc : pc'[q] \in {"close", "gone"} \/ pc[q] \in {"close", "gone"} => pc'[q] = pc[q]
    BY <2>1
  <2>4. \A q \in Proc : pc'[q] = "close" => \A r \in Peers(q) : r = q \/ pc'[r] = "gone"
    BY <1>0, <2>3 DEF EndsInv, Peers, Proc
  <2> QED
    BY <1>0, <2>1, <2>2, <2>3, <2>4 DEF EndsInv, Peers, Proc
<1>5. LoopInv'
  BY <1>0, EndsAssumption, Zenon DEF TypeOK, LoopInv, LockInv, Empty, Proc, Kill,
      Goto, ring, ends
<1> QED
  BY <1>2, <1>3, <1>4, <1>5 DEF Inv

\* pipewrite() copies a byte into a ring that has room for it.
LEMMA PutInv ==
  ASSUME NEW p \in Proc, NEW b \in Byte, Put(p, b), Inv
  PROVE  Inv'
<1>0. TypeOK /\ ResultsTrue /\ LockInv /\ EndsInv /\ LoopInv
  BY DEF Inv, ResultsTrue
<1>1. /\ nwrite' = (nwrite + 1) % WRAP /\ nwrite' \in 0..(WRAP - 1)
      /\ (nwrite' - nread) % WRAP <= PIPESIZE
  <2>1. nread \in 0..(WRAP - 1) /\ nwrite \in 0..(WRAP - 1)
    BY <1>0 DEF TypeOK
  <2>2. /\ (nwrite - nread) % WRAP <= PIPESIZE /\ nwrite # (nread + PIPESIZE) % WRAP
        /\ nwrite' = (nwrite + 1) % WRAP
    BY <1>0 DEF LoopInv, Put, Full
  <2>3. PIPESIZE \in Nat /\ (nwrite - nread) % WRAP \in 0..(WRAP - 1)
    BY <2>1, Count, SizeAssumption
  <2>4. /\ (((nwrite + 1) % WRAP) - nread) % WRAP = ((nwrite - nread) % WRAP) + 1
        /\ (nwrite - nread) % WRAP < PIPESIZE
    BY <2>1, <2>2, CountPut
  <2>5. (nwrite + 1) % WRAP \in 0..(WRAP - 1)
    BY <2>1, Count
  <2> QED
    BY <2>2, <2>3, <2>4, <2>5
<1>2. p \in Writer /\ writeopen /\ pc[p] = "write"
  BY <1>0 DEF Put, LockInv, EndsInv, TypeOK, Proc
<1>3. TypeOK'
  <2>1. data' \in [0..(PIPESIZE - 1) -> Byte]
    BY <1>0, Zenon DEF TypeOK, Put
  <2>2. i' \in [Proc -> 0..MaxN]
    BY <1>0, SizeAssumption DEF TypeOK, Put
  <2> QED
    BY <1>0, <1>1, <2>1, <2>2 DEF TypeOK, Put, ends
<1>4. ResultsTrue'
  BY <1>0, <1>2, <1>3 DEF ResultsTrue, Put, ends
<1>5. LockInv' /\ EndsInv'
  BY <1>0 DEF LockInv, EndsInv, Put, ends, Peers
<1>6. LoopInv'
  <2>1. \A q \in Reader : pc[q] # "copy" /\ i'[q] = i[q]
    BY <1>0, <1>2, EndsAssumption DEF Put, LockInv, TypeOK, Proc
  <2> QED
    BY <1>0, <1>1, <2>1 DEF Put, LoopInv
<1> QED
  BY <1>4, <1>5, <1>6 DEF Inv

\* piperead() copies a byte out of a ring that is not empty.
LEMMA GetInv ==
  ASSUME NEW p \in Proc, Get(p), Inv
  PROVE  Inv'
<1>0. TypeOK /\ ResultsTrue /\ LockInv /\ EndsInv /\ LoopInv
  BY DEF Inv, ResultsTrue
<1>1. /\ nread' = (nread + 1) % WRAP /\ nread' \in 0..(WRAP - 1)
      /\ (nwrite - nread') % WRAP <= PIPESIZE
  <2>1. nread \in 0..(WRAP - 1) /\ nwrite \in 0..(WRAP - 1)
    BY <1>0 DEF TypeOK
  <2>2. /\ (nwrite - nread) % WRAP <= PIPESIZE /\ nread # nwrite
        /\ nread' = (nread + 1) % WRAP
    BY <1>0 DEF LoopInv, Get, Empty
  <2>3. PIPESIZE \in Nat /\ (nwrite - nread) % WRAP \in 0..(WRAP - 1)
    BY <2>1, Count, SizeAssumption
  <2>4. (nwrite - ((nread + 1) % WRAP)) % WRAP = ((nwrite - nread) % WRAP) - 1
    BY <2>1, <2>2, CountGet
  <2>5. (nread + 1) % WRAP \in 0..(WRAP - 1)
    BY <2>1, Count
  <2> QED
    BY <2>2, <2>3, <2>4, <2>5
<1>2. TypeOK'
  <2>1. i' \in [Proc -> 0..MaxN]
    BY <1>0, SizeAssumption DEF TypeOK, Get
  <2> QED
    BY <1>0, <1>1, <2>1, Zenon DEF TypeOK, Get, ends
<1>3. ResultsTrue'
  BY <1>0, <1>2 DEF ResultsTrue, Get, Empty, ends
<1>4. LockInv' /\ EndsInv'
  BY <1>0 DEF LockInv, EndsInv, Get, ends, Peers
<1>5. LoopInv'
  <2>1. i'[p] > 0 /\ \A q \in Proc : q # p => pc[q] # "copy" /\ i'[q] = i[q]
    BY <1>0, SizeAssumption DEF Get, LockInv, TypeOK
  <2> QED
    BY <1>0, <1>1, <2>1 DEF Get, LoopInv, Proc
<1> QED
  BY <1>3, <1>4, <1>5 DEF Inv

\* Every step of every process keeps the invariant.
LEMMA NextInv == Inv /\ [Next]_vars => Inv'
<1>1. ASSUME Inv, NEW p \in Proc, Step(p) \/ UserStep(p) \/ Kill(p)
      PROVE  Inv'
  BY Zenon, <1>1, CallInv, EnterInv, PutInv, WriteFailInv, WriteSleepInv, WriteDoneInv,
     ReadFailInv, ReadSleepInv, ReadReadyInv, GetInv, ReadDoneInv, CloseInv,
     PipeCloseInv, KillInv
     DEF Step, UserStep
<1>2. ASSUME Inv, UNCHANGED vars PROVE Inv'
  <2>1. UNCHANGED <<data, nread, nwrite, readopen, writeopen, freed, refs, lock,
                    killed, pc, n, i, ret>>
    BY <1>2, Zenon DEF vars, ring, ends, procs
  <2>2. ResultsTrue'
    BY <1>2, <2>1, Zenon DEF Inv, ResultsTrue, TypeOK, Empty
  <2>3. LockInv' /\ LoopInv'
    BY <1>2, <2>1, Zenon DEF Inv, LockInv, LoopInv, Empty
  <2>4. EndsInv'
    BY <1>2, <2>1, Zenon DEF Inv, EndsInv, Peers
  <2> QED
    BY <2>2, <2>3, <2>4, Zenon DEF Inv
<1> QED
  BY <1>1, <1>2 DEF Next

\* The invariant holds in every execution.
THEOREM PipeInvariance == Spec => []Inv
BY InitInv, NextInv, PTL DEF Spec

\* What read() and write() return is true (piperead, pipewrite): after an end
\* of file nothing can ever be read, and a call fails only for a killed
\* process or a writer without readers.
THEOREM PipeResultsTrue == Spec => []ResultsTrue
<1>1. Inv => ResultsTrue
  BY DEF Inv
<1> QED
  BY <1>1, PipeInvariance, PTL

\* pipeclose() gives the page back when no process can reach the pipe.
THEOREM PipeNotUsedAfterFree == Spec => []NoUseAfterFree
<1>1. Inv => NoUseAfterFree
  BY DEF Inv, EndsInv, NoUseAfterFree, Proc
<1> QED
  BY <1>1, PipeInvariance, PTL

(***************************************************************************)
(* The pipe implements a bounded FIFO queue.                               *)
(***************************************************************************)
\* A slot of p->data does not depend on the turn a counter is on, since the
\* counters wrap at a multiple of PIPESIZE.
LEMMA Slot ==
  ASSUME NEW x \in Int
  PROVE  x % PIPESIZE \in 0..(PIPESIZE - 1) /\ (x + WRAP) % PIPESIZE = x % PIPESIZE
<1>1. PIPESIZE \in Nat /\ PIPESIZE > 0 /\ WRAP \in Int /\ WRAP % PIPESIZE = 0
  BY SizeAssumption
<1> QED
  BY <1>1, ModDef, ModWrap, Zenon

\* The bytes between the counters, oldest first, as a sequence.
ContentsView ==
  /\ Contents \in Seq(Byte)
  /\ Len(Contents) = (nwrite - nread) % WRAP
  /\ \A k \in 1..((nwrite - nread) % WRAP) :
       Contents[k] = data[(nread + k - 1) % PIPESIZE]

\* For a ring whose counters are in range, Contents is that sequence.
LEMMA ContentsSeq == TypeOK => ContentsView
<1> SUFFICES ASSUME TypeOK PROVE ContentsView
  OBVIOUS
<1> DEFINE d == (nwrite - nread) % WRAP
<1>1. nread \in 0..(WRAP - 1) /\ nwrite \in 0..(WRAP - 1) /\ data \in [0..(PIPESIZE - 1) -> Byte]
  BY DEF TypeOK
<1>2. d \in Nat /\ nread \in Int
  BY <1>1, Count, SizeAssumption
<1> HIDE DEF d
<1>3. \A k \in 1..d : data[(nread + k - 1) % PIPESIZE] \in Byte
  <2> TAKE k \in 1..d
  <2>1. nread + k - 1 \in Int
    BY <1>2
  <2>2. (nread + k - 1) % PIPESIZE \in 0..(PIPESIZE - 1)
    BY <2>1, Slot
  <2> QED
    BY <1>1, <2>2
<1>4. Contents = [k \in 1..d |-> data[(nread + k - 1) % PIPESIZE]]
  BY DEF Contents, d
<1>5. Contents \in [1..d -> Byte]
  BY <1>3, <1>4
<1>6. Contents \in Seq(Byte) /\ Len(Contents) = d
  BY <1>2, <1>5
<1> QED
  BY <1>4, <1>6 DEF d, ContentsView

\* pipewrite() appends the byte: it goes to the slot after the last one and
\* overwrites none that is still to be read.
LEMMA PutAppends ==
  ASSUME Inv, Inv', NEW p \in Proc, NEW b \in Byte, Put(p, b)
  PROVE  Len(Contents) < PIPESIZE /\ Contents' = Append(Contents, b)
<1> DEFINE d == (nwrite - nread) % WRAP
           s == Append(Contents, b)
<1>1. /\ nread \in 0..(WRAP - 1) /\ nwrite \in 0..(WRAP - 1)
      /\ data \in [0..(PIPESIZE - 1) -> Byte] /\ TypeOK /\ TypeOK'
      /\ PIPESIZE \in Nat /\ WRAP \in Nat /\ PIPESIZE > 0 /\ nread' = nread
  <2>1. TypeOK /\ TypeOK' /\ nread' = nread
    BY DEF Inv, ResultsTrue, Put
  <2>2. PIPESIZE \in Nat /\ WRAP \in Nat /\ PIPESIZE > 0
    BY SizeAssumption
  <2>3. nread \in 0..(WRAP - 1) /\ nwrite \in 0..(WRAP - 1) /\ data \in [0..(PIPESIZE - 1) -> Byte]
    BY <2>1, Zenon DEF TypeOK
  <2> QED
    BY <2>1, <2>2, <2>3, Zenon
<1>2. /\ d <= PIPESIZE /\ nwrite # (nread + PIPESIZE) % WRAP
      /\ nwrite' = (nwrite + 1) % WRAP
      /\ data' = [data EXCEPT ![nwrite % PIPESIZE] = b]
  BY DEF Inv, LoopInv, Put, Full
<1>3. d < PIPESIZE /\ d \in Nat /\ (nwrite' - nread') % WRAP = d + 1
  <2>1. d \in Nat
    BY <1>1, Count
  <2>2. (((nwrite + 1) % WRAP) - nread) % WRAP = d + 1 /\ d < PIPESIZE
    BY <1>1, <1>2, CountPut, Zenon
  <2> QED
    BY <1>1, <1>2, <2>1, <2>2
<1>4. nwrite + WRAP = nread + d \/ nwrite = nread + d
  BY <1>1, Count
<1>5. /\ Contents \in Seq(Byte) /\ Len(Contents) = d
      /\ \A k \in 1..d : Contents[k] = data[(nread + k - 1) % PIPESIZE]
  BY <1>1, ContentsSeq DEF ContentsView
<1>6. /\ Contents' \in Seq(Byte) /\ Len(Contents') = (nwrite' - nread') % WRAP
      /\ \A k \in 1..((nwrite' - nread') % WRAP) :
           Contents'[k] = data'[(nread' + k - 1) % PIPESIZE]
  <2>1. ContentsView'
    BY <1>1, ContentsSeq, PTL
  <2> QED
    BY <2>1 DEF ContentsView
<1> HIDE DEF d
<1>7. nwrite % PIPESIZE = (nread + d) % PIPESIZE
  <2>1. nwrite \in Int
    BY <1>1
  <2>2. (nwrite + WRAP) % PIPESIZE = nwrite % PIPESIZE
    BY <2>1, Slot, Zenon
  <2> QED
    BY <1>4, <2>2, Zenon
<1>8. \A k \in 1..d : data'[(nread + k - 1) % PIPESIZE] = data[(nread + k - 1) % PIPESIZE]
  <2> TAKE k \in 1..d
  <2>1. /\ nread + k - 1 \in Int /\ nread + d \in Int
        /\ nread + k - 1 < nread + d /\ nread + d < nread + k - 1 + PIPESIZE
    BY <1>1, <1>3
  <2>2. (nread + k - 1) % PIPESIZE # (nread + d) % PIPESIZE
    BY <1>1, <2>1, ModDistinct
  <2>3. (nread + k - 1) % PIPESIZE \in 0..(PIPESIZE - 1)
    BY <2>1, Slot
  <2> QED
    BY <1>1, <1>2, <1>7, <2>2, <2>3
<1>9. data'[(nread + (d + 1) - 1) % PIPESIZE] = b
  <2>1. nwrite \in Int /\ nread + (d + 1) - 1 = nread + d
    BY <1>1, <1>3
  <2>2. nwrite % PIPESIZE \in 0..(PIPESIZE - 1)
    BY <2>1, Slot
  <2> QED
    BY <1>1, <1>2, <1>7, <2>1, <2>2
<1>10. /\ s \in Seq(Byte) /\ Len(s) = d + 1 /\ s[d + 1] = b
       /\ \A k \in 1..d : s[k] = Contents[k]
  BY <1>5, AppendProperties
<1>11. \A k \in 1..(d + 1) : Contents'[k] = s[k]
  <2> TAKE k \in 1..(d + 1)
  <2>1. Contents'[k] = data'[(nread + k - 1) % PIPESIZE]
    BY <1>1, <1>3, <1>6
  <2>2. CASE k \in 1..d
    BY <1>5, <1>8, <1>10, <2>1, <2>2
  <2>3. CASE k = d + 1
    BY <1>9, <1>10, <2>1, <2>3
  <2>4. k \in 1..d \/ k = d + 1
    BY <1>3
  <2> QED
    BY <2>2, <2>3, <2>4, Zenon
<1> HIDE DEF s
<1>12. Contents' = s
  BY <1>3, <1>6, <1>10, <1>11, SeqEqual
<1> QED
  BY <1>3, <1>5, <1>12 DEF s

\* piperead() takes the oldest byte.
LEMMA GetTakesHead ==
  ASSUME Inv, Inv', NEW p \in Proc, Get(p)
  PROVE  Contents # <<>> /\ Contents' = Tail(Contents)
<1> DEFINE d == (nwrite - nread) % WRAP
           s == Tail(Contents)
<1>1. /\ nread \in 0..(WRAP - 1) /\ nwrite \in 0..(WRAP - 1)
      /\ TypeOK /\ TypeOK' /\ nwrite' = nwrite /\ data' = data
      /\ PIPESIZE \in Nat /\ WRAP \in Nat /\ PIPESIZE > 0
  <2>1. TypeOK /\ TypeOK' /\ nwrite' = nwrite /\ data' = data
    BY Zenon DEF Inv, ResultsTrue, Get
  <2>2. PIPESIZE \in Nat /\ WRAP \in Nat /\ PIPESIZE > 0
    BY SizeAssumption
  <2> QED
    BY <2>1, <2>2, Zenon DEF TypeOK
<1>2. nread # nwrite /\ nread' = (nread + 1) % WRAP
  BY DEF Get, Empty
<1>3. d > 0 /\ d \in Nat /\ (nwrite' - nread') % WRAP = d - 1
  BY <1>1, <1>2, Count, CountGet
<1>4. nread' = nread + 1 - WRAP \/ nread' = nread + 1
  BY <1>1, <1>2, Count
<1>5. /\ Contents \in Seq(Byte) /\ Len(Contents) = d
      /\ \A k \in 1..d : Contents[k] = data[(nread + k - 1) % PIPESIZE]
  BY <1>1, ContentsSeq, Zenon DEF ContentsView
<1>6. /\ Contents' \in Seq(Byte) /\ Len(Contents') = (nwrite' - nread') % WRAP
      /\ \A k \in 1..((nwrite' - nread') % WRAP) :
           Contents'[k] = data'[(nread' + k - 1) % PIPESIZE]
  <2>1. ContentsView'
    BY <1>1, ContentsSeq, PTL
  <2> QED
    BY <2>1 DEF ContentsView
<1> HIDE DEF d
<1>7. /\ Contents # <<>>
      /\ s \in Seq(Byte) /\ Len(s) = d - 1 /\ \A k \in 1..(d - 1) : s[k] = Contents[k + 1]
  <2>1. Contents # <<>>
    BY <1>3, <1>5, EmptySeq
  <2> QED
    BY <1>5, <2>1, HeadTailProperties
<1>8. \A k \in 1..(d - 1) : Contents'[k] = s[k]
  <2> TAKE k \in 1..(d - 1)
  <2>0. nread' \in Int /\ nread \in Int /\ WRAP \in Int /\ k \in Int
    BY <1>1, <1>3 DEF TypeOK
  <2>1. nread' + k - 1 \in Int /\ nread + (k + 1) - 1 \in Int /\ k + 1 \in 1..d
    BY <1>1, <1>3, <2>0
  <2>2. (nread' + k - 1) % PIPESIZE = (nread + (k + 1) - 1) % PIPESIZE
    <3>1. CASE nread' = nread + 1 - WRAP
      <4>1. (nread' + k - 1) + WRAP = nread + (k + 1) - 1
        BY <2>0, <3>1
      <4> QED
        BY <2>1, <4>1, Slot
    <3>2. CASE nread' = nread + 1
      <4>1. nread' + k - 1 = nread + (k + 1) - 1
        BY <2>0, <3>2
      <4> QED
        BY <4>1
    <3> QED
      BY <1>4, <3>1, <3>2
  <2> QED
    BY <1>1, <1>3, <1>5, <1>6, <1>7, <2>1, <2>2, Zenon
<1> HIDE DEF s
<1>9. Contents' = s
  BY <1>3, <1>6, <1>7, <1>8, SeqEqual
<1> QED
  BY <1>7, <1>9, Zenon DEF s

\* A step of a process is a step of the queue or leaves it alone.
LEMMA NextRefines ==
  ASSUME Inv, Inv', [Next]_vars
  PROVE  [Q!Next]_(Q!vars)
<1>0. TypeOK /\ LockInv /\ EndsInv
  BY DEF Inv, ResultsTrue
<1>1. ASSUME UNCHANGED ring, UNCHANGED <<readopen, writeopen>>
      PROVE  UNCHANGED Q!vars
  BY <1>1 DEF Q!vars, Contents, ring
<1>2. ASSUME NEW p \in Proc, NEW b \in Byte, Put(p, b)
      PROVE  Q!Next
  <2>1. writeopen
    BY <1>0, <1>2 DEF TypeOK, LockInv, EndsInv, Put, Proc
  <2>2. Len(Contents) < PIPESIZE /\ Contents' = Append(Contents, b)
    BY <1>2, PutAppends, Zenon
  <2>3. UNCHANGED <<readopen, writeopen>>
    BY <1>2 DEF Put, ends
  <2> QED
    BY <2>1, <2>2, <2>3 DEF Q!Next, Q!Put
<1>3. ASSUME NEW p \in Proc, Get(p)
      PROVE  Q!Next
  <2>1. readopen
    BY <1>0, <1>3 DEF TypeOK, LockInv, EndsInv, Get, Proc
  <2>2. Contents # <<>> /\ Contents' = Tail(Contents)
    BY <1>3, GetTakesHead
  <2>3. UNCHANGED <<readopen, writeopen>>
    BY <1>3 DEF Get, ends
  <2> QED
    BY <2>1, <2>2, <2>3 DEF Q!Next, Q!Get
<1>4. ASSUME NEW p \in Proc, PipeClose(p)
      PROVE  Q!Next
  <2>1. Contents' = Contents
    BY <1>4 DEF PipeClose, Contents, ring
  <2>2. CASE p \in Writer
    <3>1. writeopen /\ writeopen' = FALSE /\ readopen' = readopen
      BY <1>0, <1>4, <2>2 DEF PipeClose, EndsInv, TypeOK
    <3> QED
      BY <2>1, <3>1 DEF Q!Next, Q!CloseWrite
  <2>3. CASE p \notin Writer
    <3>1. readopen /\ readopen' = FALSE /\ writeopen' = writeopen
      BY <1>0, <1>4, <2>3 DEF PipeClose, EndsInv, TypeOK, Proc
    <3> QED
      BY <2>1, <3>1 DEF Q!Next, Q!CloseRead
  <2> QED
    BY <2>2, <2>3
<1>5. ASSUME NEW p \in Proc, Step(p) \/ UserStep(p) \/ Kill(p)
      PROVE  Q!Next \/ UNCHANGED Q!vars
  <2>1. CASE \E b \in Byte : Put(p, b)
    BY <1>2, <2>1
  <2>2. CASE Get(p)
    BY <1>3, <2>2
  <2>3. CASE PipeClose(p)
    BY <1>4, <2>3, Zenon
  <2>4. CASE \/ \E k \in 1..MaxN : Call(p, k)
             \/ Enter(p) \/ WriteFail(p) \/ WriteSleep(p) \/ WriteDone(p)
             \/ ReadFail(p) \/ ReadSleep(p) \/ ReadReady(p) \/ ReadDone(p)
             \/ Close(p) \/ Kill(p)
    BY <1>1, <2>4, Zenon DEF Call, Enter, WriteFail, WriteSleep, WriteDone, ReadFail,
       ReadSleep, ReadReady, ReadDone, Close, Kill, ends
  <2> QED
    BY <1>5, <2>1, <2>2, <2>3, <2>4 DEF Step, UserStep
<1>6. CASE UNCHANGED vars
  BY <1>1, <1>6 DEF vars, ends
<1> QED
  BY <1>5, <1>6 DEF Next

\* The pipe is a FIFO queue of at most PIPESIZE bytes (ImplementsByteQueue):
\* no byte is lost, repeated, overwritten or reordered, also when p->nread and
\* p->nwrite wrap around, and nothing is put in or taken out through an end
\* that is closed.
THEOREM PipeImplementsByteQueue == Spec => ImplementsByteQueue
<1>1. Init => Q!Init
  <2> SUFFICES ASSUME Init PROVE Q!Init
    OBVIOUS
  <2>1. Contents \in Seq(Byte) /\ Len(Contents) = (nwrite - nread) % WRAP
    BY InitInv, ContentsSeq DEF Inv, ResultsTrue, ContentsView
  <2>2. (nwrite - nread) % WRAP = 0
    BY SizeAssumption DEF Init
  <2> QED
    BY <2>1, <2>2, EmptySeq DEF Init, Q!Init
<1>2. Inv /\ Inv' /\ [Next]_vars => [Q!Next]_(Q!vars)
  BY NextRefines
<1> QED
  BY <1>1, <1>2, PipeInvariance, PTL DEF Spec, ImplementsByteQueue, Q!Spec
=============================================================================
