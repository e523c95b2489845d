--------------------------- MODULE BufCacheProofs ---------------------------
(***************************************************************************)
(* The buffer cache keeps buffers, users and requests together, and on a   *)
(* disk without errors it implements BlockStore.                           *)
(***************************************************************************)
EXTENDS BufCache, FiniteSetTheorems, TLAPS

USE NoneAssumption

\* The users of a buffer can be counted.
LEMMA Finite ==
  ASSUME NEW A \in SUBSET User
  PROVE  IsFiniteSet(A) /\ Cardinality(A) \in Nat
BY BoundAssumption, FS_Subset, FS_CardinalityType

\* binit() establishes the invariant: the list holds every buffer.
LEMMA InitInv == Init => Inv
<1> SUFFICES ASSUME Init PROVE Inv
  OBVIOUS
<1>1. mru \in [1..Cardinality(Buf) -> Buf]
  <2>1. \E f : f \in Bijection(1..Cardinality(Buf), Buf)
    BY BoundAssumption, FS_CardinalityType DEF ExistsBijection
  <2>2. mru \in Bijection(1..Cardinality(Buf), Buf)
    BY <2>1 DEF Init
  <2> QED
    BY <2>2 DEF Bijection, Injection
<1>2. TypeOK
  <2>1. /\ valid \subseteq Buf /\ dirty \subseteq Buf
        /\ changed \subseteq User /\ busy \in BOOLEAN /\ panicked \in BOOLEAN
    BY Zenon DEF Init
  <2>2. pc \in [User -> Label] /\ blk \in [User -> Block \cup {NoBlock}]
    BY DEF Init, Label
  <2>3. /\ blockno \in [Buf -> Block \cup {NoBlock}] /\ refcnt \in [Buf -> Nat]
        /\ data \in [Buf -> Val] /\ owner \in [Buf -> User \cup {NoUser}]
        /\ idequeue \in Seq(Buf) /\ disk \in [Block -> Val]
        /\ buf \in [User -> Buf \cup {NoBuf}]
    BY DEF Init
  <2> QED
    BY <1>1, <2>1, <2>2, <2>3 DEF TypeOK
<1>3. OneBufPerBlock
  <2>1. \A b \in Buf : {u \in User : buf[u] = b} = {}
    BY DEF Init
  <2> QED
    BY <2>1, FS_EmptySet, Zenon DEF Init, OneBufPerBlock
<1>4. QueueSound /\ DataInv
  BY DEF Init, QueueSound, DataInv, Queued, Synced
<1>5. OwnerInv
  BY DEF Init, OwnerInv, Holding
<1> QED
  BY <1>2, <1>3, <1>4, <1>5 DEF Inv, HeldIsValid, Init

-----------------------------------------------------------------------------
\* bget() for a block that is cached: one more user of its buffer.
LEMMA BgetHitInv ==
  ASSUME Inv, NEW u \in User, NEW k \in Block, BgetHit(u, k)
  PROVE  Inv'
<1>0. /\ TypeOK /\ OneBufPerBlock /\ QueueSound /\ OwnerInv /\ DataInv
      /\ \A v \in User : pc[v] = "held" => buf[v] \in valid /\ ~Queued(buf[v])
  BY DEF Inv, HeldIsValid
<1>1. PICK b \in Buf :
        /\ pc[u] = "idle" /\ blockno[b] = k
        /\ refcnt' = [refcnt EXCEPT ![b] = @ + 1]
        /\ blk' = [blk EXCEPT ![u] = k]
        /\ buf' = [buf EXCEPT ![u] = b]
        /\ pc' = [pc EXCEPT ![u] = "lock"]
        /\ UNCHANGED <<mru, blockno, valid, dirty, data, owner, idequeue, busy,
                       disk, changed, panicked>>
  BY Zenon DEF BgetHit, Cached, Want, Goto, flags, ide
<1>2. buf[u] = NoBuf
  BY <1>0, <1>1 DEF OwnerInv
<1>3. TypeOK'
  BY <1>0, <1>1 DEF TypeOK, Label
<1>4. OneBufPerBlock'
  <2>1. ASSUME NEW c \in Buf
        PROVE  refcnt'[c] = Cardinality({v \in User : buf'[v] = c})
    <3>1. CASE c = b
      <4>1. {v \in User : buf'[v] = c} = {v \in User : buf[v] = c} \cup {u}
        BY <1>0, <1>1, <3>1 DEF TypeOK
      <4>2. u \notin {v \in User : buf[v] = c}
        BY <1>2
      <4>3. Cardinality({v \in User : buf[v] = c} \cup {u})
              = Cardinality({v \in User : buf[v] = c}) + 1
        BY <4>2, Finite, FS_AddElement, Zenon
      <4>4. refcnt[c] = Cardinality({v \in User : buf[v] = c}) /\ refcnt \in [Buf -> Nat]
        BY <1>0 DEF Inv, HeldIsValid, OneBufPerBlock, TypeOK
      <4> QED
        BY <1>1, <3>1, <4>1, <4>3, <4>4, Zenon
    <3>2. CASE c # b
      <4>1. {v \in User : buf'[v] = c} = {v \in User : buf[v] = c}
        BY <1>0, <1>1, <1>2, <3>2 DEF TypeOK
      <4> QED
        BY <1>0, <1>1, <3>2, <4>1, Zenon DEF OneBufPerBlock, TypeOK
    <3> QED
      BY <3>1, <3>2
  <2>2. \A v \in User : pc'[v] # "idle" => blockno'[buf'[v]] = blk'[v]
    BY <1>0, <1>1 DEF OneBufPerBlock, TypeOK
  <2> QED
    BY <1>0, <1>1, <2>1, <2>2, Zenon DEF OneBufPerBlock
<1>5. QueueSound'
  BY <1>0, <1>1 DEF QueueSound, OwnerInv, Holding, TypeOK
<1>6. \A v \in User : pc'[v] = "held" => buf'[v] \in valid' /\ ~Queued(buf[v])'
  BY <1>0, <1>1 DEF TypeOK, Queued
<1>7. OwnerInv'
  BY <1>0, <1>1 DEF OwnerInv, Holding, TypeOK
<1>8. DataInv'
  BY <1>0, <1>1 DEF DataInv, Queued, Synced
<1> QED
  BY <1>3, <1>4, <1>5, <1>6, <1>7, <1>8 DEF Inv, HeldIsValid, Queued

\* bget() for a block that is not cached: nobody uses the buffer it recycles.
LEMMA BgetRecycleInv ==
  ASSUME Inv, NEW u \in User, NEW k \in Block, BgetRecycle(u, k)
  PROVE  Inv'
<1>0. /\ TypeOK /\ OneBufPerBlock /\ QueueSound /\ OwnerInv /\ DataInv
      /\ \A v \in User : pc[v] = "held" => buf[v] \in valid /\ ~Queued(buf[v])
  BY DEF Inv, HeldIsValid
<1>1. PICK j \in Unused :
        /\ pc[u] = "idle" /\ Cached(k) = {}
        /\ blockno' = [blockno EXCEPT ![mru[j]] = k]
        /\ refcnt' = [refcnt EXCEPT ![mru[j]] = 1]
        /\ valid' = valid \ {mru[j]}
        /\ dirty' = dirty \ {mru[j]}
        /\ blk' = [blk EXCEPT ![u] = k]
        /\ buf' = [buf EXCEPT ![u] = mru[j]]
        /\ pc' = [pc EXCEPT ![u] = "lock"]
        /\ UNCHANGED <<mru, data, owner, idequeue, busy, disk, changed, panicked>>
  BY Zenon DEF BgetRecycle, Want, Goto, ide
<1> DEFINE b == mru[j]
<1>2. b \in Buf /\ refcnt[b] = 0
  BY <1>0, <1>1, Zenon DEF Unused, TypeOK
<1>3. \A v \in User : buf[v] # b
  <2>1. Cardinality({v \in User : buf[v] = b}) = 0
    BY <1>0, <1>2 DEF OneBufPerBlock
  <2> HIDE DEF b
  <2>2. {v \in User : buf[v] = b} = {}
    BY <2>1, Finite, FS_EmptySet
  <2> QED
    BY <2>2
<1>4. \A c \in Buf : blockno[c] # k
  BY <1>1 DEF Cached
<1>5. buf[u] = NoBuf
  BY <1>0, <1>1 DEF OwnerInv
<1>6. owner[b] = NoUser /\ ~Queued(b)
  BY <1>0, <1>2, <1>3 DEF OwnerInv, QueueSound, Queued, TypeOK
<1> HIDE DEF b
<1>7. /\ blockno' = [blockno EXCEPT ![b] = k] /\ refcnt' = [refcnt EXCEPT ![b] = 1]
      /\ valid' = valid \ {b} /\ dirty' = dirty \ {b}
      /\ buf' = [buf EXCEPT ![u] = b]
  BY <1>1 DEF b
<1>8. TypeOK'
  <2>1. valid' \subseteq Buf /\ dirty' \subseteq Buf
    BY <1>0, <1>7 DEF TypeOK
  <2>2. blockno' \in [Buf -> Block \cup {NoBlock}] /\ refcnt' \in [Buf -> Nat]
    BY <1>0, <1>7, Zenon DEF TypeOK
  <2>3. /\ pc' \in [User -> Label] /\ blk' \in [User -> Block \cup {NoBlock}]
        /\ buf' \in [User -> Buf \cup {NoBuf}]
    BY <1>0, <1>1, <1>2, <1>7 DEF TypeOK, Label
  <2> QED
    BY <1>0, <1>1, <2>1, <2>2, <2>3 DEF TypeOK
<1>9. OneBufPerBlock'
  <2>1. ASSUME NEW c \in Buf
        PROVE  refcnt'[c] = Cardinality({v \in User : buf'[v] = c})
    <3>1. CASE c = b
      <4>1. {v \in User : buf'[v] = c} = {u}
        BY <1>0, <1>3, <1>7, <3>1 DEF TypeOK
      <4> QED
        BY <1>0, <1>2, <1>7, <3>1, <4>1, FS_Singleton, Zenon DEF TypeOK
    <3>2. CASE c # b
      <4>1. {v \in User : buf'[v] = c} = {v \in User : buf[v] = c}
        BY <1>0, <1>5, <1>7, <3>2 DEF TypeOK
      <4> QED
        BY <1>0, <1>7, <3>2, <4>1, Zenon DEF OneBufPerBlock, TypeOK
    <3> QED
      BY <3>1, <3>2
  <2>2. \A v \in User : pc'[v] # "idle" => blockno'[buf'[v]] = blk'[v]
    BY <1>0, <1>1, <1>2, <1>3, <1>7 DEF OneBufPerBlock, OwnerInv, TypeOK
  <2>3. \A c, d \in Buf : blockno'[c] = blockno'[d] /\ blockno'[c] # NoBlock => c = d
    BY <1>0, <1>4, <1>7 DEF OneBufPerBlock, TypeOK
  <2> QED
    BY <1>0, <2>1, <2>2, <2>3 DEF OneBufPerBlock
<1>10. QueueSound'
  BY <1>0, <1>1 DEF QueueSound, OwnerInv, Holding, TypeOK
<1>11. \A v \in User : pc'[v] = "held" => buf'[v] \in valid' /\ ~Queued(buf[v])'
  BY <1>0, <1>1, <1>3, <1>7 DEF TypeOK, Queued
<1>12. OwnerInv'
  BY <1>0, <1>1, <1>2, <1>6, <1>7 DEF OwnerInv, Holding, TypeOK
<1>13. DataInv'
  BY <1>0, <1>1, <1>2, <1>6, <1>7 DEF DataInv, Queued, Synced, TypeOK
<1> QED
  BY <1>8, <1>9, <1>10, <1>11, <1>12, <1>13 DEF Inv, HeldIsValid, Queued

\* The sleep lock of a buffer, and the steps that only move a user: bread()
\* with the data there, kill() and the test of iderw()'s loop.
LEMMA LockInv ==
  ASSUME Inv, NEW u \in User, Lock(u)
  PROVE  Inv'
<1>0. /\ TypeOK /\ OneBufPerBlock /\ QueueSound /\ OwnerInv /\ DataInv
      /\ \A v \in User : pc[v] = "held" => buf[v] \in valid /\ ~Queued(buf[v])
  BY DEF Inv, HeldIsValid
<1>1. /\ pc[u] = "lock" /\ owner[buf[u]] = NoUser
      /\ owner' = [owner EXCEPT ![buf[u]] = u]
      /\ pc' = [pc EXCEPT ![u] = "got"]
      /\ UNCHANGED <<mru, blockno, refcnt, valid, dirty, data, idequeue, busy,
                     disk, blk, buf, changed, panicked>>
  BY DEF Lock, Goto, cache, flags, ide
<1>2. buf[u] \in Buf
  BY <1>0, <1>1 DEF OwnerInv, TypeOK
<1>3. TypeOK'
  BY <1>0, <1>1, <1>2 DEF TypeOK, Label
<1>4. OneBufPerBlock' /\ DataInv'
  <2>1. \A v \in User : pc'[v] # "idle" => pc[v] # "idle"
    BY <1>0, <1>1, Zenon DEF TypeOK
  <2>2. OneBufPerBlock'
    BY <1>0, <1>1, <2>1 DEF OneBufPerBlock
  <2>3. DataInv'
    BY <1>0, <1>1 DEF DataInv, Queued, Synced
  <2> QED
    BY <2>2, <2>3
<1>5. QueueSound'
  BY <1>0, <1>1, <1>2 DEF QueueSound, OwnerInv, Holding, TypeOK
<1>6. \A v \in User : pc'[v] = "held" => buf'[v] \in valid' /\ ~Queued(buf[v])'
  BY <1>0, <1>1 DEF TypeOK, Queued
<1>7. OwnerInv'
  BY <1>0, <1>1, <1>2 DEF OwnerInv, Holding, TypeOK
<1> QED
  BY <1>3, <1>4, <1>5, <1>6, <1>7 DEF Inv, HeldIsValid, Queued

LEMMA MoveInv ==
  ASSUME Inv, NEW u \in User, Bread(u) \/ Kill(u) \/ IderwLoop(u)
  PROVE  Inv'
<1>0. /\ TypeOK /\ OneBufPerBlock /\ QueueSound /\ OwnerInv /\ DataInv
      /\ \A v \in User : pc[v] = "held" => buf[v] \in valid /\ ~Queued(buf[v])
  BY DEF Inv, HeldIsValid
<1>1. PICK l \in Label :
        /\ pc' = [pc EXCEPT ![u] = l]
        /\ \/ pc[u] = "got" /\ l = (IF buf[u] \in valid THEN "held" ELSE "sync")
           \/ pc[u] = "asleep" /\ l = "awake"
           \/ pc[u] = "awake" /\ l = (IF Synced(buf[u]) THEN "held" ELSE "asleep")
        /\ UNCHANGED <<mru, blockno, refcnt, valid, dirty, data, owner, idequeue,
                       busy, disk, blk, buf, changed, panicked>>
  BY DEF Bread, Kill, IderwLoop, Goto, cache, flags, ide, Label
<1>2. buf[u] \in Buf /\ owner[buf[u]] = u
  BY <1>0, <1>1 DEF OwnerInv, TypeOK, Holding
<1>3. TypeOK'
  BY <1>0, <1>1 DEF TypeOK
<1>4. OneBufPerBlock' /\ DataInv'
  <2>1. \A v \in User : pc'[v] # "idle" => pc[v] # "idle"
    BY <1>0, <1>1, Zenon DEF TypeOK
  <2>2. OneBufPerBlock'
    BY <1>0, <1>1, <2>1 DEF OneBufPerBlock
  <2>3. DataInv'
    BY <1>0, <1>1 DEF DataInv, Queued, Synced
  <2> QED
    BY <2>2, <2>3
<1>5. l \in {"held", "sync"} /\ pc[u] = "got" => ~Queued(buf[u])
  BY <1>0, <1>2 DEF Queued, QueueSound
<1>6. l = "held" => buf[u] \in valid /\ ~Queued(buf[u])
  BY <1>0, <1>1, <1>2, <1>5, Zenon DEF DataInv, Synced
<1>7. QueueSound'
  <2>1. l \notin {"asleep", "awake"} => ~Queued(buf[u])
    BY <1>1, <1>2, <1>5, <1>6
  <2>2. ASSUME NEW j \in DOMAIN idequeue
        PROVE  owner[idequeue[j]] # NoUser /\ pc'[owner[idequeue[j]]] \in {"asleep", "awake"}
    <3>1. idequeue[j] \in Buf /\ owner[idequeue[j]] \in User
      BY <1>0 DEF TypeOK, QueueSound
    <3>2. owner[idequeue[j]] = u => idequeue[j] = buf[u]
      BY <1>0, <3>1 DEF OwnerInv
    <3> QED
      BY <1>0, <1>1, <2>1, <3>1, <3>2 DEF QueueSound, Queued, TypeOK
  <2> QED
    BY <1>0, <1>1, <2>2 DEF QueueSound
<1>8. \A v \in User : pc'[v] = "held" => buf'[v] \in valid' /\ ~Queued(buf[v])'
  BY <1>0, <1>1, <1>6 DEF TypeOK, Queued
<1>9. OwnerInv'
  BY <1>0, <1>1, <1>2 DEF OwnerInv, Holding, TypeOK
<1> QED
  BY <1>3, <1>4, <1>7, <1>8, <1>9 DEF Inv, HeldIsValid, Queued

\* The holder of a buffer changes it, or marks it dirty for the disk or the
\* log.
LEMMA HolderInv ==
  ASSUME Inv, NEW u \in User,
         (\E v \in Val : Change(u, v)) \/ Bwrite(u) \/ LogWrite(u)
  PROVE  Inv'
<1>0. /\ TypeOK /\ OneBufPerBlock /\ QueueSound /\ OwnerInv /\ DataInv
      /\ \A v \in User : pc[v] = "held" => buf[v] \in valid /\ ~Queued(buf[v])
  BY DEF Inv, HeldIsValid
<1>1. /\ pc[u] = "held"
      /\ \/ pc' = pc /\ changed' = changed \cup {u}
         \/ pc' = pc /\ changed' = changed \ {u}
         \/ pc' = [pc EXCEPT ![u] = "sync"] /\ changed' = changed \ {u}
      /\ dirty' = dirty \/ dirty' = dirty \cup {buf[u]}
      /\ data' = data \/ \E v \in Val : data' = [data EXCEPT ![buf[u]] = v]
      /\ UNCHANGED <<mru, blockno, refcnt, valid, owner, idequeue, busy,
                     disk, blk, buf, panicked>>
  BY DEF Change, Bwrite, LogWrite, Goto, cache, flags, ide
<1>2. /\ buf[u] \in Buf /\ owner[buf[u]] = u
      /\ buf[u] \in valid /\ ~Queued(buf[u])
  BY <1>0, <1>1 DEF OwnerInv, TypeOK, Holding
<1>3. TypeOK'
  <2>1. dirty' \subseteq Buf
    BY <1>0, <1>1 DEF TypeOK
  <2>2. changed' \subseteq User
    BY <1>0, <1>1, Zenon DEF TypeOK
  <2>3. data' \in [Buf -> Val]
    BY <1>0, <1>1 DEF TypeOK
  <2>4. pc' \in [User -> Label]
    BY <1>0, <1>1, Zenon DEF TypeOK, Label
  <2> QED
    BY <1>0, <1>1, <2>1, <2>2, <2>3, <2>4 DEF TypeOK
<1>4. OneBufPerBlock'
  <2>1. \A v \in User : pc'[v] # "idle" => pc[v] # "idle"
    BY <1>0, <1>1, Zenon DEF TypeOK
  <2> QED
    BY <1>0, <1>1, <2>1 DEF OneBufPerBlock
<1>5. DataInv'
  <2>1. \A b \in Buf : b # buf[u] => (b \in dirty' <=> b \in dirty)
    BY <1>0, <1>1, Zenon DEF TypeOK
  <2>2. \A b \in Buf : Queued(b)' = Queued(b)
    BY <1>0, <1>1 DEF Queued
  <2> QED
    BY <1>0, <1>1, <1>2, <2>1, <2>2, Zenon DEF DataInv, Synced
<1>6. QueueSound'
  <2>1. ASSUME NEW j \in DOMAIN idequeue
        PROVE  owner[idequeue[j]] # NoUser /\ pc'[owner[idequeue[j]]] \in {"asleep", "awake"}
    <3>1. idequeue[j] \in Buf /\ owner[idequeue[j]] # u
      BY <1>0, <1>2, SMTT(30) DEF TypeOK, OwnerInv, Queued
    <3> QED
      BY <1>0, <1>1, <3>1, Zenon DEF QueueSound, TypeOK
  <2> QED
    BY <1>0, <1>1, <2>1 DEF QueueSound
<1>7. \A v \in User : pc'[v] = "held" => buf'[v] \in valid' /\ ~Queued(buf[v])'
  BY <1>0, <1>1, Zenon DEF TypeOK, Queued
<1>8. OwnerInv'
  <2>1. \A v \in User : v \in changed' => pc'[v] = "held"
    BY <1>0, <1>1 DEF OwnerInv, TypeOK
  <2>2. \A v \in User : pc'[v] \in Holding <=> pc[v] \in Holding
    BY <1>0, <1>1 DEF Holding, TypeOK
  <2>3. \A v \in User : pc'[v] = "idle" <=> pc[v] = "idle"
    BY <1>0, <1>1 DEF TypeOK
  <2> QED
    BY <1>0, <1>1, <2>1, <2>2, <2>3 DEF OwnerInv, TypeOK
<1> QED
  BY <1>3, <1>4, <1>5, <1>6, <1>7, <1>8, Zenon DEF Inv, HeldIsValid, Queued

\* brelse() first gives up the lock,
LEMMA UnlockInv ==
  ASSUME Inv, NEW u \in User, Unlock(u)
  PROVE  Inv'
<1>0. /\ TypeOK /\ OneBufPerBlock /\ QueueSound /\ OwnerInv /\ DataInv
      /\ \A v \in User : pc[v] = "held" => buf[v] \in valid /\ ~Queued(buf[v])
  BY DEF Inv, HeldIsValid
<1>1. /\ pc[u] = "held" /\ u \notin changed
      /\ owner' = [owner EXCEPT ![buf[u]] = NoUser]
      /\ pc' = [pc EXCEPT ![u] = "unlocked"]
      /\ UNCHANGED <<mru, blockno, refcnt, valid, dirty, data, idequeue, busy,
                     disk, blk, buf, changed, panicked>>
  BY DEF Unlock, Goto, cache, flags, ide
<1>2. buf[u] \in Buf /\ owner[buf[u]] = u /\ ~Queued(buf[u])
  BY <1>0, <1>1 DEF OwnerInv, TypeOK, Holding
<1>3. TypeOK'
  BY <1>0, <1>1, <1>2 DEF TypeOK, Label
<1>4. OneBufPerBlock' /\ DataInv'
  <2>1. \A v \in User : pc'[v] # "idle" => pc[v] # "idle"
    BY <1>0, <1>1, Zenon DEF TypeOK
  <2>2. OneBufPerBlock'
    BY <1>0, <1>1, <2>1 DEF OneBufPerBlock
  <2>3. DataInv'
    BY <1>0, <1>1 DEF DataInv, Queued, Synced
  <2> QED
    BY <2>2, <2>3
<1>5. QueueSound'
  <2>1. ASSUME NEW j \in DOMAIN idequeue
        PROVE  owner'[idequeue[j]] # NoUser /\ pc'[owner'[idequeue[j]]] \in {"asleep", "awake"}
    <3>1. idequeue[j] \in Buf /\ idequeue[j] # buf[u] /\ owner[idequeue[j]] # u
      BY <1>0, <1>2 DEF TypeOK, OwnerInv, Queued
    <3> QED
      BY <1>0, <1>1, <3>1, Zenon DEF QueueSound, TypeOK
  <2> QED
    BY <1>0, <1>1, <2>1 DEF QueueSound
<1>6. \A v \in User : pc'[v] = "held" => buf'[v] \in valid' /\ ~Queued(buf[v])'
  BY <1>0, <1>1, Zenon DEF TypeOK, Queued
<1>7. OwnerInv'
  BY <1>0, <1>1, <1>2 DEF OwnerInv, Holding, TypeOK
<1> QED
  BY <1>3, <1>4, <1>5, <1>6, <1>7 DEF Inv, HeldIsValid, Queued

\* and then its count; the last user puts the buffer at the front of the list.
LEMMA BrelseInv ==
  ASSUME Inv, NEW u \in User, Brelse(u)
  PROVE  Inv'
<1>0. /\ TypeOK /\ OneBufPerBlock /\ QueueSound /\ OwnerInv /\ DataInv
      /\ \A v \in User : pc[v] = "held" => buf[v] \in valid /\ ~Queued(buf[v])
  BY DEF Inv, HeldIsValid
<1> DEFINE b == buf[u]
<1>1. /\ pc[u] = "unlocked"
      /\ refcnt' = [refcnt EXCEPT ![b] = @ - 1]
      /\ mru' = mru \/ mru' = ToFront(b)
      /\ pc' = [pc EXCEPT ![u] = "idle"]
      /\ blk' = [blk EXCEPT ![u] = NoBlock]
      /\ buf' = [buf EXCEPT ![u] = NoBuf]
      /\ UNCHANGED <<blockno, valid, dirty, data, owner, idequeue, busy,
                     disk, changed, panicked>>
  BY DEF Brelse, Goto, flags, ide
<1>2. b \in Buf
  BY <1>0, <1>1 DEF OwnerInv, TypeOK
<1>3. Cardinality({v \in User : buf[v] = b} \ {u})
        = Cardinality({v \in User : buf[v] = b}) - 1
  <2>1. u \in {v \in User : buf[v] = b}
    BY Zenon
  <2> QED
    BY <2>1, Finite, FS_RemoveElement, Zenon
<1>4. refcnt[b] - 1 \in Nat
  <2>1. Cardinality({v \in User : buf[v] = b} \ {u}) \in Nat
    BY Finite, Zenon
  <2>2. refcnt[b] = Cardinality({v \in User : buf[v] = b})
    BY <1>0, <1>2 DEF OneBufPerBlock
  <2> QED
    BY <1>3, <2>1, <2>2
<1>5. mru' \in [1..Cardinality(Buf) -> Buf]
  <2>1. ASSUME NEW i, NEW j \in 1..Cardinality(Buf)
        PROVE  (IF j = 1 THEN b ELSE IF j <= i THEN mru[j - 1] ELSE mru[j]) \in Buf
    <3>1. Cardinality(Buf) \in Nat
      BY BoundAssumption, FS_CardinalityType
    <3>2. j # 1 => j - 1 \in 1..Cardinality(Buf)
      BY <3>1
    <3> QED
      BY <1>0, <1>2, <3>2, Zenon DEF TypeOK
  <2>2. DOMAIN mru = 1..Cardinality(Buf)
    BY <1>0 DEF TypeOK
  <2> QED
    BY <1>0, <1>1, <2>1, <2>2, Zenon DEF ToFront, TypeOK
<1> HIDE DEF b
<1>6. TypeOK'
  BY <1>0, <1>1, <1>2, <1>4, <1>5, Zenon DEF TypeOK, Label
<1>7. OneBufPerBlock'
  <2>1. ASSUME NEW c \in Buf
        PROVE  refcnt'[c] = Cardinality({v \in User : buf'[v] = c})
    <3>1. CASE c = b
      <4>1. {v \in User : buf'[v] = c} = {v \in User : buf[v] = b} \ {u}
        BY <1>0, <1>1, <1>2, <3>1 DEF TypeOK
      <4> QED
        BY <1>0, <1>1, <1>2, <1>3, <3>1, <4>1, Zenon DEF OneBufPerBlock, TypeOK
    <3>2. CASE c # b
      <4>1. {v \in User : buf'[v] = c} = {v \in User : buf[v] = c}
        BY <1>0, <1>1, <3>2, Zenon DEF TypeOK, b
      <4> QED
        BY <1>0, <1>1, <3>2, <4>1, Zenon DEF OneBufPerBlock, TypeOK
    <3> QED
      BY <3>1, <3>2
  <2> QED
    BY <1>0, <1>1, <2>1, Zenon DEF OneBufPerBlock, TypeOK
<1>13. /\ pc'[u] = "idle" /\ buf'[u] = NoBuf
       /\ \A v \in User : v # u => pc'[v] = pc[v] /\ buf'[v] = buf[v] /\ blk'[v] = blk[v]
  BY <1>0, <1>1, Zenon DEF TypeOK
<1>14. \A j \in DOMAIN idequeue : /\ owner[idequeue[j]] # NoUser
                                  /\ owner[idequeue[j]] \in User \ {u}
                                  /\ pc[owner[idequeue[j]]] \in {"asleep", "awake"}
  <2> TAKE j \in DOMAIN idequeue
  <2>1. idequeue[j] \in Buf
    BY <1>0 DEF TypeOK
  <2>2. /\ owner[idequeue[j]] # NoUser
        /\ pc[owner[idequeue[j]]] \in {"asleep", "awake"}
    BY <1>0, Zenon DEF QueueSound
  <2> QED
    BY <1>0, <1>1, <2>1, <2>2, Zenon DEF TypeOK
<1>8. QueueSound'
  <2>1. idequeue' = idequeue /\ owner' = owner /\ busy' = busy
    BY <1>1, Zenon
  <2>2. \A j \in DOMAIN idequeue : pc'[owner[idequeue[j]]] \in {"asleep", "awake"}
    BY <1>13, <1>14, Zenon
  <2> QED
    BY <1>0, <1>14, <2>1, <2>2, Zenon DEF QueueSound
<1>9. \A v \in User : pc'[v] = "held" => buf'[v] \in valid' /\ ~Queued(buf[v])'
  BY <1>0, <1>1, Zenon DEF TypeOK, Queued
<1>10. OwnerInv'
  <2>1. owner' = owner /\ changed' = changed
    BY <1>1, Zenon
  <2>2. u \notin changed /\ pc[u] \notin Holding
    BY <1>0, <1>1, Zenon DEF OwnerInv, Holding
  <2>3. "idle" \notin Holding
    BY Zenon DEF Holding
  <2>4. ASSUME NEW c \in Buf, owner[c] # NoUser
        PROVE  /\ owner[c] \in User \ {u}
               /\ buf[owner[c]] = c /\ pc[owner[c]] \in Holding
    <3>1. owner[c] \in User
      BY <1>0, <2>4, Zenon DEF TypeOK
    <3>2. buf[owner[c]] = c /\ pc[owner[c]] \in Holding
      BY <1>0, <2>4, Zenon DEF OwnerInv
    <3> QED
      BY <2>2, <3>1, <3>2, Zenon
  <2>5. ASSUME NEW v \in User
        PROVE  /\ pc'[v] = "idle" <=> buf'[v] = NoBuf
               /\ pc'[v] # "idle" => blk'[v] \in Block
               /\ pc'[v] \in Holding => owner[buf'[v]] = v
               /\ v \in changed => pc'[v] = "held"
    <3>1. CASE v = u
      BY <1>13, <2>2, <2>3, <3>1, Zenon
    <3>2. CASE v # u
      <4>1. pc'[v] = pc[v] /\ buf'[v] = buf[v] /\ blk'[v] = blk[v]
        BY <1>13, <3>2, Zenon
      <4> QED
        BY <1>0, <4>1, Zenon DEF OwnerInv
    <3> QED
      BY <3>1, <3>2, Zenon
  <2>6. \A c \in Buf : owner[c] # NoUser =>
          buf'[owner[c]] = c /\ pc'[owner[c]] \in Holding
    BY <1>13, <2>4, Zenon
  <2> QED
    BY <2>1, <2>5, <2>6, Zenon DEF OwnerInv
<1>11. DataInv'
  BY <1>0, <1>1, Zenon DEF DataInv, Queued, Synced
<1> QED
  BY <1>6, <1>7, <1>8, <1>9, <1>10, <1>11 DEF Inv, HeldIsValid, Queued

\* A step that changes nothing, or only panics.
LEMMA NothingInv ==
  ASSUME Inv, panicked' \in BOOLEAN,
         UNCHANGED <<mru, blockno, refcnt, valid, dirty, data, owner, idequeue, busy,
                     disk, pc, blk, buf, changed>>
  PROVE  Inv'
<1>1. TypeOK'
  BY Zenon DEF Inv, HeldIsValid, TypeOK
<1>2. OneBufPerBlock'
  BY Zenon DEF Inv, HeldIsValid, OneBufPerBlock
<1>3. QueueSound'
  BY Zenon DEF Inv, HeldIsValid, QueueSound
<1>4. (\A u \in User : pc[u] = "held" => buf[u] \in valid /\ ~Queued(buf[u]))'
  BY Zenon DEF Inv, HeldIsValid, Queued
<1>5. OwnerInv'
  BY Zenon DEF Inv, OwnerInv
<1>6. DataInv'
  BY Zenon DEF Inv, DataInv, Queued, Synced
<1> QED
  BY <1>1, <1>2, <1>3, <1>4, <1>5, <1>6, Zenon DEF Inv, HeldIsValid

-----------------------------------------------------------------------------
\* iderw() puts the buffer of its caller at the end of the queue, where it is
\* not yet.
LEMMA IderwInv ==
  ASSUME Inv, NEW u \in User, Iderw(u)
  PROVE  Inv'
<1>0. /\ TypeOK /\ OneBufPerBlock /\ QueueSound /\ OwnerInv /\ DataInv
      /\ \A v \in User : pc[v] = "held" => buf[v] \in valid /\ ~Queued(buf[v])
  BY DEF Inv, HeldIsValid
<1>1. /\ pc[u] = "sync"
      /\ UNCHANGED <<mru, blockno, refcnt, valid, dirty, data, owner, disk,
                     blk, buf, changed>>
  BY Zenon DEF Iderw, cache, flags
<1>2. /\ buf[u] \in Buf /\ owner[buf[u]] = u /\ ~Queued(buf[u])
  <2>1. buf[u] \in Buf /\ owner[buf[u]] = u
    BY <1>0, <1>1 DEF OwnerInv, TypeOK, Holding
  <2> QED
    BY <1>0, <1>1, <2>1, Zenon DEF QueueSound, Queued
<1>3. CASE Synced(buf[u])
  <2>1. UNCHANGED <<idequeue, busy, pc>> /\ panicked' = TRUE
    BY <1>3, Zenon DEF Iderw, ide
  <2> QED
    BY <1>1, <2>1, NothingInv, Zenon
<1>4. CASE ~Synced(buf[u])
  <2>1. /\ idequeue' = Append(idequeue, buf[u]) /\ busy' = TRUE
        /\ pc' = [pc EXCEPT ![u] = "asleep"] /\ panicked' = panicked
    BY <1>4, Zenon DEF Iderw, Goto
  <2>2. idequeue \in Seq(Buf) /\ Len(idequeue) \in Nat
    BY <1>0 DEF TypeOK
  <2>3. /\ idequeue' \in Seq(Buf)
        /\ DOMAIN idequeue' = 1..(Len(idequeue) + 1)
        /\ \A j \in DOMAIN idequeue : j \in DOMAIN idequeue' /\ idequeue'[j] = idequeue[j]
        /\ idequeue'[Len(idequeue) + 1] = buf[u]
        /\ idequeue' # <<>>
    BY <1>2, <2>1, <2>2
  <2>4. \A j \in DOMAIN idequeue' :
          j \in DOMAIN idequeue \/ j = Len(idequeue) + 1
    BY <2>2, <2>3
  <2>5. \A b \in Buf : Queued(b)' <=> Queued(b) \/ b = buf[u]
    <3>1. Len(idequeue) + 1 \in DOMAIN idequeue'
      BY <2>2, <2>3
    <3> QED
      BY <1>0, <2>3, <2>4, <3>1, Zenon DEF Queued
  <2>6. TypeOK'
    <3>1. pc' \in [User -> Label]
      BY <1>0, <2>1, Zenon DEF TypeOK, Label
    <3> QED
      BY <1>0, <1>1, <2>1, <2>3, <3>1, Zenon DEF TypeOK
  <2>7. OneBufPerBlock'
    <3>1. \A v \in User : pc'[v] # "idle" => pc[v] # "idle"
      BY <1>0, <1>1, <2>1, Zenon DEF TypeOK
    <3> QED
      BY <1>0, <1>1, <3>1, Zenon DEF OneBufPerBlock
  <2>8. QueueSound'
    <3>1. \A j \in DOMAIN idequeue : idequeue[j] # buf[u]
      BY <1>0, <1>2, Zenon DEF Queued
    <3>2. \A j, k \in DOMAIN idequeue' : idequeue'[j] = idequeue'[k] => j = k
      BY <1>0, <2>3, <2>4, <3>1, Zenon DEF QueueSound
    <3>3. ASSUME NEW j \in DOMAIN idequeue'
          PROVE  owner'[idequeue'[j]] # NoUser /\ pc'[owner'[idequeue'[j]]] \in {"asleep", "awake"}
      <4>1. CASE j \in DOMAIN idequeue
        BY <1>0, <1>1, <2>1, <2>3, <4>1 DEF QueueSound, TypeOK
      <4>2. CASE j = Len(idequeue) + 1
        BY <1>0, <1>1, <1>2, <2>1, <2>3, <4>2 DEF TypeOK
      <4> QED
        BY <2>4, <4>1, <4>2, Zenon
    <3> QED
      BY <1>0, <2>1, <2>3, <3>2, <3>3, Zenon DEF QueueSound
  <2>9. ASSUME NEW v \in User, pc'[v] = "held"
        PROVE  buf'[v] \in valid' /\ ~Queued(buf[v])'
    <3>1. v # u /\ pc[v] = "held"
      BY <1>0, <2>1, <2>9, Zenon DEF TypeOK
    <3>2. buf[v] \in Buf /\ owner[buf[v]] = v
      BY <1>0, <3>1, Zenon DEF OwnerInv, TypeOK, Holding
    <3>3. Queued(buf[v])' <=> Queued(buf[v]) \/ buf[v] = buf[u]
      BY <1>0, <1>1, <2>5, <3>2, Zenon DEF Queued
    <3> QED
      BY <1>0, <1>1, <1>2, <3>1, <3>2, <3>3, Zenon
  <2>10. OwnerInv'
    BY <1>0, <1>1, <2>1 DEF OwnerInv, Holding, TypeOK
  <2>11. DataInv'
    BY <1>0, <1>1, <1>4, <2>5, Zenon DEF DataInv, Synced
  <2> QED
    BY <2>6, <2>7, <2>8, <2>9, <2>10, <2>11, Zenon DEF Inv, HeldIsValid, Queued
<1> QED
  BY <1>3, <1>4, Zenon

\* What ideintr() does to the queue and to the buffer at its head.
LEMMA Request ==
  ASSUME Inv, NEW ok \in BOOLEAN, Ideintr(ok)
  PROVE  LET b == Head(idequeue) IN
         /\ b \in Buf /\ blockno[b] \in Block /\ ~Synced(b) /\ owner[b] \in User
         /\ \A v \in User : pc[v] = "held" => buf[v] # b
         /\ idequeue' \in Seq(Buf) /\ (busy' <=> idequeue' # <<>>)
         /\ \A c \in Buf : Queued(c)' <=> Queued(c) /\ c # b
         /\ \A j, k \in DOMAIN idequeue' : idequeue'[j] = idequeue'[k] => j = k
<1> DEFINE q == idequeue
           b == Head(q)
<1>1. q \in Seq(Buf) /\ q # <<>> /\ Len(q) \in Nat /\ Len(q) # 0
  BY DEF Ideintr, Inv, HeldIsValid, QueueSound, TypeOK
<1>2. b = q[1] /\ 1 \in DOMAIN q /\ b \in Buf
  BY <1>1
<1>3. /\ idequeue' \in Seq(Buf)
      /\ Len(idequeue') = Len(q) - 1
      /\ DOMAIN idequeue' = 1..(Len(q) - 1)
      /\ \A j \in 1..(Len(q) - 1) : idequeue'[j] = q[j + 1]
      /\ busy' <=> idequeue' # <<>>
  <2>1. idequeue' = Tail(q) /\ busy' = (Tail(q) # <<>>)
    BY DEF Ideintr
  <2>2. /\ Tail(q) \in Seq(Buf) /\ Len(Tail(q)) = Len(q) - 1
        /\ DOMAIN Tail(q) = 1..(Len(q) - 1)
        /\ \A j \in 1..(Len(q) - 1) : Tail(q)[j] = q[j + 1]
    BY <1>1
  <2> HIDE DEF q
  <2> QED
    BY <2>1, <2>2, Zenon
<1>4. \A j, k \in DOMAIN q : q[j] = q[k] => j = k
  BY DEF Inv, HeldIsValid, QueueSound
<1>5. Queued(b)
  BY <1>2 DEF Queued
<1>6. ~Synced(b)
  BY <1>2, <1>5, Zenon DEF Inv, DataInv
<1>7. owner[b] \in User /\ pc[owner[b]] \in {"asleep", "awake"}
  BY <1>2 DEF Inv, HeldIsValid, QueueSound, TypeOK
<1>8. blockno[b] \in Block
  <2>1. owner[b] # NoUser
    BY <1>2, Zenon DEF Inv, HeldIsValid, QueueSound
  <2>2. buf[owner[b]] = b
    BY <1>2, <2>1, Zenon DEF Inv, OwnerInv
  <2>3. pc[owner[b]] # "idle"
    BY <1>7
  <2>4. blockno[buf[owner[b]]] = blk[owner[b]] /\ blk[owner[b]] \in Block
    BY <1>7, <2>3, Zenon DEF Inv, HeldIsValid, OneBufPerBlock, OwnerInv
  <2> QED
    BY <2>2, <2>4, Zenon
<1>9. \A v \in User : pc[v] = "held" => buf[v] # b
  BY <1>5 DEF Inv, HeldIsValid
<1>10. \A j \in 1..(Len(q) - 1) : j + 1 \in DOMAIN q /\ j + 1 # 1
  BY <1>1
<1>11. \A j, k \in DOMAIN idequeue' : idequeue'[j] = idequeue'[k] => j = k
  <2> SUFFICES ASSUME NEW j \in 1..(Len(q) - 1), NEW k \in 1..(Len(q) - 1),
                      q[j + 1] = q[k + 1]
               PROVE  j = k
    BY <1>3
  <2>1. j + 1 = k + 1
    BY <1>4, <1>10
  <2> QED
    BY <1>1, <2>1
<1>12. ASSUME NEW c \in Buf
       PROVE  Queued(c)' <=> Queued(c) /\ c # b
  <2>1. Queued(c)' => Queued(c) /\ c # b
    BY <1>2, <1>3, <1>4, <1>10 DEF Queued
  <2>2. ASSUME Queued(c), c # b
        PROVE  Queued(c)'
    <3>1. PICK j \in DOMAIN q : q[j] = c
      BY <2>2 DEF Queued
    <3>2. j # 1
      BY <1>2, <2>2, <3>1
    <3>3. j - 1 \in 1..(Len(q) - 1) /\ (j - 1) + 1 = j
      BY <1>1, <3>2
    <3> QED
      BY <1>3, <3>1, <3>3 DEF Queued
  <2> QED
    BY <2>1, <2>2
<1> QED
  BY <1>2, <1>3, <1>6, <1>7, <1>8, <1>9, <1>11, <1>12, Zenon

\* ideintr() takes the head off the queue, and wakes whoever waits for it.
LEMMA IdeintrInv ==
  ASSUME Inv, NEW ok \in BOOLEAN, Ideintr(ok)
  PROVE  Inv'
<1> DEFINE b == Head(idequeue)
<1>1. /\ b \in Buf /\ blockno[b] \in Block /\ ~Synced(b) /\ owner[b] \in User
      /\ \A v \in User : pc[v] = "held" => buf[v] # b
      /\ idequeue' \in Seq(Buf) /\ (busy' <=> idequeue' # <<>>)
      /\ \A c \in Buf : Queued(c)' <=> Queued(c) /\ c # b
      /\ \A j, k \in DOMAIN idequeue' : idequeue'[j] = idequeue'[k] => j = k
  BY Request, Zenon
<1>2. /\ disk' = IF b \in dirty /\ ok THEN [disk EXCEPT ![blockno[b]] = data[b]] ELSE disk
      /\ data' = IF b \notin dirty /\ ok THEN [data EXCEPT ![b] = disk[blockno[b]]] ELSE data
      /\ valid' = valid \cup {b}
      /\ dirty' = dirty \ {b}
      /\ pc' = [u \in User |-> IF pc[u] = "asleep" /\ buf[u] = b THEN "awake" ELSE pc[u]]
      /\ busy' \in BOOLEAN
      /\ UNCHANGED <<mru, blockno, refcnt, owner, blk, buf, changed, panicked>>
  BY Zenon DEF Ideintr, cache
<1> HIDE DEF b
<1>0. /\ TypeOK /\ OneBufPerBlock /\ QueueSound /\ OwnerInv /\ DataInv
      /\ \A v \in User : pc[v] = "held" => buf[v] \in valid /\ ~Queued(buf[v])
  BY Zenon DEF Inv, HeldIsValid
<1>3. \A u \in User : (pc[u] = "asleep" /\ pc'[u] = "awake") \/ pc'[u] = pc[u]
  BY <1>2, Zenon
<1>4. TypeOK'
  <2>1. valid' \subseteq Buf /\ dirty' \subseteq Buf
    BY <1>0, <1>1, <1>2, Zenon DEF TypeOK
  <2>2. disk' \in [Block -> Val] /\ data' \in [Buf -> Val]
    BY <1>0, <1>1, <1>2, Zenon DEF TypeOK
  <2>3. pc' \in [User -> Label]
    BY <1>0, <1>2, Zenon DEF TypeOK, Label
  <2> QED
    BY <1>0, <1>1, <1>2, <2>1, <2>2, <2>3, Zenon DEF TypeOK
<1>5. OneBufPerBlock'
  BY <1>0, <1>2, <1>3, Zenon DEF OneBufPerBlock
<1>6. QueueSound'
  <2>1. ASSUME NEW j \in DOMAIN idequeue'
        PROVE  owner'[idequeue'[j]] # NoUser /\ pc'[owner'[idequeue'[j]]] \in {"asleep", "awake"}
    <3>1. idequeue'[j] \in Buf /\ Queued(idequeue[j])'
      BY <1>0, <1>1, <2>1 DEF Queued
    <3>2. Queued(idequeue'[j])
      BY <1>0, <1>1, <3>1, Zenon DEF Queued
    <3>3. owner[idequeue'[j]] # NoUser /\ pc[owner[idequeue'[j]]] \in {"asleep", "awake"}
      BY <1>0, <3>2, Zenon DEF QueueSound, Queued
    <3>4. owner[idequeue'[j]] \in User
      BY <1>0, <3>1, <3>3, Zenon DEF TypeOK
    <3> QED
      BY <1>2, <1>3, <3>3, <3>4, Zenon
  <2> QED
    BY <1>0, <1>1, <2>1, Zenon DEF QueueSound
<1>7. ASSUME NEW v \in User, pc'[v] = "held"
      PROVE  buf'[v] \in valid' /\ ~Queued(buf[v])'
  <2>1. pc[v] = "held"
    BY <1>3, <1>7, Zenon
  <2>2. buf[v] \in Buf /\ buf'[v] = buf[v] /\ buf[v] \in valid /\ ~Queued(buf[v])
    BY <1>0, <1>2, <2>1, Zenon DEF OwnerInv, TypeOK
  <2>3. ~Queued(buf[v])'
    BY <1>0, <1>1, <2>2 DEF Queued
  <2> QED
    BY <1>0, <1>2, <2>2, <2>3, Zenon DEF TypeOK
<1>8. OwnerInv'
  BY <1>0, <1>2, <1>3, SMTT(30) DEF OwnerInv, Holding, TypeOK
<1>9. DataInv'
  <2>1. \A c \in Buf : c # b => (c \in valid' <=> c \in valid) /\ (c \in dirty' <=> c \in dirty)
    BY <1>0, <1>2, Zenon DEF TypeOK
  <2>2. b \in valid' /\ b \notin dirty' /\ blockno'[b] \in Block
    BY <1>0, <1>1, <1>2, Zenon DEF TypeOK
  <2> QED
    BY <1>0, <1>1, <1>2, <2>1, <2>2, Zenon DEF DataInv, Synced
<1> QED
  BY <1>4, <1>5, <1>6, <1>7, <1>8, <1>9, Zenon DEF Inv, HeldIsValid, Queued

\* Every step preserves the invariant, with and without errors of the disk.
LEMMA NextInv == Inv /\ [Next]_vars => Inv'
<1> SUFFICES ASSUME Inv, [Next]_vars PROVE Inv'
  OBVIOUS
<1>1. CASE Interrupt
  BY <1>1, IdeintrInv, BoundAssumption, Zenon DEF Interrupt
<1>2. ASSUME NEW u \in User, Bget(u) PROVE Inv'
  <2>1. PICK k \in Block : BgetHit(u, k) \/ BgetRecycle(u, k) \/ BgetPanic(u, k)
    BY <1>2, Zenon DEF Bget
  <2>2. CASE BgetPanic(u, k)
    <3>1. /\ panicked' = TRUE
          /\ UNCHANGED <<mru, blockno, refcnt, valid, dirty, data, owner,
                         idequeue, busy, disk, pc, blk, buf, changed>>
      BY <2>2 DEF BgetPanic, cache, flags, ide, user
    <3> QED
      BY <3>1, NothingInv, Zenon
  <2> QED
    BY <2>1, <2>2, BgetHitInv, BgetRecycleInv, Zenon
<1>3. ASSUME NEW u \in User, Use(u) PROVE Inv'
  BY <1>3, HolderInv, UnlockInv, Zenon DEF Use
<1>4. ASSUME NEW u \in User, Kernel(u) PROVE Inv'
  BY <1>4, LockInv, MoveInv, IderwInv, BrelseInv, Zenon DEF Kernel
<1>5. ASSUME NEW u \in User, Kill(u) PROVE Inv'
  BY <1>5, MoveInv, Zenon
<1>6. CASE UNCHANGED vars
  <2>1. /\ panicked' = panicked
        /\ UNCHANGED <<mru, blockno, refcnt, valid, dirty, data, owner, idequeue, busy,
                     disk, pc, blk, buf, changed>>
    BY <1>6, Zenon DEF vars, cache, flags, ide, user
  <2> QED
    BY <2>1, NothingInv, Zenon DEF Inv, HeldIsValid, TypeOK
<1> QED
  BY <1>1, <1>2, <1>3, <1>4, <1>5, <1>6, Zenon DEF Next

\* The invariant of the buffer cache and of the driver's queue.
THEOREM BufCacheInvariance == Spec => []Inv
BY InitInv, NextInv, PTL DEF Spec

\* bread() and bwrite() come back with the data there and the disk done with
\* the buffer, for every number of users, buffers and blocks, whether or not
\* kill() ends their sleep and whether or not the disk makes errors; no block
\* is in two buffers, and a buffer in use is not recycled.
THEOREM BreadReturnsValid == Spec => []HeldIsValid
<1>1. Inv => HeldIsValid
  BY Zenon DEF Inv
<1> QED
  BY <1>1, BufCacheInvariance, PTL

-----------------------------------------------------------------------------
\* A clean buffer stays what the disk has: only its holder changes it, and
\* only ideintr() the disk.
LEMMA CleanStep ==
  ASSUME Inv, CleanInv, Outcome = {TRUE}, [Next]_vars
  PROVE  CleanInv'
<1>0. /\ TypeOK /\ OneBufPerBlock /\ QueueSound /\ OwnerInv /\ DataInv
      /\ \A v \in User : pc[v] = "held" => buf[v] \in valid /\ ~Queued(buf[v])
  BY Zenon DEF Inv, HeldIsValid
<1> SUFFICES ASSUME NEW b \in Buf, Synced(b)',
                    \A u \in changed' : buf'[u] # b
             PROVE  data'[b] = disk'[blockno'[b]]
  BY Zenon DEF CleanInv
<1>1. CASE Interrupt
  <2> DEFINE h == Head(idequeue)
  <2>1. Ideintr(TRUE)
    BY <1>1, Zenon DEF Interrupt
  <2>2. h \in Buf /\ blockno[h] \in Block
    BY <2>1, Request, Zenon
  <2>3. /\ disk' = IF h \in dirty THEN [disk EXCEPT ![blockno[h]] = data[h]] ELSE disk
        /\ data' = IF h \notin dirty THEN [data EXCEPT ![h] = disk[blockno[h]]] ELSE data
        /\ valid' = valid \cup {h} /\ dirty' = dirty \ {h}
        /\ UNCHANGED <<blockno, buf, changed>>
    BY <2>1, Zenon DEF Ideintr, cache
  <2> HIDE DEF h
  <2>4. CASE b = h
    BY <1>0, <2>2, <2>3, <2>4, Zenon DEF TypeOK
  <2>5. CASE b # h
    <3>1. Synced(b) /\ blockno[b] \in Block
      BY <1>0, <2>3, <2>5, Zenon DEF Synced, DataInv, TypeOK
    <3>2. blockno[b] # blockno[h]
      BY <1>0, <2>2, <2>5, <3>1, Zenon DEF OneBufPerBlock
    <3>3. data[b] = disk[blockno[b]]
      BY <2>3, <3>1, Zenon DEF CleanInv
    <3> QED
      BY <1>0, <2>2, <2>3, <2>5, <3>1, <3>2, <3>3, Zenon DEF TypeOK
  <2> QED
    BY <2>4, <2>5
<1>2. ASSUME NEW u \in User, NEW k \in Block, BgetHit(u, k)
      PROVE  data'[b] = disk'[blockno'[b]]
  <2>1. /\ pc[u] = "idle" /\ \A v \in User : v # u => buf'[v] = buf[v]
        /\ UNCHANGED <<blockno, valid, dirty, data, disk, changed>>
    BY <1>0, <1>2 DEF BgetHit, Want, flags, TypeOK
  <2>2. Synced(b) /\ \A v \in changed : buf[v] # b
    BY <1>0, <2>1, Zenon DEF OwnerInv, Synced, TypeOK
  <2> QED
    BY <2>1, <2>2, Zenon DEF CleanInv
<1>3. ASSUME NEW u \in User, NEW k \in Block, BgetRecycle(u, k)
      PROVE  data'[b] = disk'[blockno'[b]]
  <2>1. PICK j \in Unused :
          /\ pc[u] = "idle"
          /\ blockno' = [blockno EXCEPT ![mru[j]] = k]
          /\ valid' = valid \ {mru[j]}
          /\ dirty' = dirty \ {mru[j]}
          /\ buf' = [buf EXCEPT ![u] = mru[j]]
          /\ UNCHANGED <<data, disk, changed>>
    BY <1>3, Zenon DEF BgetRecycle, Want
  <2>2. b # mru[j]
    BY <1>0, <2>1, Zenon DEF Synced, TypeOK
  <2>3. \A v \in changed : buf[v] # b
    <3>1. \A v \in User : v # u => buf'[v] = buf[v]
      BY <1>0, <2>1, Zenon DEF TypeOK
    <3> QED
      BY <1>0, <2>1, <3>1, Zenon DEF OwnerInv, TypeOK
  <2>4. Synced(b) /\ blockno'[b] = blockno[b]
    BY <1>0, <2>1, <2>2, Zenon DEF Synced, TypeOK
  <2> QED
    BY <2>1, <2>3, <2>4, Zenon DEF CleanInv
<1>4. ASSUME NEW u \in User, NEW v \in Val, Change(u, v)
      PROVE  data'[b] = disk'[blockno'[b]]
  <2>1. /\ data' = [data EXCEPT ![buf[u]] = v] /\ changed' = changed \cup {u}
        /\ UNCHANGED <<blockno, valid, dirty, disk, buf>>
    BY <1>4, Zenon DEF Change, cache, flags
  <2>2. b # buf[u] /\ \A w \in changed : buf[w] # b
    BY <2>1, Zenon
  <2>3. Synced(b) /\ data'[b] = data[b]
    BY <1>0, <2>1, <2>2, Zenon DEF Synced, TypeOK
  <2> QED
    BY <2>1, <2>2, <2>3, Zenon DEF CleanInv
<1>5. ASSUME NEW u \in User, Bwrite(u) \/ LogWrite(u)
      PROVE  data'[b] = disk'[blockno'[b]]
  <2>1. /\ pc[u] = "held"
        /\ dirty' = dirty \cup {buf[u]}
        /\ changed' = changed \ {u}
        /\ UNCHANGED <<blockno, valid, data, disk, buf>>
    BY <1>5, Zenon DEF Bwrite, LogWrite, cache
  <2>2. b # buf[u]
    BY <1>0, <2>1, Zenon DEF Synced, TypeOK
  <2>3. \A w \in changed : buf[w] # b
    BY <2>1, <2>2, Zenon
  <2>4. Synced(b)
    BY <1>0, <2>1, <2>2, Zenon DEF Synced, TypeOK
  <2> QED
    BY <2>1, <2>3, <2>4, Zenon DEF CleanInv
<1>6. ASSUME NEW u \in User, Brelse(u)
      PROVE  data'[b] = disk'[blockno'[b]]
  <2>1. /\ pc[u] = "unlocked" /\ \A v \in User : v # u => buf'[v] = buf[v]
        /\ UNCHANGED <<blockno, valid, dirty, data, disk, changed>>
    BY <1>0, <1>6 DEF Brelse, flags, TypeOK
  <2>2. Synced(b) /\ \A v \in changed : buf[v] # b
    BY <1>0, <2>1, Zenon DEF OwnerInv, Synced, TypeOK
  <2> QED
    BY <2>1, <2>2, Zenon DEF CleanInv
<1>7. CASE UNCHANGED <<blockno, valid, dirty, data, disk, buf, changed>>
  BY <1>7, Zenon DEF CleanInv, Synced
<1>8. ASSUME NEW u \in User,
             \/ Lock(u) \/ Bread(u) \/ Iderw(u) \/ IderwLoop(u) \/ Unlock(u)
             \/ Kill(u) \/ (\E k \in Block : BgetPanic(u, k))
      PROVE  UNCHANGED <<blockno, valid, dirty, data, disk, buf, changed>>
  BY <1>8, Zenon DEF Lock, Bread, Iderw, IderwLoop, Unlock, Kill, BgetPanic, cache, flags, user
<1>9. vars' = vars => UNCHANGED <<blockno, valid, dirty, data, disk, buf, changed>>
  BY Zenon DEF vars, cache, flags, user
<1> QED
  BY <1>1, <1>2, <1>3, <1>4, <1>5, <1>6, <1>7, <1>8, <1>9, Zenon
     DEF Next, Bget, Use, Kernel

-----------------------------------------------------------------------------
\* The refinement mapping, block by block: a cached block is what its buffer
\* says, every other what the disk has.
View ==
  /\ Contents = [k \in Block |-> Contents[k]]
  /\ Holder = [k \in Block |-> Holder[k]]
  /\ \A b \in Buf : blockno[b] \in Block =>
       /\ Contents[blockno[b]] = IF b \in valid THEN data[b] ELSE disk[blockno[b]]
       /\ Holder[blockno[b]] = owner[b]
  /\ \A k \in Block : Cached(k) = {} => Contents[k] = disk[k] /\ Holder[k] = NoUser

LEMMA ViewLemma == Inv => View
<1> SUFFICES ASSUME Inv PROVE View
  BY Zenon
<1>1. ASSUME NEW b \in Buf, blockno[b] \in Block
      PROVE  Cached(blockno[b]) = {b}
  BY <1>1, Zenon DEF Inv, HeldIsValid, OneBufPerBlock, Cached
<1>2. ASSUME NEW b \in Buf, blockno[b] \in Block
      PROVE  Contents[blockno[b]] = IF b \in valid THEN data[b] ELSE disk[blockno[b]]
  BY <1>1, <1>2, Zenon DEF Contents
<1>3. ASSUME NEW b \in Buf, blockno[b] \in Block
      PROVE  Holder[blockno[b]] = owner[b]
  BY <1>1, <1>3, Zenon DEF Holder
<1>4. ASSUME NEW k \in Block, Cached(k) = {}
      PROVE  Contents[k] = disk[k] /\ Holder[k] = NoUser
  BY <1>4, Zenon DEF Contents, Holder
<1>5. Contents = [k \in Block |-> Contents[k]] /\ Holder = [k \in Block |-> Holder[k]]
  BY Zenon DEF Contents, Holder
<1> QED
  BY <1>2, <1>3, <1>4, <1>5, Zenon DEF View

\* Steps that leave the owners alone, or what each buffer and the disk say of
\* a block, leave the abstract store alone.
LEMMA SameHolder ==
  ASSUME Inv, Inv', UNCHANGED <<blockno, owner>>
  PROVE  Holder' = Holder
BY Zenon DEF Holder, Cached

LEMMA SameContents ==
  ASSUME Inv, Inv', blockno' = blockno,
         \A b \in Buf : blockno[b] \in Block =>
           (IF b \in valid' THEN data'[b] ELSE disk'[blockno[b]])
             = (IF b \in valid THEN data[b] ELSE disk[blockno[b]]),
         \A k \in Block : Cached(k) = {} => disk'[k] = disk[k]
  PROVE  Contents' = Contents
<1>1. View /\ View'
  BY ViewLemma, PTL
<1>2. ASSUME NEW k \in Block
      PROVE  Contents'[k] = Contents[k]
  <2>1. CASE Cached(k) = {}
    <3>1. Cached(k)' = {}
      BY <2>1, Zenon DEF Cached
    <3> QED
      BY <1>1, <2>1, <3>1, Zenon DEF View
  <2>2. ASSUME NEW b \in Buf, blockno[b] = k
        PROVE  Contents'[k] = Contents[k]
    BY <1>1, <2>2 DEF View
  <2> QED
    BY <2>1, <2>2, Zenon DEF Cached
<1> QED
  BY <1>1, <1>2 DEF View

\* Only the owner of the buffer of a block holds the block.
LEMMA BufferOf ==
  ASSUME Inv, NEW u \in User, pc[u] # "idle"
  PROVE  /\ buf[u] \in Buf /\ blk[u] \in Block /\ blockno[buf[u]] = blk[u]
         /\ \A b \in Buf : blockno[b] = blk[u] => b = buf[u]
BY DEF Inv, HeldIsValid, OwnerInv, OneBufPerBlock, TypeOK

\* A step that gives the buffer of u another owner gives its block that holder.
LEMMA NewHolder ==
  ASSUME Inv, Inv', NEW u \in User, pc[u] # "idle", NEW o,
         owner' = [owner EXCEPT ![buf[u]] = o], blockno' = blockno
  PROVE  Holder' = [Holder EXCEPT ![blk[u]] = o]
<1>1. View /\ View'
  BY ViewLemma, PTL
<1>2. /\ buf[u] \in Buf /\ blk[u] \in Block /\ blockno[buf[u]] = blk[u]
      /\ \A b \in Buf : blockno[b] = blk[u] => b = buf[u]
  BY BufferOf, Zenon
<1>3. owner \in [Buf -> User \cup {NoUser}]
  BY Zenon DEF Inv, HeldIsValid, TypeOK
<1>4. ASSUME NEW k \in Block
      PROVE  Holder'[k] = IF k = blk[u] THEN o ELSE Holder[k]
  <2>1. CASE Cached(k) = {}
    <3>1. Cached(k)' = {} /\ k # blk[u]
      BY <1>2, <2>1, Zenon DEF Cached
    <3> QED
      BY <1>1, <2>1, <3>1, Zenon DEF View
  <2>2. ASSUME NEW b \in Buf, blockno[b] = k
        PROVE  Holder'[k] = IF k = blk[u] THEN o ELSE Holder[k]
    BY <1>1, <1>2, <1>3, <2>2, SMTT(30) DEF View
  <2> QED
    BY <2>1, <2>2, Zenon DEF Cached
<1> QED
  BY <1>1, <1>2, <1>4 DEF View

\* acquiresleep() in bget() is Hold, the caller's change is Change, and the
\* releasesleep() of brelse() is Release.
LEMMA LockHolds ==
  ASSUME Inv, Inv', NEW u \in User, Lock(u)
  PROVE  S!Hold(u, blk[u]) /\ blk[u] \in Block
<1>1. /\ pc[u] = "lock" /\ owner[buf[u]] = NoUser
      /\ owner' = [owner EXCEPT ![buf[u]] = u]
      /\ UNCHANGED <<blockno, valid, data, disk>>
  BY Zenon DEF Lock, cache, flags
<1>2. buf[u] \in Buf /\ blk[u] \in Block /\ blockno[buf[u]] = blk[u]
  BY <1>1, BufferOf, Zenon
<1>3. Holder[blk[u]] = NoUser
  BY <1>1, <1>2, ViewLemma DEF View
<1>4. Holder' = [Holder EXCEPT ![blk[u]] = u]
  BY <1>1, NewHolder, Zenon
<1>5. Contents' = Contents
  BY <1>1, SameContents, Zenon
<1> QED
  BY <1>2, <1>3, <1>4, <1>5, Zenon DEF S!Hold

LEMMA UnlockReleases ==
  ASSUME Inv, Inv', NEW u \in User, Unlock(u)
  PROVE  S!Release(u, blk[u]) /\ blk[u] \in Block
<1>1. /\ pc[u] = "held"
      /\ owner' = [owner EXCEPT ![buf[u]] = NoUser]
      /\ UNCHANGED <<blockno, valid, data, disk>>
  BY Zenon DEF Unlock, cache, flags
<1>2. /\ buf[u] \in Buf /\ blk[u] \in Block /\ blockno[buf[u]] = blk[u]
      /\ owner[buf[u]] = u
  BY <1>1, BufferOf, Zenon DEF Inv, OwnerInv, Holding
<1>3. Holder[blk[u]] = u
  BY <1>2, ViewLemma DEF View
<1>4. Holder' = [Holder EXCEPT ![blk[u]] = NoUser]
  BY <1>1, NewHolder, Zenon
<1>5. Contents' = Contents
  BY <1>1, SameContents, Zenon
<1> QED
  BY <1>2, <1>3, <1>4, <1>5, Zenon DEF S!Release

LEMMA ChangeChanges ==
  ASSUME Inv, Inv', NEW u \in User, NEW v \in Val, Change(u, v)
  PROVE  S!Change(u, blk[u], v) /\ blk[u] \in Block
<1>1. /\ pc[u] = "held"
      /\ data' = [data EXCEPT ![buf[u]] = v]
      /\ UNCHANGED <<blockno, owner, valid, disk>>
  BY Zenon DEF Change, cache, flags
<1>2. /\ buf[u] \in Buf /\ blk[u] \in Block /\ blockno[buf[u]] = blk[u]
      /\ \A b \in Buf : blockno[b] = blk[u] => b = buf[u]
      /\ owner[buf[u]] = u /\ buf[u] \in valid
  BY <1>1, BufferOf, Zenon DEF Inv, HeldIsValid, OwnerInv, Holding
<1>3. View /\ View'
  BY ViewLemma, PTL
<1>4. ASSUME NEW k \in Block
      PROVE  Contents'[k] = IF k = blk[u] THEN v ELSE Contents[k]
  <2>1. CASE Cached(k) = {}
    <3>1. Cached(k)' = {} /\ k # blk[u]
      BY <1>1, <1>2, <2>1, Zenon DEF Cached
    <3> QED
      BY <1>1, <1>3, <2>1, <3>1 DEF View
  <2>2. ASSUME NEW b \in Buf, blockno[b] = k
        PROVE  Contents'[k] = IF k = blk[u] THEN v ELSE Contents[k]
    <3>1. /\ Contents[k] = IF b \in valid THEN data[b] ELSE disk[k]
          /\ Contents'[k] = IF b \in valid THEN data'[b] ELSE disk[k]
      BY <1>1, <1>3, <2>2, Zenon DEF View
    <3>2. data'[b] = IF b = buf[u] THEN v ELSE data[b]
      BY <1>1, Zenon DEF Inv, HeldIsValid, TypeOK
    <3>3. k = blk[u] <=> b = buf[u]
      BY <1>2, <2>2, Zenon
    <3> QED
      BY <1>2, <3>1, <3>2, <3>3, Zenon
  <2> QED
    BY <2>1, <2>2, Zenon DEF Cached
<1>5. Contents' = [Contents EXCEPT ![blk[u]] = v]
  BY <1>2, <1>3, <1>4, SMTT(30) DEF View
<1>6. Holder[blk[u]] = u /\ Holder' = Holder
  BY <1>1, <1>2, <1>3, SameHolder, SMTT(30) DEF View
<1> QED
  BY <1>2, <1>5, <1>6, Zenon DEF S!Change

\* Recycling a clean buffer loses nothing: the disk has what it holds.
LEMMA RecycleStutters ==
  ASSUME Inv, Inv', CleanInv, NEW u \in User, NEW k \in Block, BgetRecycle(u, k)
  PROVE  Contents' = Contents /\ Holder' = Holder
<1>1. PICK j \in Unused :
        /\ Cached(k) = {}
        /\ blockno' = [blockno EXCEPT ![mru[j]] = k]
        /\ valid' = valid \ {mru[j]}
        /\ UNCHANGED <<data, owner, disk>>
  BY Zenon DEF BgetRecycle, Want
<1> DEFINE r == mru[j]
<1>2. r \in Buf /\ refcnt[r] = 0 /\ r \notin dirty
  <2>1. j \in DOMAIN mru /\ refcnt[r] = 0 /\ r \notin dirty
    BY <1>1, Zenon DEF Unused
  <2>2. \A x \in DOMAIN mru : mru[x] \in Buf
    <3>1. mru \in [1..Cardinality(Buf) -> Buf]
      BY Zenon DEF Inv, HeldIsValid, TypeOK
    <3> QED
      BY <3>1, Zenon
  <2> QED
    BY <2>1, <2>2, Zenon
<1> HIDE DEF r
<1>3. \A v \in User : buf[v] # r
  <2>1. Cardinality({v \in User : buf[v] = r}) = 0
    BY <1>2, Zenon DEF Inv, HeldIsValid, OneBufPerBlock
  <2>2. {v \in User : buf[v] = r} = {}
    BY <2>1, Finite, FS_EmptySet, Zenon
  <2> QED
    BY <2>2, Zenon
<1>4. owner[r] = NoUser
  <2>1. owner[r] \in User \cup {NoUser}
    BY <1>2, Zenon DEF Inv, HeldIsValid, TypeOK
  <2>2. owner[r] # NoUser => buf[owner[r]] = r
    BY <1>2, Zenon DEF Inv, OwnerInv
  <2> QED
    BY <1>3, <2>1, <2>2, Zenon
<1>5. r \in valid => data[r] = disk[blockno[r]] /\ blockno[r] \in Block
  <2>1. changed \subseteq User /\ (r \in valid => blockno[r] \in Block)
    BY <1>2, Zenon DEF Inv, HeldIsValid, TypeOK, DataInv
  <2>2. r \in valid => Synced(r) /\ \A v \in changed : buf[v] # r
    BY <1>2, <1>3, <2>1, Zenon DEF Synced
  <2> QED
    BY <1>2, <2>1, <2>2, Zenon DEF CleanInv
<1>6. /\ blockno'[r] = k /\ r \notin valid'
      /\ \A b \in Buf : b # r => blockno'[b] = blockno[b] /\ (b \in valid' <=> b \in valid)
  BY <1>1, <1>2 DEF r, Inv, HeldIsValid, TypeOK
<1>7. View /\ View'
  BY ViewLemma, PTL
<1>8. \A b \in Buf : blockno[b] # k
  BY <1>1, Zenon DEF Cached
<1>9. ASSUME NEW l \in Block
      PROVE  Contents'[l] = Contents[l] /\ Holder'[l] = Holder[l]
  <2>1. CASE l = k
    <3>1. Contents[l] = disk[l] /\ Holder[l] = NoUser
      BY <1>1, <1>7, <2>1, Zenon DEF View
    <3>2. Contents'[l] = disk'[l] /\ Holder'[l] = owner'[r]
      BY <1>2, <1>6, <1>7, <2>1, Zenon DEF View
    <3> QED
      BY <1>1, <1>4, <3>1, <3>2, Zenon
  <2>2. CASE l # k /\ blockno[r] = l
    <3>1. Contents[l] = disk[l] /\ Holder[l] = NoUser
      BY <1>2, <1>4, <1>5, <1>7, <2>2, Zenon DEF View
    <3>2. \A b \in Buf : blockno[b] = l => b = r
      BY <1>2, <2>2, Zenon DEF Inv, HeldIsValid, OneBufPerBlock
    <3>3. Cached(l)' = {}
      <4>1. \A b \in Buf : blockno'[b] # l
        BY <1>6, <2>2, <3>2, Zenon
      <4> QED
        BY <4>1, Zenon DEF Cached
    <3> QED
      BY <1>1, <1>7, <3>1, <3>3, Zenon DEF View
  <2>3. ASSUME l # k, NEW b \in Buf, blockno[b] = l, b # r
        PROVE  Contents'[l] = Contents[l] /\ Holder'[l] = Holder[l]
    <3>1. blockno'[b] = l /\ (b \in valid' <=> b \in valid)
      BY <1>6, <2>3, Zenon
    <3>2. /\ Contents[l] = IF b \in valid THEN data[b] ELSE disk[l]
          /\ Holder[l] = owner[b]
      BY <1>7, <2>3, Zenon DEF View
    <3>3. /\ Contents'[l] = IF b \in valid' THEN data'[b] ELSE disk'[l]
          /\ Holder'[l] = owner'[b]
      BY <1>7, <3>1, Zenon DEF View
    <3> QED
      BY <1>1, <3>1, <3>2, <3>3, Zenon
  <2>4. CASE l # k /\ \A b \in Buf : blockno[b] # l
    <3>1. Cached(l) = {}
      BY <2>4, Zenon DEF Cached
    <3>2. \A b \in Buf : blockno'[b] # l
      BY <1>6, <2>4
    <3>3. Cached(l)' = {}
      BY <3>2 DEF Cached
    <3> QED
      BY <1>1, <1>7, <3>1, <3>3 DEF View
  <2> QED
    BY <2>1, <2>2, <2>3, <2>4, Zenon
<1> QED
  BY <1>7, <1>9 DEF View

\* A request that is answered makes buffer and disk agree on what the block
\* was before.
LEMMA IdeintrStutters ==
  ASSUME Inv, Inv', Ideintr(TRUE)
  PROVE  Contents' = Contents /\ Holder' = Holder
<1> DEFINE h == Head(idequeue)
<1>1. h \in Buf /\ blockno[h] \in Block /\ ~Synced(h)
  BY Request, Zenon
<1>2. /\ disk' = IF h \in dirty THEN [disk EXCEPT ![blockno[h]] = data[h]] ELSE disk
      /\ data' = IF h \notin dirty THEN [data EXCEPT ![h] = disk[blockno[h]]] ELSE data
      /\ valid' = valid \cup {h}
      /\ UNCHANGED <<blockno, owner>>
  BY Zenon DEF Ideintr, cache
<1> HIDE DEF h
<1>0. /\ TypeOK /\ OneBufPerBlock /\ QueueSound /\ OwnerInv /\ DataInv
      /\ \A v \in User : pc[v] = "held" => buf[v] \in valid /\ ~Queued(buf[v])
  BY Zenon DEF Inv, HeldIsValid
<1>3. /\ valid \subseteq Buf /\ data \in [Buf -> Val] /\ disk \in [Block -> Val]
      /\ h \in dirty => h \in valid
      /\ h \notin dirty => h \notin valid
  BY <1>0, <1>1, Zenon DEF TypeOK, DataInv, Synced
<1>4. ASSUME NEW b \in Buf, blockno[b] \in Block
      PROVE  (IF b \in valid' THEN data'[b] ELSE disk'[blockno[b]])
               = (IF b \in valid THEN data[b] ELSE disk[blockno[b]])
  <2>1. CASE b = h
    BY <1>1, <1>2, <1>3, <2>1, Zenon
  <2>2. CASE b # h
    <3>1. blockno[b] # blockno[h]
      BY <1>0, <1>1, <1>4, <2>2, Zenon DEF OneBufPerBlock
    <3>2. (b \in valid' <=> b \in valid) /\ data'[b] = data[b] /\ disk'[blockno[b]] = disk[blockno[b]]
      BY <1>1, <1>2, <1>3, <1>4, <2>2, <3>1, Zenon
    <3> QED
      BY <3>2, Zenon
  <2> QED
    BY <2>1, <2>2, Zenon
<1>5. ASSUME NEW k \in Block, Cached(k) = {}
      PROVE  disk'[k] = disk[k]
  <2>1. k # blockno[h]
    BY <1>1, <1>5, Zenon DEF Cached
  <2> QED
    BY <1>1, <1>2, <1>3, <2>1
<1>6. Contents' = Contents
  BY <1>2, <1>4, <1>5, SameContents, Zenon
<1> QED
  BY <1>2, <1>6, SameHolder

LEMMA StepImplements ==
  ASSUME Inv, Inv', CleanInv, Outcome = {TRUE}, [Next]_vars
  PROVE  [S!Next]_(S!vars)
<1>1. ASSUME UNCHANGED <<blockno, valid, data, owner, disk>>
      PROVE  UNCHANGED S!vars
  BY <1>1, SameContents, SameHolder DEF S!vars
<1>2. CASE Interrupt
  BY <1>2, IdeintrStutters DEF Interrupt, S!vars
<1>3. ASSUME NEW u \in User, Bget(u) PROVE UNCHANGED S!vars
  <2>1. PICK k \in Block : BgetHit(u, k) \/ BgetRecycle(u, k) \/ BgetPanic(u, k)
    BY <1>3 DEF Bget
  <2>2. CASE BgetRecycle(u, k)
    BY <2>2, RecycleStutters DEF S!vars
  <2>3. CASE BgetHit(u, k) \/ BgetPanic(u, k)
    <3>1. UNCHANGED <<blockno, valid, data, owner, disk>>
      BY <2>3, Zenon DEF BgetHit, BgetPanic, Want, cache, flags
    <3> QED
      BY <1>1, <3>1, Zenon
  <2> QED
    BY <2>1, <2>2, <2>3
<1>4. ASSUME NEW u \in User, NEW v \in Val, Change(u, v) PROVE S!Next
  BY <1>4, ChangeChanges, Zenon DEF S!Next
<1>5. ASSUME NEW u \in User, Lock(u) PROVE S!Next
  BY <1>5, LockHolds, Zenon DEF S!Next
<1>6. ASSUME NEW u \in User, Unlock(u) PROVE S!Next
  BY <1>6, UnlockReleases DEF S!Next
<1>7. ASSUME NEW u \in User,
             \/ Bwrite(u) \/ LogWrite(u) \/ Bread(u) \/ Iderw(u) \/ IderwLoop(u)
             \/ Brelse(u) \/ Kill(u)
      PROVE  UNCHANGED S!vars
  <2>1. UNCHANGED <<blockno, valid, data, owner, disk>>
    BY <1>7 DEF Bwrite, LogWrite, Bread, Iderw, IderwLoop, Brelse, Kill, cache, flags
  <2> QED
    BY <1>1, <2>1, Zenon
<1>8. CASE UNCHANGED vars
  <2>1. UNCHANGED <<blockno, valid, data, owner, disk>>
    BY <1>8 DEF vars, cache, flags
  <2> QED
    BY <1>1, <2>1
<1> QED
  BY <1>2, <1>3, <1>4, <1>5, <1>6, <1>7, <1>8, Zenon DEF Next, Use, Kernel

\* On a disk without errors the buffer cache and its driver implement blocks
\* that one user at a time changes and that keep what was last put there, for
\* every number of users, buffers and blocks.
THEOREM BufCacheImplementsBlockStore ==
  ASSUME Outcome = {TRUE}
  PROVE  Spec => ImplementsBlockStore
<1>1. Init => S!Init /\ CleanInv
  <2> SUFFICES ASSUME Init PROVE S!Init /\ CleanInv
    OBVIOUS
  <2>1. \A k \in Block : Cached(k) = {}
    BY Zenon DEF Init, Cached
  <2>2. Contents = disk /\ Holder = [k \in Block |-> NoUser]
    BY <2>1, Zenon DEF Init, Contents, Holder
  <2>3. CleanInv
    BY DEF Init, CleanInv, Synced
  <2> QED
    BY <2>2, <2>3 DEF Init, S!Init
<1>2. Inv /\ CleanInv /\ [Next]_vars => CleanInv'
  BY CleanStep
<1>3. Inv /\ Inv' /\ CleanInv /\ [Next]_vars => [S!Next]_(S!vars)
  BY StepImplements
<1> QED
  BY <1>1, <1>2, <1>3, BufCacheInvariance, PTL DEF Spec, S!Spec, ImplementsBlockStore
=============================================================================
