----------------------------- MODULE LogProofs -----------------------------
(***************************************************************************)
(* Proofs about Log: Inv is an invariant for any number of processes,      *)
(* blocks, and any sizes, and with it the room begin_op() reserves is      *)
(* enough and completed calls are on disk once nobody is in a call.        *)
(***************************************************************************)
EXTENDS Log, FiniteSetTheorems, TLAPS

USE SizeAssumption, NoneAssumption

\* The sets that are counted are finite.
LEMMA Finite ==
  /\ IsFiniteSet(Active) /\ Cardinality(Active) \in Nat
  /\ IsFiniteSet(Reserved) /\ Cardinality(Reserved) \in Nat
<1>1. IsFiniteSet(Active)
  BY FS_Subset, ProcAssumption DEF Active
<1>2. IsFiniteSet(1..MAXOPBLOCKS)
  BY FS_Interval
<1>3. IsFiniteSet(Active \X (1..MAXOPBLOCKS))
  BY <1>1, <1>2, FS_Product
<1>4. Reserved \subseteq Active \X (1..MAXOPBLOCKS)
  BY DEF Reserved
<1>5. IsFiniteSet(Reserved)
  BY <1>3, <1>4, FS_Subset
<1> QED
  BY <1>1, <1>5, FS_CardinalityType

\* The same for the next state.
LEMMA FiniteNext ==
  /\ IsFiniteSet(Active') /\ Cardinality(Active') \in Nat
  /\ IsFiniteSet(Reserved') /\ Cardinality(Reserved') \in Nat
<1>1. IsFiniteSet(Active')
  BY FS_Subset, ProcAssumption DEF Active
<1>2. IsFiniteSet(1..MAXOPBLOCKS)
  BY FS_Interval
<1>3. IsFiniteSet(Active' \X (1..MAXOPBLOCKS))
  BY <1>1, <1>2, FS_Product
<1>4. Reserved' \subseteq Active' \X (1..MAXOPBLOCKS)
  BY DEF Reserved
<1>5. IsFiniteSet(Reserved')
  BY <1>3, <1>4, FS_Subset
<1> QED
  BY <1>1, <1>5, FS_CardinalityType

\* A step that leaves no new reservation keeps the header within bounds.
LEMMA Shrinks ==
  ASSUME Inv, Reserved' \subseteq Reserved, lh' = lh
  PROVE  Len(lh') + Cardinality(Reserved') <= LOGSIZE
<1>1. Cardinality(Reserved') <= Cardinality(Reserved)
  BY Finite, FS_Subset
<1>2. Len(lh) \in Nat
  BY DEF Inv, TypeOK
<1> QED
  BY <1>1, <1>2, Finite, FiniteNext DEF Inv, ReserveInv

\* While a call is in progress nothing is committed or recovered.
LEMMA InCall ==
  ASSUME Inv, NEW p \in Active
  PROVE  /\ ~committing /\ ~recovering /\ phase = "none"
         /\ outstanding > 0 /\ outstanding \in Nat
         /\ \A q \in Proc : pc[q] # "commit"
<1>1. Cardinality(Active) # 0
  BY Finite, FS_EmptySet
<1> QED
  BY <1>1, Finite DEF Inv, ControlInv, TypeOK, Phase, Active

LEMMA InitInv == Init => Inv
<1> SUFFICES ASSUME Init PROVE Inv
  OBVIOUS
<1>1. TypeOK
  <2>1. <<>> \in Seq(Block)
    OBVIOUS
  <2>2. disk \in [Block -> Val] /\ dlog \in [1..LOGSIZE -> Val]
    BY DEF Init
  <2>3. cache \in [Block -> Val \cup {None}] /\ cur \in [Proc -> Block \cup {None}]
    BY DEF Init
  <2>4. pc \in [Proc -> Label] /\ wrote \in [Proc -> SUBSET Block]
    BY DEF Init, Label
  <2>5. tail \in 1..(LOGSIZE + 1) /\ outstanding \in Nat /\ phase \in Phase
    BY DEF Init, Phase
  <2> QED
    BY <2>1, <2>2, <2>3, <2>4, <2>5, Zenon DEF Init, TypeOK
<1>2. Active = {} /\ Reserved = {} /\ Range1(lh) = {}
  BY DEF Init, Active, Reserved, Range1
<1>3. ControlInv
  BY <1>2, FS_EmptySet DEF Init, ControlInv
<1>4. ReserveInv
  BY <1>2, FS_EmptySet DEF Init, ReserveInv
<1>5. HeadInv
  BY DEF Init, HeadInv
<1>6. BufferInv /\ CopyInv
  BY <1>2 DEF Init, BufferInv, CopyInv, Busy, View
<1> QED
  BY <1>1, <1>3, <1>4, <1>5, <1>6 DEF Inv

Outside == {"idle", "begin", "asleep"}

\* Steps that only move a process outside calls, or on in log_write().
LEMMA MoveInv ==
  ASSUME Inv, pc' \in [Proc -> Label], panicked' \in BOOLEAN,
         UNCHANGED <<stable, buffers, lh, control, commitvars, cur, wrote>>,
         \A q \in Proc : \/ pc'[q] = pc[q]
                         \/ pc[q] \in Outside /\ pc'[q] \in Outside
                         \/ pc[q] = "modified" /\ pc'[q] = "logging",
         ~recovering
  PROVE  Inv'
<1>1. Active' = Active
  BY DEF Active, Outside
<1>2. TypeOK'
  BY DEF Inv, TypeOK, stable, buffers, control, commitvars
<1>3. ControlInv'
  BY <1>1 DEF Inv, ControlInv, control, commitvars, Outside
<1>4. ReserveInv'
  <2>1. Reserved' = Reserved
    BY <1>1 DEF Reserved
  <2> QED
    BY <1>1, <2>1, ZenonT(40) DEF Inv, ReserveInv, Active, Range1, Outside
<1>5. HeadInv'
  BY <1>1 DEF Inv, HeadInv, stable, commitvars
<1>6. BufferInv'
  BY DEF Inv, BufferInv, Busy, View, Range1, stable, buffers, commitvars, Outside
<1>7. CopyInv'
  BY DEF Inv, CopyInv, View, stable, buffers, commitvars
<1> QED
  BY <1>2, <1>3, <1>4, <1>5, <1>6, <1>7 DEF Inv

LEMMA CallInv ==
  ASSUME Inv, NEW p \in Proc, Call(p) \/ BeginSleep(p) \/ LogCheck(p)
  PROVE  Inv'
<1>1. pc' \in [Proc -> Label] /\ panicked' \in BOOLEAN
  BY Zenon DEF Inv, TypeOK, Label, Call, BeginSleep, LogCheck, Goto
<1>2. UNCHANGED <<stable, buffers, lh, control, commitvars, cur, wrote>>
  BY DEF Call, BeginSleep, LogCheck
<1>3. ASSUME NEW q \in Proc
      PROVE  \/ pc'[q] = pc[q]
             \/ pc[q] \in Outside /\ pc'[q] \in Outside
             \/ pc[q] = "modified" /\ pc'[q] = "logging"
  BY DEF Inv, TypeOK, Outside, Call, BeginSleep, LogCheck, Goto, At
<1>4. ~recovering
  BY DEF Inv, ControlInv, Call, BeginSleep, LogCheck, At
<1> QED
  BY <1>1, <1>2, <1>3, <1>4, MoveInv

LEMMA BeginOpInv ==
  ASSUME Inv, NEW p \in Proc, BeginOp(p)
  PROVE  Inv'
<1> USE DEF BeginOp, At, Goto
<1>1. /\ UNCHANGED <<stable, buffers, lh, committing, commitvars, cur>>
      /\ ~committing /\ outstanding' = outstanding + 1
      /\ pc[p] = "begin" /\ pc' = [pc EXCEPT ![p] = "op"]
      /\ wrote' = [wrote EXCEPT ![p] = {}]
  BY DEF MustWait
<1>2. TypeOK'
  BY <1>1 DEF Inv, TypeOK, Label, stable, buffers, commitvars
<1>3. Active' = Active \cup {p} /\ p \notin Active
  BY <1>1 DEF Inv, TypeOK, Active
<1>4. Cardinality(Active') = outstanding + 1
  BY <1>3, Finite, FS_AddElement, Zenon DEF Inv, ControlInv
<1>5. ~recovering
  BY <1>1 DEF Inv, ControlInv
<1>6. phase = "none"
  BY <1>1, <1>5 DEF Inv, TypeOK, Phase, ControlInv
<1>7. ControlInv'
  BY <1>1, <1>3, <1>4, <1>5, <1>6 DEF Inv, TypeOK, ControlInv, commitvars
<1>8. Len(lh) + (outstanding + 1) * MAXOPBLOCKS <= LOGSIZE
  BY DEF MustWait, Inv, TypeOK
<1>9. Cardinality(Reserved') <= (outstanding + 1) * MAXOPBLOCKS
  <2>1. IsFiniteSet(1..MAXOPBLOCKS) /\ Cardinality(1..MAXOPBLOCKS) = MAXOPBLOCKS
    BY FS_Interval
  <2>2. /\ IsFiniteSet(Active' \X (1..MAXOPBLOCKS))
        /\ Cardinality(Active' \X (1..MAXOPBLOCKS))
             = Cardinality(Active') * Cardinality(1..MAXOPBLOCKS)
    BY <2>1, FiniteNext, FS_Product, Zenon
  <2>3. Reserved' \subseteq Active' \X (1..MAXOPBLOCKS)
    BY DEF Reserved
  <2>4. Cardinality(Reserved') <= Cardinality(Active' \X (1..MAXOPBLOCKS))
    BY <2>2, <2>3, FS_Subset
  <2> QED
    BY <1>4, <2>1, <2>2, <2>4
<1>10. ReserveInv'
  <2>1. Len(lh') + Cardinality(Reserved') <= LOGSIZE
    BY <1>1, <1>8, <1>9, FiniteNext DEF Inv, TypeOK
  <2>2. IsFiniteSet({}) /\ Cardinality({}) = 0
    BY FS_EmptySet
  <2>3. ASSUME NEW q \in Active'
        PROVE  /\ IsFiniteSet(wrote'[q])
               /\ wrote'[q] \subseteq Range1(lh')
               /\ Cardinality(wrote'[q]) <= MAXOPBLOCKS
               /\ pc'[q] # "op" => Cardinality(wrote'[q] \cup {cur'[q]}) <= MAXOPBLOCKS
    <3>1. CASE q = p
      BY <1>1, <2>2, <3>1 DEF Inv, TypeOK, Label
    <3>2. CASE q # p
      <4>1. /\ q \in Active /\ wrote'[q] = wrote[q] /\ pc'[q] = pc[q]
            /\ cur'[q] = cur[q] /\ Range1(lh') = Range1(lh)
        BY <1>1, <1>3, <3>2 DEF Inv, TypeOK, Range1, Active
      <4> QED
        BY <4>1 DEF Inv, ReserveInv
    <3> QED
      BY <3>1, <3>2
  <2> QED
    BY <2>1, <2>3, Zenon DEF ReserveInv
<1>11. HeadInv'
  BY <1>1, <1>3 DEF Inv, HeadInv, stable, commitvars
<1>12. BufferInv'
  BY <1>1 DEF Inv, TypeOK, BufferInv, Busy, View, Range1, stable, buffers, commitvars
<1>13. CopyInv'
  BY <1>1 DEF Inv, CopyInv, View, stable, buffers, commitvars
<1> QED
  BY <1>2, <1>7, <1>10, <1>11, <1>12, <1>13 DEF Inv

\* What end_op() does to reservations, whether it commits or not.
LEMMA LeaveFacts ==
  ASSUME Inv, NEW p \in Active, pc[p] = "op", pc' \in [Proc -> Label],
         pc'[p] \in {"idle", "commit"},
         \A q \in Proc \ {p} : \/ pc'[q] = pc[q]
                               \/ pc[q] = "asleep" /\ pc'[q] = "begin",
         wrote' = [wrote EXCEPT ![p] = {}], lh' = lh, cur' = cur
  PROVE  /\ Active' = Active \ {p}
         /\ Cardinality(Active') = outstanding - 1
         /\ ReserveInv'
<1>1. Active' = Active \ {p}
  BY DEF Active
<1>2. Cardinality(Active') = outstanding - 1
  BY <1>1, Finite, FS_RemoveElement, Zenon DEF Inv, ControlInv
<1>3. ASSUME NEW q \in Active'
      PROVE  /\ q \in Active /\ wrote'[q] = wrote[q] /\ pc'[q] = pc[q]
             /\ cur'[q] = cur[q] /\ Range1(lh') = Range1(lh)
  BY <1>1 DEF Active, Range1, Inv, TypeOK
<1>4. Reserved' \subseteq Reserved
  BY <1>3 DEF Reserved
<1>5. Len(lh') + Cardinality(Reserved') <= LOGSIZE
  BY <1>4, Shrinks
<1>6. ReserveInv'
  BY <1>3, <1>5 DEF Inv, ReserveInv
<1> QED
  BY <1>1, <1>2, <1>6

LEMMA EndOpInv ==
  ASSUME Inv, NEW p \in Proc, EndOp(p)
  PROVE  Inv'
<1>1. /\ UNCHANGED <<stable, buffers, lh, committing, commitvars, cur>>
      /\ outstanding > 1 /\ outstanding' = outstanding - 1 /\ pc[p] = "op"
      /\ wrote' = [wrote EXCEPT ![p] = {}]
      /\ panicked' = panicked
      /\ pc' = [q \in Proc |-> IF q = p THEN "idle"
                               ELSE IF pc[q] = "asleep" THEN "begin" ELSE pc[q]]
  BY DEF EndOp, At, WakeAnd
<1>2. TypeOK'
  BY <1>1 DEF Inv, TypeOK, Label, stable, buffers, commitvars
<1>3. p \in Active
  BY <1>1 DEF Active
<1>4. /\ Active' = Active \ {p}
      /\ Cardinality(Active') = outstanding - 1
      /\ ReserveInv'
  BY <1>1, <1>2, <1>3, LeaveFacts, Zenon DEF TypeOK
<1>5. Active' # {}
  <2>1. Cardinality({}) = 0
    BY FS_EmptySet
  <2>2. outstanding - 1 # 0
    BY <1>1
  <2> QED
    BY <1>4, <2>1, <2>2, Zenon
<1>6. ControlInv'
  BY <1>1, <1>3, <1>4, InCall DEF Inv, ControlInv, commitvars
<1>7. HeadInv'
  BY <1>1, <1>5 DEF Inv, HeadInv, stable, commitvars
<1>8. BufferInv'
  BY <1>1 DEF Inv, TypeOK, BufferInv, Busy, View, Range1, stable, buffers, commitvars
<1>9. CopyInv'
  BY <1>1 DEF Inv, CopyInv, View, stable, buffers, commitvars
<1> QED
  BY <1>2, <1>4, <1>6, <1>7, <1>8, <1>9 DEF Inv

LEMMA EndOpCommitInv ==
  ASSUME Inv, NEW p \in Proc, EndOpCommit(p)
  PROVE  Inv'
<1>1. /\ UNCHANGED <<stable, buffers, lh, recovering, panicked, cur>>
      /\ outstanding = 1 /\ outstanding' = 0 /\ pc[p] = "op"
      /\ committing' = TRUE /\ tail' = 1
      /\ phase' = IF Len(lh) > 0 THEN "log" ELSE "finish"
      /\ wrote' = [wrote EXCEPT ![p] = {}]
      /\ pc' = [pc EXCEPT ![p] = "commit"]
  BY DEF EndOpCommit, At, Goto
<1>2. TypeOK'
  BY <1>1 DEF Inv, TypeOK, Label, Phase, stable, buffers
<1>3. p \in Active
  BY <1>1, Zenon DEF Active
<1>4. /\ Active' = Active \ {p}
      /\ Cardinality(Active') = outstanding - 1
      /\ ReserveInv'
  BY <1>1, <1>2, <1>3, LeaveFacts, Zenon DEF TypeOK, Inv
<1>5. Active' = {}
  <2>1. Cardinality(Active') = 0
    BY <1>1, <1>4
  <2> QED
    BY <2>1, FiniteNext, FS_EmptySet
<1>6. /\ ~recovering /\ phase = "none" /\ ~committing
      /\ \A q \in Proc : pc[q] # "commit"
  BY <1>3, InCall
<1>7. ControlInv'
  BY <1>1, <1>4, <1>5, <1>6 DEF Inv, TypeOK, ControlInv
<1>8. HeadInv'
  <2>1. Len(lh) > 0 \/ lh = <<>>
    BY DEF Inv, TypeOK
  <2> QED
    BY <1>1, <1>5, <1>6, <2>1 DEF Inv, HeadInv, stable
<1>9. BufferInv'
  <2>1. UNCHANGED <<disk, cache, dirty, lh, recovering, cur>>
    BY <1>1, Zenon DEF stable, buffers
  <2>2. \A q \in Proc : pc'[q] \in {"modified", "logging"} <=> pc[q] \in {"modified", "logging"}
    BY <1>1, Zenon DEF Inv, TypeOK
  <2>3. phase' # "install" /\ phase # "install"
    BY <1>1, <1>6, Zenon
  <2>4. \A b \in Block : (Busy(b)' <=> Busy(b)) /\ View(b)' = View(b)
    BY <2>1, Zenon DEF Busy, View
  <2>5. Range1(lh)' = Range1(lh)
    BY <2>1, Zenon DEF Range1
  <2> QED
    BY <2>1, <2>2, <2>3, <2>4, <2>5, Zenon DEF Inv, BufferInv
<1>10. CopyInv'
  <2>1. Len(lh) \in Nat /\ lh' = lh /\ tail' = 1 /\ phase' # "install"
    BY <1>1 DEF Inv, TypeOK
  <2>2. tail' <= Len(lh') + 1 /\ \A i \in 1..(tail' - 1) : FALSE
    BY <2>1
  <2> QED
    BY <2>1, <2>2, Zenon DEF CopyInv
<1> QED
  BY <1>2, <1>4, <1>7, <1>8, <1>9, <1>10 DEF Inv

LEMMA CommitDoneInv ==
  ASSUME Inv, NEW p \in Proc, CommitDone(p)
  PROVE  Inv'
<1>1. /\ UNCHANGED <<stable, buffers, lh, outstanding, tail, recovering, panicked,
                     cur, wrote>>
      /\ pc[p] = "commit" /\ phase = "finish"
      /\ committing' = FALSE /\ phase' = "none"
      /\ pc' = [q \in Proc |-> IF q = p THEN "idle"
                               ELSE IF pc[q] = "asleep" THEN "begin" ELSE pc[q]]
  BY DEF CommitDone, At, WakeAnd
<1>2. TypeOK'
  BY <1>1, Zenon DEF Inv, TypeOK, Label, Phase, stable, buffers
<1>3. ~recovering /\ lh = <<>>
  BY <1>1 DEF Inv, ControlInv, HeadInv
<1>4. Active' = Active
  BY <1>1 DEF Active
<1>5. ControlInv'
  BY <1>1, <1>3, <1>4 DEF Inv, ControlInv
<1>6. ReserveInv'
  <2>1. Reserved' = Reserved
    BY <1>1, <1>4 DEF Reserved
  <2> QED
    BY <1>1, <1>4, <2>1 DEF Inv, ReserveInv, Active, Range1
<1>7. HeadInv'
  BY <1>1, <1>3 DEF Inv, HeadInv, stable
<1>8. BufferInv'
  BY <1>1 DEF Inv, BufferInv, Busy, View, Range1, stable, buffers
<1>9. CopyInv'
  BY <1>1 DEF CopyInv
<1> QED
  BY <1>2, <1>5, <1>6, <1>7, <1>8, <1>9 DEF Inv

LEMMA ModifyInv ==
  ASSUME Inv, NEW p \in Proc, NEW b \in Block, NEW v \in Val, Modify(p, b, v)
  PROVE  Inv'
<1>1. /\ UNCHANGED <<stable, dirty, lh, control, commitvars, panicked, wrote>>
      /\ pc[p] = "op" /\ pc' = [pc EXCEPT ![p] = "modified"]
      /\ Cardinality(wrote[p] \cup {b}) <= MAXOPBLOCKS
      /\ \A q \in Proc : cur[q] # b
      /\ cache' = [cache EXCEPT ![b] = v]
      /\ cur' = [cur EXCEPT ![p] = b]
  BY DEF Modify, At, Goto
<1>2. TypeOK'
  BY <1>1 DEF Inv, TypeOK, Label, stable, control, commitvars
<1>3. p \in Active
  BY <1>1 DEF Active
<1>4. Active' = Active
  BY <1>1 DEF Inv, TypeOK, Active
<1>5. ~recovering /\ phase = "none"
  BY <1>3, InCall
<1>6. ControlInv'
  BY <1>1, <1>4, <1>5, Zenon DEF Inv, TypeOK, ControlInv, control, commitvars
<1>7. ReserveInv'
  <2>1. Reserved' = Reserved
    BY <1>1, <1>4, Zenon DEF Reserved
  <2>2. ASSUME NEW q \in Active'
        PROVE  pc'[q] # "op" => Cardinality(wrote'[q] \cup {cur'[q]}) <= MAXOPBLOCKS
    BY <1>1, <1>4, Zenon DEF Inv, TypeOK, ReserveInv, Active
  <2> QED
    <3>1. lh' = lh /\ wrote' = wrote /\ Active' = Active /\ Reserved' = Reserved
      BY <1>1, <1>4, <2>1, Zenon DEF commitvars
    <3>2. Range1(lh)' = Range1(lh)
      BY <3>1, Zenon DEF Range1
    <3> QED
      BY <2>2, <3>1, <3>2, Zenon DEF Inv, ReserveInv
<1>8. HeadInv'
  BY <1>1, <1>4 DEF Inv, HeadInv, stable, commitvars
<1>9. BufferInv'
  <2>1. \A q \in Proc : cur'[q] # None <=> pc'[q] \in {"modified", "logging"}
    BY <1>1, Zenon DEF Inv, TypeOK, BufferInv
  <2>2. \A q, r \in Proc : cur'[q] = cur'[r] /\ cur'[q] # None => q = r
    BY <1>1, Zenon DEF Inv, TypeOK, BufferInv
  <2>3. cur[p] = None
    BY <1>1 DEF Inv, BufferInv
  <2>4. ASSUME NEW x \in Block PROVE Busy(x)' <=> Busy(x) \/ x = b
    BY <1>1, <2>3 DEF Inv, TypeOK, Busy
  <2>5. ASSUME NEW x \in Block, x # b PROVE cache'[x] = cache[x]
    BY <1>1, <2>5 DEF Inv, TypeOK
  <2>6. cache'[b] # None
    BY <1>1 DEF Inv, TypeOK
  <2> QED
    <3>1. UNCHANGED <<disk, dirty, lh, phase, recovering, tail>>
      BY <1>1, Zenon DEF stable, commitvars
    <3>2. \A x \in Block : x \in dirty \/ Busy(x)' => cache'[x] # None
      BY <2>4, <2>5, <2>6, Zenon DEF Inv, BufferInv
    <3>3. \A x \in Block : x \notin dirty /\ ~Busy(x)' => View(x)' = disk[x]
      BY <2>4, <2>5, <3>1, Zenon DEF Inv, BufferInv, View
    <3>4. dirty = Range1(lh)
      BY <1>5, Zenon DEF Inv, BufferInv
    <3>5. Range1(lh)' = Range1(lh)
      BY <3>1 DEF Range1
    <3> QED
      BY <1>5, <2>1, <2>2, <3>1, <3>2, <3>3, <3>4, <3>5, Zenon DEF BufferInv
<1>10. CopyInv'
  BY <1>1, <1>5, Zenon DEF CopyInv, commitvars
<1> QED
  BY <1>2, <1>6, <1>7, <1>8, <1>9, <1>10 DEF Inv

LEMMA LogWriteInv ==
  ASSUME Inv, NEW p \in Proc, LogWrite(p)
  PROVE  Inv'
<1>1. /\ UNCHANGED <<stable, cache, control, commitvars, panicked>>
      /\ pc[p] = "logging" /\ pc' = [pc EXCEPT ![p] = "op"]
      /\ lh' = IF cur[p] \in Range1(lh) THEN lh ELSE Append(lh, cur[p])
      /\ dirty' = dirty \cup {cur[p]}
      /\ wrote' = [wrote EXCEPT ![p] = @ \cup {cur[p]}]
      /\ cur' = [cur EXCEPT ![p] = None]
  BY Zenon DEF LogWrite, At, Goto
<1>2. cur[p] \in Block
  BY <1>1 DEF Inv, TypeOK, BufferInv
<1>3. TypeOK'
  <2>1. lh' \in Seq(Block)
    BY <1>1, <1>2 DEF Inv, TypeOK
  <2> QED
    BY <1>1, <1>2, <2>1 DEF Inv, TypeOK, Label, stable, control, commitvars
<1>4. p \in Active
  BY <1>1 DEF Active
<1>5. Active' = Active
  BY <1>1 DEF Inv, TypeOK, Active
<1>6. ~recovering /\ phase = "none"
  BY <1>4, InCall, Zenon
<1>7. ControlInv'
  BY <1>1, <1>5, <1>6 DEF Inv, TypeOK, ControlInv, control, commitvars
<1>8. Range1(lh') = Range1(lh) \cup {cur[p]}
  <2>1. CASE cur[p] \in Range1(lh)
    BY <1>1, <2>1
  <2>2. CASE cur[p] \notin Range1(lh)
    BY <1>1, <1>2, <2>2 DEF Inv, TypeOK, Range1
  <2> QED
    BY <2>1, <2>2
<1>9. /\ IsFiniteSet(wrote[p]) /\ wrote[p] \subseteq Range1(lh)
      /\ Cardinality(wrote[p] \cup {cur[p]}) <= MAXOPBLOCKS
      /\ Cardinality(wrote[p]) \in Nat
  BY <1>1, <1>4, FS_CardinalityType, Zenon DEF Inv, ReserveInv
<1>10. /\ IsFiniteSet(wrote[p] \cup {cur[p]})
       /\ Cardinality(wrote[p] \cup {cur[p]}) = IF cur[p] \in wrote[p] THEN Cardinality(wrote[p])
                                               ELSE Cardinality(wrote[p]) + 1
  BY <1>9, FS_AddElement
<1>20. \A q \in Active, k \in 1..MAXOPBLOCKS :
         k > Cardinality(wrote'[q]) =>
           /\ k > Cardinality(wrote[q])
           /\ q = p /\ cur[p] \notin wrote[p] => k # Cardinality(wrote[p]) + 1
  <2>1. /\ wrote'[p] = wrote[p] \cup {cur[p]}
        /\ \A q \in Active : q # p => wrote'[q] = wrote[q]
    BY <1>1, <1>4, Zenon DEF Inv, TypeOK, Active
  <2> TAKE q \in Active, k \in 1..MAXOPBLOCKS
  <2>2. CASE q # p
    BY <2>1, <2>2, Zenon
  <2>3. CASE q = p
    <3>1. Cardinality(wrote[p] \cup {cur[p]}) \in Nat
      BY <1>10, FS_CardinalityType, Zenon
    <3>2. Cardinality(wrote'[q]) = Cardinality(wrote[p] \cup {cur[p]})
      BY <2>1, <2>3, Zenon
    <3> QED
      BY <1>9, <1>10, <2>3, <3>1, <3>2
  <2> QED
    BY <2>2, <2>3, Zenon
<1>11. Len(lh') + Cardinality(Reserved') <= LOGSIZE
  <2>1. CASE cur[p] \in Range1(lh)
    <3>1. Reserved' \subseteq Reserved
      BY <1>5, <1>20, Zenon DEF Reserved
    <3> QED
      BY <1>1, <2>1, <3>1, Shrinks, Zenon
  <2>2. CASE cur[p] \notin Range1(lh)
    <3> DEFINE r == <<p, Cardinality(wrote[p]) + 1>>
    <3>1. cur[p] \notin wrote[p]
      BY <1>9, <2>2
    <3>2. r \in Reserved
      BY <1>4, <1>9, <1>10, <3>1 DEF Reserved
    <3>3. Reserved' \subseteq Reserved \ {r}
      <4>1. ASSUME NEW x \in Reserved' PROVE x \in Reserved /\ x # r
        <5>0. x \in Active \X (1..MAXOPBLOCKS)
          BY <1>5, <4>1, Zenon DEF Reserved
        <5>1. PICK q \in Active, k \in 1..MAXOPBLOCKS : x = <<q, k>>
          BY <5>0
        <5>2. k > Cardinality(wrote'[q])
          BY <4>1, <5>1, Zenon DEF Reserved
        <5> QED
          BY <1>20, <3>1, <5>1, <5>2, Zenon DEF Reserved
      <4> QED
        BY <4>1, Zenon
    <3>4. /\ IsFiniteSet(Reserved \ {r})
          /\ Cardinality(Reserved \ {r}) = Cardinality(Reserved) - 1
      BY <3>2, Finite, FS_RemoveElement
    <3>5. Cardinality(Reserved') <= Cardinality(Reserved) - 1
      BY <3>3, <3>4, FS_Subset
    <3>6. Len(lh') = Len(lh) + 1
      BY <1>1, <1>2, <2>2 DEF Inv, TypeOK
    <3> QED
      BY <3>5, <3>6, Finite, FiniteNext DEF Inv, TypeOK, ReserveInv
  <2> QED
    BY <2>1, <2>2
<1>12. ReserveInv'
  <2>1. ASSUME NEW q \in Active'
        PROVE  /\ IsFiniteSet(wrote'[q])
               /\ wrote'[q] \subseteq Range1(lh')
               /\ Cardinality(wrote'[q]) <= MAXOPBLOCKS
               /\ pc'[q] # "op" => Cardinality(wrote'[q] \cup {cur'[q]}) <= MAXOPBLOCKS
    <3>1. CASE q = p
      BY <1>1, <1>8, <1>9, <1>10, <3>1, Zenon DEF Inv, TypeOK
    <3>2. CASE q # p
      <4>1. /\ q \in Active /\ wrote'[q] = wrote[q] /\ pc'[q] = pc[q]
            /\ cur'[q] = cur[q]
        BY <1>1, <1>5, <3>2, Zenon DEF Inv, TypeOK, Active
      <4> QED
        BY <1>8, <4>1, Zenon DEF Inv, ReserveInv
    <3> QED
      BY <3>1, <3>2
  <2> QED
    BY <1>11, <2>1, Zenon DEF ReserveInv
<1>13. HeadInv'
  <2>1. \A i, j \in 1..Len(lh') : lh'[i] = lh'[j] => i = j
    <3>1. CASE cur[p] \in Range1(lh)
      BY <1>1, <3>1 DEF Inv, HeadInv
    <3>2. CASE cur[p] \notin Range1(lh)
      BY <1>1, <1>2, <3>2 DEF Inv, TypeOK, HeadInv, Range1
    <3> QED
      BY <3>1, <3>2
  <2> QED
    BY <1>1, <1>4, <1>5, <1>6, <2>1 DEF Inv, HeadInv, stable, commitvars
<1>14. BufferInv'
  <2>1. \A q \in Proc : cur'[q] # None <=> pc'[q] \in {"modified", "logging"}
    BY <1>1, Zenon DEF Inv, TypeOK, BufferInv
  <2>2. \A q, x \in Proc : cur'[q] = cur'[x] /\ cur'[q] # None => q = x
    BY <1>1, Zenon DEF Inv, TypeOK, BufferInv
  <2>3. ASSUME NEW x \in Block
        PROVE  /\ x \in dirty' \/ Busy(x)' => x \in dirty \/ Busy(x)
               /\ x \notin dirty' /\ ~Busy(x)' => x \notin dirty /\ ~Busy(x)
    BY <1>1, <1>2, Zenon DEF Inv, TypeOK, Busy
  <2>4. dirty' = Range1(lh')
    BY <1>1, <1>6, <1>8, Zenon DEF Inv, BufferInv
  <2> QED
    BY <1>1, <1>6, <2>1, <2>2, <2>3, <2>4, Zenon DEF Inv, BufferInv, View, stable, commitvars
<1>15. CopyInv'
  BY <1>1, <1>6 DEF CopyInv, commitvars
<1> QED
  BY <1>3, <1>7, <1>12, <1>13, <1>14, <1>15 DEF Inv

\* A step that moves only the commit's tail, and not while it installs, leaves
\* the buffers in order.
LEMMA BufferSame ==
  ASSUME BufferInv,
         UNCHANGED <<pc, cur, cache, dirty, disk, recovering, phase, lh>>,
         phase = "install" => tail' = tail
  PROVE  BufferInv'
<1>1. ASSUME NEW b PROVE (Busy(b)' <=> Busy(b)) /\ View(b)' = View(b)
  BY Zenon DEF Busy, View
<1>2. Range1(lh)' = Range1(lh) /\ (phase = "install")' = (phase = "install")
  BY Zenon DEF Range1
<1>3. /\ (\A p \in Proc : cur[p] # None <=> pc[p] \in {"modified", "logging"})'
      /\ (\A p, q \in Proc : cur[p] = cur[q] /\ cur[p] # None => p = q)'
  BY Zenon DEF BufferInv
<1>4. /\ (\A b \in Block : b \in dirty \/ Busy(b) => cache[b] # None)'
      /\ (\A b \in Block : b \notin dirty /\ ~Busy(b) => View(b) = disk[b])'
  BY <1>1, Zenon DEF BufferInv
<1>5. /\ (recovering => dirty = {})'
      /\ (phase = "install" /\ ~recovering => dirty = {lh[i] : i \in tail..Len(lh)})'
      /\ (phase # "install" /\ ~recovering => dirty = Range1(lh))'
  <2>1. CASE phase = "install"
    BY <2>1, Zenon DEF BufferInv
  <2>2. CASE phase # "install"
    BY <1>2, <2>2, Zenon DEF BufferInv
  <2> QED
    BY <2>1, <2>2, Zenon
<1> QED
  BY <1>3, <1>4, <1>5, Zenon DEF BufferInv

\* Reading a block into a buffer and recycling a buffer change no view.
LEMMA BufferStepInv ==
  ASSUME Inv, NEW b \in Block, Load(b) \/ Evict(b)
  PROVE  Inv'
<1>1. UNCHANGED <<stable, dirty, lh, control, commitvars, panicked, procs>>
  BY DEF Load, Evict
<1>2. \/ cache[b] = None /\ cache' = [cache EXCEPT ![b] = disk[b]]
      \/ b \notin dirty /\ ~Busy(b) /\ cache' = [cache EXCEPT ![b] = None]
  BY DEF Load, Evict, Busy
<1>3. TypeOK'
  BY <1>1, <1>2, Zenon DEF Inv, TypeOK, stable, control, commitvars, procs
<1>4. Active' = Active
  BY <1>1 DEF Active, procs
<1>5. ControlInv'
  BY <1>1, <1>4 DEF Inv, ControlInv, control, commitvars, procs
<1>6. ReserveInv'
  <2>1. Reserved' = Reserved
    BY <1>1, <1>4, Zenon DEF Reserved, procs
  <2> QED
    BY <1>1, <1>4, <2>1 DEF Inv, ReserveInv, Range1, procs
<1>7. HeadInv'
  BY <1>1, <1>4 DEF Inv, HeadInv, stable, commitvars
<1>8. ASSUME NEW x \in Block
      PROVE  /\ View(x)' = View(x)
             /\ x \in dirty \/ Busy(x) => cache'[x] = cache[x]
  <2>1. x \in dirty \/ Busy(x) => cache[x] # None
    BY Zenon DEF Inv, BufferInv
  <2>2. x \notin dirty /\ ~Busy(x) => View(x) = disk[x]
    BY Zenon DEF Inv, BufferInv
  <2>3. x # b => cache'[x] = cache[x]
    BY <1>2, Zenon DEF Inv, TypeOK
  <2>4. \/ cache[b] = None /\ cache'[b] = disk[b]
        \/ b \notin dirty /\ ~Busy(b) /\ cache'[b] = None
    BY <1>2, Zenon DEF Inv, TypeOK
  <2>5. disk' = disk
    BY <1>1, Zenon DEF stable
  <2> QED
    BY <2>1, <2>2, <2>3, <2>4, <2>5 DEF View
<1>9. BufferInv'
  <2>1. ASSUME NEW x \in Block PROVE Busy(x)' <=> Busy(x)
    BY <1>1, Zenon DEF Busy, procs
  <2>2. UNCHANGED <<disk, dirty, lh, phase, recovering, tail, pc, cur>>
    BY <1>1, Zenon DEF stable, commitvars, procs
  <2>3. /\ (\A x \in Block : x \in dirty \/ Busy(x) => cache[x] # None)'
        /\ (\A x \in Block : x \notin dirty /\ ~Busy(x) => View(x) = disk[x])'
    BY <1>8, <2>1, <2>2, Zenon DEF Inv, BufferInv
  <2>4. /\ (\A p \in Proc : cur[p] # None <=> pc[p] \in {"modified", "logging"})'
        /\ (\A p, q \in Proc : cur[p] = cur[q] /\ cur[p] # None => p = q)'
    BY <2>2, Zenon DEF Inv, BufferInv
  <2>5. /\ (recovering => dirty = {})'
        /\ (phase = "install" /\ ~recovering => dirty = {lh[i] : i \in tail..Len(lh)})'
        /\ (phase # "install" /\ ~recovering => dirty = Range1(lh))'
    <3>1. Range1(lh)' = Range1(lh)
      BY <2>2, Zenon DEF Range1
    <3>2. (phase = "install" /\ ~recovering => dirty = {lh[i] : i \in tail..Len(lh)})'
      BY <2>2, Zenon DEF Inv, BufferInv
    <3> QED
      BY <2>2, <3>1, <3>2, Zenon DEF Inv, BufferInv
  <2> QED
    BY <2>3, <2>4, <2>5, Zenon DEF BufferInv
<1>10. CopyInv'
  <2>1. ASSUME phase = "log", NEW i \in 1..(tail - 1)
        PROVE  lh[i] \in Block
    BY <2>1, SMTT(30) DEF Inv, TypeOK, CopyInv
  <2>2. ASSUME phase = "install", ~recovering, NEW i \in tail..Len(lh)
        PROVE  cache'[lh[i]] = cache[lh[i]]
    <3>1. lh[i] \in Block /\ lh[i] \in dirty
      BY <2>2 DEF Inv, TypeOK, BufferInv
    <3> QED
      BY <1>8, <3>1, Zenon
  <2> QED
    BY <1>1, <1>8, <2>1, <2>2, Zenon DEF Inv, CopyInv, stable, commitvars
<1> QED
  BY <1>3, <1>5, <1>6, <1>7, <1>9, <1>10, Zenon DEF Inv

LEMMA WriteLogInv ==
  ASSUME Inv, WriteLog
  PROVE  Inv'
<1>1. /\ UNCHANGED <<disk, head, buffers, lh, control, phase, recovering, panicked,
                     procs>>
      /\ phase = "log" /\ tail <= Len(lh)
      /\ dlog' = [dlog EXCEPT ![tail] = View(lh[tail])]
      /\ tail' = tail + 1
  BY DEF WriteLog
<1>2. Len(lh) <= LOGSIZE /\ Len(lh) \in Nat
  BY Finite DEF Inv, TypeOK, ReserveInv
<1>3. tail \in 1..LOGSIZE /\ lh[tail] \in Block
  BY <1>1, <1>2 DEF Inv, TypeOK
<1>4. TypeOK'
  <2>1. View(lh[tail]) \in Val
    BY <1>3, Zenon DEF Inv, TypeOK, View
  <2> QED
    BY <1>1, <1>3, <2>1 DEF Inv, TypeOK, buffers, control, procs
<1>5. Active' = Active
  BY <1>1, Zenon DEF Active, procs
<1>6. ControlInv'
  BY <1>1, <1>5, Zenon DEF Inv, ControlInv, control, procs
<1>7. ReserveInv'
  <2>1. Reserved' = Reserved
    BY <1>1, <1>5 DEF Reserved, procs
  <2> QED
    BY <1>1, <1>5, <2>1, Zenon DEF Inv, ReserveInv, Range1, procs
<1>8. HeadInv'
  BY <1>1, <1>5 DEF Inv, HeadInv
<1>9. BufferInv'
  BY <1>1, BufferSame, Zenon DEF Inv, buffers, procs
<1>10. CopyInv'
  <2>1. ASSUME NEW i \in 1..(tail' - 1) PROVE dlog'[i] = View(lh[i])
    BY <1>1, <1>2, <1>3, SMTT(30) DEF Inv, TypeOK, CopyInv
  <2> QED
    BY <1>1, <1>2, <1>3, <2>1 DEF CopyInv, View, buffers
<1> QED
  BY <1>4, <1>6, <1>7, <1>8, <1>9, <1>10 DEF Inv

LEMMA WriteHeadInv ==
  ASSUME Inv, WriteHead
  PROVE  Inv'
<1>1. /\ UNCHANGED <<disk, dlog, buffers, lh, control, recovering, panicked, procs>>
      /\ phase = "log" /\ tail > Len(lh)
      /\ head' = lh /\ phase' = "install" /\ tail' = 1
  BY Zenon DEF WriteHead
<1>2. committing /\ ~recovering
  BY <1>1, Zenon DEF Inv, ControlInv
<1>3. TypeOK'
  BY <1>1 DEF Inv, TypeOK, Phase, buffers, control, procs
<1>4. Active' = Active
  BY <1>1, Zenon DEF Active, procs
<1>5. ControlInv'
  BY <1>1, <1>2, <1>4, Zenon DEF Inv, ControlInv, control, procs
<1>6. ReserveInv'
  <2>1. Reserved' = Reserved
    BY <1>1, <1>4 DEF Reserved, procs
  <2> QED
    BY <1>1, <1>4, <2>1, Zenon DEF Inv, ReserveInv, Range1, procs
<1>7. HeadInv'
  BY <1>1 DEF Inv, HeadInv
<1>8. BufferInv'
  <2>1. dirty' = {lh'[i] : i \in tail'..Len(lh')}
    BY <1>1, <1>2, Zenon DEF Inv, BufferInv, Range1, buffers
  <2> QED
    BY <1>1, <1>2, <2>1 DEF Inv, BufferInv, Busy, View, buffers, procs
<1>9. CopyInv'
  <2>1. ASSUME NEW i \in 1..Len(lh) PROVE cache[lh[i]] = dlog[i]
    <3>1. lh[i] \in Block /\ lh[i] \in dirty
      BY <1>1, <1>2, Zenon DEF Inv, TypeOK, BufferInv, Range1
    <3>2. cache[lh[i]] = View(lh[i])
      BY <3>1 DEF Inv, BufferInv, View
    <3>3. i \in 1..(tail - 1)
      BY <1>1 DEF Inv, TypeOK
    <3> QED
      BY <1>1, <3>2, <3>3, Zenon DEF Inv, CopyInv
  <2>2. Len(lh) \in Nat /\ phase' = "install" /\ tail' = 1 /\ lh' = lh
    BY <1>1 DEF Inv, TypeOK
  <2>3. tail' <= Len(lh') + 1 /\ \A i \in 1..(tail' - 1) : FALSE
    BY <2>2
  <2>4. cache' = cache /\ dlog' = dlog
    BY <1>1, Zenon DEF buffers
  <2> QED
    BY <2>1, <2>2, <2>3, <2>4, Zenon DEF CopyInv
<1> QED
  BY <1>3, <1>5, <1>6, <1>7, <1>8, <1>9 DEF Inv

\* A commit or a recovery runs while nobody is in a call.
LEMMA Installing ==
  ASSUME Inv, phase = "install"
  PROVE  /\ Active = {} /\ head = lh
         /\ \A b \in Block : ~Busy(b)
<1>1. Active = {}
  BY Zenon DEF Inv, ControlInv, Active
<1>2. ASSUME NEW p \in Proc PROVE cur[p] = None
  BY <1>1, Zenon DEF Inv, BufferInv, Active
<1> QED
  BY <1>1, <1>2 DEF Inv, HeadInv, Busy

LEMMA InstallTransInv ==
  ASSUME Inv, InstallTrans
  PROVE  Inv'
<1>1. /\ UNCHANGED <<dlog, head, lh, control, phase, recovering, panicked, procs>>
      /\ phase = "install" /\ tail <= Len(lh)
      /\ disk' = [disk EXCEPT ![lh[tail]] = dlog[tail]]
      /\ cache' = [cache EXCEPT ![lh[tail]] = dlog[tail]]
      /\ dirty' = dirty \ {lh[tail]}
      /\ tail' = tail + 1
  BY Zenon DEF InstallTrans
<1>2. Len(lh) <= LOGSIZE /\ Len(lh) \in Nat
  BY Finite DEF Inv, TypeOK, ReserveInv
<1>3. tail \in 1..LOGSIZE /\ lh[tail] \in Block /\ dlog[tail] \in Val
  BY <1>1, <1>2 DEF Inv, TypeOK
<1>4. TypeOK'
  <2>1. tail' \in 1..(LOGSIZE + 1)
    BY <1>1, <1>3, Finite
  <2>2. disk' \in [Block -> Val] /\ cache' \in [Block -> Val \cup {None}]
    BY <1>1, <1>3, Zenon DEF Inv, TypeOK
  <2> QED
    BY <1>1, <2>1, <2>2, Zenon DEF Inv, TypeOK, control, procs
<1>5. Active' = Active
  BY <1>1, Zenon DEF Active, procs
<1>6. ControlInv'
  BY <1>1, <1>5, Zenon DEF Inv, ControlInv, control, procs
<1>7. ReserveInv'
  <2>1. Reserved' = Reserved
    BY <1>1, <1>5 DEF Reserved, procs
  <2> QED
    BY <1>1, <1>5, <2>1, Zenon DEF Inv, ReserveInv, Range1, procs
<1>8. HeadInv'
  BY <1>1, <1>5 DEF Inv, HeadInv
<1>9. ASSUME NEW i \in 1..Len(lh), i # tail PROVE lh[i] # lh[tail]
  BY <1>1, <1>3, <1>9 DEF Inv, HeadInv
<1>10. BufferInv'
  <2>1. ASSUME NEW x \in Block PROVE ~Busy(x)'
    BY <1>1, Installing, Zenon DEF Busy, procs
  <2>2. ASSUME NEW x \in Block PROVE x # lh[tail] => cache'[x] = cache[x] /\ disk'[x] = disk[x]
    BY <1>1, <1>3, Zenon DEF Inv, TypeOK
  <2>3. cache'[lh[tail]] = dlog[tail] /\ disk'[lh[tail]] = dlog[tail]
    BY <1>1, <1>3, Zenon DEF Inv, TypeOK
  <2>4. ASSUME NEW x \in Block
        PROVE  /\ x \in dirty' => cache'[x] # None
               /\ x \notin dirty' => View(x)' = disk'[x]
    BY <1>1, <1>3, <2>2, <2>3, Installing, Zenon DEF Inv, BufferInv, View
  <2>5. ASSUME ~recovering PROVE dirty' = {lh[i] : i \in (tail + 1)..Len(lh)}
    <3>1. dirty = {lh[i] : i \in tail..Len(lh)}
      BY <1>1, <2>5, Zenon DEF Inv, BufferInv
    <3> QED
      BY <1>1, <1>2, <1>3, <1>9, <3>1
  <2>6. recovering => dirty' = {}
    BY <1>1, Zenon DEF Inv, BufferInv
  <2>7. /\ (\A p \in Proc : cur[p] # None <=> pc[p] \in {"modified", "logging"})'
        /\ (\A p, q \in Proc : cur[p] = cur[q] /\ cur[p] # None => p = q)'
    BY <1>1, Zenon DEF Inv, BufferInv, procs
  <2>8. (\A x \in Block : x \in dirty \/ Busy(x) => cache[x] # None)'
    BY <2>1, <2>4, Zenon
  <2>9. (\A x \in Block : x \notin dirty /\ ~Busy(x) => View(x) = disk[x])'
    BY <2>4, Zenon
  <2>10. /\ (recovering => dirty = {})'
         /\ (phase = "install" /\ ~recovering => dirty = {lh[i] : i \in tail..Len(lh)})'
         /\ (phase # "install" /\ ~recovering => dirty = Range1(lh))'
    BY <1>1, <2>5, <2>6, Zenon
  <2> QED
    BY <2>7, <2>8, <2>9, <2>10, Zenon DEF BufferInv
<1>11. CopyInv'
  <2>1. tail' <= Len(lh') + 1
    BY <1>1, <1>2, <1>3
  <2>2. ASSUME NEW i \in 1..(tail' - 1) PROVE disk'[lh[i]] = dlog[i]
    <3>1. CASE i = tail
      BY <1>1, <1>3, <3>1, Zenon DEF Inv, TypeOK
    <3>2. CASE i # tail
      <4>1. i \in 1..(tail - 1) /\ i \in 1..Len(lh)
        BY <1>1, <1>2, <1>3, <3>2, SMTT(30)
      <4>2. lh[i] \in Block /\ lh[i] # lh[tail]
        BY <1>9, <3>2, <4>1, SMTT(30) DEF Inv, TypeOK
      <4> QED
        BY <1>1, <4>1, <4>2, Zenon DEF Inv, TypeOK, CopyInv
    <3> QED
      BY <3>1, <3>2, Zenon
  <2>3. ASSUME ~recovering, NEW i \in tail'..Len(lh) PROVE cache'[lh[i]] = dlog[i]
    <3>1. i \in tail..Len(lh) /\ i \in 1..Len(lh) /\ i # tail
      BY <1>1, <1>2, <1>3, SMTT(30)
    <3>2. lh[i] \in Block /\ lh[i] # lh[tail]
      BY <1>9, <3>1, SMTT(30) DEF Inv, TypeOK
    <3> QED
      BY <1>1, <2>3, <3>1, <3>2, Zenon DEF Inv, TypeOK, CopyInv
  <2> QED
    BY <1>1, <2>1, <2>2, <2>3, Zenon DEF CopyInv
<1> QED
  BY <1>4, <1>6, <1>7, <1>8, <1>10, <1>11 DEF Inv

\* Once everything is installed no buffer differs from the disk.
LEMMA Installed ==
  ASSUME Inv, phase = "install", tail > Len(lh)
  PROVE  /\ dirty = {}
         /\ \A b \in Block : View(b) = disk[b]
         /\ \A i \in 1..Len(lh) : disk[lh[i]] = dlog[i]
<1>1. dirty = {}
  <2>1. tail \in Nat /\ Len(lh) \in Nat
    BY DEF Inv, TypeOK
  <2>2. \A i \in tail..Len(lh) : FALSE
    BY <2>1
  <2> QED
    BY <2>2, Zenon DEF Inv, BufferInv
<1>2. \A i \in 1..Len(lh) : i \in 1..(tail - 1)
  BY DEF Inv, TypeOK
<1> QED
  BY <1>1, <1>2, Installing, Zenon DEF Inv, BufferInv, CopyInv

LEMMA ClearHeadInv ==
  ASSUME Inv, ClearHead
  PROVE  Inv'
<1>1. /\ UNCHANGED <<disk, dlog, buffers, control, panicked, procs>>
      /\ phase = "install" /\ tail > Len(lh)
      /\ lh' = <<>> /\ head' = <<>> /\ tail' = 1 /\ recovering' = FALSE
      /\ phase' = IF recovering THEN "none" ELSE "finish"
  BY DEF ClearHead
<1>2. Active = {} /\ Active' = {} /\ Reserved' = {} /\ Range1(lh') = {}
  BY <1>1, Installing DEF Active, Reserved, Range1, procs
<1>3. TypeOK'
  <2>1. lh' \in Seq(Block) /\ head' \in Seq(Block)
    BY <1>1
  <2>2. phase' \in Phase
    BY <1>1 DEF Phase
  <2>3. tail' \in 1..(LOGSIZE + 1)
    BY <1>1
  <2>4. recovering' \in BOOLEAN
    BY <1>1, Zenon
  <2> QED
    BY <1>1, <2>1, <2>2, <2>3, <2>4, Zenon DEF Inv, TypeOK, buffers, control, procs
<1>4. ControlInv'
  BY <1>1, <1>2 DEF Inv, ControlInv, control, procs
<1>5. ReserveInv'
  <2>1. Len(lh') = 0 /\ Cardinality(Reserved') = 0
    BY <1>1, <1>2, FS_EmptySet
  <2>2. Len(lh') + Cardinality(Reserved') <= LOGSIZE
    BY <2>1, Finite
  <2> QED
    BY <1>2, <2>2, Zenon DEF ReserveInv
<1>6. HeadInv'
  BY <1>1 DEF Inv, HeadInv
<1>7. BufferInv'
  BY <1>1, <1>2, Installed, Installing, Zenon DEF Inv, BufferInv, Busy, View, buffers, procs
<1>8. CopyInv'
  BY <1>1 DEF CopyInv
<1> QED
  BY <1>3, <1>4, <1>5, <1>6, <1>7, <1>8 DEF Inv

LEMMA CrashInv ==
  ASSUME Inv, Crash
  PROVE  Inv'
<1>1. Active' = {} /\ Reserved' = {} /\ Range1(lh') = {}
  BY DEF Crash, Active, Reserved, Range1
<1>2. TypeOK'
  <2>1. lh' \in Seq(Block)
    BY DEF Crash
  <2>2. cache' \in [Block -> Val \cup {None}] /\ dirty' \in SUBSET Block
    BY DEF Crash
  <2>3. phase' \in Phase /\ tail' \in 1..(LOGSIZE + 1) /\ outstanding' \in Nat
    BY DEF Crash, Phase
  <2>4. /\ recovering' \in BOOLEAN /\ panicked' \in BOOLEAN
        /\ committing' \in BOOLEAN
    BY Zenon DEF Crash
  <2>5. /\ pc' \in [Proc -> Label] /\ cur' \in [Proc -> Block \cup {None}]
        /\ wrote' \in [Proc -> SUBSET Block]
    BY DEF Crash, Label
  <2> QED
    BY <2>1, <2>2, <2>3, <2>4, <2>5, Zenon DEF Crash, Inv, TypeOK, stable
<1>3. ControlInv'
  BY <1>1, FS_EmptySet DEF Crash, ControlInv
<1>4. ReserveInv'
  BY <1>1, FS_EmptySet DEF Crash, ReserveInv
<1>5. Len(head) <= LOGSIZE
  <2>1. Len(lh) <= LOGSIZE
    BY Finite DEF Inv, TypeOK, ReserveInv
  <2> QED
    BY <2>1 DEF Inv, TypeOK, Phase, HeadInv
<1>6. HeadInv'
  BY <1>5 DEF Crash, Inv, HeadInv, stable
<1>7. BufferInv' /\ CopyInv'
  BY Zenon DEF Crash, BufferInv, CopyInv, Busy, View
<1> QED
  BY <1>2, <1>3, <1>4, <1>6, <1>7, Zenon DEF Inv

LEMMA ReadHeadInv ==
  ASSUME Inv, ReadHead
  PROVE  Inv'
<1>1. /\ UNCHANGED <<stable, buffers, control, tail, recovering, panicked, procs>>
      /\ phase = "readhead" /\ phase' = "install" /\ lh' = head
  BY Zenon DEF ReadHead
<1>2. recovering /\ tail = 1 /\ Len(head) <= LOGSIZE
  BY <1>1, Zenon DEF Inv, ControlInv, HeadInv
<1>3. Active' = {} /\ Active = {} /\ Reserved' = {}
  BY <1>1, <1>2, Zenon DEF Inv, ControlInv, Active, Reserved, procs
<1>4. TypeOK'
  BY <1>1, Zenon DEF Inv, TypeOK, Phase, stable, buffers, control, procs
<1>5. ControlInv'
  BY <1>1, <1>2, <1>3, Zenon DEF Inv, ControlInv, control, procs
<1>6. ReserveInv'
  <2>1. Len(lh') + Cardinality(Reserved') <= LOGSIZE
    <3>1. Cardinality(Reserved') = 0
      BY <1>3, FS_EmptySet
    <3>2. lh' = head /\ Len(head) \in Nat /\ Len(head) <= LOGSIZE
      BY <1>1, <1>2 DEF Inv, TypeOK
    <3> QED
      BY <3>1, <3>2
  <2> QED
    BY <1>3, <2>1, Zenon DEF ReserveInv
<1>7. HeadInv'
  BY <1>1 DEF Inv, HeadInv, stable
<1>8. BufferInv'
  BY <1>1, <1>2, Zenon DEF Inv, BufferInv, Busy, View, stable, buffers, procs
<1>9. CopyInv'
  <2>1. tail' = 1 /\ Len(lh') \in Nat
    BY <1>1, <1>2 DEF Inv, TypeOK
  <2>2. tail' <= Len(lh') + 1 /\ 1..(tail' - 1) = {}
    BY <2>1
  <2> QED
    BY <1>1, <1>2, <2>2, Zenon DEF CopyInv
<1> QED
  BY <1>4, <1>5, <1>6, <1>7, <1>8, <1>9 DEF Inv

LEMMA StutterInv ==
  ASSUME Inv, UNCHANGED vars
  PROVE  Inv'
<1> USE DEF vars, stable, buffers, control, commitvars, procs
<1>1. TypeOK' /\ Active' = Active /\ Reserved' = Reserved
  BY Zenon DEF Inv, TypeOK, Active, Reserved
<1>2. ControlInv' /\ HeadInv'
  <2>1. ControlInv'
    BY <1>1, Zenon DEF Inv, ControlInv
  <2>2. HeadInv'
    <3>1. UNCHANGED <<phase, head, lh, tail>>
      BY Zenon
    <3> HIDE DEF vars, stable, buffers, control, commitvars, procs
    <3>2. HeadInv /\ Active' = Active
      BY <1>1, Zenon DEF Inv
    <3> QED
      BY <3>1, <3>2 DEF HeadInv
  <2> QED
    BY <2>1, <2>2, Zenon
<1>3. ReserveInv'
  BY <1>1, Zenon DEF Inv, ReserveInv, Range1
<1>4. BufferInv' /\ CopyInv'
  <2>1. BufferInv'
    BY BufferSame, Zenon DEF Inv
  <2> QED
    BY <2>1, Zenon DEF Inv, CopyInv, View
<1> QED
  BY <1>1, <1>2, <1>3, <1>4, Zenon DEF Inv

\* Every step of begin_op, log_write, end_op, commit, the buffer cache, a
\* crash and recovery preserves the invariant.
LEMMA NextInv == Inv /\ [Next]_vars => Inv'
<1> SUFFICES ASSUME Inv, [Next]_vars PROVE Inv'
  OBVIOUS
<1>1. CASE \E p \in Proc : Call(p) \/ BeginSleep(p) \/ LogCheck(p)
  BY <1>1, CallInv
<1>2. CASE \E p \in Proc : BeginOp(p) \/ LogWrite(p)
  BY <1>2, BeginOpInv, LogWriteInv
<1>3. CASE \E p \in Proc, b \in Block, v \in Val : Modify(p, b, v)
  BY <1>3, ModifyInv
<1>4. CASE \E p \in Proc : EndOp(p) \/ EndOpCommit(p) \/ CommitDone(p)
  BY <1>4, EndOpInv, EndOpCommitInv, CommitDoneInv
<1>5. CASE \E b \in Block : Load(b) \/ Evict(b)
  BY <1>5, BufferStepInv
<1>6. CASE DiskStep
  BY <1>6, WriteLogInv, WriteHeadInv, InstallTransInv, ClearHeadInv, ReadHeadInv
     DEF DiskStep
<1>7. CASE Crash
  BY <1>7, CrashInv
<1>8. CASE UNCHANGED vars
  BY <1>8, StutterInv
<1> QED
  BY <1>1, <1>2, <1>3, <1>4, <1>5, <1>6, <1>7, <1>8 DEF Next

\* Inv holds throughout every run of log.c: for any number of processes, any
\* sizes, and crashes anywhere, in recovery too.
THEOREM LogInvariance == Spec => []Inv
<1> QED
  BY InitInv, NextInv, PTL DEF Spec

\* A call with a block that is not in the header has a slot reserved for it, so
\* that log_write finds room.
LEMMA RoomForNewBlock ==
  ASSUME Inv, NEW p \in Proc, pc[p] = "modified", cur[p] \notin Range1(lh)
  PROVE  Len(lh) < LOGSIZE /\ outstanding >= 1
<1>1. p \in Active
  BY DEF Active
<1>2. /\ IsFiniteSet(wrote[p]) /\ wrote[p] \subseteq Range1(lh)
      /\ Cardinality(wrote[p] \cup {cur[p]}) <= MAXOPBLOCKS
      /\ Cardinality(wrote[p]) \in Nat
  BY <1>1, FS_CardinalityType, Zenon DEF Inv, ReserveInv
<1>3. Cardinality(wrote[p] \cup {cur[p]}) = Cardinality(wrote[p]) + 1
  <2>1. cur[p] \notin wrote[p]
    BY <1>2
  <2> QED
    BY <1>2, <2>1, FS_AddElement, Zenon
<1>4. <<p, Cardinality(wrote[p]) + 1>> \in Reserved
  BY <1>1, <1>2, <1>3, SizeAssumption DEF Reserved
<1>5. Cardinality(Reserved) # 0
  BY <1>4, Finite, FS_EmptySet, Zenon
<1>6. Cardinality(Active) # 0
  BY <1>1, Finite, FS_EmptySet, Zenon
<1> QED
  BY <1>5, <1>6, Finite DEF Inv, TypeOK, ReserveInv, ControlInv

\* begin_op's reservation is enough: the header never overflows, however many
\* calls log_write at the same time, and none of them panics over a block that
\* is not in the header yet.
THEOREM LogNeverOverflows == Spec => []LogFits
<1>1. Inv => Len(lh) <= LOGSIZE
  BY Finite DEF Inv, TypeOK, ReserveInv
<1>2. Init => LogFits
  BY <1>1, InitInv DEF Init, LogFits
<1>3. Inv /\ Inv' /\ LogFits /\ [Next]_vars => LogFits'
  <2> SUFFICES ASSUME Inv, Inv', LogFits, [Next]_vars PROVE LogFits'
    OBVIOUS
  <2>1. Len(lh') <= LOGSIZE
    <3>1. lh' \in Seq(Block) /\ Len(lh') + Cardinality(Reserved') <= LOGSIZE
      BY Zenon DEF Inv, TypeOK, ReserveInv
    <3> QED
      BY <3>1, FiniteNext, SizeAssumption
  <2> SUFFICES ASSUME panicked', LOGSIZE < NLOG
               PROVE  \E p \in Proc : pc'[p] = "modified" /\ cur'[p] \in Range1(lh')
    BY <2>1, Zenon DEF LogFits
  <2>2. CASE panicked
    <3>1. CASE Next
      BY <2>2, <3>1, Zenon DEF Next, DiskStep, Call, BeginSleep, BeginOp, Modify,
         LogCheck, LogWrite, EndOp, EndOpCommit, CommitDone, Load, Evict, WriteLog,
         WriteHead, InstallTrans, ClearHead, ReadHead, Crash, At
    <3>2. CASE UNCHANGED <<pc, cur, lh>>
      BY <2>2, <3>2, Zenon DEF LogFits, Range1
    <3>3. UNCHANGED vars => UNCHANGED <<pc, cur, lh>>
      BY DEF vars, procs
    <3> QED
      BY <3>1, <3>2, <3>3, Zenon
  <2>3. CASE ~panicked
    <3>1. PICK p \in Proc : LogCheck(p)
      <4>1. UNCHANGED vars => ~panicked'
        BY <2>3 DEF vars
      <4> QED
        BY <2>3, <4>1, Zenon DEF Next, DiskStep, Call, BeginSleep, BeginOp, Modify,
           LogWrite, EndOp, EndOpCommit, CommitDone, Load, Evict, WriteLog, WriteHead,
           InstallTrans, ClearHead, ReadHead, Crash, procs, commitvars, control, buffers
    <3>2. /\ pc[p] = "modified" /\ UNCHANGED <<pc, cur, lh>>
          /\ TooBig \/ outstanding < 1
      BY <2>3, <3>1, Zenon DEF LogCheck, At
    <3>3. cur[p] \in Range1(lh)
      BY <3>2, RoomForNewBlock, SizeAssumption DEF TooBig, Inv, TypeOK
    <3> QED
      BY <3>2, <3>3 DEF Range1
  <2> QED
    BY <2>2, <2>3
<1> QED
  BY <1>2, <1>3, LogInvariance, PTL DEF Spec

\* When no call is open and no commit is running, the header on disk is clear
\* and every block reads as it is on disk.
THEOREM LogQuiescent == Spec => []QuiescentDurable
<1>1. Inv => QuiescentDurable
  <2> SUFFICES ASSUME Inv, ~recovering, outstanding = 0, ~committing
               PROVE  head = <<>> /\ dirty = {} /\ \A b \in Block : View(b) = disk[b]
    BY DEF QuiescentDurable
  <2>1. Active = {}
    BY Finite, FS_EmptySet, Zenon DEF Inv, ControlInv
  <2>2. phase = "none"
    BY DEF Inv, TypeOK, Phase, ControlInv
  <2>3. head = <<>> /\ lh = <<>>
    BY <2>1, <2>2 DEF Inv, HeadInv
  <2>4. dirty = {}
    <3>1. dirty = Range1(lh)
      BY <2>2, Zenon DEF Inv, BufferInv
    <3> QED
      BY <2>3, <3>1 DEF Range1
  <2>5. \A b \in Block : ~Busy(b)
    <3>1. ASSUME NEW p \in Proc PROVE cur[p] = None
      BY <2>1, Zenon DEF Inv, BufferInv, Active
    <3> QED
      BY <3>1, Zenon DEF Busy
  <2> QED
    BY <2>3, <2>4, <2>5, Zenon DEF Inv, BufferInv
<1> QED
  BY <1>1, LogInvariance, PTL
=============================================================================
