-------------------------- MODULE SleepLockProofs --------------------------
(* Proofs about SleepLock, for any set of processes. *)
EXTENDS SleepLock, TLAPS

\* Nobody holds or waits for the lock at first, so the invariant holds.
LEMMA InitInv == Init => Inv
BY NoProcAssumption
   DEF Init, Inv, TypeOK, Label, SpinInv, StateInv, HoldInv, WakeInv

\* Every step of the sleep lock, of sleep() and of wakeup() preserves it.
LEMMA NextInv == Inv /\ [Next]_vars => Inv'
<1> SUFFICES ASSUME Inv, [Next]_vars PROVE Inv'
  OBVIOUS
<1> USE NoProcAssumption
<1>1. CASE UNCHANGED vars
  BY <1>1 DEF Inv, TypeOK, SpinInv, StateInv, HoldInv, WakeInv, vars
<1>2. ASSUME NEW p \in Proc, Call(p) PROVE Inv'
  <2>1. TypeOK'
    BY <1>2 DEF Inv, TypeOK, Label, Call, At, Goto
  <2>2. SpinInv'
    BY <1>2 DEF Inv, TypeOK, SpinInv, Call, At, Goto
  <2>3. StateInv'
    BY <1>2 DEF Inv, TypeOK, StateInv, Call, At, Goto
  <2>4. HoldInv'
    BY <1>2 DEF Inv, TypeOK, SpinInv, HoldInv, Call, At, Goto
  <2>5. WakeInv'
    BY <1>2 DEF Inv, TypeOK, SpinInv, StateInv, HoldInv, WakeInv, Call, At,
       Goto
  <2> QED
    BY <2>1, <2>2, <2>3, <2>4, <2>5 DEF Inv
<1>3. ASSUME NEW p \in Proc, AcquireLk(p) PROVE Inv'
  <2>1. TypeOK'
    BY <1>3 DEF Inv, TypeOK, Label, AcquireLk, At, Goto
  <2>2. SpinInv'
    BY <1>3 DEF Inv, TypeOK, SpinInv, AcquireLk, At, Goto
  <2>3. StateInv'
    BY <1>3 DEF Inv, TypeOK, StateInv, AcquireLk, At, Goto
  <2>4. HoldInv'
    BY <1>3 DEF Inv, TypeOK, SpinInv, HoldInv, AcquireLk, At, Goto
  <2>5. WakeInv'
    BY <1>3 DEF Inv, TypeOK, SpinInv, StateInv, HoldInv, WakeInv,
       AcquireLk, At, Goto
  <2> QED
    BY <2>1, <2>2, <2>3, <2>4, <2>5 DEF Inv
<1>4. ASSUME NEW p \in Proc, MustSleep(p) PROVE Inv'
  <2>1. TypeOK'
    BY <1>4 DEF Inv, TypeOK, Label, MustSleep, At, Goto
  <2>2. SpinInv'
    BY <1>4 DEF Inv, TypeOK, SpinInv, MustSleep, At, Goto
  <2>3. StateInv'
    BY <1>4 DEF Inv, TypeOK, StateInv, MustSleep, At, Goto
  <2>4. HoldInv'
    BY <1>4 DEF Inv, TypeOK, SpinInv, HoldInv, MustSleep, At, Goto
  <2>5. WakeInv'
    BY <1>4 DEF Inv, TypeOK, SpinInv, StateInv, HoldInv, WakeInv,
       MustSleep, At, Goto
  <2> QED
    BY <2>1, <2>2, <2>3, <2>4, <2>5 DEF Inv
<1>5. ASSUME NEW p \in Proc, Take(p) PROVE Inv'
  <2>1. TypeOK'
    BY <1>5 DEF Inv, TypeOK, Label, Take, At, Goto
  <2>2. SpinInv'
    BY <1>5 DEF Inv, TypeOK, SpinInv, Take, At, Goto
  <2>3. StateInv'
    BY <1>5 DEF Inv, TypeOK, StateInv, Take, At, Goto
  <2>4. HoldInv'
    BY <1>5 DEF Inv, TypeOK, SpinInv, HoldInv, Take, At, Goto
  <2>5. WakeInv'
    BY <1>5 DEF Inv, TypeOK, SpinInv, StateInv, HoldInv, WakeInv, Take, At,
       Goto
  <2> QED
    BY <2>1, <2>2, <2>3, <2>4, <2>5 DEF Inv
<1>6. ASSUME NEW p \in Proc, SleepAcquire(p) PROVE Inv'
  <2>1. TypeOK'
    BY <1>6 DEF Inv, TypeOK, Label, SleepAcquire, At, Goto
  <2>2. SpinInv'
    BY <1>6 DEF Inv, TypeOK, SpinInv, SleepAcquire, At, Goto
  <2>3. StateInv'
    BY <1>6 DEF Inv, TypeOK, StateInv, SleepAcquire, At, Goto
  <2>4. HoldInv'
    BY <1>6 DEF Inv, TypeOK, SpinInv, HoldInv, SleepAcquire, At, Goto
  <2>5. WakeInv'
    BY <1>6 DEF Inv, TypeOK, SpinInv, StateInv, HoldInv, WakeInv,
       SleepAcquire, At, Goto
  <2> QED
    BY <2>1, <2>2, <2>3, <2>4, <2>5 DEF Inv
<1>7. ASSUME NEW p \in Proc, SleepUnlock(p) PROVE Inv'
  <2>1. TypeOK'
    BY <1>7 DEF Inv, TypeOK, Label, SleepUnlock, At, Goto
  <2>2. SpinInv'
    BY <1>7 DEF Inv, TypeOK, SpinInv, SleepUnlock, At, Goto
  <2>3. StateInv'
    BY <1>7 DEF Inv, TypeOK, StateInv, SleepUnlock, At, Goto
  <2>4. HoldInv'
    BY <1>7 DEF Inv, TypeOK, SpinInv, HoldInv, SleepUnlock, At, Goto
  <2>5. WakeInv'
    BY <1>7 DEF Inv, TypeOK, SpinInv, StateInv, HoldInv, WakeInv,
       SleepUnlock, At, Goto
  <2> QED
    BY <2>1, <2>2, <2>3, <2>4, <2>5 DEF Inv
<1>8. ASSUME NEW p \in Proc, Doze(p) PROVE Inv'
  <2>1. TypeOK'
    BY <1>8 DEF Inv, TypeOK, Label, Doze, At, Goto
  <2>2. SpinInv'
    BY <1>8 DEF Inv, TypeOK, SpinInv, Doze, At, Goto
  <2>3. StateInv'
    BY <1>8 DEF Inv, TypeOK, StateInv, Doze, At, Goto
  <2>4. HoldInv'
    BY <1>8 DEF Inv, TypeOK, SpinInv, HoldInv, Doze, At, Goto
  <2>5. WakeInv'
    BY <1>8 DEF Inv, TypeOK, SpinInv, StateInv, HoldInv, WakeInv, Doze, At,
       Goto
  <2> QED
    BY <2>1, <2>2, <2>3, <2>4, <2>5 DEF Inv
<1>9. ASSUME NEW p \in Proc, Sched(p) PROVE Inv'
  <2>1. TypeOK'
    BY <1>9 DEF Inv, TypeOK, Label, Sched, At, Goto
  <2>2. SpinInv'
    BY <1>9 DEF Inv, TypeOK, SpinInv, Sched, At, Goto
  <2>3. StateInv'
    BY <1>9 DEF Inv, TypeOK, StateInv, Sched, At, Goto
  <2>4. HoldInv'
    BY <1>9 DEF Inv, TypeOK, SpinInv, HoldInv, Sched, At, Goto
  <2>5. WakeInv'
    BY <1>9 DEF Inv, TypeOK, SpinInv, StateInv, HoldInv, WakeInv, Sched,
       At, Goto
  <2> QED
    BY <2>1, <2>2, <2>3, <2>4, <2>5 DEF Inv
<1>10. ASSUME NEW p \in Proc, Resume(p) PROVE Inv'
  <2>1. TypeOK'
    BY <1>10 DEF Inv, TypeOK, Label, Resume, At, Goto
  <2>2. SpinInv'
    BY <1>10 DEF Inv, TypeOK, SpinInv, Resume, At, Goto
  <2>3. StateInv'
    BY <1>10 DEF Inv, TypeOK, StateInv, Resume, At, Goto
  <2>4. HoldInv'
    BY <1>10 DEF Inv, TypeOK, SpinInv, HoldInv, Resume, At, Goto
  <2>5. WakeInv'
    BY <1>10 DEF Inv, TypeOK, SpinInv, StateInv, HoldInv, WakeInv, Resume,
       At, Goto
  <2> QED
    BY <2>1, <2>2, <2>3, <2>4, <2>5 DEF Inv
<1>11. ASSUME NEW p \in Proc, Awake(p) PROVE Inv'
  <2>1. TypeOK'
    BY <1>11 DEF Inv, TypeOK, Label, Awake, At, Goto
  <2>2. SpinInv'
    BY <1>11 DEF Inv, TypeOK, SpinInv, Awake, At, Goto
  <2>3. StateInv'
    BY <1>11 DEF Inv, TypeOK, StateInv, Awake, At, Goto
  <2>4. HoldInv'
    BY <1>11 DEF Inv, TypeOK, SpinInv, HoldInv, Awake, At, Goto
  <2>5. WakeInv'
    BY <1>11 DEF Inv, TypeOK, SpinInv, StateInv, HoldInv, WakeInv, Awake,
       At, Goto
  <2> QED
    BY <2>1, <2>2, <2>3, <2>4, <2>5 DEF Inv
<1>12. ASSUME NEW p \in Proc, CallRelease(p) PROVE Inv'
  <2>1. TypeOK'
    BY <1>12 DEF Inv, TypeOK, Label, CallRelease, At, Goto
  <2>2. SpinInv'
    BY <1>12 DEF Inv, TypeOK, SpinInv, CallRelease, At, Goto
  <2>3. StateInv'
    BY <1>12 DEF Inv, TypeOK, StateInv, CallRelease, At, Goto
  <2>4. HoldInv'
    BY <1>12 DEF Inv, TypeOK, SpinInv, HoldInv, CallRelease, At, Goto
  <2>5. WakeInv'
    BY <1>12 DEF Inv, TypeOK, SpinInv, StateInv, HoldInv, WakeInv,
       CallRelease, At, Goto
  <2> QED
    BY <2>1, <2>2, <2>3, <2>4, <2>5 DEF Inv
<1>13. ASSUME NEW p \in Proc, Drop(p) PROVE Inv'
  <2>1. TypeOK'
    BY <1>13 DEF Inv, TypeOK, Label, Drop, At, Goto
  <2>2. SpinInv'
    BY <1>13 DEF Inv, TypeOK, SpinInv, Drop, At, Goto
  <2>3. StateInv'
    BY <1>13 DEF Inv, TypeOK, StateInv, Drop, At, Goto
  <2>4. HoldInv'
    BY <1>13 DEF Inv, TypeOK, SpinInv, HoldInv, Drop, At, Goto
  <2>5. WakeInv'
    BY <1>13 DEF Inv, TypeOK, SpinInv, StateInv, HoldInv, WakeInv, Drop,
       At, Goto
  <2> QED
    BY <2>1, <2>2, <2>3, <2>4, <2>5 DEF Inv
<1>14. ASSUME NEW p \in Proc, WakeupAcquire(p) PROVE Inv'
  <2>1. TypeOK'
    BY <1>14 DEF Inv, TypeOK, Label, WakeupAcquire, At, Goto
  <2>2. SpinInv'
    BY <1>14 DEF Inv, TypeOK, SpinInv, WakeupAcquire, At, Goto
  <2>3. StateInv'
    BY <1>14 DEF Inv, TypeOK, StateInv, WakeupAcquire, At, Goto
  <2>4. HoldInv'
    BY <1>14 DEF Inv, TypeOK, SpinInv, HoldInv, WakeupAcquire, At, Goto
  <2>5. WakeInv'
    BY <1>14 DEF Inv, TypeOK, SpinInv, StateInv, HoldInv, WakeInv,
       WakeupAcquire, At, Goto
  <2> QED
    BY <2>1, <2>2, <2>3, <2>4, <2>5 DEF Inv
<1>15. ASSUME NEW p \in Proc, Wakeup1(p) PROVE Inv'
  <2>1. TypeOK'
    BY <1>15 DEF Inv, TypeOK, Label, Wakeup1, At, Goto
  <2>2. SpinInv'
    BY <1>15 DEF Inv, TypeOK, SpinInv, Wakeup1, At, Goto
  <2>3. StateInv'
    BY <1>15 DEF Inv, TypeOK, SpinInv, StateInv, Wakeup1, At, Goto
  <2>4. HoldInv'
    BY <1>15 DEF Inv, TypeOK, SpinInv, HoldInv, Wakeup1, At, Goto
  <2>5. WakeInv'
    BY <1>15 DEF Inv, TypeOK, SpinInv, StateInv, HoldInv, WakeInv, Wakeup1,
       At, Goto
  <2> QED
    BY <2>1, <2>2, <2>3, <2>4, <2>5 DEF Inv
<1>16. ASSUME NEW p \in Proc, Leave(p) PROVE Inv'
  <2>1. TypeOK'
    BY <1>16 DEF Inv, TypeOK, Label, Leave, At, Goto
  <2>2. SpinInv'
    BY <1>16 DEF Inv, TypeOK, SpinInv, Leave, At, Goto
  <2>3. StateInv'
    BY <1>16 DEF Inv, TypeOK, StateInv, Leave, At, Goto
  <2>4. HoldInv'
    BY <1>16 DEF Inv, TypeOK, SpinInv, HoldInv, Leave, At, Goto
  <2>5. WakeInv'
    BY <1>16 DEF Inv, TypeOK, SpinInv, StateInv, HoldInv, WakeInv, Leave,
       At, Goto
  <2> QED
    BY <2>1, <2>2, <2>3, <2>4, <2>5 DEF Inv
<1>17. ASSUME NEW p \in Proc, Kill(p) PROVE Inv'
  <2>1. TypeOK'
    BY <1>17 DEF Inv, TypeOK, Label, Kill
  <2>2. SpinInv'
    BY <1>17 DEF Inv, TypeOK, SpinInv, Kill
  <2>3. StateInv'
    BY <1>17 DEF Inv, TypeOK, SpinInv, StateInv, Kill
  <2>4. HoldInv'
    BY <1>17 DEF Inv, TypeOK, SpinInv, HoldInv, Kill
  <2>5. WakeInv'
    BY <1>17 DEF Inv, TypeOK, SpinInv, StateInv, HoldInv, WakeInv, Kill
  <2> QED
    BY <2>1, <2>2, <2>3, <2>4, <2>5 DEF Inv
<1> QED
  BY <1>1, <1>2, <1>3, <1>4, <1>5, <1>6, <1>7, <1>8, <1>9, <1>10, <1>11,
     <1>12, <1>13, <1>14, <1>15, <1>16, <1>17 DEF Next, Step

\* The inductive invariant of acquiresleep, releasesleep, sleep and wakeup
\* holds in every reachable state.
THEOREM Invariance == Spec => []Inv
<1> QED
  BY InitInv, NextInv, PTL DEF Spec

\* acquiresleep lets one process in at a time.
THEOREM SleepLockMutualExclusion == Spec => []MutualExclusion
<1>1. Inv => MutualExclusion
  BY DEF Inv, HoldInv, MutualExclusion, Holding
<1> QED
  BY <1>1, Invariance, PTL

\* sleep() and wakeup() lose no wakeup of a sleep lock.
THEOREM SleepLockNoLostWakeup == Spec => []NoLostWakeup
<1>1. Inv => NoLostWakeup
  BY DEF Inv, WakeInv, NoLostWakeup
<1> QED
  BY <1>1, Invariance, PTL

\* The sleep lock implements the mutex its callers rely on.
THEOREM SleepLockImplementsMutex == Spec => ImplementsMutex
<1> DEFINE own == IF locked THEN lpid ELSE NoProc
<1>1. Init => M!Init
  BY DEF Init, M!Init
<1>2. Inv /\ [Next]_vars => [M!Next]_own
  <2> SUFFICES ASSUME Inv, [Next]_vars PROVE M!Next \/ own' = own
    OBVIOUS
  <2> USE NoProcAssumption
  <2>1. CASE UNCHANGED vars
    BY <2>1 DEF vars
  <2>2. ASSUME NEW p \in Proc, Take(p) PROVE M!Acquire(p)
    BY <2>2 DEF Take, M!Acquire
  <2>3. ASSUME NEW p \in Proc, Drop(p) PROVE M!Release(p)
    BY <2>3 DEF Drop, At, Inv, HoldInv, M!Release
  <2>4. ASSUME NEW p \in Proc, Call(p) \/ Step(p) \/ Kill(p), ~Take(p), ~Drop(p)
        PROVE  own' = own
    BY <2>4 DEF Call, Step, Kill, AcquireLk, MustSleep, SleepAcquire,
       SleepUnlock, Doze, Sched, Resume, Awake, CallRelease, WakeupAcquire,
       Wakeup1, Leave
  <2> QED
    BY <2>1, <2>2, <2>3, <2>4 DEF Next, M!Next
<1> QED
  BY <1>1, <1>2, Invariance, PTL DEF Spec, ImplementsMutex, M!Spec
=============================================================================
