----------------------------- MODULE SleepLock -----------------------------
(***************************************************************************)
(* One sleep lock (sync/sleeplock.c) used by a set of processes, down to   *)
(* the two spin locks that sleep() and wakeup() (core/proc.c) juggle: the  *)
(* lock's own lk->lk and ptable.lock.                                      *)
(*                                                                         *)
(* A spin lock is a variable that holds its owner or NoProc; a step that   *)
(* acquires it waits for NoProc.  The scheduler is reduced to what the     *)
(* lock protocol sees of it (module Proc has the rest): sched() leaves     *)
(* ptable.lock to the scheduler, which releases it, and a RUNNABLE process *)
(* is resumed with ptable.lock held on its behalf.                         *)
(***************************************************************************)
CONSTANTS Proc, NoProc

ASSUME NoProcAssumption == NoProc \notin Proc

VARIABLES
  locked,   \* lk->locked
  lpid,     \* lk->pid
  lk,       \* owner of the spin lock lk->lk
  plock,    \* owner of ptable.lock
  state,    \* p->state
  chan,     \* p->chan: is it this lock?
  pc        \* where each process is

vars == <<locked, lpid, lk, plock, state, chan, pc>>

Label == {"idle", "enter", "test", "sleep", "unlock", "doze", "sched",
          "asleep", "awake", "held", "drop", "wakeup", "wakeup1", "leave"}

TypeOK ==
  /\ locked \in BOOLEAN
  /\ lpid \in Proc \cup {NoProc}
  /\ lk \in Proc \cup {NoProc}
  /\ plock \in Proc \cup {NoProc}
  /\ state \in [Proc -> {"RUNNABLE", "RUNNING", "SLEEPING"}]
  /\ chan \in [Proc -> BOOLEAN]
  /\ pc \in [Proc -> Label]

Init ==
  /\ locked = FALSE
  /\ lpid = NoProc
  /\ lk = NoProc
  /\ plock = NoProc
  /\ state = [p \in Proc |-> "RUNNING"]
  /\ chan = [p \in Proc |-> FALSE]
  /\ pc = [p \in Proc |-> "idle"]

At(p, l) == pc[p] = l /\ state[p] = "RUNNING"

Goto(p, l) == pc' = [pc EXCEPT ![p] = l]

(***************************************************************************)
(* acquiresleep                                                            *)
(***************************************************************************)
Call(p) ==
  /\ At(p, "idle")
  /\ Goto(p, "enter")
  /\ UNCHANGED <<locked, lpid, lk, plock, state, chan>>

\* acquire(&lk->lk), at the entry and again at the end of sleep().
AcquireLk(p) ==
  /\ At(p, "enter")
  /\ lk = NoProc
  /\ lk' = p
  /\ Goto(p, "test")
  /\ UNCHANGED <<locked, lpid, plock, state, chan>>

\* The loop condition found the lock taken: call sleep(lk, &lk->lk).
MustSleep(p) ==
  /\ At(p, "test")
  /\ locked
  /\ Goto(p, "sleep")
  /\ UNCHANGED <<locked, lpid, lk, plock, state, chan>>

\* lk->locked = 1; lk->pid = myproc()->pid; release(&lk->lk).
MutTake(p) ==
  /\ At(p, "test")
  /\ locked' = TRUE
  /\ lpid' = p
  /\ lk' = NoProc
  /\ Goto(p, "held")
  /\ UNCHANGED <<plock, state, chan>>

Take(p) ==
  /\ At(p, "test")
  /\ ~locked
  /\ locked' = TRUE
  /\ lpid' = p
  /\ lk' = NoProc
  /\ Goto(p, "held")
  /\ UNCHANGED <<plock, state, chan>>

(***************************************************************************)
(* sleep                                                                   *)
(***************************************************************************)
\* The wrong order: give lk up before ptable.lock is held.
MutSleepAcquire(p) ==
  /\ At(p, "sleep")
  /\ IF lk = p
       THEN /\ lk' = NoProc
            /\ UNCHANGED <<plock, pc>>
       ELSE /\ plock = NoProc
            /\ plock' = p
            /\ Goto(p, "doze")
            /\ UNCHANGED lk
  /\ UNCHANGED <<locked, lpid, state, chan>>

\* acquire(&ptable.lock) comes first, while lk is still held.
SleepAcquire(p) ==
  /\ At(p, "sleep")
  /\ plock = NoProc
  /\ plock' = p
  /\ Goto(p, "unlock")
  /\ UNCHANGED <<locked, lpid, lk, state, chan>>

SleepUnlock(p) ==
  /\ At(p, "unlock")
  /\ lk' = NoProc
  /\ Goto(p, "doze")
  /\ UNCHANGED <<locked, lpid, plock, state, chan>>

\* p->chan = chan; p->state = SLEEPING.
Doze(p) ==
  /\ At(p, "doze")
  /\ chan' = [chan EXCEPT ![p] = TRUE]
  /\ state' = [state EXCEPT ![p] = "SLEEPING"]
  /\ Goto(p, "sched")
  /\ UNCHANGED <<locked, lpid, lk, plock>>

\* sched() switches to the scheduler, which releases ptable.lock.
Sched(p) ==
  /\ pc[p] = "sched"
  /\ plock' = NoProc
  /\ Goto(p, "asleep")
  /\ UNCHANGED <<locked, lpid, lk, state, chan>>

\* The scheduler picks a RUNNABLE process and returns into its sched() call.
Resume(p) ==
  /\ pc[p] = "asleep"
  /\ state[p] = "RUNNABLE"
  /\ plock = NoProc
  /\ plock' = p
  /\ state' = [state EXCEPT ![p] = "RUNNING"]
  /\ Goto(p, "awake")
  /\ UNCHANGED <<locked, lpid, lk, chan>>

\* p->chan = 0; release(&ptable.lock); then acquire(lk) again.
Awake(p) ==
  /\ At(p, "awake")
  /\ chan' = [chan EXCEPT ![p] = FALSE]
  /\ plock' = NoProc
  /\ Goto(p, "enter")
  /\ UNCHANGED <<locked, lpid, lk, state>>

(***************************************************************************)
(* releasesleep and wakeup                                                 *)
(***************************************************************************)
CallRelease(p) ==
  /\ At(p, "held")
  /\ lk = NoProc
  /\ lk' = p
  /\ Goto(p, "drop")
  /\ UNCHANGED <<locked, lpid, plock, state, chan>>

Drop(p) ==
  /\ At(p, "drop")
  /\ locked' = FALSE
  /\ lpid' = NoProc
  /\ Goto(p, "wakeup")
  /\ UNCHANGED <<lk, plock, state, chan>>

WakeupAcquire(p) ==
  /\ At(p, "wakeup")
  /\ plock = NoProc
  /\ plock' = p
  /\ Goto(p, "wakeup1")
  /\ UNCHANGED <<locked, lpid, lk, state, chan>>

\* A wakeup1 that compares the wrong channel and finds nobody.
MutWakeup1(p) ==
  /\ At(p, "wakeup1")
  /\ plock' = NoProc
  /\ Goto(p, "leave")
  /\ UNCHANGED <<locked, lpid, lk, state, chan>>

\* Every process SLEEPING on the channel becomes RUNNABLE.
Wakeup1(p) ==
  /\ At(p, "wakeup1")
  /\ state' = [q \in Proc |-> IF state[q] = "SLEEPING" /\ chan[q]
                                THEN "RUNNABLE" ELSE state[q]]
  /\ plock' = NoProc
  /\ Goto(p, "leave")
  /\ UNCHANGED <<locked, lpid, lk, chan>>

Leave(p) ==
  /\ At(p, "leave")
  /\ lk' = NoProc
  /\ Goto(p, "idle")
  /\ UNCHANGED <<locked, lpid, plock, state, chan>>

\* kill() by someone else wakes a sleeper although the lock is still taken.
Kill(p) ==
  /\ plock = NoProc
  /\ state[p] = "SLEEPING"
  /\ state' = [state EXCEPT ![p] = "RUNNABLE"]
  /\ UNCHANGED <<locked, lpid, lk, plock, chan, pc>>

Step(p) ==
  \/ AcquireLk(p)     \/ MustSleep(p)   \/ Take(p)
  \/ SleepAcquire(p)  \/ SleepUnlock(p) \/ Doze(p)     \/ Sched(p)
  \/ Resume(p)        \/ Awake(p)
  \/ CallRelease(p)   \/ Drop(p)
  \/ WakeupAcquire(p) \/ Wakeup1(p)     \/ Leave(p)

Next == \E p \in Proc : Call(p) \/ Step(p) \/ Kill(p)

Spec == Init /\ [][Next]_vars

\* Processes that entered the protocol keep running, and whoever holds the
\* lock releases it in the end (the kernel never returns to user space with
\* a sleep lock held).  Nobody is obliged to ask for the lock.  Spin locks
\* are not fair, so processes that are killed over and over could beat the
\* releaser to lk for ever: the stream of kills is assumed to end.
KillsEnd == <>[][\A p \in Proc : ~Kill(p)]_vars

FairSpec == Spec /\ (\A p \in Proc : WF_vars(Step(p))) /\ KillsEnd

(***************************************************************************)
(* Properties                                                              *)
(***************************************************************************)
\* Between acquiresleep and releasesleep a process has the lock to itself.
Holding(p) == pc[p] \in {"held", "drop"}

\* acquiresleep admits one process at a time, even when a killed or woken
\* process comes back to a lock that a third one took in the meantime.
MutualExclusion ==
  \A p, q \in Proc : Holding(p) /\ Holding(q) => p = q

\* No wakeup is lost: a process can be SLEEPING on the lock only while the
\* lock is taken or its releaser still has its call of wakeup ahead of it.
\* This is what sleep() buys by taking ptable.lock before it gives up lk.
NoLostWakeup ==
  \A p \in Proc : state[p] = "SLEEPING" =>
     locked \/ \E q \in Proc : pc[q] \in {"wakeup", "wakeup1"}

\* The spin locks are held exactly where the code holds them.
SpinInv ==
  \A p \in Proc :
    /\ lk = p <=> pc[p] \in {"test", "sleep", "unlock", "drop", "wakeup",
                             "wakeup1", "leave"}
    /\ plock = p <=> pc[p] \in {"unlock", "doze", "sched", "awake", "wakeup1"}

\* A process is not RUNNING exactly while it is in sched() or switched out.
StateInv ==
  \A p \in Proc :
    /\ pc[p] = "sched" => state[p] = "SLEEPING"
    /\ pc[p] = "asleep" => state[p] # "RUNNING"
    /\ pc[p] \notin {"sched", "asleep"} => state[p] = "RUNNING"
    /\ state[p] = "SLEEPING" => chan[p]

\* Who holds the sleep lock, and who has seen that it is held.
HoldInv ==
  /\ locked => lpid \in Proc
  /\ \A p \in Proc : /\ locked /\ lpid = p <=> pc[p] \in {"held", "drop"}
                     /\ pc[p] \in {"sleep", "unlock"} => locked

\* While anybody sleeps or is about to, the lock is held or its releaser has
\* yet to call wakeup1.
WakeInv ==
  \A p \in Proc :
    pc[p] = "doze" \/ state[p] = "SLEEPING" =>
      locked \/ \E q \in Proc : pc[q] \in {"wakeup", "wakeup1"}

\* The inductive invariant behind the two properties above: who owns the
\* spin locks at which point of the code, which states go with which points,
\* that lk->pid names the process between its acquiresleep and the store that
\* clears lk->locked, and that a process on its way to sleep still has its
\* reason to sleep or a wakeup to come.
Inv == TypeOK /\ SpinInv /\ StateInv /\ HoldInv /\ WakeInv

\* Whoever sleeps in acquiresleep is made RUNNABLE again.
SleepersWake ==
  \A p \in Proc : (state[p] = "SLEEPING") ~> (state[p] # "SLEEPING")

\* The sleep lock implements the mutex: what its callers see of it is a
\* variable that one process at a time owns.
M == INSTANCE Mutex WITH owner <- IF locked THEN lpid ELSE NoProc

ImplementsMutex == M!Spec
=============================================================================
