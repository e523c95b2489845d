------------------------------- MODULE Mutex -------------------------------
(***************************************************************************)
(* What a sleep lock promises its callers (sync/sleeplock.c): at any time  *)
(* at most one process owns it, and only the owner gives it up.  SleepLock *)
(* is shown to implement this module.                                      *)
(***************************************************************************)
CONSTANTS Proc, NoProc

VARIABLE owner

Init == owner = NoProc

Acquire(p) == owner = NoProc /\ owner' = p

Release(p) == owner = p /\ owner' = NoProc

Next == \E p \in Proc : Acquire(p) \/ Release(p)

Spec == Init /\ [][Next]_owner
=============================================================================
