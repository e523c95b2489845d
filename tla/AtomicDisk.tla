----------------------------- MODULE AtomicDisk -----------------------------
(***************************************************************************)
(* What the log promises the file system (storage/log.c): system calls     *)
(* write blocks between begin_op and end_op; the blocks of all the calls   *)
(* of a group reach the disk together, when no call is in progress, or not *)
(* at all; and a crash falls back to the last group that did.              *)
(***************************************************************************)
CONSTANTS Proc, Block, Val

VARIABLES
  durable,   \* what a recovery at this point would bring back
  mem,       \* what a read of each block returns
  active     \* processes between begin_op and end_op

vars == <<durable, mem, active>>

Init ==
  /\ durable \in [Block -> Val]
  /\ mem = durable
  /\ active = {}

Begin(p) ==
  /\ p \notin active
  /\ active' = active \cup {p}
  /\ UNCHANGED <<durable, mem>>

Write(p, b, v) ==
  /\ p \in active
  /\ mem' = [mem EXCEPT ![b] = v]
  /\ UNCHANGED <<durable, active>>

End(p) ==
  /\ p \in active
  /\ active' = active \ {p}
  /\ UNCHANGED <<durable, mem>>

Commit ==
  /\ active = {}
  /\ durable' = mem
  /\ UNCHANGED <<mem, active>>

Crash ==
  /\ mem' = durable
  /\ active' = {}
  /\ UNCHANGED durable

Next ==
  \/ \E p \in Proc : Begin(p) \/ End(p) \/ \E b \in Block, v \in Val : Write(p, b, v)
  \/ Commit
  \/ Crash

Spec == Init /\ [][Next]_vars
=============================================================================
