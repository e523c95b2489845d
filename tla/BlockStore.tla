----------------------------- MODULE BlockStore -----------------------------
(***************************************************************************)
(* What the buffer cache promises the file system (storage/bio.c): blocks  *)
(* that are used by one holder at a time and keep what was last put there. *)
(***************************************************************************)
CONSTANTS User, NoUser, Block, Val

VARIABLES store, holder

vars == <<store, holder>>

Init ==
  /\ store \in [Block -> Val]
  /\ holder = [b \in Block |-> NoUser]

Hold(u, b) ==
  /\ holder[b] = NoUser
  /\ holder' = [holder EXCEPT ![b] = u]
  /\ UNCHANGED store

Change(u, b, v) ==
  /\ holder[b] = u
  /\ store' = [store EXCEPT ![b] = v]
  /\ UNCHANGED holder

Release(u, b) ==
  /\ holder[b] = u
  /\ holder' = [holder EXCEPT ![b] = NoUser]
  /\ UNCHANGED store

Next ==
  \E u \in User, b \in Block :
    Hold(u, b) \/ Release(u, b) \/ \E v \in Val : Change(u, b, v)

Spec == Init /\ [][Next]_vars
=============================================================================
