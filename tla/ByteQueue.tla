----------------------------- MODULE ByteQueue -----------------------------
(***************************************************************************)
(* What a pipe promises its users (core/pipe.c): a bounded queue of bytes  *)
(* with two ends that can be closed.                                       *)
(***************************************************************************)
EXTENDS Naturals, Sequences

CONSTANTS Byte, Capacity

VARIABLES q, ropen, wopen

vars == <<q, ropen, wopen>>

Init == q = <<>> /\ ropen = TRUE /\ wopen = TRUE

Put(b) ==
  /\ wopen
  /\ Len(q) < Capacity
  /\ q' = Append(q, b)
  /\ UNCHANGED <<ropen, wopen>>

Get ==
  /\ ropen
  /\ q # <<>>
  /\ q' = Tail(q)
  /\ UNCHANGED <<ropen, wopen>>

CloseRead == ropen /\ ropen' = FALSE /\ UNCHANGED <<q, wopen>>

CloseWrite == wopen /\ wopen' = FALSE /\ UNCHANGED <<q, ropen>>

Next == (\E b \in Byte : Put(b)) \/ Get \/ CloseRead \/ CloseWrite

Spec == Init /\ [][Next]_vars
=============================================================================
