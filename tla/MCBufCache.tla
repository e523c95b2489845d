----------------------------- MODULE MCBufCache -----------------------------
(* BufCache for TLC. *)
EXTENDS BufCache
=============================================================================
