---------------------------- MODULE MCSleepLock ----------------------------
(* SleepLock for TLC. *)
EXTENDS SleepLock
=============================================================================
