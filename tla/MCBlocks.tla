------------------------------ MODULE MCBlocks ------------------------------
(* Processes 1 and 2 share an open file; 1 has opened the file a second     *)
(* time, and 2 has another file of its own.                                 *)
EXTENDS Blocks

MCFile == {"shared", "again", "own"}
MCIpOf == [f \in MCFile |-> IF f = "own" THEN "j" ELSE "i"]
MCUsers == [f \in MCFile |->
              CASE f = "shared" -> {1, 2} [] f = "again" -> {1} [] f = "own" -> {2}]
=============================================================================
