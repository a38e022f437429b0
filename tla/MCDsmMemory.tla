---------------------------- MODULE MCDsmMemory ----------------------------
(* Small instances of DsmMemory for TLC. *)
EXTENDS DsmMemory, TLC

Ids == [w \in Workers |-> 2]   \* one worker: it becomes node 2
=============================================================================
