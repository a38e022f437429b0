---------------------------- MODULE MCDsmBarrier ----------------------------
(* Small instances of DsmBarrier for TLC. *)
EXTENDS DsmBarrier, TLC
=============================================================================
