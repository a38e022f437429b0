------------------------------ MODULE MCDsmLock ------------------------------
(* Small instances of DsmLock for TLC.  The workers differ in what they may *)
(* do (crash, unlock carelessly, lack a connection), so none are symmetric. *)
EXTENDS DsmLock, TLC
=============================================================================
