---------------------------- MODULE MCDsmPaging ----------------------------
(* Small instances of DsmPaging for TLC. *)
EXTENDS DsmPaging, TLC

CONSTANTS p1, p2

\* Both pages are read, the second one is written too.
ReadsAndWrites == {<<p1, "read">>, <<p2, "read">>, <<p2, "write">>}
=============================================================================
