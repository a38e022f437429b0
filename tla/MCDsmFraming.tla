---------------------------- MODULE MCDsmFraming ----------------------------
(* Small instances of DsmFraming for TLC. *)
EXTENDS DsmFraming, TLC
CONSTANTS c1, c2, a, b

\* Two threads share the first connection, one uses the second.
Sharing == c1 :> {a, b} @@ c2 :> {a}
\* Headers alone on the shared one; on the other a payload may come in pieces.
Lengths == c1 :> {0} @@ c2 :> {2}
=============================================================================
