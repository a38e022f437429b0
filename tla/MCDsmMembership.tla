--------------------------- MODULE MCDsmMembership ---------------------------
(* Small instances of DsmMembership for TLC. *)
EXTENDS DsmMembership, TLC

\* The nodes that start late and stay are interchangeable.
Symmetry == Permutations(Nodes \ (Early \cup MayExit))
=============================================================================
