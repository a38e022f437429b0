---------------------------- MODULE AbstractLock ----------------------------
(***************************************************************************)
(* What dsm_lock and dsm_unlock promise to an application: a lock has at   *)
(* most one owner, it is taken only when nobody owns it, and only its      *)
(* owner gives it up -- by dsm_unlock, or by crashing.  (After a crash the *)
(* lock need not become available again: the code has no recovery.)        *)
(***************************************************************************)

CONSTANTS Nodes,    \* the nodes that may own a lock
          Locks     \* the lock ids 0 .. DSM_MAX_LOCKS-1

VARIABLE owners     \* owners[l]: the nodes whose application holds l

Init == owners = [l \in Locks |-> {}]

Acquire(n, l) == /\ owners[l] = {}
                 /\ owners' = [owners EXCEPT ![l] = {n}]

Release(n, l) == /\ owners[l] = {n}
                 /\ owners' = [owners EXCEPT ![l] = {}]

Crash(n) == owners' = [l \in Locks |-> owners[l] \ {n}]

Next == \E n \in Nodes : \/ \E l \in Locks : Acquire(n, l) \/ Release(n, l)
                         \/ Crash(n)

Spec == Init /\ [][Next]_owners
=============================================================================
