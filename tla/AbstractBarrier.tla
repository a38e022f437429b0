--------------------------- MODULE AbstractBarrier ---------------------------
(***************************************************************************)
(* What dsm_barrier promises: "Execution blocks until all nodes have       *)
(* reached the barrier" (dsm.h).  A node that has entered the barrier for  *)
(* the k-th time leaves it only when every member has entered k times.     *)
(* A node that joins late counts the rounds completed before it joined.    *)
(***************************************************************************)
EXTENDS Naturals

CONSTANT Nodes

VARIABLES members,   \* the nodes that take part
          entered,   \* entered[n]: calls of dsm_barrier made by n
          passed     \* passed[n]: calls of dsm_barrier that have returned to n

vars == <<members, entered, passed>>

Init == /\ members \in SUBSET Nodes
        /\ entered = [n \in Nodes |-> 0]
        /\ passed = [n \in Nodes |-> 0]

\* The newcomer takes part from the open round on: no member has passed more
\* rounds than it counts, and every member has entered as many.
Join(n) == /\ n \notin members
           /\ members' = members \cup {n}
           /\ \E i \in members : \E k \in {entered[i], passed[i]} :
                /\ \A j \in members : passed[j] <= k /\ k <= entered[j]
                /\ entered' = [entered EXCEPT ![n] = k]
                /\ passed' = [passed EXCEPT ![n] = k]

Enter(n) == /\ entered[n] = passed[n]
            /\ entered' = [entered EXCEPT ![n] = @ + 1]
            /\ UNCHANGED <<members, passed>>

Pass(n) == /\ passed[n] < entered[n]
           /\ \A m \in members : entered[n] <= entered[m]
           /\ passed' = [passed EXCEPT ![n] = @ + 1]
           /\ UNCHANGED <<members, entered>>

Next == \E n \in Nodes : Join(n) \/ Enter(n) \/ Pass(n)

Spec == Init /\ [][Next]_vars
=============================================================================
