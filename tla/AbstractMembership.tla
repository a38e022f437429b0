------------------------- MODULE AbstractMembership -------------------------
(***************************************************************************)
(* What dsm_init and dsm_finalize promise about the members of the system: *)
(* there is one list of members, begun by the master, that only grows; the *)
(* place in it is a node's id, also when the node leaves and comes back;   *)
(* and what a running node sees of the list is a part from the front that  *)
(* never gets shorter.                                                     *)
(***************************************************************************)
EXTENDS Integers, Sequences

CONSTANTS Nodes,      \* the nodes that may become members
          Capacity    \* how many may

VARIABLES members,    \* the members in the order of their admission
          view,       \* view[n]: what n knows of them
          name        \* name[n]: the id n goes by, or 0

vars == <<members, view, name>>

Init == /\ members = <<>>
        /\ view = [n \in Nodes |-> <<>>]
        /\ name = [n \in Nodes |-> 0]

Found(n) == /\ members = <<>>
            /\ members' = <<n>>
            /\ view' = [view EXCEPT ![n] = <<n>>]
            /\ name' = [name EXCEPT ![n] = 1]

\* Only the first member, the master, admits others, and knows of it at once.
Admit(n) == /\ members # <<>> /\ Len(members) < Capacity
            /\ \A i \in DOMAIN members : members[i] # n
            /\ members' = Append(members, n)
            /\ view' = [view EXCEPT ![members[1]] = Append(members, n)]
            /\ UNCHANGED name

Learn(n) == /\ \E k \in Len(view[n])..Len(members) :
                 view' = [view EXCEPT ![n] = SubSeq(members, 1, k)]
            /\ UNCHANGED <<members, name>>

Told(n) == /\ \E i \in DOMAIN members : /\ members[i] = n
                                        /\ name' = [name EXCEPT ![n] = i]
           /\ UNCHANGED <<members, view>>

\* A member that leaves keeps its place.
Leave(n) == /\ members # <<>> /\ n # members[1]
            /\ view' = [view EXCEPT ![n] = <<>>]
            /\ name' = [name EXCEPT ![n] = 0]
            /\ UNCHANGED members

Next == \E n \in Nodes : Found(n) \/ Admit(n) \/ Learn(n) \/ Told(n) \/ Leave(n)

Spec == Init /\ [][Next]_vars
=============================================================================
