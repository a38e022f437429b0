---------------------------- MODULE DsmMembership ----------------------------
(***************************************************************************)
(* How nodes find a master and become members: dsm_init, the UDP listener  *)
(* (dsm_udp.c), the node table (dsm_network.c) and the joining side of     *)
(* dsm_tcp.c.                                                              *)
(*                                                                         *)
(* A starting node broadcasts DISCOVER and waits five seconds.  A master   *)
(* that hears it answers with DISCOVER_REPLY, connects to the node over    *)
(* TCP, enters it in its node table, sends it its id in a JOIN_RESPONSE    *)
(* and the whole table in a NODE_TABLE to everybody.  A node that gets no  *)
(* reply becomes a master itself.  dsm_finalize says SHUTDOWN to the nodes *)
(* of the table that have a socket in it.                                  *)
(*                                                                         *)
(* Every node runs the thread that called dsm_init, a UDP listener and a   *)
(* TCP thread; they share role, id, table and master_fd.  A datagram may   *)
(* stay undelivered forever, which is how it gets lost.                    *)
(***************************************************************************)
EXTENDS Integers, Sequences, SequencesExt

CONSTANTS
  Nodes,      \* hosts: an address and a port each
  NoNode,     \* no socket (fd -1) or no node
  MaxNodes,   \* DSM_MAX_NODES: capacity of a node table
  Early,      \* nodes started at any time; the others only once a master is up
  MayExit,    \* nodes that may call dsm_finalize
  MaxStarts,  \* bound: how often a node is started
  Prompt      \* do replies always arrive within the five seconds?

ASSUME MembershipAssumptions ==
  /\ NoNode \notin Nodes
  /\ Early \subseteq Nodes /\ MayExit \subseteq Nodes
  /\ MaxNodes \in Nat \ {0} /\ MaxStarts \in Nat /\ Prompt \in BOOLEAN

VARIABLES
  phase,      \* off | waiting | addself | up: progress of dsm_init
  role,       \* ctx->local_role
  id,         \* ctx->local_node_id, 0 before it is assigned
  found,      \* ctx->master_found
  table,      \* ctx->node_table: sequence of entries
  master_fd,  \* ctx->master_fd: the node at its other end, or NoNode
  listener,   \* what the UDP listener is doing
  udp,        \* the datagrams in flight
  conn,       \* conn[m][n]: the connection m opened to n: none|backlog|open
  chan,       \* chan[m][n]: the messages on that connection
  starts      \* history: how often a node was started

nodeVars == <<phase, role, id, found, table, master_fd, listener>>
vars == <<phase, role, id, found, table, master_fd, listener, udp, conn, chan, starts>>

Discover(n, k) == [type |-> "DISCOVER", from |-> n, to |-> k]
Reply(n, k) == [type |-> "DISCOVER_REPLY", from |-> n, to |-> k]
JoinResponse(i) == [type |-> "JOIN_RESPONSE", id |-> i]
NodeTable(t) == [type |-> "NODE_TABLE", nodes |-> t]
Shutdown(i) == [type |-> "SHUTDOWN", id |-> i]

Idle == [step |-> "idle", node |-> NoNode, id |-> 0]
Running(n) == phase[n] # "off"

Init ==
  /\ phase = [n \in Nodes |-> "off"]
  /\ role = [n \in Nodes |-> "UNKNOWN"]
  /\ id = [n \in Nodes |-> 0]
  /\ found = [n \in Nodes |-> FALSE]
  /\ table = [n \in Nodes |-> <<>>]
  /\ master_fd = [n \in Nodes |-> NoNode]
  /\ listener = [n \in Nodes |-> Idle]
  /\ udp = {}
  /\ conn = [m \in Nodes |-> [n \in Nodes |-> "none"]]
  /\ chan = [m \in Nodes |-> [n \in Nodes |-> <<>>]]
  /\ starts = [n \in Nodes |-> 0]

-----------------------------------------------------------------------------
(* The node table.  An entry is [id, node, role, fd]; fd says whether the  *)
(* entry has a socket.                                                     *)

Indices(t, Test(_)) == {i \in DOMAIN t : Test(t[i])}
First(S) == CHOOSE i \in S : \A j \in S : i <= j

\* Faulty variants: ids start at 0; the capacity is not looked at.
NodeTableAddFromZero(t, n, r, fd) ==
  IF \E i \in DOMAIN t : t[i].node = n THEN t
  ELSE Append(t, [id |-> IF r = "MASTER" THEN 1 ELSE Len(t), node |-> n, role |-> r, fd |-> fd])
NodeTableAddUnbounded(t, n, r, fd) ==
  IF \E i \in DOMAIN t : t[i].node = n THEN t
  ELSE Append(t, [id |-> IF r = "MASTER" THEN 1 ELSE Len(t) + 1, node |-> n, role |-> r, fd |-> fd])

\* Faulty variant: a node that comes back gets a second entry.
NodeTableAddAnew(t, n, r, fd) ==
  IF Len(t) >= MaxNodes THEN t
  ELSE Append(t, [id |-> IF r = "MASTER" THEN 1 ELSE Len(t) + 1, node |-> n, role |-> r, fd |-> fd])

\* dsm_node_table_add: the table after it.  A known node keeps its entry.
NodeTableAdd(t, n, r, fd) ==
  LET known == Indices(t, LAMBDA e : e.node = n)
  IN  IF known # {} THEN [t EXCEPT ![First(known)].fd = fd]
      ELSE IF Len(t) >= MaxNodes THEN t
      ELSE Append(t, [id |-> IF r = "MASTER" THEN 1 ELSE Len(t) + 1,
                      node |-> n, role |-> r, fd |-> fd])

\* ... and the id it returns: -1 when the table is full.
AddedId(t, n) ==
  LET known == Indices(t, LAMBDA e : e.node = n)
  IN  IF known = {} THEN -1 ELSE t[First(known)].id

\* dsm_node_table_serialize: sockets are not sent.
Serialize(t) == [i \in DOMAIN t |->
                   [id |-> t[i].id, node |-> t[i].node, role |-> t[i].role]]

\* Faulty variant: an entry is never recognised.
MergeBlindly(t, info) ==
  IF Len(t) < MaxNodes
  THEN Append(t, [id |-> info.id, node |-> info.node, role |-> info.role, fd |-> FALSE])
  ELSE t

\* dsm_node_table_deserialize, one entry: found by id and overwritten, or added.
Merge(t, info) ==
  LET same == Indices(t, LAMBDA e : e.id = info.id)
  IN  IF same # {}
      THEN [t EXCEPT ![First(same)] = [id |-> info.id, node |-> info.node,
                                       role |-> info.role, fd |-> @.fd]]
      ELSE IF Len(t) < MaxNodes
      THEN Append(t, [id |-> info.id, node |-> info.node, role |-> info.role, fd |-> FALSE])
      ELSE t

\* ... and the loop over the entries received.
Deserialize(t, infos) ==
  LET merged[k \in 0..Len(infos)] == IF k = 0 THEN t ELSE Merge(merged[k - 1], infos[k])
  IN  merged[Len(infos)]

NodeTableRemove(t, i) ==  \* dsm_node_table_remove
  LET same == Indices(t, LAMBDA e : e.id = i)
  IN  IF same = {} THEN t ELSE RemoveAt(t, First(same))

\* dsm_tcp_broadcast goes to the entries with a socket, itself excepted.
Reaches(n, k) ==
  \E i \in DOMAIN table[n] : /\ table[n][i].node = k /\ table[n][i].fd
                             /\ table[n][i].id # id[n]
Broadcast(n, msg, c) ==
  [k \in Nodes |-> IF Reaches(n, k) /\ conn[n][k] # "none" THEN Append(c[k], msg) ELSE c[k]]

-----------------------------------------------------------------------------
(* dsm_init and dsm_finalize *)

\* Context, table, TCP server and UDP listener are set up, then the node
\* broadcasts and waits.  Its own broadcast and those that reach a node
\* without a role are ignored, so nothing can happen in between.
Start(n) ==
  /\ phase[n] = "off"
  /\ starts[n] < MaxStarts
  /\ n \in Early \/ \E m \in Nodes : role[m] = "MASTER" /\ phase[m] = "up"
  /\ phase' = [phase EXCEPT ![n] = "waiting"]
  /\ udp' = udp \cup {Discover(n, k) : k \in {k \in Nodes \ {n} : Running(k)}}
  /\ starts' = [starts EXCEPT ![n] = @ + 1]
  /\ UNCHANGED <<role, id, found, table, master_fd, listener, conn, chan>>

BecomeWorker(n) ==  \* dsm_udp_wait_discovery has seen master_found
  /\ phase[n] = "waiting" /\ found[n]
  /\ role' = [role EXCEPT ![n] = "WORKER"]
  /\ phase' = [phase EXCEPT ![n] = "up"]
  /\ UNCHANGED <<id, found, table, master_fd, listener, udp, conn, chan, starts>>

Unanswered(n) == \E d \in udp : Discover(n, d.to) = d \/ Reply(d.from, n) = d

BecomeMaster(n) ==  \* the five seconds are over: role and id are set ...
  /\ phase[n] = "waiting" /\ ~found[n]
  /\ Prompt => ~Unanswered(n)
  /\ role' = [role EXCEPT ![n] = "MASTER"]
  /\ id' = [id EXCEPT ![n] = 1]
  /\ phase' = [phase EXCEPT ![n] = "addself"]
  /\ UNCHANGED <<found, table, master_fd, listener, udp, conn, chan, starts>>

AddSelf(n) ==  \* ... then the node enters itself in its table
  /\ phase[n] = "addself"
  /\ table' = [table EXCEPT ![n] = NodeTableAdd(@, n, "MASTER", FALSE)]
  /\ phase' = [phase EXCEPT ![n] = "up"]
  /\ UNCHANGED <<role, id, found, master_fd, listener, udp, conn, chan, starts>>

\* The listening, epoll and UDP sockets are closed.  The other connections stay open
\* until the process ends, and nobody reads them any more: what is sent on them is
\* lost just as on a closed one.  What the node has sent still arrives, except that
\* a DISCOVER does not outlive it (it would have to leave within the time a
\* datagram takes).
Reset(n) ==
  /\ phase' = [phase EXCEPT ![n] = "off"]
  /\ role' = [role EXCEPT ![n] = "UNKNOWN"]
  /\ id' = [id EXCEPT ![n] = 0]
  /\ found' = [found EXCEPT ![n] = FALSE]
  /\ table' = [table EXCEPT ![n] = <<>>]
  /\ master_fd' = [master_fd EXCEPT ![n] = NoNode]
  /\ udp' = {d \in udp : d.to # n /\ d # Discover(n, d.to)}
  /\ conn' = [m \in Nodes |-> [conn[m] EXCEPT ![n] = "none"]]
  /\ UNCHANGED <<listener, starts>>

\* Faulty variant: nobody is told.
FinalizeSilently(n) ==
  /\ n \in MayExit /\ phase[n] = "up" /\ listener[n] = Idle
  /\ Reset(n)
  /\ chan' = [m \in Nodes |-> [chan[m] EXCEPT ![n] = <<>>]]

Finalize(n) ==  \* dsm_finalize: the threads are joined, SHUTDOWN is broadcast
  /\ n \in MayExit /\ phase[n] = "up" /\ listener[n] = Idle
  /\ Reset(n)
  /\ chan' = [m \in Nodes |->
                [IF m = n THEN Broadcast(n, Shutdown(id[n]), chan[n]) ELSE chan[m]
                   EXCEPT ![n] = <<>>]]

-----------------------------------------------------------------------------
(* The UDP listener *)

IgnoreDiscover(n, k) ==  \* not the master: nothing happens
  /\ Running(n) /\ listener[n] = Idle
  /\ Discover(k, n) \in udp
  /\ role[n] # "MASTER"
  /\ udp' = udp \ {Discover(k, n)}
  /\ UNCHANGED <<nodeVars, conn, chan, starts>>

\* dsm_tcp_connect: the connection waits in k's backlog to be accepted; a
\* connection n had to k before is gone.
Connect(n, k) == conn' = [conn EXCEPT ![n][k] = "backlog"]

\* Faulty variant: the reply is forgotten.
AnswerWithoutReply(n, k) ==
  /\ Running(n) /\ listener[n] = Idle
  /\ Discover(k, n) \in udp
  /\ role[n] = "MASTER"
  /\ udp' = udp \ {Discover(k, n)}
  /\ Connect(n, k)
  /\ listener' = [listener EXCEPT ![n] = [step |-> "add", node |-> k, id |-> 0]]
  /\ UNCHANGED <<phase, role, id, found, table, master_fd, chan, starts>>

\* The master replies and connects.  The node listens since before it
\* broadcast, and its datagrams go with it, so connect succeeds.
AnswerDiscover(n, k) ==
  /\ Running(n) /\ listener[n] = Idle
  /\ Discover(k, n) \in udp
  /\ role[n] = "MASTER"
  /\ udp' = (udp \ {Discover(k, n)}) \cup {Reply(n, k)}
  /\ Connect(n, k)
  /\ listener' = [listener EXCEPT ![n] = [step |-> "add", node |-> k, id |-> 0]]
  /\ UNCHANGED <<phase, role, id, found, table, master_fd, chan, starts>>

AdmitNode(n) ==  \* dsm_node_table_add
  /\ listener[n].step = "add"
  /\ LET k == listener[n].node
         t == NodeTableAdd(table[n], k, "WORKER", TRUE)
         i == AddedId(t, k)
     IN  /\ table' = [table EXCEPT ![n] = t]
         /\ listener' = [listener EXCEPT ![n] =
              IF i > 0 THEN [step |-> "announce", node |-> k, id |-> i] ELSE Idle]
  /\ UNCHANGED <<phase, role, id, found, master_fd, udp, conn, chan, starts>>

Announcing(n, step, next) ==  \* the listener thread of n goes from one step to the next
  /\ listener[n].step = step
  /\ listener' = [listener EXCEPT ![n] = next]
  /\ UNCHANGED <<phase, role, id, found, table, master_fd, udp, conn, starts>>

\* Faulty variant: no JOIN_RESPONSE.
SendNoJoinResponse(n) ==
  /\ Announcing(n, "announce", [listener[n] EXCEPT !.step = "broadcast"])
  /\ UNCHANGED chan

SendJoinResponse(n) ==  \* the new node is sent its id ...
  /\ Announcing(n, "announce", [listener[n] EXCEPT !.step = "broadcast"])
  /\ LET k == listener[n].node
     IN  chan' = IF conn[n][k] = "none" THEN chan
                 ELSE [chan EXCEPT ![n][k] = Append(@, JoinResponse(listener[n].id))]

\* Faulty variant: the table goes to the new node only.
BroadcastToNewOnly(n) ==
  /\ Announcing(n, "broadcast", Idle)
  /\ chan' = [chan EXCEPT ![n][listener[n].node] = Append(@, NodeTable(Serialize(table[n])))]

NodeTableBroadcast(n) ==  \* ... and everybody the table: dsm_node_table_broadcast
  /\ Announcing(n, "broadcast", Idle)
  /\ chan' = [chan EXCEPT ![n] = Broadcast(n, NodeTable(Serialize(table[n])), @)]

RecvReply(n, m) ==
  /\ Running(n) /\ listener[n] = Idle
  /\ Reply(m, n) \in udp
  /\ udp' = udp \ {Reply(m, n)}
  /\ found' = [found EXCEPT ![n] = TRUE]
  /\ UNCHANGED <<phase, role, id, table, master_fd, listener, conn, chan, starts>>

-----------------------------------------------------------------------------
(* The TCP thread *)

AcceptConnection(n, m) ==  \* handle_new_connection
  /\ conn[m][n] = "backlog"
  /\ conn' = [conn EXCEPT ![m][n] = "open"]
  /\ master_fd' = [master_fd EXCEPT ![n] =
                     IF role[n] = "WORKER" /\ @ = NoNode THEN m ELSE @]
  /\ UNCHANGED <<phase, role, id, found, table, listener, udp, chan, starts>>

Received(n, m, type) ==
  /\ conn[m][n] = "open" /\ chan[m][n] # <<>>
  /\ Head(chan[m][n]).type = type
  /\ chan' = [chan EXCEPT ![m][n] = Tail(@)]
  /\ UNCHANGED <<phase, role, found, master_fd, listener, udp, conn, starts>>

RecvJoinResponse(n, m) ==
  /\ Received(n, m, "JOIN_RESPONSE")
  /\ id' = [id EXCEPT ![n] = Head(chan[m][n]).id]
  /\ UNCHANGED table

RecvNodeTable(n, m) ==
  /\ Received(n, m, "NODE_TABLE")
  /\ table' = [table EXCEPT ![n] = Deserialize(@, Head(chan[m][n]).nodes)]
  /\ UNCHANGED id

RecvShutdown(n, m) ==
  /\ Received(n, m, "SHUTDOWN")
  /\ table' = [table EXCEPT ![n] = NodeTableRemove(@, Head(chan[m][n]).id)]
  /\ UNCHANGED id

-----------------------------------------------------------------------------

InitStep(n) == BecomeWorker(n) \/ BecomeMaster(n) \/ AddSelf(n)
UdpStep(n) == \/ AdmitNode(n) \/ SendJoinResponse(n) \/ NodeTableBroadcast(n)
              \/ \E k \in Nodes : \/ IgnoreDiscover(n, k) \/ AnswerDiscover(n, k)
                                  \/ RecvReply(n, k)
TcpStep(n) == \E m \in Nodes : \/ AcceptConnection(n, m) \/ RecvJoinResponse(n, m)
                               \/ RecvNodeTable(n, m) \/ RecvShutdown(n, m)

Next == \E n \in Nodes : \/ Start(n) \/ InitStep(n) \/ Finalize(n)
                         \/ UdpStep(n) \/ TcpStep(n)

Spec == Init /\ [][Next]_vars

\* Threads are scheduled; the listener reads what arrives and TCP delivers.
\* Nothing makes a node start or leave.
Fairness == \A n \in Nodes : WF_vars(InitStep(n)) /\ WF_vars(UdpStep(n)) /\ WF_vars(TcpStep(n))
FairSpec == Spec /\ Fairness

-----------------------------------------------------------------------------
(* Properties *)

Role == {"MASTER", "WORKER"}
Entry == [id : Nat, node : Nodes, role : Role, fd : BOOLEAN]
Info == [id : Nat, node : Nodes, role : Role]
Datagram == [type : {"DISCOVER", "DISCOVER_REPLY"}, from : Nodes, to : Nodes]
Message == [type : {"JOIN_RESPONSE", "SHUTDOWN"}, id : Nat]
             \cup [type : {"NODE_TABLE"}, nodes : Seq(Info)]
Newcomer == [step : {"add", "announce", "broadcast"}, node : Nodes, id : Nat]

TypeOK ==
  /\ phase \in [Nodes -> {"off", "waiting", "addself", "up"}]
  /\ role \in [Nodes -> {"UNKNOWN", "MASTER", "WORKER"}]
  /\ id \in [Nodes -> Nat]
  /\ found \in [Nodes -> BOOLEAN]
  /\ table \in [Nodes -> Seq(Entry)]
  /\ \A n \in Nodes : Len(table[n]) <= MaxNodes
  /\ master_fd \in [Nodes -> Nodes \cup {NoNode}]
  /\ listener \in [Nodes -> Newcomer \cup {Idle}]
  /\ udp \subseteq Datagram
  /\ conn \in [Nodes -> [Nodes -> {"none", "backlog", "open"}]]
  /\ chan \in [Nodes -> [Nodes -> Seq(Message)]]
  /\ starts \in [Nodes -> Nat]

\* At most one node is master, as long as one node starts first and replies come in
\* time (Early and Prompt).  Two nodes that start together both wait without a role,
\* ignore each other's DISCOVER and both become masters.
OneMaster == \A m, n \in Nodes : role[m] = "MASTER" /\ role[n] = "MASTER" => m = n

\* The id a node goes by is the one the master has it under, and the master
\* has one node under it: also for nodes that left and joined again, and with
\* the assignment still on its way.
IdsAgree ==
  \A m, n \in Nodes : role[m] = "MASTER" /\ phase[m] = "up" /\ id[n] # 0 =>
    \E i \in DOMAIN table[m] :
      /\ table[m][i].node = n /\ table[m][i].id = id[n]
      /\ \A j \in DOMAIN table[m] : table[m][j].id = id[n] => i = j

\* What a worker knows of the membership is what the master knew at some
\* moment: an initial part of the master's table.
TablesConsistent ==
  \A m, n \in Nodes : role[m] = "MASTER" /\ phase[m] = "up" =>
    IsPrefix(Serialize(table[n]), Serialize(table[m]))

\* Membership as a whole implements the abstract list of members, which is the
\* master's node table.  (Between BecomeMaster and AddSelf the master has an id
\* and no entry: that is where it founds the list.)
NodesOf(t) == [i \in DOMAIN t |-> t[i].node]
Members == IF \E m \in Nodes : role[m] = "MASTER"
           THEN NodesOf(table[CHOOSE m \in Nodes : role[m] = "MASTER"]) ELSE <<>>
Views == [n \in Nodes |-> NodesOf(table[n])]
Names == [n \in Nodes |-> IF phase[n] = "addself" THEN 0 ELSE id[n]]
Abstract == INSTANCE AbstractMembership WITH
              Capacity <- MaxNodes, members <- Members, view <- Views, name <- Names
ImplementsAbstractMembership == Abstract!Spec

\* A worker that the table has room for is told its id, if it stays.
JoinCompletes == \A n \in Nodes : role[n] = "WORKER" ~> (id[n] # 0 \/ ~Running(n))

NobodyLeft == \A n \in Nodes : starts[n] > 0 => Running(n)
SameTables == \A m, n \in Nodes : Running(m) /\ Running(n) =>
                Serialize(table[m]) = Serialize(table[n])

\* When no more nodes start, and as long as none has left, all nodes come to
\* have the same table.
TablesConverge == <>[](NobodyLeft => SameTables)

\* A worker comes to have a connection to its master.
WorkerLinked == \A n \in Nodes : role[n] = "WORKER" ~> master_fd[n] # NoNode

\* Does node k have node n in its table, as the master?
ListsMaster(k, n) == \E i \in DOMAIN table[k] : table[k][i].node = n /\ table[k][i].role = "MASTER"

\* A master that has called dsm_finalize disappears from the tables of others.  (A
\* worker does not: its table has no socket for anybody, its SHUTDOWN reaches nobody.)
MasterDepartureKnown ==
  \A n, k \in Nodes : (~Running(n) /\ ListsMaster(k, n)) ~> (Running(n) \/ ~ListsMaster(k, n))

-----------------------------------------------------------------------------
(* The inductive invariant behind OneMaster *)

\* Node f is the one that starts first and stays: the others run only beside the
\* master f, and one that still waits has an answer, or has asked f and its
\* datagram or the reply is on its way.
MasterInv(f) ==
  /\ phase \in [Nodes -> {"off", "waiting", "addself", "up"}]
  /\ role \in [Nodes -> {"UNKNOWN", "MASTER", "WORKER"}]
  /\ found \in [Nodes -> BOOLEAN]
  /\ \A n \in Nodes \ {f} :
       /\ role[n] # "MASTER" /\ phase[n] # "addself"
       /\ Running(n) => role[f] = "MASTER" /\ phase[f] = "up"
       /\ phase[n] = "waiting" =>
            found[n] \/ Discover(n, f) \in udp \/ Reply(f, n) \in udp

(* ... and the one behind IdsAgree, TablesConsistent and the refinement *)

\* The entries s are those at the front of the table t, sockets apart.
FrontOf(s, t) ==
  /\ Len(s) <= Len(t)
  /\ \A i \in DOMAIN s : s[i].id = t[i].id /\ s[i].node = t[i].node /\ s[i].role = t[i].role

\* The table of the master f: an entry's place is its id, nobody has two, and the
\* master is the first.
RegisterInv(f) ==
  /\ ~found[f]
  /\ role[f] = "MASTER" <=> phase[f] \in {"addself", "up"}
  /\ id[f] = IF role[f] = "MASTER" THEN 1 ELSE 0
  /\ IF phase[f] = "up" THEN table[f] # <<>> /\ table[f][1].node = f ELSE table[f] = <<>>
  /\ \A i \in DOMAIN table[f] : table[f][i].id = i
  /\ \A i, j \in DOMAIN table[f] : table[f][i].node = table[f][j].node => i = j

\* The id i is that of node n in the table t.
IdOf(i, n, t) == i \in DOMAIN t /\ t[i].node = n

\* Questions are asked by running nodes other than the master, which never
\* gets an answer; connections lead from the master to the others.
LinkInv(f) ==
  /\ \A d \in udp : IF d.type = "DISCOVER" THEN d.from # f /\ Running(d.from) ELSE d.to # f
  /\ \A m, n \in Nodes : m # f \/ n = f => conn[m][n] = "none" /\ chan[m][n] = <<>>

\* A message to node n says what is so in the table t.
TrueOf(msg, n, t) == \/ msg.type = "JOIN_RESPONSE" /\ IdOf(msg.id, n, t)
                     \/ msg.type = "NODE_TABLE" /\ FrontOf(msg.nodes, t)

\* What another node has been told, and what is on its way to it.
Knows(f, n) ==
  /\ FrontOf(table[n], table[f])
  /\ id[n] # 0 => IdOf(id[n], n, table[f])
  /\ \A i \in DOMAIN chan[f][n] : TrueOf(chan[f][n][i], n, table[f])
KnownInv(f) == \A n \in Nodes \ {f} : Knows(f, n)

\* Only the master f admits nodes, others than itself.
AdmissionInv(f) ==
  /\ \A n \in Nodes \ {f} : listener[n] = Idle
  /\ listener[f] # Idle => phase[f] = "up" /\ listener[f].node # f
  /\ listener[f].step = "announce" => IdOf(listener[f].id, listener[f].node, table[f])

JoinInv(f) == /\ TypeOK /\ MasterInv(f)
              /\ RegisterInv(f) /\ LinkInv(f) /\ KnownInv(f) /\ AdmissionInv(f)
=============================================================================
