------------------------- MODULE DsmMembershipProofs -------------------------
(***************************************************************************)
(* Theorems about DsmMembership: that one node becomes master.             *)
(***************************************************************************)
EXTENDS DsmMembership, TLAPS

LEMMA MasterInit ==
  ASSUME NEW f \in Nodes
  PROVE  Init => MasterInv(f)
  BY DEF Init, MasterInv, Running

\* Steps that concern neither discovery nor roles.
LEMMA MasterFrame ==
  ASSUME NEW f \in Nodes, MasterInv(f), UNCHANGED <<phase, role, found, udp>>
  PROVE  MasterInv(f)'
  BY DEF MasterInv, Running

\* The datagrams differ in their type, their sender or their receiver.
LEMMA Datagrams ==
  ASSUME NEW a, NEW b, NEW c, NEW d
  PROVE  /\ Discover(a, b).type # Reply(c, d).type
         /\ Discover(a, b) # Reply(c, d)
         /\ Discover(a, b) = Discover(c, d) <=> a = c /\ b = d
         /\ Reply(a, b) = Reply(c, d) <=> a = c /\ b = d
         /\ Discover(a, b).to = b /\ Reply(a, b).to = b /\ Reply(a, b).from = a
<1>1. /\ Discover(a, b).type = "DISCOVER" /\ Reply(c, d).type = "DISCOVER_REPLY"
      /\ Discover(a, b).from = a /\ Discover(a, b).to = b
      /\ Discover(c, d).from = c /\ Discover(c, d).to = d
      /\ Reply(a, b).from = a /\ Reply(a, b).to = b
      /\ Reply(c, d).from = c /\ Reply(c, d).to = d
  BY DEF Discover, Reply
<1>2. Discover(a, b).type # Reply(c, d).type /\ Discover(a, b) # Reply(c, d)
  BY <1>1
<1>3. Discover(a, b) = Discover(c, d) <=> a = c /\ b = d
  BY <1>1
<1>4. Reply(a, b) = Reply(c, d) <=> a = c /\ b = d
  BY <1>1
<1> QED
  BY <1>1, <1>2, <1>3, <1>4

LEMMA MasterStep ==
  ASSUME NEW f \in Nodes, Prompt, Early \subseteq {f}, f \notin MayExit,
         MasterInv(f), [Next]_vars
  PROVE  MasterInv(f)'
<1>1. CASE UNCHANGED vars
  BY <1>1, MasterFrame DEF vars
<1>2. ASSUME NEW n \in Nodes, Start(n) PROVE MasterInv(f)'
  <2>1. n # f => role[f] = "MASTER" /\ phase[f] = "up"
    BY <1>2 DEF Start, MasterInv
  <2>2. n # f => Discover(n, f) \in udp'
    BY <1>2, <2>1 DEF Start, Running
  <2>3. n = f => \A k \in Nodes \ {f} : phase[k] = "off"
    BY <1>2 DEF Start, MasterInv, Running
  <2> QED
    BY <1>2, <2>1, <2>2, <2>3 DEF Start, MasterInv, Running
<1>3. ASSUME NEW n \in Nodes, BecomeWorker(n) PROVE MasterInv(f)'
  BY <1>3 DEF BecomeWorker, MasterInv, Running
<1>4. ASSUME NEW n \in Nodes, BecomeMaster(n) PROVE MasterInv(f)'
  <2>1. n = f
    <3> SUFFICES ASSUME n # f PROVE FALSE
      OBVIOUS
    <3>1. Discover(n, f) \in udp \/ Reply(f, n) \in udp
      BY <1>4 DEF BecomeMaster, MasterInv
    <3>2. Unanswered(n)
      BY <3>1, Datagrams DEF Unanswered
    <3> QED
      BY <1>4, <3>2 DEF BecomeMaster
  <2> QED
    BY <1>4, <2>1 DEF BecomeMaster, MasterInv, Running
<1>5. ASSUME NEW n \in Nodes, AddSelf(n) PROVE MasterInv(f)'
  BY <1>5 DEF AddSelf, MasterInv, Running
<1>6. ASSUME NEW n \in Nodes, Finalize(n) PROVE MasterInv(f)'
  <2>1. n # f
    BY <1>6 DEF Finalize
  <2>2. ASSUME NEW k \in Nodes \ {f}, k # n
        PROVE  /\ Discover(k, f) \in udp => Discover(k, f) \in udp'
               /\ Reply(f, k) \in udp => Reply(f, k) \in udp'
    <3>1. udp' = {d \in udp : d.to # n /\ d # Discover(n, d.to)}
      BY <1>6 DEF Finalize, Reset
    <3>2. Discover(k, f).to # n /\ Discover(k, f) # Discover(n, Discover(k, f).to)
      BY <2>1, <2>2, Datagrams
    <3>3. Reply(f, k).to # n /\ Reply(f, k) # Discover(n, Reply(f, k).to)
      BY <2>2, Datagrams
    <3> QED
      BY <3>1, <3>2, <3>3
  <2> QED
    BY <1>6, <2>1, <2>2 DEF Finalize, Reset, MasterInv, Running
<1>7. ASSUME NEW n \in Nodes, NEW k \in Nodes, IgnoreDiscover(n, k) PROVE MasterInv(f)'
  <2>1. n = f => \A j \in Nodes \ {f} : phase[j] = "off"
    BY <1>7 DEF IgnoreDiscover, MasterInv, Running
  <2>2. ASSUME NEW j \in Nodes \ {f}, n # f
        PROVE  /\ Discover(j, f) \in udp => Discover(j, f) \in udp'
               /\ Reply(f, j) \in udp => Reply(f, j) \in udp'
    BY <1>7, <2>2, Datagrams DEF IgnoreDiscover
  <2> QED
    BY <1>7, <2>1, <2>2 DEF IgnoreDiscover, nodeVars, MasterInv, Running
<1>8. ASSUME NEW n \in Nodes, NEW k \in Nodes, AnswerDiscover(n, k) PROVE MasterInv(f)'
  <2>1. n = f
    BY <1>8 DEF AnswerDiscover, MasterInv
  <2>2. ASSUME NEW j \in Nodes \ {f}
        PROVE  /\ Discover(j, f) \in udp => Discover(j, f) \in udp' \/ Reply(f, j) \in udp'
               /\ Reply(f, j) \in udp => Reply(f, j) \in udp'
    BY <1>8, <2>1, Datagrams DEF AnswerDiscover
  <2> QED
    BY <1>8, <2>2 DEF AnswerDiscover, MasterInv, Running
<1>9. ASSUME NEW n \in Nodes, NEW m \in Nodes, RecvReply(n, m) PROVE MasterInv(f)'
  <2>1. ASSUME NEW j \in Nodes \ {f}, j # n
        PROVE  /\ Discover(j, f) \in udp => Discover(j, f) \in udp'
               /\ Reply(f, j) \in udp => Reply(f, j) \in udp'
    BY <1>9, <2>1, Datagrams DEF RecvReply
  <2> QED
    BY <1>9, <2>1 DEF RecvReply, MasterInv, Running
<1>10. ASSUME NEW n \in Nodes, AdmitNode(n) \/ SendJoinResponse(n) \/ NodeTableBroadcast(n)
       PROVE  MasterInv(f)'
  BY <1>10, MasterFrame DEF AdmitNode, SendJoinResponse, NodeTableBroadcast, Announcing
<1>11. ASSUME NEW n \in Nodes, TcpStep(n) PROVE MasterInv(f)'
  BY <1>11, MasterFrame DEF TcpStep, AcceptConnection, RecvJoinResponse, RecvNodeTable,
     RecvShutdown, Received
<1> QED
  BY <1>1, <1>2, <1>3, <1>4, <1>5, <1>6, <1>7, <1>8, <1>9, <1>10, <1>11
     DEF Next, InitStep, UdpStep

\* If one node is started first, stays, and its replies arrive within the five
\* seconds of the others' dsm_udp_wait_discovery, it is the only master, whoever
\* else starts, leaves and starts again.
THEOREM MembershipOneMaster ==
  ASSUME NEW f \in Nodes, Prompt, Early \subseteq {f}, f \notin MayExit
  PROVE  Spec => []OneMaster
<1>1. Init => MasterInv(f)
  BY MasterInit
<1>2. MasterInv(f) /\ [Next]_vars => MasterInv(f)'
  BY MasterStep
<1>3. MasterInv(f) => OneMaster
  BY DEF MasterInv, OneMaster
<1> QED
  BY <1>1, <1>2, <1>3, PTL DEF Spec
=============================================================================
